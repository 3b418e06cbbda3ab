----------------------------- MODULE ActionSchedule -----------------------------
(***************************************************************************)
(* What executing a plan promises, without the waves that do it: a planned *)
(* action starts only after everything it needs in the plan has ended ok,  *)
(* runs at most once, and is skipped only because something it needs in    *)
(* the plan failed or was skipped itself.  Actions may start together.     *)
(***************************************************************************)
CONSTANTS
  Kinds,    \* kinds of actions
  Needs     \* the kinds each kind depends on

VARIABLES
  plan,     \* the kinds in the plan
  status    \* "none" before an action starts

scheduleVars == <<plan, status>>

Waiting == [k \in Kinds |-> "none"]

ScheduleInit == plan = {} /\ status = Waiting

\* A new plan, whatever became of the last one.
Adopt == plan' \in SUBSET Kinds /\ status' = Waiting

MayStart(k) == \A d \in Needs[k] \cap plan : status[d] = "ok"
MustSkip(k) == \E d \in Needs[k] \cap plan : status[d] \in {"failed", "skipped"}

Begin ==
  /\ \A k \in Kinds :
       \/ status'[k] = status[k]
       \/ /\ k \in plan /\ status[k] = "none"
          /\ \/ status'[k] = "running" /\ MayStart(k)
             \/ status'[k] = "skipped" /\ MustSkip(k)
  /\ status' \in [Kinds -> {"none", "running", "ok", "failed", "skipped"}]
  /\ UNCHANGED plan

End(k) ==
  /\ status[k] = "running"
  /\ \E how \in {"ok", "failed"} : status' = [status EXCEPT ![k] = how]
  /\ UNCHANGED plan

ScheduleNext == Adopt \/ Begin \/ \E k \in Kinds : End(k)

ScheduleSpec == ScheduleInit /\ [][ScheduleNext]_scheduleVars
=============================================================================
