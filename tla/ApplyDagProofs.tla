----------------------------- MODULE ApplyDagProofs -----------------------------
(***************************************************************************)
(* Proofs about ApplyDag, for every set of confidences, KPIs and options.  *)
(*                                                                         *)
(* DagInv is what executeDag keeps between any two of its steps: which     *)
(* actions are pending, in the wave or done, that nothing started before   *)
(* its dependencies ended ok, and that the actions without dependencies    *)
(* (Roots) are all in the first wave.  PlanInv is what the planner puts    *)
(* into a plan and a plan file.  Together they are inductive.              *)
(***************************************************************************)
EXTENDS ApplyDag, TLAPS

Roots == {"collect_ci", "cold_start_run"}

Pairs(actions) == "quarantine_apply" \in actions => "calibrate" \in actions

Mends(actions, drifts) ==
  /\ "local_history_missing" \in drifts => "cold_start_run" \in actions
  /\ "history_stale" \in drifts => "collect_ci" \in actions

PlanInv ==
  /\ Pairs(planFile.actions) /\ Mends(planFile.actions, planFile.drifts)
  /\ Pairs(plan)
  /\ pc = "waves" /\ "force" \notin opts => Mends(plan, seen)

Bookkeeping ==
  /\ pending \subseteq plan
  /\ \A k \in Kinds :
       /\ k \in pending <=> k \in plan /\ wave[k] = "none" /\ statusByKind[k] = "none"
       /\ k \notin plan => wave[k] = "none" /\ statusByKind[k] = "none"
       /\ wave[k] # "none" => statusByKind[k] = "none"
  /\ pc # "waves" => wave = Nothing /\ pending = {}
  /\ pc = "idle" => plan = {} /\ statusByKind = Nothing

Ordered ==
  \A k \in Kinds : \A d \in ActionDeps(k) :
    /\ Status[k] # "none" => statusByKind[d] # "none"
    /\ Status[k] \in {"running", "ok", "failed"} => statusByKind[d] = "ok"

RootsFirst ==
  \A k \in plan \cap Roots :
    /\ statusByKind # Nothing => statusByKind[k] # "none"
    /\ wave # Nothing => k \notin pending

DagInv == Bookkeeping /\ Ordered /\ RootsFirst

Inv == TypeOK /\ PlanInv /\ DagInv

-----------------------------------------------------------------------------
LEMMA InitInv == Init => Inv
<1> SUFFICES ASSUME Init PROVE Inv
  OBVIOUS
<1> USE DEF Init, Nothing
<1>1. TypeOK
  <2>1. WorldOK
    BY DEF WorldOK
  <2>2. DagOK
    BY DEF DagOK, Statuses
  <2>3. opts \in SUBSET Options /\ seen \in SUBSET DriftKinds /\ plan \in SUBSET Kinds
    OBVIOUS
  <2> QED BY <2>1, <2>2, <2>3 DEF TypeOK
<1>2. PlanInv
  BY DEF PlanInv, Pairs, Mends, NoFile
<1>3. Status = Nothing
  BY DEF Status
<1>4. DagInv
  BY <1>3 DEF DagInv, Bookkeeping, Ordered, RootsFirst, ActionDeps
<1> QED BY <1>1, <1>2, <1>4 DEF Inv

LEMMA PlannerType ==
  ASSUME TypeOK
  PROVE  /\ PlanArtifact \in Artifacts
         /\ Pairs(PlannedActions) /\ Mends(PlannedActions, Drifts)
         /\ PlannedActions \subseteq Kinds /\ Drifts \subseteq DriftKinds
<1>1. PlannedActions \subseteq Kinds /\ Drifts \subseteq DriftKinds
  BY DEF PlannedActions, Drifts
<1>2. Pairs(PlannedActions)
  BY DEF PlannedActions, Pairs, Kinds
<1>3. "local_history_missing" \in Drifts => "cold_start_run" \in PlannedActions
  <2>1. "local_history_missing" \notin kpi
    BY ApplyAssumption DEF TypeOK, WorldOK
  <2> QED BY <2>1 DEF PlannedActions, Drifts, Kinds, DriftKinds
<1>4. "history_stale" \in Drifts => "collect_ci" \in PlannedActions
  <2>1. "history_stale" \notin kpi
    BY ApplyAssumption DEF TypeOK, WorldOK
  <2> QED BY <2>1 DEF PlannedActions, Drifts, Kinds, DriftKinds
<1> QED BY <1>1, <1>2, <1>3, <1>4 DEF PlanArtifact, Artifacts, Mends

\* Type correctness is kept by every step.
LEMMA TypeStep == TypeOK /\ [Next]_vars => TypeOK'
<1> SUFFICES ASSUME TypeOK, [Next]_vars PROVE TypeOK'
  OBVIOUS
<1> USE DEF TypeOK, WorldOK, DagOK, Statuses
<1>1. CASE RunPlan
  BY <1>1, PlannerType DEF RunPlan, world, dag, outcome
<1>2. ASSUME NEW o \in Invocations, Refuse(o) \/ RefreshOnly(o) \/ NothingToApply(o) PROVE TypeOK'
  BY <1>2, PlannerType, InvocationAssumption
     DEF Refuse, RefreshOnly, NothingToApply, Leave, world, dag, outcome
<1>3. ASSUME NEW o \in Invocations, ApplyPlanFile(o) PROVE TypeOK'
  <2>1. planFile.actions \subseteq Kinds
    BY <1>3 DEF ApplyPlanFile, Artifacts
  <2> QED BY <1>3, <2>1, PlannerType, InvocationAssumption
          DEF ApplyPlanFile, Execute, world, dag, outcome
<1>4. ASSUME NEW o \in Invocations, Apply(o) PROVE TypeOK'
  BY <1>4, PlannerType, InvocationAssumption DEF Apply, Execute, world, dag, outcome
<1>5. CASE StartWave
  BY <1>5 DEF StartWave, world, outcome
<1>6. ASSUME NEW k \in Kinds, EndAction(k) PROVE TypeOK'
  BY <1>6 DEF EndAction, world, outcome
<1>7. CASE EndWave
  BY <1>7 DEF EndWave, AllSettled, Nothing, world, outcome
<1>8. CASE Report
  BY <1>8 DEF Report, world, dag
<1>9. CASE RecordLocalRun
  BY <1>9 DEF RecordLocalRun, dag, outcome
<1>10. CASE Exit
  BY <1>10 DEF Exit, Nothing, world
<1>11. CASE Reconfigure \/ KpiMoves
  BY <1>11 DEF Reconfigure, KpiMoves, dag, outcome
<1>12. CASE UNCHANGED vars
  BY <1>12 DEF vars, world, dag, outcome
<1> QED BY <1>1, <1>2, <1>3, <1>4, <1>5, <1>6, <1>7, <1>8, <1>9, <1>10, <1>11, <1>12
        DEF Next, Command, Dag

\* The variables are always of their types.
THEOREM TypeCorrect == Spec => []TypeOK
<1>1. Init => TypeOK
  BY InitInv DEF Inv
<1> QED BY <1>1, TypeStep, PTL DEF Spec
-----------------------------------------------------------------------------
(* The plan and the plan file.                                             *)

LEMMA PlanStep == TypeOK /\ PlanInv /\ [Next]_vars => PlanInv'
<1> SUFFICES ASSUME TypeOK, PlanInv, [Next]_vars PROVE PlanInv'
  OBVIOUS
<1> USE DEF PlanInv
<1>1. Pairs(PlannedActions) /\ Mends(PlannedActions, Drifts)
  BY PlannerType
<1>2. CASE RunPlan
  BY <1>1, <1>2 DEF RunPlan, PlanArtifact
<1>3. ASSUME NEW o \in Invocations, Refuse(o) \/ RefreshOnly(o) \/ NothingToApply(o)
      PROVE  PlanInv'
  BY <1>1, <1>3 DEF Refuse, RefreshOnly, NothingToApply, Leave, PlanArtifact
<1>4. ASSUME NEW o \in Invocations, ApplyPlanFile(o) PROVE PlanInv'
  <2>1. "force" \notin o => Drifts \subseteq planFile.drifts
    BY <1>4 DEF ApplyPlanFile, NewDriftKinds
  <2> QED BY <1>4, <2>1 DEF ApplyPlanFile, Execute, Mends
<1>5. ASSUME NEW o \in Invocations, Apply(o) PROVE PlanInv'
  BY <1>1, <1>5 DEF Apply, Execute
<1>6. CASE StartWave \/ EndWave \/ Report \/ \E k \in Kinds : EndAction(k)
  BY <1>6 DEF StartWave, EndWave, Report, EndAction
<1>7. CASE RecordLocalRun \/ Reconfigure \/ KpiMoves
  BY <1>7 DEF RecordLocalRun, Reconfigure, KpiMoves
<1>8. CASE Exit
  BY <1>8 DEF Exit, Pairs
<1>9. CASE UNCHANGED vars
  BY <1>9 DEF vars
<1> QED BY <1>2, <1>3, <1>4, <1>5, <1>6, <1>7, <1>8, <1>9 DEF Next, Command, Dag

(* executeDag.                                                             *)

Executing(a) == pc' = "waves" /\ pc = "idle" /\ plan' = a /\ pending' = a
                  /\ UNCHANGED <<wave, statusByKind>>

\* The steps that leave executeDag and its plan alone.
Aside == UNCHANGED <<plan, pending, wave, statusByKind>> /\ (pc' # "idle" \/ UNCHANGED pc)

LEMMA StepKinds ==
  ASSUME [Next]_vars, TypeOK
  PROVE  \/ \E a \in SUBSET Kinds : Executing(a)
         \/ Aside /\ (pc' = pc \/ pc = "idle")
         \/ StartWave \/ EndWave \/ Report \/ Exit \/ \E k \in Kinds : EndAction(k)
<1>1. CASE RunPlan \/ RecordLocalRun \/ Reconfigure \/ KpiMoves \/ UNCHANGED vars
  BY <1>1 DEF RunPlan, RecordLocalRun, Reconfigure, KpiMoves, vars, dag, Aside
<1>2. ASSUME NEW o \in Invocations, Refuse(o) \/ RefreshOnly(o) \/ NothingToApply(o)
      PROVE  Aside /\ pc = "idle"
  BY <1>2 DEF Refuse, RefreshOnly, NothingToApply, Leave, dag, Aside
<1>3. ASSUME NEW o \in Invocations, ApplyPlanFile(o) PROVE Executing(planFile.actions)
  BY <1>3 DEF ApplyPlanFile, Execute, Executing
<1>4. planFile.actions \in SUBSET Kinds
  BY DEF TypeOK, Artifacts, NoFile
<1>5. ASSUME NEW o \in Invocations, Apply(o) PROVE Executing(PlannedActions)
  BY <1>5 DEF Apply, Execute, Executing
<1>6. PlannedActions \in SUBSET Kinds
  BY DEF PlannedActions
<1> QED BY <1>1, <1>2, <1>3, <1>4, <1>5, <1>6 DEF Next, Command, Dag

LEMMA DagStep == TypeOK /\ DagInv /\ [Next]_vars => DagInv'
<1> SUFFICES ASSUME TypeOK, DagInv, [Next]_vars PROVE DagInv'
  OBVIOUS
<1> USE DEF TypeOK, DagOK, DagInv, Bookkeeping, Ordered, RootsFirst, ActionDeps, Status, Nothing
<1>1. ASSUME NEW a \in SUBSET Kinds, Executing(a) PROVE DagInv'
  BY <1>1 DEF Executing
<1>2. CASE Aside /\ (pc' = pc \/ pc = "idle")
  BY <1>2 DEF Aside
<1>3. CASE StartWave
  <2>1. Bookkeeping'
    BY <1>3 DEF StartWave, Ready
  <2>2. Ordered'
    BY <1>3 DEF StartWave, Ready, FailedUpstream
  <2>3. RootsFirst'
    <3>1. \A k \in Roots : ActionDeps(k) = {}
      BY DEF Roots, Dependencies, Kinds
    <3>2. Roots \cap pending \subseteq Ready
      BY <3>1 DEF Ready
    <3> QED BY <1>3, <3>2 DEF StartWave
  <2> QED BY <2>1, <2>2, <2>3
<1>4. ASSUME NEW k \in Kinds, EndAction(k) PROVE DagInv'
  <2>1. Bookkeeping'
    BY <1>4 DEF EndAction
  <2>2. Ordered'
    BY <1>4 DEF EndAction
  <2>3. RootsFirst'
    BY <1>4 DEF EndAction
  <2> QED BY <2>1, <2>2, <2>3
<1>5. CASE EndWave
  <2>1. Bookkeeping'
    BY <1>5 DEF EndWave, AllSettled
  <2>2. Ordered'
    BY <1>5 DEF EndWave, AllSettled
  <2>3. RootsFirst'
    BY <1>5 DEF EndWave, AllSettled
  <2> QED BY <2>1, <2>2, <2>3
<1>6. CASE Report
  BY <1>6 DEF Report, dag
<1>7. CASE Exit
  BY <1>7 DEF Exit
<1> QED BY <1>1, <1>2, <1>3, <1>4, <1>5, <1>6, <1>7, StepKinds

LEMMA InvStep == Inv /\ [Next]_vars => Inv'
  BY TypeStep, PlanStep, DagStep DEF Inv

LEMMA InvCorrect == Spec => []Inv
  BY InitInv, InvStep, PTL DEF Spec

\* Drift that an action can mend is mended by the plan in execution.
THEOREM DriftActedOn == Spec => []DriftIsActedOn
<1>1. Inv => DriftIsActedOn
  BY DEF Inv, PlanInv, Mends, DriftIsActedOn
<1> QED BY <1>1, InvCorrect, PTL

\* calibrate runs beside neither a planned collection nor a cold start.
THEOREM CalibrateQuiet == Spec => []CalibrateReadsQuietStore
<1>1. Inv => CalibrateReadsQuietStore
  <2> DEFINE C == "calibrate"
             I == "collect_ci"
             S == "cold_start_run"
  <2> SUFFICES ASSUME Inv, Status[C] = "running", I \in plan
               PROVE  Status[I] # "running" /\ Status[S] # "running"
    BY DEF CalibrateReadsQuietStore
  <2> USE DEF Inv, DagInv
  <2>1. statusByKind[I] = "ok" /\ wave[I] = "none"
    BY DEF Ordered, ActionDeps, Dependencies, Kinds, Bookkeeping
  <2>2. Status[I] = "ok"
    BY <2>1 DEF Status, Kinds
  <2>3. CASE S \in plan
    <3>1. statusByKind[S] # "none" /\ wave[S] = "none"
      BY <2>1, <2>3 DEF RootsFirst, Roots, Kinds, Nothing, Bookkeeping
    <3> QED BY <2>2, <3>1 DEF Status, Kinds, TypeOK, DagOK, Statuses
  <2>4. CASE S \notin plan
    BY <2>2, <2>4 DEF Status, Kinds, Bookkeeping
  <2> QED BY <2>3, <2>4
<1> QED BY <1>1, InvCorrect, PTL

\* quarantine_apply runs when all else in the plan has ended.
THEOREM QuarantineLast == Spec => []QuarantineRunsLast
<1>1. Inv => QuarantineRunsLast
  <2> SUFFICES ASSUME Inv, Status["quarantine_apply"] \notin {"none", "skipped"}
               PROVE  /\ \A k \in plan \ {"quarantine_apply"} : Status[k] \notin {"none", "running"}
                      /\ Status["calibrate"] = "ok"
                      /\ "collect_ci" \in plan => Status["collect_ci"] = "ok"
    BY DEF QuarantineRunsLast
  <2> DEFINE Q == "quarantine_apply"
             C == "calibrate"
             I == "collect_ci"
             S == "cold_start_run"
  <2> USE DEF Inv, DagInv
  <2>1. Status[Q] \in {"running", "ok", "failed"} /\ Q \in plan /\ C \in plan
    BY DEF TypeOK, DagOK, Statuses, Status, Kinds, Bookkeeping, PlanInv, Pairs
  <2>2. statusByKind[C] = "ok" /\ wave[C] = "none"
    BY <2>1 DEF Ordered, ActionDeps, Dependencies, Kinds, Bookkeeping
  <2>3. Status[C] = "ok"
    BY <2>2 DEF Status, Kinds
  <2>4. I \in plan => statusByKind[I] = "ok" /\ wave[I] = "none"
    BY <2>3 DEF Ordered, ActionDeps, Dependencies, Kinds, Bookkeeping
  <2>5. S \in plan => statusByKind[S] # "none" /\ wave[S] = "none"
    BY <2>2 DEF RootsFirst, Roots, Kinds, Nothing, Bookkeeping
  <2>6. ASSUME NEW k \in plan \ {Q} PROVE Status[k] \notin {"none", "running"}
    <3>1. CASE k = C
      BY <2>3, <3>1
    <3>2. CASE k = I
      BY <2>4, <3>2 DEF Status, Kinds
    <3>3. CASE k = S
      BY <2>5, <3>3 DEF Status, Kinds, TypeOK, DagOK, Statuses
    <3> QED BY <3>1, <3>2, <3>3 DEF TypeOK, Kinds
  <2> QED BY <2>3, <2>4, <2>6 DEF Status, Kinds
<1> QED BY <1>1, InvCorrect, PTL

\* Between waves something is ready as long as something is pending, so the
\* guard of executeDag never strikes.
THEOREM AlwaysResolvable == Spec => []NeverUnresolvable
<1>1. Inv => NeverUnresolvable
  <2> SUFFICES ASSUME Inv, wave = Nothing, pending # {} PROVE Ready # {}
    BY DEF NeverUnresolvable
  <2> USE DEF Inv, DagInv, Bookkeeping, Nothing
  <2>1. ASSUME NEW k \in pending, NEW d \in ActionDeps(k), statusByKind[d] = "none"
        PROVE  d \in pending
    BY <2>1 DEF ActionDeps, TypeOK, Kinds
  <2>2. CASE Roots \cap pending # {}
    BY <2>2 DEF Ready, ActionDeps, Dependencies, Roots, Kinds
  <2>3. CASE Roots \cap pending = {} /\ "calibrate" \in pending
    BY <2>1, <2>3 DEF Ready, ActionDeps, Dependencies, Roots, Kinds
  <2>4. CASE Roots \cap pending = {} /\ "calibrate" \notin pending
    <3>1. pending = {"quarantine_apply"}
      BY <2>4 DEF TypeOK, DagOK, Kinds, Roots
    <3> QED BY <2>1, <3>1 DEF Ready, ActionDeps, Dependencies, Kinds
  <2> QED BY <2>2, <2>3, <2>4
<1> QED BY <1>1, InvCorrect, PTL

(* The refinement: a wave starts its actions together, an action of a wave  *)
(* ends as an action of the schedule, and the end of the wave is unseen.    *)
LEMMA ScheduleStep == Inv /\ [Next]_vars => [Schedule!ScheduleNext]_(Schedule!scheduleVars)
<1> SUFFICES ASSUME Inv, [Next]_vars PROVE Schedule!ScheduleNext \/ UNCHANGED <<plan, Status>>
  BY DEF Schedule!scheduleVars
<1> USE DEF Inv, DagInv
<1>1. ASSUME NEW a \in SUBSET Kinds, Executing(a) PROVE Schedule!Adopt
  BY <1>1 DEF Executing, Bookkeeping, Nothing, Status, Schedule!Adopt, Schedule!Waiting
<1>2. CASE Aside
  BY <1>2 DEF Aside, Status
<1>3. CASE StartWave
  <2>1. UNCHANGED plan /\ Status' \in [Kinds -> {"none", "running", "ok", "failed", "skipped"}]
    BY <1>3 DEF StartWave, Status, TypeOK, DagOK, Statuses
  <2>2. ASSUME NEW k \in Kinds
        PROVE  \/ Status'[k] = Status[k]
               \/ /\ k \in plan /\ Status[k] = "none"
                  /\ \/ Status'[k] = "running" /\ Schedule!MayStart(k)
                     \/ Status'[k] = "skipped" /\ Schedule!MustSkip(k)
    <3>1. CASE k \notin Ready
      BY <1>3, <3>1 DEF StartWave, Status, Nothing
    <3>2. CASE k \in Ready
      <4>1. k \in plan /\ Status[k] = "none" /\ wave = Nothing
        BY <1>3, <3>2 DEF StartWave, Ready, Status, Bookkeeping, Nothing
      <4>2. \A d \in ActionDeps(k) : d \in Kinds /\ Status[d] = statusByKind[d] /\ statusByKind[d] # "none"
        BY <3>2, <4>1 DEF Ready, ActionDeps, Status, Nothing, TypeOK
      <4>3. CASE FailedUpstream(k)
        <5>1. Status'[k] = "skipped"
          BY <1>3, <3>2, <4>3 DEF StartWave, Status
        <5>2. Schedule!MustSkip(k)
          BY <4>2, <4>3 DEF FailedUpstream, Schedule!MustSkip, ActionDeps, TypeOK, DagOK, Statuses
        <5> QED BY <4>1, <5>1, <5>2
      <4>4. CASE ~FailedUpstream(k)
        <5>1. Status'[k] = "running"
          BY <1>3, <3>2, <4>4 DEF StartWave, Status
        <5>2. Schedule!MayStart(k)
          BY <4>2, <4>4 DEF FailedUpstream, Schedule!MayStart, ActionDeps
        <5> QED BY <4>1, <5>1, <5>2
      <4> QED BY <4>3, <4>4
    <3> QED BY <3>1, <3>2
  <2>3. Schedule!Begin
    BY <2>1, <2>2 DEF Schedule!Begin
  <2> QED BY <2>3 DEF Schedule!ScheduleNext
<1>4. ASSUME NEW k \in Kinds, EndAction(k) PROVE Schedule!End(k)
  BY <1>4 DEF EndAction, Schedule!End, Status, TypeOK, DagOK, Statuses
<1>5. CASE EndWave
  <2>1. \A k \in Kinds : wave[k] # "none" => statusByKind'[k] = wave[k]
    BY <1>5 DEF EndWave
  <2> QED BY <1>5, <2>1 DEF EndWave, Status, Nothing
<1>6. CASE Report
  BY <1>6 DEF Report, dag, Status
<1>7. CASE Exit
  BY <1>7 DEF Exit, Status, Nothing, Schedule!ScheduleNext, Schedule!Adopt, Schedule!Waiting
<1> QED BY <1>1, <1>2, <1>3, <1>4, <1>5, <1>6, <1>7, StepKinds DEF Schedule!ScheduleNext

\* Executing in waves implements the schedule of dependencies.
THEOREM DagImplementsSchedule == Spec => ImplementsSchedule
<1>1. Init => Schedule!ScheduleInit
  BY DEF Init, Schedule!ScheduleInit, Schedule!Waiting, Status, Nothing
<1> QED BY <1>1, InvCorrect, ScheduleStep, PTL DEF Spec, ImplementsSchedule, Schedule!ScheduleSpec
=============================================================================
