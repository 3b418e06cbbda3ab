-------------------------------- MODULE ApplyDag --------------------------------
(***************************************************************************)
(* `flaker plan' and `flaker apply': the state diff and the planner        *)
(* (commands/apply/state.ts, planner.ts), the PlanArtifact saved between   *)
(* the two (artifact.ts), and the execution of a plan in waves of          *)
(* concurrent actions (dag.ts) as applyAction drives it                    *)
(* (categories/apply.ts).                                                  *)
(*                                                                         *)
(* One command runs at a time.  What a command reads before it executes    *)
(* (flaker.toml, the environment, the KPI, the probe) is one step: no       *)
(* other flaker process can write meanwhile.  Once actions run, they run   *)
(* interleaved, and each may fail.                                         *)
(*                                                                         *)
(* Abstractions.  A KPI with no action of its own (matched commits, false  *)
(* negative rate, pass correlation, holdout FNR) is only met or not; `kpi' *)
(* is the set of those not met.  collect_ci is CollectCi seen from its     *)
(* caller: it ends, ok or not, and moves the KPI on its way.               *)
(***************************************************************************)
EXTENDS Naturals

CONSTANTS
  Confidences,     \* the data confidences that occur: insufficient 0 .. high 3
  ConfidenceMin,   \* [promotion].data_confidence_min
  KpiKinds,        \* drift kinds of the KPIs with no action of their own
  Invocations      \* the combinations of options apply is called with

ASSUME ApplyAssumption ==
  /\ Confidences \subseteq 0 .. 3 /\ Confidences # {}
  /\ ConfidenceMin \in 0 .. 3
  /\ KpiKinds \subseteq {"matched_commits", "false_negative_rate", "pass_correlation", "holdout_fnr"}

Kinds   == {"collect_ci", "calibrate", "cold_start_run", "quarantine_apply"}
Options == {"json", "output", "refresh-only", "plan-file", "force"}

ASSUME InvocationAssumption == Invocations \subseteq SUBSET Options

VARIABLES
  token,          \* GITHUB_TOKEN is in the environment
  auto,           \* [quarantine].auto in flaker.toml
  localHistory,   \* store: some workflow_runs row has source 'local'
  confidence,     \* KPI: data.confidence
  stale,          \* KPI: data.staleDays is null, zero or more
  kpi,            \* KPI: the KpiKinds that miss their threshold
  planFile,       \* the saved PlanArtifact
  pc,             \* the process: none, executing a plan, or about to exit
  opts,           \* the process: options of the apply
  seen,           \* the process: drift kinds it found
  plan,           \* the process: the actions it executes
  pending,        \* executeDag: actions not taken into a wave yet
  wave,           \* executeDag: what became of the actions of this wave
  statusByKind,   \* executeDag: actions of finished waves
  exitCode,       \* the process: its exit code
  written         \* the process: the artifact it wrote to --output

world   == <<token, auto, localHistory, confidence, stale, kpi>>
dag     == <<pending, wave, statusByKind>>
outcome == <<exitCode, written>>
vars    == <<world, planFile, pc, opts, seen, plan, dag, outcome>>

DriftKinds == {"data_confidence", "local_history_missing", "history_stale"} \cup KpiKinds
Artifacts  == [drifts : SUBSET DriftKinds, actions : SUBSET Kinds]
NoFile     == [drifts |-> {}, actions |-> {}, absent |-> TRUE]
Statuses   == {"none", "running", "ok", "failed", "skipped"}
Nothing    == [k \in Kinds |-> "none"]

WorldOK ==
  /\ token \in BOOLEAN /\ auto \in BOOLEAN /\ localHistory \in BOOLEAN
  /\ confidence \in Confidences
  /\ stale \in {"never", "fresh", "stale"}
  /\ kpi \in SUBSET KpiKinds

DagOK ==
  /\ pending \in SUBSET Kinds
  /\ wave \in [Kinds -> Statuses]
  /\ statusByKind \in [Kinds -> Statuses \ {"running"}]

\* Type invariant: the repository's facts, the DAG's records and what one plan or apply
\* command carries between its steps stay in their ranges; no kind is left running in the result.
TypeOK ==
  /\ WorldOK /\ DagOK
  /\ planFile \in Artifacts \cup {NoFile}
  /\ pc \in {"idle", "waves", "done"}
  /\ opts \in SUBSET Options
  /\ seen \in SUBSET DriftKinds
  /\ plan \in SUBSET Kinds
  /\ exitCode \in 0 .. 2
  /\ written \in {"nothing", "PlanArtifact", "ApplyArtifact"}

Init ==
  /\ token \in BOOLEAN /\ auto \in BOOLEAN /\ localHistory = FALSE
  /\ confidence \in Confidences /\ stale = "never" /\ kpi = KpiKinds
  /\ planFile = NoFile
  /\ pc = "idle"
  /\ opts = {}
  /\ seen = {} /\ plan = {}
  /\ pending = {} /\ wave = Nothing /\ statusByKind = Nothing
  /\ exitCode = 0 /\ written = "nothing"

-----------------------------------------------------------------------------
(* The state diff and the planner.                                         *)

\* quarantine_pending never occurs: the planner always counts 0 pending tests.
Drifts ==
  {k \in DriftKinds :
     \/ k \in kpi
     \/ k = "data_confidence" /\ confidence < ConfidenceMin
     \/ k = "local_history_missing" /\ ~localHistory
     \/ k = "history_stale" /\ token /\ stale = "stale"}

HasUsefulHistory == confidence >= 2

PlannedActions ==
  {k \in Kinds :
     \/ k = "collect_ci" /\ token
     \/ k = "calibrate" /\ HasUsefulHistory
     \/ k = "cold_start_run" /\ ~localHistory
     \/ k = "quarantine_apply" /\ auto /\ HasUsefulHistory}

PlanArtifact == [drifts |-> Drifts, actions |-> PlannedActions]

NewDriftKinds == Drifts \ planFile.drifts

-----------------------------------------------------------------------------
(* The commands, up to the execution of a plan.                            *)

RunPlan ==
  /\ pc = "idle"
  /\ planFile' = PlanArtifact
  /\ UNCHANGED <<world, pc, opts, seen, plan, dag, outcome>>

\* An apply that ends without executing anything.
Leave(o, code, artifact) ==
  /\ pc' = "done"
  /\ opts' = o /\ exitCode' = code /\ written' = artifact
  /\ UNCHANGED <<world, seen, plan, dag>>

Refuse(o) ==
  /\ pc = "idle" /\ "plan-file" \in o
  /\ \/ "refresh-only" \in o
     \/ planFile = NoFile
     \/ "force" \notin o /\ NewDriftKinds # {}
  /\ Leave(o, 2, "nothing")
  /\ UNCHANGED planFile

RefreshOnly(o) ==
  /\ pc = "idle" /\ "refresh-only" \in o /\ "plan-file" \notin o
  /\ planFile' = IF "output" \in o THEN PlanArtifact ELSE planFile
  /\ Leave(o, 0, IF "output" \in o THEN "PlanArtifact" ELSE "nothing")

NothingToApply(o) ==
  /\ pc = "idle" /\ o \cap {"refresh-only", "plan-file"} = {}
  /\ PlannedActions = {}
  /\ Leave(o, 0, "nothing")
  /\ UNCHANGED planFile

Execute(o, actions) ==
  /\ pc' = "waves"
  /\ opts' = o /\ seen' = Drifts /\ plan' = actions /\ pending' = actions
  /\ UNCHANGED <<world, planFile, wave, statusByKind, outcome>>

ApplyPlanFile(o) ==
  /\ pc = "idle" /\ "refresh-only" \notin o /\ "plan-file" \in o /\ planFile # NoFile
  /\ "force" \in o \/ NewDriftKinds = {}
  /\ Execute(o, planFile.actions)

Apply(o) ==
  /\ pc = "idle" /\ o \cap {"refresh-only", "plan-file"} = {}
  /\ PlannedActions # {}
  /\ Execute(o, PlannedActions)

-----------------------------------------------------------------------------
(* executeDag.                                                             *)

Dependencies ==
  [k \in Kinds |-> CASE k = "calibrate" -> {"collect_ci"}
                     [] k = "quarantine_apply" -> {"calibrate"}
                     [] OTHER -> {}]

ActionDeps(k) == Dependencies[k] \cap plan

Ready == {k \in pending : \A d \in ActionDeps(k) : statusByKind[d] # "none"}

\* Mutated: only a failed dependency stops an action.
FailedDirectly(k) == \E d \in ActionDeps(k) : statusByKind[d] = "failed"
FailedUpstream(k) == \E d \in ActionDeps(k) : statusByKind[d] # "ok"

StartWave ==
  /\ pc = "waves" /\ wave = Nothing
  /\ Ready # {}
  /\ pending' = pending \ Ready
  /\ wave' = [k \in Kinds |-> IF k \notin Ready THEN "none"
                              ELSE IF FailedUpstream(k) THEN "skipped" ELSE "running"]
  /\ UNCHANGED <<world, planFile, pc, opts, seen, plan, statusByKind, outcome>>

\* The iteration gate records its local run, and may still fail after that.
RecordLocalRun ==
  /\ wave["cold_start_run"] = "running" /\ ~localHistory
  /\ localHistory' = TRUE
  /\ UNCHANGED <<token, auto, confidence, stale, kpi, planFile, pc, opts, seen, plan, dag, outcome>>

\* What an action has done when it resolves.
Done(k) ==
  /\ k = "collect_ci" => token
  /\ k = "cold_start_run" => localHistory

EndAction(k) ==
  /\ wave[k] = "running"
  /\ \E how \in {"ok", "failed"} :
       /\ how = "ok" => Done(k)
       /\ wave' = [wave EXCEPT ![k] = how]
  /\ UNCHANGED <<world, planFile, pc, opts, seen, plan, pending, statusByKind, outcome>>

\* Promise.all resolves (mutated: as soon as one action of the wave ended).
SomeSettled == wave # Nothing /\ \E k \in Kinds : wave[k] \notin {"none", "running"}
AllSettled  == wave # Nothing /\ \A k \in Kinds : wave[k] # "running"

EndWave ==
  /\ AllSettled
  /\ statusByKind' = [k \in Kinds |-> IF wave[k] # "none" THEN wave[k] ELSE statusByKind[k]]
  /\ wave' = Nothing
  /\ UNCHANGED <<world, planFile, pc, opts, seen, plan, pending, outcome>>

\* Only the text output sets the exit code, and only a fresh plan's execution
\* reaches the code that writes --output.
Report ==
  /\ pc = "waves" /\ wave = Nothing /\ pending = {}
  /\ pc' = "done"
  /\ exitCode' = IF "json" \notin opts /\ (\E k \in plan : statusByKind[k] = "failed") THEN 1 ELSE 0
  /\ written' = IF "output" \in opts /\ "plan-file" \notin opts THEN "ApplyArtifact" ELSE "nothing"
  /\ UNCHANGED <<world, planFile, opts, seen, plan, dag>>

\* The process exits, or is killed while actions run.
Exit ==
  /\ pc \in {"done", "waves"}
  /\ pc' = "idle"
  /\ opts' = {} /\ seen' = {} /\ plan' = {}
  /\ pending' = {} /\ wave' = Nothing /\ statusByKind' = Nothing
  /\ exitCode' = 0 /\ written' = "nothing"
  /\ UNCHANGED <<world, planFile>>

-----------------------------------------------------------------------------
\* Between commands the repository changes: the environment, flaker.toml, the
\* local runs (`flaker run' adds them, `flaker prune' removes them), and the
\* KPI.  The KPI moves while actions run, too, but is not read again before the
\* next command.
Reconfigure ==
  /\ pc = "idle"
  /\ \/ token' = ~token /\ UNCHANGED <<auto, localHistory>>
     \/ auto' = ~auto /\ UNCHANGED <<token, localHistory>>
     \/ localHistory' = ~localHistory /\ UNCHANGED <<token, auto>>
  /\ UNCHANGED <<confidence, stale, kpi, planFile, pc, opts, seen, plan, dag, outcome>>

KpiMoves ==
  /\ pc = "idle"
  /\ confidence' \in Confidences /\ stale' \in {"never", "fresh", "stale"}
  /\ kpi' \in SUBSET KpiKinds
  /\ UNCHANGED <<token, auto, localHistory, planFile, pc, opts, seen, plan, dag, outcome>>

Command == RunPlan \/ \E o \in Invocations :
             Refuse(o) \/ RefreshOnly(o) \/ ApplyPlanFile(o) \/ Apply(o) \/ NothingToApply(o)

Dag == StartWave \/ (\E k \in Kinds : EndAction(k)) \/ EndWave \/ Report

Next == Command \/ Dag \/ RecordLocalRun \/ Exit \/ Reconfigure \/ KpiMoves

Spec == Init /\ [][Next]_vars

\* An action ends in the end, one way or the other, and the loop goes on.
FairSpec == Spec /\ WF_vars(Dag)

-----------------------------------------------------------------------------
(* Properties.                                                             *)

Status == [k \in Kinds |-> IF wave[k] # "none" THEN wave[k] ELSE statusByKind[k]]

Schedule == INSTANCE ActionSchedule WITH Needs <- Dependencies, status <- Status

\* Waves of concurrent actions respect the dependencies: an action starts only
\* after every dependency in the plan ended ok, runs at most once, and is skipped
\* only for a dependency that failed or was skipped (dag.ts:35-89).
ImplementsSchedule == Schedule!ScheduleSpec

\* The guard dag.ts:48-57 never strikes: between two waves something is ready,
\* until nothing is pending.
NeverUnresolvable ==
  pc = "waves" /\ wave = Nothing /\ pending # {} => Ready # {}

\* quarantine_apply suggests from and writes to the store alone: it runs only
\* when every other action of the plan has ended, the collection and the
\* calibration it judges by with success, though nothing but the planner makes
\* the dependencies present in the plan add up to that.
QuarantineRunsLast ==
  Status["quarantine_apply"] \notin {"none", "skipped"} =>
    /\ \A k \in plan \ {"quarantine_apply"} : Status[k] \notin {"none", "running"}
    /\ Status["calibrate"] = "ok"
    /\ "collect_ci" \in plan => Status["collect_ci"] = "ok"

\* calibrate reads the history only when a planned collection has ended, and the
\* cold start it was planned with too.
CalibrateReadsQuietStore ==
  Status["calibrate"] = "running" /\ "collect_ci" \in plan =>
    \A k \in {"collect_ci", "cold_start_run"} : Status[k] # "running"

\* Drift that an action can mend is mended by a plan in execution, also by a
\* saved one that is not forced: missing local history by a cold start, stale
\* history by a collection (categories/apply.ts:95-100, 189-200).
DriftIsActedOn ==
  pc = "waves" /\ "force" \notin opts =>
    /\ "local_history_missing" \in seen => "cold_start_run" \in plan
    /\ "history_stale" \in seen => "collect_ci" \in plan

\* Every planned action is accounted for when the command ends, and the command
\* ends (unless it is killed).
EveryActionEnds ==
  \A k \in Kinds :
    (pc = "waves" /\ k \in plan) ~>
      \/ pc = "done" /\ statusByKind[k] \in {"ok", "failed", "skipped"}
      \/ pc = "idle"

=============================================================================
