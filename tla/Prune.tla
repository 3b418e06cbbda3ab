--------------------------------- MODULE Prune ---------------------------------
(***************************************************************************)
(* `flaker prune' (commands/prune/prune.ts): deleting history older than a *)
(* retention from the metric store in two transactions, because DuckDB     *)
(* refuses to delete a referenced row in the transaction that deleted the  *)
(* rows referring to it.                                                   *)
(*                                                                         *)
(* Prune holds the database alone: writers run only between prunes.  It    *)
(* may fail or be killed at any statement; what an open transaction did is *)
(* then undone, so a transaction is one step, or none.                     *)
(*                                                                         *)
(* Abstractions.  Time is counted in days.  A parent row has its child     *)
(* rows (results and collected artifacts of a run, tests of a sampling     *)
(* run, verdicts of a selector run, failures of a trial) or has none.      *)
(* test_results carry the commit of their run, so the clause of            *)
(* prune_commits that reads them adds nothing to the one that reads runs.  *)
(***************************************************************************)
EXTENDS Integers, FiniteSets

CONSTANTS
  RowIds,            \* ids of parent rows, per table
  Commits,        \* commits
  CommitOf,       \* the commit a workflow run has as commit_sha, or a selector
                  \* run as head_sha
  Selectors,      \* selectors, each with its gate calibrations
  LastDay,        \* bound: the last day
  LongestWindow,  \* LONGEST_DEFAULT_WINDOW_DAYS
  CoFailureDays,  \* [sampling].co_failure_window_days
  FlakyDays,      \* [flaky].window_days
  Retentions,     \* the values users give to --older-than
  MaxCalibrations, \* bound: gate calibrations of a selector at a time
  MaxInterrupts   \* bound: prunes that fail or are killed

ParentTables       == {"workflow_runs", "sampling_runs", "selector_runs", "mutation_trials"}
FKParents    == {"workflow_runs", "sampling_runs"}
NamesCommits == {"workflow_runs", "selector_runs"}
Days         == 0 .. LastDay

ASSUME PruneAssumption ==
  /\ LastDay \in Nat /\ LongestWindow \in Nat /\ CoFailureDays \in Nat /\ FlakyDays \in Nat
  /\ MaxCalibrations \in Nat /\ MaxInterrupts \in Nat
  /\ Retentions \subseteq Nat
  /\ CommitOf \in [NamesCommits -> [RowIds -> Commits]]

VARIABLES
  today,
  rows,          \* store: the ids in each parent table
  born,          \* store: created_at of the rows
  whole,         \* store: the ids with child rows, per parent table
  changes,       \* store: the commits with commit_changes rows
  calibrations,  \* store: the days each selector's gate was calibrated
  pc,            \* the process
  dryRun,        \* the process: --dry-run
  cutoff,        \* the process: rows born before this day are pruned
  targets,       \* the process: the TEMP tables, and the calibrations to go
  interrupts

history == <<rows, born, whole, changes, calibrations>>
prune   == <<pc, dryRun, cutoff, targets>>
pruneVars    == <<today, history, prune, interrupts>>

NoTargets == [ids |-> [t \in ParentTables |-> {}], commits |-> {},
              calibrations |-> [s \in Selectors |-> {}]]

\* Type invariant: the tables, the days of their rows and the targets a pass selected stay
\* in their ranges, and a pass never selects with a cutoff in the future.
PruneTypeOK ==
  /\ today \in Days
  /\ rows \in [ParentTables -> SUBSET RowIds]
  /\ born \in [ParentTables -> [RowIds -> Days]]
  /\ whole \in [ParentTables -> SUBSET RowIds]
  /\ changes \in SUBSET Commits
  /\ calibrations \in [Selectors -> SUBSET Days]
  /\ pc \in {"idle", "selected", "childless", "deleted"}
  /\ dryRun \in BOOLEAN
  /\ cutoff \in Int /\ cutoff <= today
  /\ targets \in [ids : [ParentTables -> SUBSET RowIds], commits : SUBSET Commits,
                  calibrations : [Selectors -> SUBSET Days]]
  /\ interrupts \in 0 .. MaxInterrupts

PruneInit ==
  /\ today = 0
  /\ rows = [t \in ParentTables |-> {}] /\ whole = [t \in ParentTables |-> {}]
  /\ born = [t \in ParentTables |-> [i \in RowIds |-> 0]]
  /\ changes = {} /\ calibrations = [s \in Selectors |-> {}]
  /\ pc = "idle" /\ dryRun = FALSE /\ cutoff = 0 /\ targets = NoTargets
  /\ interrupts = 0

-----------------------------------------------------------------------------
(* The other commands, between prunes.                                     *)

Tick ==
  /\ today < LastDay
  /\ today' = today + 1
  /\ UNCHANGED <<history, prune, interrupts>>

\* A row is recorded with its children, or, where no transaction joins the two,
\* perhaps without them.  A collected workflow run is as old as GitHub says.
Record(t, i) ==
  /\ pc = "idle" /\ i \notin rows[t]
  /\ rows' = [rows EXCEPT ![t] = @ \cup {i}]
  /\ \E day \in IF t = "workflow_runs" THEN 0 .. today ELSE {today} :
       born' = [born EXCEPT ![t][i] = day]
  /\ \/ whole' = [whole EXCEPT ![t] = @ \cup {i}]
     \/ t \in FKParents /\ UNCHANGED whole
  /\ UNCHANGED <<today, changes, calibrations, prune, interrupts>>

\* A later collect adds results to a run it finds.
RecordChildren(i) ==
  /\ pc = "idle" /\ i \in rows["workflow_runs"]
  /\ whole' = [whole EXCEPT !["workflow_runs"] = @ \cup {i}]
  /\ UNCHANGED <<today, rows, born, changes, calibrations, prune, interrupts>>

\* Commit changes are recorded for the commit of a workflow run.
RecordChanges(i) ==
  /\ pc = "idle" /\ i \in rows["workflow_runs"]
  /\ changes' = changes \cup {CommitOf["workflow_runs"][i]}
  /\ UNCHANGED <<today, rows, born, whole, calibrations, prune, interrupts>>

CalibrateGate(s) ==
  /\ pc = "idle"
  /\ Cardinality(calibrations[s] \cup {today}) <= MaxCalibrations
  /\ calibrations' = [calibrations EXCEPT ![s] = @ \cup {today}]
  /\ UNCHANGED <<today, rows, born, whole, changes, prune, interrupts>>

-----------------------------------------------------------------------------
(* runPrune.                                                               *)

LongestLookBack == IF CoFailureDays > LongestWindow THEN CoFailureDays ELSE LongestWindow

\* Mutated: the flaky window is not added, only compared.
LongestOfAll == IF FlakyDays > LongestLookBack THEN FlakyDays ELSE LongestLookBack
MinimumRetentionDays == LongestLookBack + FlakyDays

Cutoff(retention) == today - retention

\* prune_runs, prune_selector_runs, prune_sampling_runs, prune_mutation_trials
\* (mutated: through a join with the child rows).
OldWithChildren(t, day) == {i \in whole[t] : born[t][i] < day}
Old(t, day)             == {i \in rows[t] : born[t][i] < day}

Named(t, ids) == {CommitOf[t][i] : i \in ids}

KeptCommits(day) == UNION {Named(t, rows[t] \ Old(t, day)) : t \in NamesCommits}

\* prune_commits: what only pruned rows name (mutated: what pruned workflow runs
\* name and nothing kept does).
CommitsOfPrunedRuns(day) ==
  Named("workflow_runs", Old("workflow_runs", day)) \ KeptCommits(day)
PrunedCommits(day) ==
  (UNION {Named(t, Old(t, day)) : t \in NamesCommits}) \ KeptCommits(day)

\* prune_gate_calibrations
PrunedCalibrations(s, day) ==
  {d \in calibrations[s] : d < day /\ \E latest \in calibrations[s] : d < latest}

SelectRows(retention, dry) ==
  /\ pc = "idle"
  /\ retention >= MinimumRetentionDays
  /\ pc' = "selected" /\ dryRun' = dry
  /\ cutoff' = Cutoff(retention)
  /\ targets' = [ids          |-> [t \in ParentTables |-> Old(t, Cutoff(retention))],
                 commits      |-> PrunedCommits(Cutoff(retention)),
                 calibrations |-> [s \in Selectors |-> PrunedCalibrations(s, Cutoff(retention))]]
  /\ UNCHANGED <<today, history, interrupts>>

Leave == pc' = "idle" /\ dryRun' = FALSE /\ cutoff' = 0 /\ targets' = NoTargets

\* --dry-run: the transaction is rolled back.
EndDryRun ==
  /\ pc = "selected" /\ dryRun
  /\ Leave
  /\ UNCHANGED <<today, history, interrupts>>

\* The first transaction, with the rows no constraint names.
CommitChildren ==
  /\ pc = "selected" /\ ~dryRun
  /\ pc' = "childless"
  /\ whole' = [t \in ParentTables |-> whole[t] \ targets.ids[t]]
  /\ rows' = [t \in ParentTables |-> IF t \in FKParents THEN rows[t] ELSE rows[t] \ targets.ids[t]]
  /\ changes' = changes \ targets.commits
  /\ calibrations' = [s \in Selectors |-> calibrations[s] \ targets.calibrations[s]]
  /\ UNCHANGED <<today, born, dryRun, cutoff, targets, interrupts>>

\* The second transaction.
CommitFKParents ==
  /\ pc = "childless"
  /\ pc' = "deleted"
  /\ rows' = [t \in ParentTables |-> IF t \in FKParents THEN rows[t] \ targets.ids[t] ELSE rows[t]]
  /\ UNCHANGED <<today, born, whole, changes, calibrations, dryRun, cutoff, targets, interrupts>>

Checkpoint ==
  /\ pc = "deleted"
  /\ Leave
  /\ UNCHANGED <<today, history, interrupts>>

\* A statement fails or the process dies: the open transaction is undone.
Interrupt ==
  /\ pc # "idle" /\ interrupts < MaxInterrupts
  /\ interrupts' = interrupts + 1
  /\ Leave
  /\ UNCHANGED <<today, history>>

-----------------------------------------------------------------------------
Writers ==
  \/ \E t \in ParentTables, i \in RowIds : Record(t, i)
  \/ \E i \in RowIds : RecordChildren(i) \/ RecordChanges(i)
  \/ \E s \in Selectors : CalibrateGate(s)

PruneStep == EndDryRun \/ CommitChildren \/ CommitFKParents \/ Checkpoint

PruneNext ==
  \/ Tick \/ Writers
  \/ \E retention \in Retentions, dry \in BOOLEAN : SelectRows(retention, dry)
  \/ PruneStep \/ Interrupt

PruneSpec == PruneInit /\ [][PruneNext]_pruneVars

\* Prunes are scheduled for ever, with some retention that is accepted, and a
\* started one runs on.
FairPruneSpec ==
  /\ PruneSpec
  /\ SF_pruneVars(\E retention \in Retentions : SelectRows(retention, FALSE))
  /\ WF_pruneVars(PruneStep)

-----------------------------------------------------------------------------
(* Properties.                                                             *)

\* Whatever is interrupted, no child row is left without its parent, and no
\* commit changes without a row that names the commit: pruning neither breaks a
\* reference nor leaks rows nothing will ever select again.
NoOrphans ==
  /\ \A t \in ParentTables : whole[t] \subseteq rows[t]
  /\ changes \subseteq UNION {Named(t, rows[t]) : t \in NamesCommits}

\* What some command reads by default, on a day of the longest look-back or in
\* the flaky window before that day.
Readable(day) ==
  \E d \in today - LongestLookBack .. today : day \in d - FlakyDays .. d

\* No default window loses data to a prune: no readable row, none of its
\* children, not the changes of its commit (prune.ts:33-40, 66-70).
ReadableIsKept ==
  [][pc # "idle" =>
       \A t \in ParentTables : \A i \in rows[t] :
         Readable(born[t][i]) =>
           /\ i \in rows'[t]
           /\ i \in whole[t] => i \in whole'[t]
           /\ t \in NamesCommits /\ CommitOf[t][i] \in changes => CommitOf[t][i] \in changes']_pruneVars

\* A selector never loses its latest gate calibration, however old it is.
LatestIsKept ==
  [][\A s \in Selectors : \A d \in calibrations[s] :
       (\A e \in calibrations[s] : e <= d) => d \in calibrations'[s]]_pruneVars

\* A prune that got past its second transaction has left nothing older than its
\* cutoff, also when an earlier one was interrupted between the two.
NothingOldIsLeft ==
  pc = "deleted" =>
    \A t \in ParentTables : Old(t, cutoff) = {} /\ \A i \in whole[t] : born[t][i] >= cutoff

\* "An interrupted prune leaves only childless runs, which the next prune
\* removes" (prune.ts:126-129): a row past every retention is gone in the end.
OldRowsGo ==
  []<>(\A t \in ParentTables : \A i \in rows[t] :
         \E retention \in Retentions : born[t][i] >= today - retention)
=============================================================================
