------------------------------ MODULE SelectorTrust ------------------------------
(***************************************************************************)
(* How far a test selector is trusted: its records and the full runs they  *)
(* are compared with, the mutation trials that add evidence                *)
(* (commands/calibrate/mutate.ts), and the calibration that moves the gate *)
(* (commands/calibrate/selector.ts).  GateCalibration is the decision.     *)
(*                                                                         *)
(* `flaker calibrate' keeps the store open from its first trial to its     *)
(* calibration, and DuckDB lets nobody else in: nothing happens in between *)
(* but a kill.                                                             *)
(***************************************************************************)
EXTENDS GateCalibration

CONSTANTS
  Heads,          \* commits of the repository that the selector ran on
  Truth,          \* per head, the tests that fail when all are run
  Mutations,      \* sites a trial may mutate
  Kills,          \* per mutation, the tests that fail on it
  RecordVerdicts, \* the verdicts a selector may give: functions on Tests
  AppendAttempts, \* APPEND_ATTEMPTS
  MaxRecords,     \* bound: selector records of real heads
  MaxTrials,      \* bound: trials that were committed
  MaxInstant,     \* bound: the last millisecond a calibration starts at
  MaxChanges      \* bound: tests that become flaky or quarantined, or cease to be

ASSUME TrustAssumption ==
  /\ Truth \in [Heads -> SUBSET Tests]
  /\ Kills \in [Mutations -> SUBSET Tests]
  /\ \A vs \in RecordVerdicts : \A t \in Tests : Verdict(vs[t])
  /\ IsFiniteSet(Tests) /\ IsFiniteSet(Heads)
  /\ Gates \cup {DefaultGate} \subseteq [cutoff : Nat, below : Nat, margin : Nat]
  /\ MinFailures \in Nat /\ PerfectRuns \in Nat /\ AppendAttempts \in Nat \ {0}

VARIABLES
  fullHeads, \* heads with a full run
  hushed,    \* tests that are flaky or quarantined
  changes,   \* how often hushed has changed
  records,   \* selector_runs with their verdicts, numbered as they were created
  trials,    \* mutation_trials with their failures
  gates,     \* gate_calibrations: per instant, the gate that was adopted
  instant,   \* the milliseconds
  pc,        \* of `flaker calibrate --mutate'
  tree,      \* the mutations in its worktree
  baseline,  \* baselineFailed
  current,   \* the trial's head, record and mutation
  adopted,   \* history variable: the last decision, if it was made of this evidence
  moves      \* history variable: gate changes since the evidence changed

store == <<fullHeads, hushed, changes, records, trials>>
work  == <<pc, tree, baseline, current>>
vars  == <<store, gates, instant, work, adopted, moves>>

Sources  == {"real", "mutation"}
NoTrial  == [head |-> 0, mutation |-> "none", killed |-> {}]
NoDecision == [decision |-> "none", at |-> 0, before |-> DefaultGate, gate |-> DefaultGate]

\* Type invariant: the store holds rows of their kinds, and at most one trial's head is
\* checked out.
TypeOK ==
  /\ fullHeads \subseteq Heads
  /\ hushed \subseteq Tests
  /\ \A r \in records : r.source \in Sources /\ r.verdicts \in RecordVerdicts
  /\ \A s \in trials : s.mutation \in Mutations /\ s.killed \subseteq Tests
  /\ \A at \in DOMAIN gates : at >= 1 /\ gates[at] \in Gates \cup {DefaultGate}
  /\ pc \in {"idle", "mutate", "select", "suite", "record"}
  /\ tree \subseteq Mutations /\ Cardinality(tree) <= 1
  /\ baseline \subseteq Tests

Init ==
  /\ fullHeads = {} /\ hushed = {} /\ changes = 0
  /\ records = {} /\ trials = {}
  /\ gates = [at \in {} |-> DefaultGate] /\ instant = 1
  /\ pc = "idle" /\ tree = {} /\ baseline = {} /\ current = NoTrial
  /\ adopted = NoDecision /\ moves = 0

-----------------------------------------------------------------------------
(* Evidence comes in.                                                      *)

NewEvidence == moves' = 0 /\ adopted' = NoDecision /\ UNCHANGED <<gates, instant>>

\* The results of a full run of a head are imported.
FullRun(h) ==
  /\ pc = "idle" /\ h \notin fullHeads /\ fullHeads' = fullHeads \cup {h}
  /\ NewEvidence /\ UNCHANGED <<hushed, changes, records, trials, work>>

\* A test becomes flaky, or is quarantined, or no longer.
Hush(t) ==
  /\ pc = "idle" /\ changes < MaxChanges /\ changes' = changes + 1
  /\ hushed' = IF t \in hushed THEN hushed \ {t} ELSE hushed \cup {t}
  /\ NewEvidence /\ UNCHANGED <<fullHeads, records, trials, work>>

NewRecord(head, source, vs) ==
  records' = records \cup
    {[id |-> Cardinality(records) + 1, head |-> head, source |-> source, verdicts |-> vs]}

\* insertSelectorRecord: one transaction.
ImportRecord(h) ==
  /\ pc = "idle" /\ Cardinality({r \in records : r.source = "real"}) < MaxRecords
  /\ \E vs \in RecordVerdicts : NewRecord(h, "real", vs)
  /\ NewEvidence /\ UNCHANGED <<fullHeads, hushed, changes, trials, work>>

-----------------------------------------------------------------------------
(* runMutationTrials                                                       *)

\* The suite on the unmutated tree; a failing test fails in it, too.
StartTrials ==
  /\ pc = "idle" /\ Cardinality({r \in records : r.source = "mutation"}) < MaxTrials
  /\ \E failed \in SUBSET Tests : baseline' = failed
  /\ pc' = "mutate" /\ tree' = {} /\ current' = NoTrial
  /\ NewEvidence /\ UNCHANGED store

\* The mutation is applied and committed: a new head.
Mutate(m) ==
  /\ pc = "mutate" /\ pc' = "select"
  /\ tree' = tree \cup {m}
  /\ current' = [NoTrial EXCEPT !.head = Cardinality(records) + 1, !.mutation = m]
  /\ UNCHANGED <<store, baseline, gates, instant, adopted, moves>>

\* finally: git reset --hard (mutated: not after a failure).
ResetAfterSuccess(failed) == tree' = IF failed THEN tree ELSE {}
Reset(failed)             == tree' = {}

\* The selector writes no record, or the suite fails, or reports no tests.
Skip ==
  /\ pc \in {"select", "suite"} /\ pc' = "mutate" /\ Reset(TRUE)
  /\ UNCHANGED <<store, baseline, current, gates, instant, adopted, moves>>

SelectOnMutant ==
  /\ pc = "select" /\ pc' = "suite"
  /\ Cardinality({r \in records : r.source = "mutation"}) < MaxTrials
  /\ \E vs \in RecordVerdicts : NewRecord(current.head, "mutation", vs)
  /\ NewEvidence /\ UNCHANGED <<fullHeads, hushed, changes, trials, tree, baseline, current>>

\* killed
Killed(failed) == failed \ baseline

RunSuite ==
  /\ pc = "suite" /\ pc' = "record"
  /\ LET failed == (UNION {Kills[m] : m \in tree}) \cup baseline IN
     current' = [current EXCEPT !.killed = Killed(failed)]
  /\ UNCHANGED <<store, tree, baseline, gates, instant, adopted, moves>>

\* recordTrial: one transaction.
RecordTrial ==
  /\ pc = "record" /\ pc' = "mutate" /\ Reset(FALSE)
  /\ trials' = trials \cup {current}
  /\ NewEvidence /\ UNCHANGED <<fullHeads, hushed, changes, records, baseline, current>>

\* All trials are done, or the process is killed; the worktree is of no use to anybody.
EndTrials ==
  /\ pc # "idle" /\ pc' = "idle" /\ tree' = {} /\ baseline' = {} /\ current' = NoTrial
  /\ UNCHANGED <<store, gates, instant, adopted, moves>>

-----------------------------------------------------------------------------
(* runSelectorCalibration                                                  *)

\* One record per head, the latest.
LatestPerHead(source) ==
  {r \in records : r.source = source /\
     ~ \E q \in records : q.source = source /\ q.head = r.head /\ q.id > r.id}

\* Every verdict names a test: one that matches none is not counted at all.
Evidence(r, failed) ==
  [id |-> r.id, head |-> r.head, source |-> r.source, verdicts |-> r.verdicts,
   failures |-> failed \ hushed]

RealEvidence ==
  {Evidence(r, Truth[r.head]) : r \in {q \in LatestPerHead("real") : q.head \in fullHeads}}

TrialsOf(r) == {s \in trials : s.head = r.head}
MutationEvidence ==
  UNION {{Evidence(r, s.killed) : s \in TrialsOf(r)} : r \in LatestPerHead("mutation")}

LoadCalibrationRecords == RealEvidence \cup MutationEvidence

LatestGate ==
  IF DOMAIN gates = {} THEN DefaultGate
  ELSE gates[CHOOSE at \in DOMAIN gates : \A other \in DOMAIN gates : other <= at]

\* Where the row goes: the first free instant (mutated: before the one that is taken).
Earlier(at, attempt) == at - attempt
Later(at, attempt)   == at + attempt
FirstFree(n) ==
  /\ n \notin DOMAIN gates
  /\ \E attempt \in 0 .. AppendAttempts - 1 :
       /\ n = Later(instant, attempt)
       /\ \A a \in 0 .. attempt - 1 : Later(instant, a) \in DOMAIN gates

\* The evidence is read, the gate decided and appended; nothing is stored before that.
Calibrate ==
  /\ pc = "idle"
  /\ \E n \in instant - AppendAttempts .. instant + AppendAttempts :
       LET loaded == LoadCalibrationRecords
           made   == CalibrateGate(loaded, LatestGate) IN
       /\ FirstFree(n)
       /\ gates' = [at \in DOMAIN gates \cup {n} |-> IF at = n THEN made.gate ELSE gates[at]]
       /\ adopted' = [decision |-> made.decision, at |-> n, before |-> LatestGate, gate |-> made.gate]
       /\ moves' = IF made.gate = LatestGate THEN moves ELSE moves + 1
  /\ UNCHANGED <<store, instant, work>>

Tick ==
  /\ pc = "idle" /\ instant < MaxInstant /\ instant' = instant + 1
  /\ UNCHANGED <<store, gates, work, adopted, moves>>

Next ==
  \/ \E h \in Heads : FullRun(h) \/ ImportRecord(h)
  \/ \E t \in Tests : Hush(t)
  \/ \E m \in Mutations : Mutate(m)
  \/ StartTrials \/ Skip \/ SelectOnMutant \/ RunSuite \/ RecordTrial \/ EndTrials
  \/ Calibrate \/ Tick

Spec == Init /\ [][Next]_vars

-----------------------------------------------------------------------------
(* Properties.                                                             *)

Counted == WithoutQuarantined(LoadCalibrationRecords)

\* "Tighten at once": a tightened gate keeps every test the gate before it selected, on
\* every record, and misses less; no candidate that keeps them misses less still.
TightenKeepsAndCatches ==
  adopted.decision = "tighten" =>
    /\ Selection(Counted, adopted.before) \subseteq Selection(Counted, adopted.gate)
    /\ Misses(Counted, adopted.gate) < Misses(Counted, adopted.before)
    /\ \A g \in Gates :
         Selection(Counted, adopted.before) \subseteq Selection(Counted, g)
           => Misses(Counted, adopted.gate) <= Misses(Counted, g)

\* "Loosen with care": a loosened gate misses no failure on record, of a real head or
\* of a mutation.
LooseningIsSafe ==
  adopted.decision = "loosen" => Missed(Counted, adopted.gate) = {}

\* A gate is loosened on real regressions only, and each counts once: as many
\* different tests failed in full runs of heads as the configuration asks for, however
\* many records of a head there are and whatever mutations have shown.
LooseningIsEarned ==
  adopted.decision = "loosen" =>
    LET regressions == {p \in Heads \X Tests : p[1] \in fullHeads /\ p[2] \in Truth[p[1]]} IN
    Cardinality(regressions) >= MinFailures /\ Cardinality(regressions) >= PerfectRuns

\* "Tighten at once, loosen with care": calibrate-core.ts:5.
CalibrationIsCareful == TightenKeepsAndCatches /\ LooseningIsSafe /\ LooseningIsEarned

\* Calibrating again on the same evidence comes to rest: the gate moves at most twice,
\* once tighter and then once looser, and does not swing.
Settles == moves <= 2

\* The gate in force is the one decided last, also when several calibrations fall into
\* one millisecond: the latest instant on record is the last one written.
LatestIsLast ==
  adopted.decision # "none" => \A at \in DOMAIN gates : at <= adopted.at

\* A trial has killed what its own mutation breaks: nothing that failed before it, and
\* nothing that an earlier trial, perhaps a failed one, has left in the worktree.
KilledByItsMutation == \A s \in trials : s.killed \subseteq Kills[s.mutation]
=============================================================================
