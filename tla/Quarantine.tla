------------------------------- MODULE Quarantine -------------------------------
(***************************************************************************)
(* Automatic quarantine: the quarantine action of `flaker apply'           *)
(* (categories/apply.ts), which suggests from the results in a window      *)
(* (commands/quarantine/suggest.ts) and applies the suggestion             *)
(* (commands/quarantine/apply.ts), and the rows of an older version that   *)
(* are copied whenever the store is opened (storage/duckdb.ts).            *)
(*                                                                         *)
(* One process has the store open at a time, so what interleaves with an   *)
(* apply is its own death, and between applies the world: results, days,   *)
(* and other commands, which open the store without applying.              *)
(*                                                                         *)
(* Abstractions.  Time is counted in days.  A result is its test, day,     *)
(* commit and status, "retried" being a pass after a retry; `copy' tells   *)
(* equal results apart; those of mutation trials, which the window leaves  *)
(* out, are left out.  A plan's items are handled in any order, the code   *)
(* sorts them.  Rates are not rounded (the code rounds at 0.01%).          *)
(***************************************************************************)
EXTENDS Integers, FiniteSets

CONSTANTS
  Tests,
  Commits,
  ResultStatuses,    \* the statuses results have
  WindowDays,        \* windowDays ?? 30
  Threshold,         \* flakyRateThresholdPercentage ?? 30
  MinRuns,           \* minRuns ?? 5
  DetectionPercent,  \* [flaky].detection_threshold_ratio, in percent
  LastDay,           \* bound: the last day
  MaxResults,        \* bound: results
  MaxInterrupts      \* bound: processes that die

Days        == 0 .. LastDay
AllStatuses == {"passed", "retried", "failed", "flaky", "skipped"}
Row         == [test : Tests, day : Days, commit : Commits, status : ResultStatuses,
                copy : 1 .. MaxResults]
Reasons     == {"manual", "plan:flaky_rate_exceeded"}

ASSUME QuarantineAssumption ==
  /\ ResultStatuses \subseteq AllStatuses
  /\ WindowDays \in Nat /\ Threshold \in 0 .. 100 /\ MinRuns \in Nat
  /\ DetectionPercent \in 0 .. 100
  /\ LastDay \in Nat /\ MaxResults \in Nat /\ MaxInterrupts \in Nat

VARIABLES
  today,
  results,      \* store: test_results
  legacy,       \* store: tests with a row in quarantined_tests, of an older version
  quarantined,  \* store: the reason in quarantined_test_identities, or "no"
  pc,           \* the process
  todo,         \* the process: tests left in the loop in hand
  removals,     \* the process: the plan's remove
  interrupts,
  quiet         \* history variable: nothing happened since an apply that ended

store   == <<results, quarantined, legacy>>
process == <<pc, todo, removals>>
vars    == <<today, store, process, interrupts, quiet>>

\* Type invariant: rows, reasons and the pending changes stay in their ranges, and what is
\* still to be removed is quarantined and is never also still to be added.
TypeOK ==
  /\ today \in Days
  /\ results \subseteq Row
  /\ quarantined \in [Tests -> Reasons \cup {"no"}]
  /\ legacy \subseteq Tests
  /\ pc \in {"closed", "backfill", "open", "adding", "removing", "applied"}
  /\ todo \subseteq Tests
  /\ removals \subseteq {t \in Tests : quarantined[t] # "no"} \ todo
  /\ interrupts \in 0 .. MaxInterrupts
  /\ quiet \in BOOLEAN

Init ==
  /\ today = 0 /\ results = {}
  /\ quarantined = [t \in Tests |-> "no"] /\ legacy \in SUBSET Tests
  /\ pc = "closed" /\ todo = {} /\ removals = {}
  /\ interrupts = 0 /\ quiet = FALSE

-----------------------------------------------------------------------------
(* The calendar, and what other commands and other actions of an apply do  *)
(* in a store they have opened.                                            *)

Tick ==
  /\ today < LastDay /\ pc = "closed"
  /\ today' = today + 1 /\ quiet' = FALSE
  /\ UNCHANGED <<store, process, interrupts>>

\* Results arrive on their day or later.
Record(t) ==
  /\ pc = "open" /\ Cardinality(results) < MaxResults
  /\ \E day \in 0 .. today, commit \in Commits, status \in ResultStatuses, copy \in 1 .. MaxResults :
       LET row(n) == [test |-> t, day |-> day, commit |-> commit, status |-> status, copy |-> n] IN
       /\ \A n \in 1 .. MaxResults : row(n) \in results <=> n < copy
       /\ results' = results \cup {row(copy)}
  /\ quiet' = FALSE
  /\ UNCHANGED <<today, quarantined, legacy, process, interrupts>>

\* addQuarantine, by a caller of its own.
AddQuarantine(t) ==
  /\ pc = "open"
  /\ quarantined' = [quarantined EXCEPT ![t] = "manual"] /\ quiet' = FALSE
  /\ UNCHANGED <<today, results, legacy, process, interrupts>>

-----------------------------------------------------------------------------
(* flaker_flaky_window, queryFlakyTests and runQuarantineSuggest.          *)

Recent(t)   == {r \in results : r.test = t /\ r.day > today - WindowDays}
Passes(t)   == {r \in Recent(t) : r.status \in {"passed", "retried"}}
Failures(t) == {r \in Recent(t) : r.status \in {"failed", "flaky", "retried"}}

\* flake evidence
Evidence(t) ==
  {r \in Failures(t) :
     r.status = "failed" => \E p \in Passes(t) : p.commit = r.commit}

RateAtLeast(t, percent) == Cardinality(Evidence(t)) * 100 >= percent * Cardinality(Recent(t))

IsFlaky(t)   == Evidence(t) # {} /\ RateAtLeast(t, DetectionPercent)
IsBroken(t)  == Failures(t) = Recent(t) /\ Evidence(t) = {}
Qualifies(t) == IsFlaky(t) /\ RateAtLeast(t, Threshold)

Judged(t) == Failures(t) # {} /\ Cardinality(Recent(t)) >= MinRuns

IsQuarantined(t) == quarantined[t] # "no"

ToAdd == {t \in Tests : Judged(t) /\ Qualifies(t) /\ ~IsQuarantined(t)}

BelowThreshold(t) == Judged(t) /\ ~Qualifies(t) /\ ~IsBroken(t)

\* remove (mutated: broken tests, too; a rate just at the
\* threshold, too; not the tests without a signal).
RemoveBroken   == {t \in Tests : IsQuarantined(t) /\ ((Judged(t) /\ ~Qualifies(t)) \/ Failures(t) = {})}
RemoveBorder   == {t \in Tests : /\ IsQuarantined(t)
                                 /\ \/ Judged(t) /\ ~RateAtLeast(t, Threshold + 1) /\ ~IsBroken(t)
                                    \/ Failures(t) = {}}
RemoveSignals  == {t \in Tests : IsQuarantined(t) /\ BelowThreshold(t)}
ToRemove       == {t \in Tests : IsQuarantined(t) /\ (BelowThreshold(t) \/ Failures(t) = {})}

-----------------------------------------------------------------------------
(* A process.                                                              *)

\* initialize
Open ==
  /\ pc = "closed" /\ pc' = "backfill"
  /\ todo' = legacy
  /\ UNCHANGED <<today, store, removals, interrupts, quiet>>

\* One row of backfillLegacyQuarantineEntries: ON CONFLICT DO NOTHING.
Backfill(t) ==
  /\ pc = "backfill" /\ t \in todo
  /\ todo' = todo \ {t}
  /\ quarantined' = [quarantined EXCEPT ![t] = IF IsQuarantined(t) THEN @ ELSE "manual"]
  /\ UNCHANGED <<today, results, legacy, pc, removals, interrupts, quiet>>

Opened ==
  /\ pc = "backfill" /\ todo = {}
  /\ pc' = "open"
  /\ UNCHANGED <<today, store, todo, removals, interrupts, quiet>>

\* quarantineApply: the suggestion, applied at once.
Suggest ==
  /\ pc = "open" /\ pc' = "adding"
  /\ todo' = ToAdd /\ removals' = ToRemove
  /\ UNCHANGED <<today, store, interrupts, quiet>>

Add(t) ==
  /\ pc = "adding" /\ t \in todo
  /\ todo' = todo \ {t}
  /\ quarantined' = [quarantined EXCEPT ![t] = "plan:flaky_rate_exceeded"]
  /\ UNCHANGED <<today, results, legacy, pc, removals, interrupts, quiet>>

AllAdded ==
  /\ pc = "adding" /\ todo = {}
  /\ pc' = "removing"
  /\ todo' = removals /\ removals' = {}
  /\ UNCHANGED <<today, store, interrupts, quiet>>

Remove(t) ==
  /\ pc = "removing" /\ t \in todo
  /\ todo' = todo \ {t}
  /\ quarantined' = [quarantined EXCEPT ![t] = "no"]
  /\ UNCHANGED <<today, results, legacy, pc, removals, interrupts, quiet>>

AllRemoved ==
  /\ pc = "removing" /\ todo = {}
  /\ pc' = "applied" /\ quiet' = TRUE
  /\ UNCHANGED <<today, store, todo, removals, interrupts>>

\* After an apply, or without one.
Close ==
  /\ pc \in {"open", "applied"} /\ pc' = "closed"
  /\ UNCHANGED <<today, store, todo, removals, interrupts, quiet>>

Die ==
  /\ pc # "closed" /\ interrupts < MaxInterrupts
  /\ interrupts' = interrupts + 1
  /\ pc' = "closed" /\ todo' = {} /\ removals' = {}
  /\ UNCHANGED <<today, store, quiet>>

-----------------------------------------------------------------------------
Item(t) == Backfill(t) \/ Add(t) \/ Remove(t)

Advance == Opened \/ AllAdded \/ AllRemoved \/ Close \/ \E t \in Tests : Item(t)

World == Tick \/ \E t \in Tests : Record(t) \/ AddQuarantine(t)

Next == World \/ Open \/ Suggest \/ Advance \/ Die

Spec == Init /\ [][Next]_vars

\* Applies are scheduled for ever, and a started process runs on.
FairSpec == Spec /\ WF_vars(Advance) /\ SF_vars(Open) /\ SF_vars(Suggest)

-----------------------------------------------------------------------------
(* Properties.                                                             *)

\* An apply that follows a complete one, with nothing in between but opened stores
\* and interrupted applies, adds nothing, and removes only what the backfill has
\* brought back.
NothingToRepeat ==
  quiet => /\ pc = "adding"   => todo = {} /\ removals \subseteq legacy
           /\ pc = "removing" => todo \subseteq legacy

\* "a quarantine of one [a broken test] is kept while it keeps failing"
\* (docs/how-to-use.md:386): a test that has failed every time in the window, and
\* never passed, leaves quarantine in no step.
BrokenIsKept ==
  [][\A t \in Tests :
       /\ IsQuarantined(t)
       /\ Recent(t) # {} /\ \A r \in Recent(t) : r.status = "failed"
       => quarantined'[t] # "no"]_vars

\* Nothing is quarantined automatically for failing alone: a step that quarantines a
\* test finds it, in the window, passing after a retry, or both passing and failing
\* on one commit.
RegressionsStayOut ==
  [][\A t \in Tests :
       pc = "adding" /\ ~IsQuarantined(t) /\ quarantined'[t] # "no" =>
         \E r \in Recent(t) :
           \/ r.status \in {"flaky", "retried"}
           \/ r.status = "failed" /\ \E p \in Recent(t) : p.commit = r.commit /\ p.status \in {"passed", "retried"}]_vars

\* A quarantined test whose failures have all left the window leaves quarantine, or
\* fails again, whatever interrupts the applies.
QuietTestsAreReleased ==
  \A t \in Tests : (IsQuarantined(t) /\ Failures(t) = {}) ~> (~IsQuarantined(t) \/ Failures(t) # {})

=============================================================================
