---------------------------------- MODULE Retry ----------------------------------
(***************************************************************************)
(* executeWithRetry (runners/retry.ts): run the tests, run what failed     *)
(* again, a bounded number of times, and judge each test by its history.   *)
(*                                                                         *)
(* The runner is a bare one or one behind a quarantine manifest.  It may   *)
(* crash: return fewer results than it was asked for, or none.             *)
(***************************************************************************)
EXTENDS QuarantineRuntime

CONSTANTS
  Tests,
  Manifests,        \* the manifests: for each test, the modes of its entries
  RunnerStatuses,   \* the statuses the runner gives
  MaxRetries        \* bound: the largest maxRetries

ASSUME RetryAssumption ==
  /\ MaxRetries \in Nat
  /\ RunnerStatuses \subseteq Statuses
  /\ Manifests \subseteq [Tests -> Seq(Modes)]

VARIABLES
  call,       \* the arguments
  pc,
  attempts,   \* totalAttempts
  last,       \* lastResult.results
  history,    \* allResults: per test, the results so far
  out,        \* what is returned
  crashed     \* history variable: a runner was asked, returned no results and a
              \* non-zero exit code

vars == <<call, pc, attempts, last, history, out, crashed>>

Call == [tests : SUBSET Tests, maxRetries : 0 .. MaxRetries, failedOnly : BOOLEAN,
         modes : Manifests, quarantine : BOOLEAN]

ResultsOf(tests) == UNION {[found -> Result] : found \in SUBSET tests}

NoOut == [exitCode |-> 0, results |-> NoResults, flaky |-> {}]

\* Type invariant: the call, its results and histories stay in their ranges, and a test is
\* attempted at most once more than the retries asked for.
TypeOK ==
  /\ call \in Call
  /\ pc \in {"first", "loop", "build", "done"}
  /\ attempts \in 0 .. call.maxRetries + 1
  /\ last \in ResultsOf(call.tests)
  /\ history \in [Tests -> Seq(Result)]
  /\ out \in [exitCode : {0, 1}, results : ResultsOf(call.tests), flaky : SUBSET call.tests]
  /\ crashed \in BOOLEAN

\* The runner is wrapped when the manifest has entries, for these tests or others.
Init ==
  /\ call \in {c \in Call : (\E t \in Tests : c.modes[t] # <<>>) => c.quarantine}
  /\ pc = "first" /\ attempts = 0
  /\ last = NoResults /\ history = [t \in Tests |-> <<>>]
  /\ out = NoOut /\ crashed = FALSE

-----------------------------------------------------------------------------
Outcomes(tests) ==
  IF call.quarantine THEN BaseOutcomes(tests, call.modes, RunnerStatuses)
                     ELSE RunnerOutcomes(tests, RunnerStatuses)

\* runner.execute
Executed(tests, base) ==
  IF call.quarantine THEN WithQuarantine(tests, call.modes, base) ELSE base

\* The merge of an attempt's results.
Merged(results) ==
  [t \in Tests |-> IF t \in DOMAIN results THEN Append(history[t], results[t]) ELSE history[t]]

Attempt(tests, base) ==
  /\ attempts' = attempts + 1
  /\ last' = Executed(tests, base).results
  /\ history' = Merged(Executed(tests, base).results)
  /\ crashed' = (crashed \/ (base.exitCode # 0 /\ DOMAIN base.results = {}))
  /\ UNCHANGED call

\* The first attempt is the answer.
FirstIsEnough ==
  /\ pc = "first" /\ pc' = "done"
  /\ \E base \in Outcomes(call.tests) :
       LET first == Executed(call.tests, base) IN
       /\ first.exitCode = 0 \/ call.maxRetries <= 0
       /\ Attempt(call.tests, base)
       /\ out' = [exitCode |-> first.exitCode, results |-> first.results, flaky |-> {}]

FirstFails ==
  /\ pc = "first" /\ pc' = "loop"
  /\ \E base \in Outcomes(call.tests) :
       /\ Executed(call.tests, base).exitCode # 0 /\ call.maxRetries > 0
       /\ Attempt(call.tests, base)
  /\ UNCHANGED out

\* testsToRetry (mutated: allowed failures, too).
FailedTests == {t \in DOMAIN last : IsFailure(last[t])}
TestsToRetry == {t \in DOMAIN last : IsBlockingFailure(last[t])}

RetryTargets == IF call.failedOnly THEN TestsToRetry ELSE call.tests

\* The loop's condition.
RetriesLeft == attempts <= call.maxRetries

Retry ==
  /\ pc = "loop" /\ RetriesLeft
  /\ RetryTargets # {}
  /\ \E base \in Outcomes(RetryTargets) :
       /\ Attempt(RetryTargets, base)
       /\ pc' = IF Executed(RetryTargets, base).exitCode = 0 THEN "build" ELSE "loop"
  /\ UNCHANGED out

StopRetrying ==
  /\ pc = "loop"
  /\ ~RetriesLeft \/ RetryTargets = {}
  /\ pc' = "build"
  /\ UNCHANGED <<call, attempts, last, history, out, crashed>>

-----------------------------------------------------------------------------
LastOf(t)     == history[t][Len(history[t])]
HasFailure(t) == \E i \in DOMAIN history[t] : history[t][i].status = "failed"

Reported == {t \in Tests : history[t] # <<>>}

\* flakyDetected (mutated: the first result against the last).
FailedFirst   == {t \in Reported : history[t][1].status = "failed" /\ LastOf(t).status = "passed"}
FlakyDetected == {t \in Reported : HasFailure(t) /\ LastOf(t).status = "passed"}

\* finalResults (mutated: of the last attempt only).
FinalOfLast == last
FinalResults ==
  [t \in Reported |->
     IF t \in FlakyDetected THEN [LastOf(t) EXCEPT !.status = "flaky"] ELSE LastOf(t)]

Build ==
  /\ pc = "build" /\ pc' = "done"
  /\ out' = [exitCode |-> IF \E t \in DOMAIN FinalResults : IsBlockingFailure(FinalResults[t]) THEN 1 ELSE 0,
             results  |-> FinalResults,
             flaky    |-> FlakyDetected]
  /\ UNCHANGED <<call, attempts, last, history, crashed>>

Next == FirstIsEnough \/ FirstFails \/ Retry \/ StopRetrying \/ Build

Spec == Init /\ [][Next]_vars

-----------------------------------------------------------------------------
(* Properties.                                                             *)

\* A blocking failure any attempt has reported is answered: exit code 0 means that
\* a later attempt reported on the test again and did not fail it.
NoFailureIsHidden ==
  pc = "done" /\ out.exitCode = 0 =>
    \A t \in Tests : \A i \in DOMAIN history[t] :
      IsBlockingFailure(history[t][i]) =>
        i < Len(history[t]) /\ ~IsBlockingFailure(LastOf(t))

\* Retries are spent before a test is given up: a test every attempt reported on,
\* and the last one failed, was attempted as often as the caller allows.
RetriesAreSpent ==
  pc = "done" =>
    \A t \in Tests :
      /\ Len(history[t]) = attempts
      /\ IsBlockingFailure(LastOf(t))
      => attempts = call.maxRetries + 1

\* A test is called passed only if it never failed, and every test called flaky by
\* a retry has failed and then passed.
FlakyIsEarned ==
  pc = "done" =>
    /\ \A t \in DOMAIN out.results : out.results[t].status = "passed" => ~HasFailure(t)
    /\ \A t \in out.flaky :
         /\ out.results[t].status = "flaky"
         /\ \E i, j \in DOMAIN history[t] :
              i < j /\ history[t][i].status = "failed" /\ history[t][j].status = "passed"

\* With retryFailedOnly, no test runs again whose latest result does not block: not
\* one that passed, and not one that may fail (retry.test.ts, "does not retry failed
\* tests covered by allow_failure").
OnlyFailuresAreRetried ==
  [][call.failedOnly =>
       \A t \in Tests : history[t] # <<>> /\ history'[t] # history[t] => IsBlockingFailure(LastOf(t))]_vars

\* A test with a skip entry never runs, whatever other entries match it.
SkippedNeverRuns ==
  \A t \in Tests : \A i \in DOMAIN history[t] :
    (\E e \in DOMAIN call.modes[t] : call.modes[t][e] = "skip") => history[t][i].status = "skipped"

\* "preserves the fallback exit code when the runner produced no results"
\* (quarantine-runtime.test.ts:154): a single attempt in which the runner failed
\* without a result does not exit with 0.
CrashIsReported == pc = "done" /\ crashed /\ attempts = 1 => out.exitCode # 0
=============================================================================
