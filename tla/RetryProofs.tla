------------------------------- MODULE RetryProofs -------------------------------
(***************************************************************************)
(* Proofs about Retry, for every set of tests, every manifest and every    *)
(* number of retries.                                                      *)
(***************************************************************************)
EXTENDS Retry, TLAPS

-----------------------------------------------------------------------------
(* What one execution returns.                                             *)

\* The runner reports on tests it was asked for, with statuses it has, and exits
\* with 1 if one of them failed.
LEMMA RunnerFacts ==
  ASSUME NEW tests, NEW base \in RunnerOutcomes(tests, RunnerStatuses)
  PROVE  /\ base.exitCode \in {0, 1}
         /\ base.results \in UNION {[found -> [status : RunnerStatuses, mode : {"none"}]] : found \in SUBSET tests}
         /\ DOMAIN base.results \subseteq tests
         /\ \A t \in DOMAIN base.results : base.results[t] \in [status : RunnerStatuses, mode : {"none"}]
         /\ base.exitCode = 0 => \A t \in DOMAIN base.results : base.results[t].status # "failed"
  <1>1. base \in [exitCode : {0, 1},
                  results  : UNION {[found -> [status : RunnerStatuses, mode : {"none"}]] : found \in SUBSET tests}]
    BY DEF RunnerOutcomes
  <1>2. (\E t \in DOMAIN base.results : base.results[t].status = "failed") => base.exitCode = 1
    BY DEF RunnerOutcomes
  <1>3. PICK found \in SUBSET tests :
          base.results \in [found -> [status : RunnerStatuses, mode : {"none"}]]
    BY <1>1
  <1> QED  BY <1>1, <1>2, <1>3

\* Through the manifest or not, an execution reports on tests it was asked for, with
\* well-formed results.
LEMMA ExecutedType ==
  ASSUME RetryAssumption, call \in Call,
         NEW tests \in SUBSET Tests, NEW base \in Outcomes(tests)
  PROVE  /\ Executed(tests, base).results \in ResultsOf(tests)
         /\ DOMAIN Executed(tests, base).results \subseteq tests
         /\ \A t \in DOMAIN Executed(tests, base).results : Executed(tests, base).results[t] \in Result
         /\ Executed(tests, base).exitCode \in {0, 1}
  <1>1. CASE ~call.quarantine
    <2>1. base \in RunnerOutcomes(tests, RunnerStatuses) /\ Executed(tests, base) = base
      BY <1>1 DEF Outcomes, Executed
    <2>2. /\ DOMAIN base.results \subseteq tests /\ base.exitCode \in {0, 1}
          /\ \A t \in DOMAIN base.results : base.results[t] \in [status : RunnerStatuses, mode : {"none"}]
          /\ base.results \in UNION {[found -> [status : RunnerStatuses, mode : {"none"}]] : found \in SUBSET tests}
      BY <2>1, RunnerFacts
    <2>3. \A r \in [status : RunnerStatuses, mode : {"none"}] : r \in Result
      BY DEF Result, RetryAssumption
    <2>4. base.results = [t \in DOMAIN base.results |-> base.results[t]]
      BY <2>2
    <2>5. base.results \in [DOMAIN base.results -> Result]
      BY <2>2, <2>3, <2>4
    <2> QED  BY <2>1, <2>2, <2>3, <2>5 DEF ResultsOf
  <1>2. CASE call.quarantine
    <2> DEFINE skipped   == Skipped(tests, call.modes)
               annotated == Annotated(base.results, call.modes)
               results   == [t \in skipped \cup DOMAIN annotated |->
                               IF t \in skipped THEN [status |-> "skipped", mode |-> "skip"] ELSE annotated[t]]
    <2>1. /\ Executed(tests, base) = [exitCode |-> ComputeExitCode(results, base.exitCode), results |-> results]
      BY <1>2 DEF Executed, WithQuarantine
    <2>2. /\ DOMAIN base.results \subseteq tests /\ base.exitCode \in {0, 1}
          /\ \A t \in DOMAIN base.results : base.results[t] \in [status : RunnerStatuses, mode : {"none"}]
      <3>1. CASE Runnable(tests, call.modes) = {}
        BY <1>2, <3>1 DEF Outcomes, BaseOutcomes, NoResults
      <3>2. CASE Runnable(tests, call.modes) # {}
        <4>1. base \in RunnerOutcomes(Runnable(tests, call.modes), RunnerStatuses)
          BY <1>2, <3>2 DEF Outcomes, BaseOutcomes
        <4> QED  BY <4>1, RunnerFacts DEF Runnable
      <3> QED  BY <3>1, <3>2
    <2>3. \A t \in Tests : FirstMatch(call.modes[t]) \in Modes \cup {"none"}
      BY DEF Call, RetryAssumption, FirstMatch
    <2>4. /\ DOMAIN annotated = DOMAIN base.results
          /\ \A t \in DOMAIN annotated : annotated[t] \in Result
      BY <2>2, <2>3 DEF Annotated, Result, RetryAssumption
    <2>5. skipped \subseteq tests
      BY DEF Skipped
    <2>6. [status |-> "skipped", mode |-> "skip"] \in Result
      BY DEF Result, Statuses, Modes
    <2> HIDE DEF skipped, annotated
    <2>7. results \in [skipped \cup DOMAIN annotated -> Result] /\ skipped \cup DOMAIN annotated \in SUBSET tests
      BY <2>2, <2>4, <2>5, <2>6
    <2>8. results \in ResultsOf(tests)
      BY <2>7 DEF ResultsOf
    <2>9. ComputeExitCode(results, base.exitCode) \in {0, 1}
      BY <2>2 DEF ComputeExitCode
    <2> HIDE DEF results
    <2> QED  BY <2>1, <2>7, <2>8, <2>9
  <1> QED  BY <1>1, <1>2

\* Exit code 0 means that nothing that was reported blocks.
LEMMA ZeroMeansNoFailure ==
  ASSUME call \in Call, NEW tests \in SUBSET Tests, NEW base \in Outcomes(tests),
         Executed(tests, base).exitCode = 0
  PROVE  \A t \in DOMAIN Executed(tests, base).results :
           ~IsBlockingFailure(Executed(tests, base).results[t])
  <1>1. CASE ~call.quarantine
    <2>1. base \in RunnerOutcomes(tests, RunnerStatuses) /\ Executed(tests, base) = base
      BY <1>1 DEF Outcomes, Executed
    <2> QED  BY <2>1, RunnerFacts DEF IsBlockingFailure
  <1>2. CASE call.quarantine
    <2>1. PICK results : Executed(tests, base) =
            [exitCode |-> ComputeExitCode(results, base.exitCode), results |-> results]
      BY <1>2 DEF Executed, WithQuarantine
    <2> QED  BY <2>1 DEF ComputeExitCode
  <1> QED  BY <1>1, <1>2

\* A test with a skip entry is only ever reported as skipped.
LEMMA SkipFacts ==
  ASSUME call.quarantine, NEW tests, NEW base, NEW t \in tests, NEW e \in DOMAIN call.modes[t],
         call.modes[t][e] = "skip", t \in DOMAIN Executed(tests, base).results
  PROVE  Executed(tests, base).results[t].status = "skipped"
  <1>1. t \in Skipped(tests, call.modes)
    BY DEF Skipped
  <1> QED  BY <1>1 DEF Executed, WithQuarantine

-----------------------------------------------------------------------------
(* The inductive invariant.                                                *)

\* Only tests that were asked for have a history, and it ends with what the last
\* attempt reported; who has one result per attempt is in the last attempt's.
HistoryInv ==
  /\ \A t \in Tests : history[t] # <<>> => t \in call.tests
  /\ \A t \in Tests : Len(history[t]) <= attempts
  /\ \A t \in DOMAIN last : history[t] # <<>> /\ LastOf(t) = last[t]
  /\ \A t \in Tests : Len(history[t]) = attempts /\ attempts > 0 => t \in DOMAIN last

\* The wrapper is there when it has something to do, and a test to skip has only
\* been skipped.
SkipInv ==
  /\ (\E t \in Tests : call.modes[t] # <<>>) => call.quarantine
  /\ SkippedNeverRuns

\* Where the attempts stand.  The loop is left with nothing to retry or nothing to
\* retry with.
ProgressInv ==
  /\ pc = "first" => attempts = 0
  /\ pc # "first" => attempts > 0
  /\ pc = "build" =>
       attempts = call.maxRetries + 1 \/ \A t \in DOMAIN last : ~IsBlockingFailure(last[t])

Inv ==
  /\ TypeOK /\ HistoryInv /\ SkipInv /\ ProgressInv
  /\ NoFailureIsHidden /\ RetriesAreSpent /\ FlakyIsEarned

\* What Append does to a sequence.
LEMMA AppendFacts ==
  ASSUME NEW S, NEW h \in Seq(S), NEW r \in S
  PROVE  /\ Append(h, r) \in Seq(S) /\ Append(h, r) # <<>>
         /\ Len(Append(h, r)) = Len(h) + 1 /\ DOMAIN Append(h, r) = 1 .. Len(h) + 1
         /\ Append(h, r)[Len(Append(h, r))] = r
         /\ \A i \in 1 .. Len(h) : Append(h, r)[i] = h[i]
  <1>1. /\ Append(h, r) \in Seq(S)
        /\ Len(Append(h, r)) = Len(h) + 1 /\ Len(h) \in Nat
        /\ Append(h, r)[Len(h) + 1] = r
        /\ \A i \in 1 .. Len(h) : Append(h, r)[i] = h[i]
    OBVIOUS
  <1> QED  BY <1>1

\* One attempt keeps what the invariant says of histories.
LEMMA AttemptFacts ==
  ASSUME RetryAssumption, TypeOK, HistoryInv, SkipInv,
         NEW tests \in SUBSET call.tests, NEW base \in Outcomes(tests), Attempt(tests, base)
  PROVE  /\ last' = Executed(tests, base).results
         /\ DOMAIN last' \subseteq tests
         /\ last' \in ResultsOf(call.tests)
         /\ history' \in [Tests -> Seq(Result)]
         /\ \A t \in Tests : t \notin DOMAIN last' => history'[t] = history[t]
         /\ \A t \in DOMAIN last' : history'[t] = Append(history[t], last'[t]) /\ last'[t] \in Result
         /\ HistoryInv'
         /\ SkipInv'
  <1> DEFINE e == Executed(tests, base)
  <1>1. call \in Call /\ call.tests \in SUBSET Tests /\ tests \in SUBSET Tests
    BY DEF TypeOK, Call
  <1>2. /\ e.results \in ResultsOf(tests) /\ DOMAIN e.results \subseteq tests
        /\ \A t \in DOMAIN e.results : e.results[t] \in Result
    BY <1>1, ExecutedType
  <1>3. /\ last' = e.results /\ attempts' = attempts + 1 /\ call' = call
        /\ history' = [t \in Tests |-> IF t \in DOMAIN e.results THEN Append(history[t], e.results[t]) ELSE history[t]]
    BY DEF Attempt, Merged
  <1> HIDE DEF e
  <1>4. last' \in ResultsOf(call.tests)
    <2>1. last' \in [DOMAIN last' -> Result] /\ DOMAIN last' \in SUBSET call.tests
      BY <1>2, <1>3 DEF ResultsOf
    <2> QED  BY <2>1 DEF ResultsOf
  <1>5. history \in [Tests -> Seq(Result)] /\ attempts \in Nat
    BY <1>1 DEF TypeOK, Call, RetryAssumption
  <1>6. \A t \in Tests : t \notin DOMAIN last' => history'[t] = history[t]
    BY <1>3, <1>5
  <1>7. \A t \in DOMAIN last' :
          /\ history'[t] = Append(history[t], last'[t]) /\ last'[t] \in Result
          /\ history'[t] \in Seq(Result) /\ Len(history'[t]) = Len(history[t]) + 1
          /\ history'[t] # <<>> /\ DOMAIN history'[t] = 1 .. Len(history[t]) + 1
          /\ history'[t][Len(history'[t])] = last'[t]
          /\ \A i \in 1 .. Len(history[t]) : history'[t][i] = history[t][i]
    <2> TAKE t \in DOMAIN last'
    <2>1. t \in Tests /\ last'[t] \in Result /\ history[t] \in Seq(Result)
      BY <1>1, <1>2, <1>3, <1>5
    <2>2. history'[t] = Append(history[t], last'[t])
      BY <1>3, <2>1
    <2> QED  BY <2>1, <2>2, AppendFacts
  <1>8. history' \in [Tests -> Seq(Result)]
    BY <1>3, <1>5, <1>6, <1>7
  <1>9. HistoryInv'
    <2>1. \A t \in Tests : history'[t] # <<>> => t \in call'.tests
      BY <1>2, <1>3, <1>6 DEF HistoryInv
    <2>2. \A t \in Tests : Len(history'[t]) <= attempts'
      BY <1>3, <1>5, <1>6, <1>7 DEF HistoryInv
    <2>3. \A t \in DOMAIN last' : history'[t] # <<>> /\ history'[t][Len(history'[t])] = last'[t]
      BY <1>7
    <2>4. \A t \in Tests : Len(history'[t]) = attempts' /\ attempts' > 0 => t \in DOMAIN last'
      BY <1>3, <1>5, <1>6 DEF HistoryInv
    <2> QED  BY <2>1, <2>2, <2>3, <2>4 DEF HistoryInv, LastOf
  <1>10. SkipInv'
    <2>1. ASSUME NEW t \in Tests, NEW i \in DOMAIN history'[t],
                 NEW entry \in DOMAIN call.modes[t], call.modes[t][entry] = "skip"
          PROVE  history'[t][i].status = "skipped"
      <3>1. CASE t \notin DOMAIN last'
        BY <3>1, <1>6, <2>1 DEF SkipInv, SkippedNeverRuns
      <3>2. CASE t \in DOMAIN last' /\ i <= Len(history[t])
        <4>1. i \in DOMAIN history[t] /\ history'[t][i] = history[t][i]
          BY <3>2, <1>5, <1>7, <2>1
        <4> QED  BY <4>1, <2>1 DEF SkipInv, SkippedNeverRuns
      <3>3. CASE t \in DOMAIN last' /\ ~(i <= Len(history[t]))
        <4>1. history'[t][i] = last'[t]
          <5>1. DOMAIN history'[t] = 1 .. Len(history[t]) + 1
            BY <3>3, <1>5, <1>7
          <5>2. i = Len(history'[t])
            BY <5>1, <3>3, <1>5, <1>7
          <5> QED  BY <5>2, <3>3, <1>7
        <4>2. call.modes[t] # <<>>
          BY <2>1
        <4>3. call.quarantine
          BY <4>2, <2>1 DEF SkipInv
        <4>4. last'[t].status = "skipped"
          BY <4>3, <3>3, <2>1, <1>2, <1>3, SkipFacts DEF e
        <4> QED  BY <4>1, <4>4
      <3> QED  BY <3>1, <3>2, <3>3
    <2> QED  BY <2>1, <1>3 DEF SkipInv, SkippedNeverRuns
  <1> QED  BY <1>2, <1>3, <1>4, <1>6, <1>7, <1>8, <1>9, <1>10 DEF e

-----------------------------------------------------------------------------
LEMMA InitInv == RetryAssumption /\ Init => Inv
  <1> SUFFICES ASSUME RetryAssumption, Init PROVE Inv
    OBVIOUS
  <1>1. NoResults \in ResultsOf(call.tests)
    <2>1. NoResults \in [{} -> Result] /\ {} \in SUBSET call.tests
      BY DEF NoResults
    <2> QED  BY <2>1 DEF ResultsOf
  <1>2. TypeOK
    <2>1. call \in Call /\ attempts \in 0 .. call.maxRetries + 1
      BY DEF Init, Call, RetryAssumption
    <2>2. history \in [Tests -> Seq(Result)]
      BY DEF Init
    <2>3. out \in [exitCode : {0, 1}, results : ResultsOf(call.tests), flaky : SUBSET call.tests]
      BY <1>1 DEF Init, NoOut
    <2> QED  BY <1>1, <2>1, <2>2, <2>3 DEF TypeOK, Init
  <1>3. HistoryInv /\ SkipInv /\ ProgressInv
    BY DEF Init, HistoryInv, SkipInv, SkippedNeverRuns, ProgressInv, NoResults
  <1>4. NoFailureIsHidden /\ RetriesAreSpent /\ FlakyIsEarned
    BY DEF Init, NoFailureIsHidden, RetriesAreSpent, FlakyIsEarned
  <1> QED  BY <1>2, <1>3, <1>4 DEF Inv

\* The first attempt, when it is the answer: every history has at most one result.
LEMMA FirstIsEnoughInv == RetryAssumption /\ Inv /\ FirstIsEnough => Inv'
  <1> SUFFICES ASSUME RetryAssumption, Inv, FirstIsEnough PROVE Inv'
    OBVIOUS
  <1> USE DEF Inv
  <1>1. PICK base \in Outcomes(call.tests) :
          /\ Executed(call.tests, base).exitCode = 0 \/ call.maxRetries <= 0
          /\ Attempt(call.tests, base)
          /\ out' = [exitCode |-> Executed(call.tests, base).exitCode,
                     results  |-> Executed(call.tests, base).results, flaky |-> {}]
    BY DEF FirstIsEnough
  <1> DEFINE e == Executed(call.tests, base)
  <1>2. /\ last' = e.results /\ DOMAIN last' \subseteq call.tests
        /\ last' \in ResultsOf(call.tests) /\ history' \in [Tests -> Seq(Result)]
        /\ \A t \in Tests : t \notin DOMAIN last' => history'[t] = history[t]
        /\ \A t \in DOMAIN last' : history'[t] = Append(history[t], last'[t]) /\ last'[t] \in Result
        /\ HistoryInv' /\ SkipInv'
    BY <1>1, AttemptFacts
  <1>3. /\ pc = "first" /\ pc' = "done" /\ attempts = 0 /\ attempts' = 1 /\ call' = call
        /\ crashed' \in BOOLEAN /\ call \in Call /\ call.tests \in SUBSET Tests
    BY <1>1 DEF FirstIsEnough, Attempt, ProgressInv, TypeOK, Call
  <1>4. e.exitCode \in {0, 1}
    BY <1>1, <1>3, ExecutedType
  <1>5. TypeOK'
    <2>1. out' \in [exitCode : {0, 1}, results : ResultsOf(call.tests), flaky : SUBSET call.tests]
      BY <1>1, <1>2, <1>4
    <2>2. attempts' \in 0 .. call.maxRetries + 1
      BY <1>3 DEF Call, RetryAssumption
    <2> HIDE DEF e
    <2> QED  BY <1>2, <1>3, <2>1, <2>2 DEF TypeOK, ResultsOf
  <1>6. \A t \in Tests : history[t] = <<>>
    <2>1. \A t \in Tests : history[t] \in Seq(Result) /\ Len(history[t]) <= 0
      BY <1>3 DEF TypeOK, HistoryInv
    <2> QED  BY <2>1
  <1>7. \A t \in Tests : \/ t \notin DOMAIN last' /\ history'[t] = <<>>
                         \/ t \in DOMAIN last' /\ history'[t] = <<last'[t]>>
    BY <1>2, <1>6
  <1>8. NoFailureIsHidden'
    <2> SUFFICES ASSUME out'.exitCode = 0,
                        NEW t \in Tests, NEW i \in DOMAIN history'[t], IsBlockingFailure(history'[t][i])
                 PROVE  FALSE
      BY <1>3 DEF NoFailureIsHidden, IsBlockingFailure
    <2>1. t \in DOMAIN last' /\ history'[t][i] = last'[t]
      BY <1>7
    <2>2. e.exitCode = 0
      BY <1>1
    <2> QED  BY <1>1, <1>2, <1>3, <2>1, <2>2, ZeroMeansNoFailure
  <1>9. RetriesAreSpent'
    <2> SUFFICES ASSUME NEW t \in Tests, Len(history'[t]) = attempts',
                        IsBlockingFailure(history'[t][Len(history'[t])])
                 PROVE  attempts' = call'.maxRetries + 1
      BY DEF RetriesAreSpent, LastOf, IsBlockingFailure
    <2>1. t \in DOMAIN last' /\ IsBlockingFailure(last'[t])
      BY <1>3, <1>7
    <2>2. e.exitCode # 0
      BY <1>1, <1>2, <1>3, <2>1, ZeroMeansNoFailure
    <2>3. call.maxRetries \in Nat /\ call.maxRetries <= 0
      BY <1>1, <1>3, <2>2 DEF Call, RetryAssumption
    <2> QED  BY <1>3, <2>3
  <1>10. FlakyIsEarned'
    BY <1>1, <1>2, <1>3, <1>7 DEF FlakyIsEarned, HasFailure
  <1>11. ProgressInv'
    BY <1>3 DEF ProgressInv
  <1> QED  BY <1>2, <1>5, <1>8, <1>9, <1>10, <1>11

\* An attempt that is not the answer.
LEMMA AttemptInv ==
  ASSUME RetryAssumption, Inv, NEW tests \in SUBSET call.tests, NEW base \in Outcomes(tests),
         Attempt(tests, base), UNCHANGED out, attempts <= call.maxRetries,
         \/ pc' = "loop"
         \/ pc' = "build" /\ Executed(tests, base).exitCode = 0
  PROVE  Inv'
  <1> USE DEF Inv
  <1>1. /\ last' = Executed(tests, base).results
        /\ last' \in ResultsOf(call.tests) /\ history' \in [Tests -> Seq(Result)]
        /\ HistoryInv' /\ SkipInv'
    BY AttemptFacts
  <1>2. /\ attempts' = attempts + 1 /\ call' = call /\ crashed' \in BOOLEAN
        /\ attempts \in Nat /\ call.maxRetries \in Nat /\ call \in Call /\ tests \in SUBSET Tests
    BY DEF Attempt, TypeOK, Call, RetryAssumption
  <1>3. TypeOK'
    BY <1>1, <1>2 DEF TypeOK, ResultsOf
  <1>4. ProgressInv'
    BY <1>1, <1>2, ZeroMeansNoFailure DEF ProgressInv
  <1>5. NoFailureIsHidden' /\ RetriesAreSpent' /\ FlakyIsEarned'
    BY DEF NoFailureIsHidden, RetriesAreSpent, FlakyIsEarned
  <1> QED  BY <1>1, <1>3, <1>4, <1>5

LEMMA StopRetryingInv == RetryAssumption /\ Inv /\ StopRetrying => Inv'
  <1> SUFFICES ASSUME RetryAssumption, Inv, StopRetrying PROVE Inv'
    OBVIOUS
  <1> USE DEF Inv
  <1>1. /\ UNCHANGED <<call, attempts, last, history, out, crashed>> /\ pc = "loop" /\ pc' = "build"
        /\ ~RetriesLeft \/ RetryTargets = {}
    BY DEF StopRetrying
  <1>2. TypeOK'
    BY <1>1 DEF TypeOK, ResultsOf
  <1>3. HistoryInv' /\ SkipInv'
    BY <1>1 DEF HistoryInv, SkipInv, SkippedNeverRuns, LastOf
  <1>4. ProgressInv'
    <2>1. attempts > 0
      BY <1>1 DEF ProgressInv
    <2>2. CASE ~RetriesLeft
      <3>1. attempts = call.maxRetries + 1
        BY <2>2 DEF RetriesLeft, TypeOK, Call, RetryAssumption
      <3> QED  BY <1>1, <2>1, <3>1 DEF ProgressInv
    <2>3. CASE RetryTargets = {}
      <3>1. DOMAIN last \subseteq call.tests
        BY DEF TypeOK, ResultsOf
      <3>2. \A t \in DOMAIN last : ~IsBlockingFailure(last[t])
        BY <2>3, <3>1 DEF RetryTargets, TestsToRetry
      <3> QED  BY <1>1, <2>1, <3>2 DEF ProgressInv
    <2> QED  BY <1>1, <2>2, <2>3
  <1>5. NoFailureIsHidden' /\ RetriesAreSpent' /\ FlakyIsEarned'
    BY <1>1 DEF NoFailureIsHidden, RetriesAreSpent, FlakyIsEarned
  <1> QED  BY <1>2, <1>3, <1>4, <1>5

LEMMA BuildInv == RetryAssumption /\ Inv /\ Build => Inv'
  <1> SUFFICES ASSUME RetryAssumption, Inv, Build PROVE Inv'
    OBVIOUS
  <1> USE DEF Inv
  <1>1. /\ UNCHANGED <<call, attempts, last, history, crashed>> /\ pc = "build" /\ pc' = "done"
        /\ out' = [exitCode |-> IF \E t \in DOMAIN FinalResults : IsBlockingFailure(FinalResults[t]) THEN 1 ELSE 0,
                   results  |-> FinalResults, flaky |-> FlakyDetected]
    BY DEF Build
  <1>2. \A t \in Reported :
          /\ t \in call.tests /\ t \in Tests
          /\ history[t] \in Seq(Result) /\ Len(history[t]) \in DOMAIN history[t] /\ LastOf(t) \in Result
    <2> TAKE t \in Reported
    <2>1. t \in Tests /\ history[t] \in Seq(Result) /\ history[t] # <<>>
      BY DEF Reported, TypeOK
    <2>2. t \in call.tests
      BY <2>1 DEF HistoryInv
    <2> QED  BY <2>1, <2>2 DEF LastOf
  <1>3. \A t \in Reported :
          /\ t \in FlakyDetected => FinalResults[t] = [LastOf(t) EXCEPT !.status = "flaky"]
          /\ t \notin FlakyDetected => FinalResults[t] = LastOf(t)
    BY DEF FinalResults
  <1>4. DOMAIN FinalResults = Reported /\ FlakyDetected \subseteq Reported
    BY DEF FinalResults, FlakyDetected
  <1>5. \A t \in Reported : FinalResults[t] \in Result
    <2>1. \A r \in Result : [r EXCEPT !.status = "flaky"] \in Result
      BY DEF Result, Statuses
    <2> QED  BY <1>2, <1>3, <2>1
  <1>6. TypeOK'
    <2>1. FinalResults = [t \in Reported |-> FinalResults[t]]
      BY DEF FinalResults
    <2>2. FinalResults \in [Reported -> Result] /\ Reported \in SUBSET call.tests
      BY <1>2, <1>5, <2>1
    <2>3. FinalResults \in ResultsOf(call.tests)
      BY <2>2 DEF ResultsOf
    <2>4. out' \in [exitCode : {0, 1}, results : ResultsOf(call.tests), flaky : SUBSET call.tests]
      BY <1>1, <1>2, <1>4, <2>3
    <2> QED  BY <1>1, <2>4 DEF TypeOK, ResultsOf
  <1>7. HistoryInv' /\ SkipInv'
    BY <1>1 DEF HistoryInv, SkipInv, SkippedNeverRuns, LastOf
  <1>8. ProgressInv'
    BY <1>1 DEF ProgressInv
  <1>9. NoFailureIsHidden'
    <2> SUFFICES ASSUME out'.exitCode = 0,
                        NEW t \in Tests, NEW i \in DOMAIN history[t], IsBlockingFailure(history[t][i])
                 PROVE  i < Len(history[t]) /\ ~IsBlockingFailure(LastOf(t))
      BY <1>1 DEF NoFailureIsHidden, LastOf, IsBlockingFailure
    <2>1. t \in Reported
      BY <1>1 DEF Reported, TypeOK
    <2>2. ~IsBlockingFailure(FinalResults[t])
      BY <1>1, <1>4, <2>1
    <2>3. ~IsBlockingFailure(LastOf(t))
      BY <1>3, <2>1, <2>2 DEF FlakyDetected, IsBlockingFailure
    <2>4. i # Len(history[t])
      BY <2>3 DEF LastOf
    <2>5. i \in 1 .. Len(history[t]) /\ Len(history[t]) \in Nat
      BY <1>2, <2>1
    <2> QED  BY <2>3, <2>4, <2>5
  <1>10. RetriesAreSpent'
    <2> SUFFICES ASSUME NEW t \in Tests, Len(history[t]) = attempts, IsBlockingFailure(LastOf(t))
                 PROVE  attempts = call.maxRetries + 1
      BY <1>1 DEF RetriesAreSpent, LastOf, IsBlockingFailure
    <2>1. t \in DOMAIN last /\ IsBlockingFailure(last[t])
      BY <1>1 DEF HistoryInv, ProgressInv
    <2> QED  BY <1>1, <2>1 DEF ProgressInv
  <1>11. FlakyIsEarned'
    <2>1. ASSUME NEW t \in Reported, FinalResults[t].status = "passed"
          PROVE  ~HasFailure(t)
      <3>1. t \notin FlakyDetected
        BY <1>2, <1>3, <2>1 DEF Result
      <3> QED  BY <1>3, <2>1, <3>1 DEF FlakyDetected
    <2>2. ASSUME NEW t \in FlakyDetected
          PROVE  /\ FinalResults[t].status = "flaky"
                 /\ \E i, j \in DOMAIN history[t] :
                      i < j /\ history[t][i].status = "failed" /\ history[t][j].status = "passed"
      <3>1. FinalResults[t].status = "flaky"
        BY <1>2, <1>3, <1>4 DEF Result
      <3>2. PICK i \in DOMAIN history[t] : history[t][i].status = "failed"
        BY DEF FlakyDetected, HasFailure
      <3>3. history[t][Len(history[t])].status = "passed"
        BY DEF FlakyDetected, LastOf
      <3>4. i < Len(history[t])
        <4>1. i \in 1 .. Len(history[t]) /\ Len(history[t]) \in Nat
          BY <1>2, <1>4
        <4>2. i # Len(history[t])
          BY <3>2, <3>3
        <4> QED  BY <4>1, <4>2
      <3>5. Len(history[t]) \in DOMAIN history[t]
        BY <1>2, <1>4
      <3> QED  BY <3>1, <3>2, <3>3, <3>4, <3>5
    <2> QED  BY <1>1, <1>4, <2>1, <2>2 DEF FlakyIsEarned, HasFailure
  <1> QED  BY <1>6, <1>7, <1>8, <1>9, <1>10, <1>11

LEMMA NextInv == RetryAssumption /\ Inv /\ [Next]_vars => Inv'
  <1> SUFFICES ASSUME RetryAssumption, Inv, [Next]_vars PROVE Inv'
    OBVIOUS
  <1>1. CASE FirstIsEnough
    BY <1>1, FirstIsEnoughInv
  <1>2. CASE FirstFails
    <2>1. PICK base \in Outcomes(call.tests) :
            /\ Attempt(call.tests, base) /\ call.maxRetries > 0
            /\ pc = "first" /\ pc' = "loop" /\ UNCHANGED out
      BY <1>2 DEF FirstFails
    <2>2. attempts <= call.maxRetries
      BY <2>1 DEF Inv, ProgressInv, TypeOK, Call, RetryAssumption
    <2> QED  BY <2>1, <2>2, AttemptInv
  <1>3. CASE Retry
    <2>1. PICK base \in Outcomes(RetryTargets) :
            /\ Attempt(RetryTargets, base) /\ attempts <= call.maxRetries /\ UNCHANGED out
            /\ pc' = IF Executed(RetryTargets, base).exitCode = 0 THEN "build" ELSE "loop"
      BY <1>3 DEF Retry, RetriesLeft
    <2>2. RetryTargets \in SUBSET call.tests
      BY DEF Inv, TypeOK, ResultsOf, RetryTargets, TestsToRetry
    <2> QED  BY <2>1, <2>2, AttemptInv
  <1>4. CASE StopRetrying
    BY <1>4, StopRetryingInv
  <1>5. CASE Build
    BY <1>5, BuildInv
  <1>6. CASE UNCHANGED vars
    BY <1>6 DEF vars, Inv, TypeOK, ResultsOf, HistoryInv, SkipInv, SkippedNeverRuns, ProgressInv,
                NoFailureIsHidden, RetriesAreSpent, FlakyIsEarned, LastOf, HasFailure
  <1> QED  BY <1>1, <1>2, <1>3, <1>4, <1>5, <1>6 DEF Next

-----------------------------------------------------------------------------
(* The theorems.                                                           *)

\* The inductive invariant is an invariant (retry.ts:17-133).
THEOREM Invariant == Spec => []Inv
  <1>1. Init => Inv
    BY InitInv, RetryAssumption
  <1>2. Inv /\ [Next]_vars => Inv'
    BY NextInv, RetryAssumption
  <1> QED  BY <1>1, <1>2, PTL DEF Spec

\* Every variable keeps its type, and attempts their bound (retry.ts:48).
THEOREM TypeCorrect == Spec => []TypeOK
  <1>1. Inv => TypeOK
    BY DEF Inv
  <1> QED  BY <1>1, Invariant, PTL

\* Exit code 0 hides no failure, whatever the runner leaves out of a retry
\* (retry.ts:93-121).
THEOREM NoneHidden == Spec => []NoFailureIsHidden
  <1>1. Inv => NoFailureIsHidden
    BY DEF Inv
  <1> QED  BY <1>1, Invariant, PTL

\* No retry is saved on a test that every attempt has reported on (retry.ts:48-90).
THEOREM AllSpent == Spec => []RetriesAreSpent
  <1>1. Inv => RetriesAreSpent
    BY DEF Inv
  <1> QED  BY <1>1, Invariant, PTL

\* Flaky and passed are what the histories say (retry.ts:96-117).
THEOREM FlakyEarned == Spec => []FlakyIsEarned
  <1>1. Inv => FlakyIsEarned
    BY DEF Inv
  <1> QED  BY <1>1, Invariant, PTL

\* A skip entry wins over every other entry (quarantine-runtime.ts:212-221).
THEOREM SkipsStay == Spec => []SkippedNeverRuns
  <1>1. Inv => SkippedNeverRuns
    BY DEF Inv, SkipInv
  <1> QED  BY <1>1, Invariant, PTL

\* What does not block is not run again (retry.ts:50-69).
THEOREM OnlyFailures == Spec => OnlyFailuresAreRetried
  <1> DEFINE A == call.failedOnly =>
                    \A t \in Tests : history[t] # <<>> /\ history'[t] # history[t] => IsBlockingFailure(LastOf(t))
  <1>1. Inv /\ [Next]_vars => [A]_vars
    <2> SUFFICES ASSUME Inv, Next, call.failedOnly, NEW t \in Tests,
                        history[t] # <<>>, history'[t] # history[t]
                 PROVE  IsBlockingFailure(LastOf(t))
      OBVIOUS
    <2> USE DEF Inv
    <2>1. pc # "first"
      <3>1. history[t] \in Seq(Result) /\ Len(history[t]) > 0 /\ attempts \in Nat /\ Len(history[t]) <= attempts
        BY RetryAssumption DEF TypeOK, HistoryInv, Call
      <3> QED  BY <3>1 DEF ProgressInv
    <2>2. Retry
      BY <2>1 DEF Next, FirstIsEnough, FirstFails, StopRetrying, Build
    <2>3. PICK base \in Outcomes(RetryTargets) : Attempt(RetryTargets, base)
      BY <2>2 DEF Retry
    <2>4. RetryTargets \in SUBSET call.tests
      BY DEF TypeOK, ResultsOf, RetryTargets, TestsToRetry
    <2>5. t \in RetryTargets
      BY <2>3, <2>4, AttemptFacts, RetryAssumption
    <2> QED  BY <2>5 DEF RetryTargets, TestsToRetry, HistoryInv
  <1> QED  BY <1>1, Invariant, PTL DEF Spec, OnlyFailuresAreRetried
=============================================================================
