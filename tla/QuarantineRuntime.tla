---------------------------- MODULE QuarantineRuntime ----------------------------
(***************************************************************************)
(* The runner behind the quarantine manifest (runners/quarantine-runtime.ts *)
(* and the MoonBit functions it calls): tests with a matching `skip' entry *)
(* are not executed, the results of the others carry the first entry that  *)
(* matches, and the exit code is computed again from the results.          *)
(*                                                                         *)
(* Operators only.  `modes' gives for each test the modes of the entries   *)
(* that match it, in manifest order.  A result is what is left of a        *)
(* TestCaseResult: its status, and the mode of its entry or "none".        *)
(***************************************************************************)
EXTENDS Naturals, Sequences

Statuses == {"passed", "failed", "skipped", "flaky"}
Modes    == {"skip", "allow_flaky", "allow_failure"}
Result   == [status : Statuses, mode : Modes \cup {"none"}]

NoResults == [t \in {} |-> [status |-> "passed", mode |-> "none"]]

\* What a test runner returns when asked for `tests': results for some of them
\* (all, unless it crashes or a test is not found), and its own exit code, which
\* is not 0 when a test failed.  The runners drop results nobody asked for.
RunnerOutcomes(tests, statuses) ==
  {o \in [exitCode : {0, 1},
          results  : UNION {[found -> [status : statuses, mode : {"none"}]] : found \in SUBSET tests}] :
     (\E t \in DOMAIN o.results : o.results[t].status = "failed") => o.exitCode = 1}

\* isBlockingFailure (mutated: whatever the manifest says).
IsFailure(result)         == result.status = "failed"
IsBlockingFailure(result) == result.status = "failed" /\ result.mode # "allow_failure"

\* compute_quarantine_exit_code
ComputeExitCode(results, fallback) ==
  IF \E t \in DOMAIN results : IsBlockingFailure(results[t]) THEN 1
  ELSE IF DOMAIN results = {} THEN fallback ELSE 0

\* findMatchingManifestEntry with modes = ["skip"].
Skipped(tests, modes)  == {t \in tests : \E i \in DOMAIN modes[t] : modes[t][i] = "skip"}
Runnable(tests, modes) == tests \ Skipped(tests, modes)

\* findMatchingManifestEntry
FirstMatch(entries) == IF entries = <<>> THEN "none" ELSE entries[1]

Annotated(results, modes) ==
  [t \in DOMAIN results |-> [results[t] EXCEPT !.mode = FirstMatch(modes[t])]]

\* withQuarantineRuntime(...).execute, when the runner returned `base' for the
\* runnable tests.
WithQuarantine(tests, modes, base) ==
  LET skipped   == Skipped(tests, modes)
      annotated == Annotated(base.results, modes)
      results   == [t \in skipped \cup DOMAIN annotated |->
                      IF t \in skipped THEN [status |-> "skipped", mode |-> "skip"] ELSE annotated[t]]
  IN [exitCode |-> ComputeExitCode(results, base.exitCode), results |-> results]

\* What the runner may return for `tests' through the wrapper: it is not asked when
\* there is nothing to run.
BaseOutcomes(tests, modes, statuses) ==
  IF Runnable(tests, modes) = {}
  THEN {[exitCode |-> 0, results |-> NoResults]}
  ELSE RunnerOutcomes(Runnable(tests, modes), statuses)
=============================================================================
