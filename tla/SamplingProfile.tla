------------------------------ MODULE SamplingProfile ------------------------------
(***************************************************************************)
(* What `flaker calibrate' makes of the stored history                     *)
(* (commands/collect/calibrate.ts): the profile of the project, the        *)
(* sampling that it recommends and its report; and the boosts that         *)
(* co-failures give to the tests of a sample (storage/duckdb.ts).          *)
(*                                                                         *)
(* Strengths are in hundredths of a percent, in the profile in percent.    *)
(***************************************************************************)
EXTENDS HealthReports

CONSTANTS
  HasResolver,     \* [affected].resolver is set and not "none"
  ChangesNeeded,   \* minChanges ?? 3
  CoRunsNeeded,    \* minCoRuns ?? 3
  ProjectSizes     \* the numbers of tests at which the sample shrinks, <<100, 500>>

ASSUME SamplingProfileAssumption ==
  /\ HasResolver \in BOOLEAN
  /\ ChangesNeeded \in Nat \ {0} /\ CoRunsNeeded \in Nat \ {0}
  /\ ProjectSizes \in [1 .. 2 -> Nat]

-----------------------------------------------------------------------------
(* The profile.                                                            *)

Total(f) ==
  LET sum[S \in SUBSET DOMAIN f] ==
        IF S = {} THEN 0 ELSE LET x == CHOOSE y \in S : TRUE IN f[x] + sum[S \ {x}]
  IN sum[DOMAIN f]

\* coFailureStrength: the mean of the pairs that enough commits are behind; none: Null.
CoFailureStrength(h, days, now) ==
  LET pairs    == {p \in CoFailuresWindow(h, days, now) : p.changes >= ChangesNeeded}
      strength == [p \in pairs |-> Rounded(10000 * p.coFailures, p.changes)]
  IN IF pairs = {} THEN Null ELSE Rounded(Total(strength), 100 * Cardinality(pairs))

\* analyzeProject: tests and their health from CI alone, commits from every source.
AnalyzeProject(h, days, now) ==
  LET ci     == {r \in Recent(h, days, now) : r.source = "ci"}
      health == TestHealth(FlakyRows(ci))
      rate(n) == Known(Rate(n, health.classified), 0)
      commits == HistoryCommits(h, days, now)
  IN [testCount     |-> Count(TestsOf(ci)),
      flakyRate     |-> rate(health.failing),
      trueFlakyRate |-> rate(health.flaky),
      broken        |-> health.broken,
      intermittent  |-> health.flaky,
      hasCoFailures |-> Changed # {},
      coFailureStrength |-> IF Changed = {} THEN 50 ELSE Known(CoFailureStrength(h, days, now), 0),
      commits       |-> commits,
      confidence    |-> DataConfidence(commits)]

RecommendSampling(p) ==
  [strategy      |-> IF HasResolver THEN "hybrid" ELSE "weighted",
   percentage    |-> IF p.testCount < ProjectSizes[1] THEN 50 ELSE IF p.testCount < ProjectSizes[2] THEN 30 ELSE 20,
   coFailureDays |-> IF p.trueFlakyRate > 150 THEN 60 ELSE 90]

CalibrateSampling(h, days, now) ==
  LET p == AnalyzeProject(h, days, now) IN [profile |-> p, sampling |-> RecommendSampling(p)]

\* formatCalibrationReport, with the steps that it advises, in order.
CalibrationReport(c) ==
  LET p == c.profile
      repair == IF p.broken > 0 THEN <<"fix broken">> ELSE << >>
  IN [commits      |-> p.commits,
      confidence   |-> p.confidence,
      warned       |-> p.confidence < 2,
      coFailures   |-> IF p.hasCoFailures THEN p.coFailureStrength ELSE Null,
      percentage   |-> c.sampling.percentage,
      steps        |-> repair \o (IF p.confidence < 2 THEN <<"collect">> ELSE <<"apply", "run">>)]

-----------------------------------------------------------------------------
(* Co-failures as the sampler counts them: results, not commits.           *)

CoFailures(h, days, now) ==
  LET recent  == {r \in Rows(h) : r.day > now - days}
      of(x)   == {r \in recent : r.test = x[2] /\ x[1] \in ChangedFiles[r.commit]}
      fail(x) == {r \in of(x) : Failure(r)}
  IN {[file |-> x[1], test |-> x[2], coRuns |-> Count(of(x)),
       rate |-> Rounded(10000 * Count(fail(x)), Count(of(x)))] :
        x \in {y \in Files \X Tests : Count(of(y)) >= CoRunsNeeded /\ fail(y) # {}}}

\* getCoFailureBoosts: per test, the most that one of the changed files gives it.
CoFailureBoosts(files, h, days, now) ==
  LET found == {c \in CoFailures(h, days, now) : c.file \in files} IN
  [t \in {c.test : c \in found} |->
     CHOOSE r \in {c.rate : c \in {d \in found : d.test = t}} :
       \A c \in found : c.test = t => c.rate <= r]
=============================================================================
