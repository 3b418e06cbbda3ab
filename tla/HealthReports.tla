------------------------------- MODULE HealthReports -------------------------------
(***************************************************************************)
(* What the reports on a store say: `flaker analyze eval' (eval.ts) as     *)
(* text and as Markdown, `analyze kpi' (kpi.ts), `flaker status'           *)
(* (status/summary.ts) as text and as Markdown, the lists of flaky tests   *)
(* (analyze/flaky.ts, status/summary.ts) and the summary of a task         *)
(* (reporting/flaker-task-summary-core.ts).                                *)
(*                                                                         *)
(* A rendered report is the function from the quantities it shows to the   *)
(* numbers it shows for them; how they are worded is left out, so are the  *)
(* gates and the pending quarantine of the status.                         *)
(***************************************************************************)
EXTENDS Reasoning

CONSTANTS
  Quarantined,   \* the store's quarantined tests
  Promotion      \* [promotion]: matched, fnr, correlation, holdout, confidence

ASSUME HealthReportsAssumption ==
  /\ Quarantined \subseteq Tests
  /\ Promotion \in [matched : Nat, fnr : Nat, correlation : Nat, holdout : Nat, confidence : 0 .. 3]

-----------------------------------------------------------------------------
(* runEval.                                                                *)

\* average results of a test, in tenths.
AvgRuns(h) == IF Rows(h) = {} THEN 0 ELSE Rounded(10 * Count(Rows(h)), Count(TestsOf(Rows(h))))

\* Flaky and broken tests with enough runs to judge.
Judged(h, days, now) ==
  {f \in FlakyTests(h, days, now) : f.row.runs >= MinRuns /\ (f.row.isFlaky \/ f.broken)}

Distribution(judged) ==
  LET in(low, high) == Count({f \in judged : low < f.row.rate /\ f.row.rate <= high}) IN
  <<in(-1, 1000), in(1000, 3000), in(3000, 5000), in(5000, 10000)>>

\* Tests that failed before the last days and have run, but not failed, in them; and the reverse.
FailedTests(rows) == TestsOf({r \in rows : Failed(r)})
OldRows(h, now)   == {r \in Rows(h) : r.day < now - RecentDays}
NewRows(h, now)   == Rows(h) \ OldRows(h, now)

ResolvedFlaky(h, now) ==
  (FailedTests(OldRows(h, now)) \ FailedTests(NewRows(h, now))) \cap TestsOf(NewRows(h, now))
NewFlaky(h, now) == FailedTests(NewRows(h, now)) \ FailedTests(OldRows(h, now))

\* stability * 0.5 + coverage * 0.3 + resolution * 0.2, over a common denominator.
HealthScore(unique, flaky, avgRuns, resolved) ==
  LET u == IF unique = 0 THEN 1 ELSE unique
      f == IF flaky = 0 THEN 1 ELSE flaky
      stable == IF unique = 0 THEN 1 ELSE unique - flaky
      solved == IF flaky = 0 THEN 1 ELSE resolved
      ten    == IF avgRuns > 100 THEN 100 ELSE avgRuns
  IN Rounded(500 * stable * f + 3 * ten * u * f + 200 * solved * u, 10 * u * f)

EvalReport(h, days, now) ==
  LET judged   == Judged(h, days, now)
      unique   == Count(TestsOf(Rows(h)))
      resolved == Cardinality(ResolvedFlaky(h, now))
  IN [runs         |-> Len(h),
      results      |-> Count(Rows(h)),
      unique       |-> unique,
      avgRuns      |-> AvgRuns(h),
      flaky        |-> Count(judged),
      broken       |-> Count({f \in judged : f.broken}),
      trueFlaky    |-> Cardinality(TrueFlakyTests(h)),
      quarantined  |-> Cardinality(Quarantined),
      distribution |-> Distribution(judged),
      resolved     |-> resolved,
      new          |-> Cardinality(NewFlaky(h, now)),
      sampling     |-> SamplingReport(h, days, now),
      score        |-> HealthScore(unique, Count(judged), AvgRuns(h), resolved)]

\* runAnalysisBundle.
Bundle(h, days, now) ==
  [data     |-> Activity(h, days, now),
   recent   |-> RecentFailures(h, days, now),
   evidence |-> FailureEvidence(h, days, now),
   context  |-> Context(h, now),
   kpi      |-> Kpi(h, days, now),
   eval     |-> EvalReport(h, days, now),
   reason   |-> Reason(h, days, now),
   insights |-> Insights(h, days, now),
   clusters |-> Clusters(TestCoFailures(h, days, now, 2, 80))]

HealthScoreLabel(score) == IF score >= 80 THEN "GOOD" ELSE IF score >= 50 THEN "FAIR" ELSE "POOR"

Recommendations(e) ==
  LET intermittent == e.flaky - e.broken
      s == e.sampling
  IN {x \in {"collect more", "fix broken", "quarantine flaky", "investigate new", "healthy", "no data",
             "no matched commits", "pass predicts badly", "failure predicts badly"} :
        \/ x = "collect more" /\ e.avgRuns < 50
        \/ x = "fix broken" /\ e.broken > 0
        \/ x = "quarantine flaky" /\ intermittent > 0 /\ e.quarantined = 0
        \/ x = "investigate new" /\ e.new > 0
        \/ x = "healthy" /\ e.flaky = 0 /\ e.results > 0
        \/ x = "no data" /\ e.results = 0
        \/ x = "no matched commits" /\ s.matched = 0 /\ e.results > 0
        \/ x = "pass predicts badly" /\ s.passRate # Null /\ s.passRate < 950
        \/ x = "failure predicts badly" /\ s.failRate # Null /\ s.failRate < 500}

\* The sections that both renderings of an evaluation have, the flaky tests without the broken ones.
EvalText(e) ==
  [score |-> e.score, label |-> HealthScoreLabel(e.score), allRuns |-> e.runs,
   allResults |-> e.results, allTests |-> e.unique, broken |-> e.broken,
   flaky |-> e.flaky - e.broken, retryFlaky |-> e.trueFlaky,
   quarantined |-> e.quarantined, resolved |-> e.resolved, new |-> e.new,
   matched |-> e.sampling.matched,
   matrix |-> <<e.sampling.tp, e.sampling.fp, e.sampling.fn, e.sampling.tn>>,
   actions |-> Recommendations(e)]

EvalMarkdown(e) ==
  [score |-> e.score, label |-> HealthScoreLabel(e.score), broken |-> e.broken,
   flaky |-> e.flaky - e.broken, retryFlaky |-> e.trueFlaky, matched |-> e.sampling.matched,
   allRuns |-> e.runs, allResults |-> e.results, allTests |-> e.unique,
   falseNegatives |-> e.sampling.fn, falsePositives |-> e.sampling.fp,
   matrix |-> <<e.sampling.tp, e.sampling.fp, e.sampling.fn, e.sampling.tn>>,
   quarantined |-> e.quarantined, resolved |-> e.resolved, new |-> e.new,
   actions |-> Recommendations(e)]

TaskSummary(e, r) ==
  [score |-> e.score, allRuns |-> e.runs, allResults |-> e.results, allTests |-> e.unique,
   retryFlaky |-> e.trueFlaky, quarantined |-> e.quarantined, new |-> e.new, resolved |-> e.resolved,
   toQuarantine |-> r.toQuarantine, urgent |-> r.urgent]

KpiText(k) ==
  LET always == {"broken", "flaky", "trend", "commits", "confidence", "issues"}
  IN [q \in always \cup (IF k.matched > 0 THEN {"matched", "matrix"} ELSE {}) |->
        IF q = "issues" THEN KpiIssues(k) ELSE k[q]]

-----------------------------------------------------------------------------
(* The status and the lists.                                               *)

\* computeStateDiff, of the five kinds of a promotion.
PromotionDrift(k) ==
  {d \in {"matched_commits", "false_negative_rate", "pass_correlation", "holdout_fnr", "data_confidence"} :
     \/ d = "matched_commits" /\ k.matched < Promotion.matched
     \/ d = "false_negative_rate" /\ (k.fnRate = Null \/ k.fnRate > Promotion.fnr)
     \/ d = "pass_correlation" /\ (k.passCorrelation = Null \/ k.passCorrelation < Promotion.correlation)
     \/ d = "holdout_fnr" /\ (k.holdoutFnr = Null \/ k.holdoutFnr > Promotion.holdout)
     \/ d = "data_confidence" /\ k.confidence < Promotion.confidence}

\* Of the activity and the dashboard of the window.
StatusSummary(a, k) ==
  [runs |-> a.runs, ci |-> a.ci, local |-> a.local, passed |-> a.passed, failed |-> a.failed,
   confidence |-> k.confidence, matched |-> k.matched, broken |-> k.broken, flaky |-> k.flaky,
   trend |-> k.trend, quarantined |-> Cardinality(Quarantined), drift |-> PromotionDrift(k)]

\* Both pages have the same fields.
StatusFields(s) ==
  [q \in (DOMAIN s \ {"drift"}) \cup {"ready", "unmet", "rows"} |->
     CASE q = "ready" -> s.drift = {}
       [] q = "unmet" -> Cardinality(s.drift)
       [] q = "rows"  -> s.drift
       [] OTHER       -> s[q]]

StatusText(s)     == StatusFields(s)
StatusMarkdown(s) == StatusFields(s)

\* `status --list flaky', and the sections of the table of `analyze flaky'.
ListFlaky(h, days, now) ==
  {[test |-> f.row.test, kind |-> IF f.row.isFlaky THEN "flaky" ELSE "broken", runs |-> f.row.runs] :
     f \in {x \in FlakyTests(h, days, now) : x.row.isFlaky \/ x.broken}}

FlakyTable(h, days, now) ==
  LET found == FlakyTests(h, days, now)
      tests(S) == {f.row.test : f \in S}
  IN [broken  |-> tests({f \in found : f.broken}),
      flaky   |-> tests({f \in found : f.row.isFlaky}),
      failing |-> tests({f \in found : ~f.broken /\ ~f.row.isFlaky})]
=============================================================================
