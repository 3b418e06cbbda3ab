--------------------------------- MODULE Reasoning ---------------------------------
(***************************************************************************)
(* The analyses of `flaker analyze': why tests fail (reason.ts), where     *)
(* they fail (insights.ts), which fail together (cluster.ts), how much     *)
(* data there is (context.ts), and the failures behind the verdicts        *)
(* (bundle.ts).                                                            *)
(*                                                                         *)
(* All tests are of one suite.  Variants, artifacts, error messages and    *)
(* the spread of durations are left out; lists are not cut at `top'.       *)
(***************************************************************************)
EXTENDS SamplingKpi

CONSTANTS
  HistoryKept,   \* recent results of a test that reason looks at, 20
  RecentDays     \* 7

ASSUME ReasoningAssumption == HistoryKept \in Nat \ {0} /\ RecentDays \in Nat \ {0}

-----------------------------------------------------------------------------
(* classifyTests.                                                          *)

\* queryTestHistory, latest first: the first HistoryKept rows and the rest.
Later(rows, r) == {s \in rows : s.day > r.day \/ (s.day = r.day /\ s.run > r.run)}
LastResults(rows) == {r \in rows : Count(Later(rows, r)) < HistoryKept}
OldResults(rows)  == rows \ LastResults(rows)

IsNewlyFlaky(old, row) ==
  /\ old = {} \/ 20 * Count({r \in old : Failed(r)}) < Count(old)
  /\ 5 * row.failures > row.runs

\* A commit that failed every one of at least two results.
CommitSpecific(last) ==
  \E c \in CommitsOf(last) :
    LET mine == {r \in last : r.commit = c} IN Count(mine) >= 2 /\ \A r \in mine : Failed(r)

Classification(h, f) ==
  LET rows    == {r \in Rows(h) : r.test = f.row.test}
      commits == TrueFlaky(h, f.row.test)
  IN IF 10 * commits.both > 3 * commits.tested THEN "true-flaky"
     ELSE IF IsNewlyFlaky(OldResults(rows), f.row) /\ CommitSpecific(LastResults(rows)) THEN "regression"
     ELSE IF f.retries > 0 THEN "intermittent" ELSE "environment-dependent"

Over(row, percent) == 100 * row.failures > percent * row.runs

Recommendation(class, row) ==
  CASE class = "true-flaky"   -> IF Over(row, 50) THEN "quarantine" ELSE "investigate"
    [] class = "regression"   -> "fix-urgent"
    [] class = "intermittent" -> IF Over(row, 30) THEN "quarantine" ELSE "monitor"
    [] OTHER                  -> "investigate"

Priority(class, recommendation) ==
  CASE recommendation = "fix-urgent"  -> "critical"
    [] recommendation = "quarantine"  -> "high"
    [] recommendation = "investigate" -> "medium"
    [] OTHER                          -> "low"

Classified(h, days, now) ==
  {LET class == Classification(h, f) IN
   [test |-> f.row.test, class |-> class, recommendation |-> Recommendation(class, f.row),
    priority |-> Priority(class, Recommendation(class, f.row))] : f \in FlakyTests(h, days, now)}

-----------------------------------------------------------------------------
(* detectPatterns, predictRisks.                                           *)

NewTests(h, now) ==
  LET recent == {r \in Rows(h) : r.day > now - RecentDays}
      of(t)  == {r \in recent : r.test = t}
  IN {t \in TestsOf(recent) : Count(of(t)) <= 5 /\ \E r \in of(t) : Failed(r)}

Patterns(h, days, now) ==
  {p \in {"suite-instability", "new-test-risk"} :
     \/ p = "suite-instability" /\ Count(FlakyTests(h, days, now)) >= 3
     \/ p = "new-test-risk" /\ NewTests(h, now) # {}}

\* Tests that fail rarely, but did of late.
AtRisk(h, days, now) ==
  LET of(t)    == {r \in Rows(h) : r.test = t /\ r.day > now - days}
      fails(t) == {r \in of(t) : Failed(r)}
      late(t)  == Count({r \in fails(t) : r.day > now - RecentDays})
  IN {[test |-> t, score |-> IF late(t) >= 6 THEN 100 ELSE 40 + 10 * late(t)] :
        t \in {u \in Tests : /\ Count(of(u)) >= MinRuns
                             /\ 10 * Count(fails(u)) < Count(of(u))
                             /\ late(u) > 0}}

Reason(h, days, now) ==
  LET found == Classified(h, days, now) IN
  [classifications |-> found, patterns |-> Patterns(h, days, now), risks |-> AtRisk(h, days, now),
   analyzed        |-> Count(found),
   trueFlaky       |-> Count({x \in found : x.class = "true-flaky"}),
   regressions     |-> Count({x \in found : x.class = "regression"}),
   toQuarantine    |-> Count({x \in found : x.recommendation = "quarantine"}),
   urgent          |-> Count({x \in found : x.recommendation = "fix-urgent"})]

-----------------------------------------------------------------------------
(* runInsights: tests with two results or more, by where they failed.      *)

FailedAt(rows, source) == TestsOf({r \in rows : r.source = source /\ Failed(r)})

Insights(h, days, now) ==
  LET recent == {r \in Rows(h) : r.day > now - days}
      tests  == {t \in TestsOf(recent) : Count({r \in recent : r.test = t}) >= 2}
      ci     == FailedAt(recent, "ci") \cap tests
      local  == FailedAt(recent, "local") \cap tests
  IN [tests |-> tests, both |-> ci \cap local, ciOnly |-> ci \ local, localOnly |-> local \ ci,
      stable |-> tests \ (ci \cup local)]

-----------------------------------------------------------------------------
(* buildContext, and the failures that runAnalysisBundle adds.             *)

Context(h, now) ==
  LET days == {r.day : r \in Rows(h)} IN
  [tests |-> Count(TestsOf(Rows(h))), commits |-> Count(CommitsOf(Rows(h))), changed |-> Cardinality(Changed),
   oldest |-> IF days = {} THEN Null ELSE now - CHOOSE d \in days : \A e \in days : d <= e,
   newest |-> IF days = {} THEN Null ELSE now - CHOOSE d \in days : \A e \in days : e <= d]

RecentFailures(h, days, now) == {r \in Rows(h) : r.day > now - days /\ Failure(r)}

\* The failing tests, each with the results behind the verdict.
FailureEvidence(h, days, now) ==
  {LET history == {r \in Rows(h) : r.test = f.row.test /\ r.day > now - days} IN
   [test |-> f.row.test, history |-> history, sources |-> {r.source : r \in history},
    failures |-> f.row.failures,
    passes |-> IF f.row.runs >= f.row.failures THEN f.row.runs - f.row.failures ELSE 0] :
     f \in FlakyTests(h, days, now)}
=============================================================================
