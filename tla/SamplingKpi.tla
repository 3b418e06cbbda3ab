-------------------------------- MODULE SamplingKpi --------------------------------
(***************************************************************************)
(* How well the local samples predict CI: commands/analyze/eval.ts         *)
(* (runSamplingKpi, buildSamplingKpiFallback, which mirrors                *)
(* build_sampling_kpi of src/eval/eval_core.mbt, and runHoldoutKpi) and    *)
(* commands/analyze/kpi.ts.                                                *)
(*                                                                         *)
(* The averages of sizes, ratios and minutes, which are only shown, are    *)
(* left out, so are fallbacks.  Rates are in tenths of a percent.          *)
(***************************************************************************)
EXTENDS TestFacts

\* A run that `flaker run' did not record has no row in sampling_runs.
NoSample == [selected |-> {}, heldOut |-> {}]

SampledRuns(h, c, days, now) ==
  {i \in RunsIn(h, days, now) : h[i].commit = c /\ h[i].sample # NoSample}

\* row_num = 1: local runs are recorded in the order of their days.
LatestSample(h, c, days, now) ==
  LET runs == SampledRuns(h, c, days, now) IN h[CHOOSE i \in runs : \A j \in runs : j <= i].sample

-----------------------------------------------------------------------------
(* One signal for each commit and source with results.                     *)

Signal(h, c, source, rows, days, now) ==
  LET sampled == source = "local" /\ SampledRuns(h, c, days, now) # {} IN
  [commit   |-> c, source |-> source,
   tests    |-> IF sampled THEN Cardinality(LatestSample(h, c, days, now).selected)
                ELSE Count(TestsOf(rows)),
   failures |-> Count({r \in rows : Failure(r)})]

LatestSignals(h, days, now) ==
  LET recent == Recent(h, days, now)
      of(x)  == {r \in recent : r.commit = x[1] /\ r.source = x[2]}
      last(S) == {r \in S : \A q \in S : q.run <= r.run}
  IN {Signal(h, x[1], x[2], last(of(x)), days, now) : x \in {y \in Commits \X Sources : of(y) # {}}}

Signals(h, days, now) ==
  LET recent == Recent(h, days, now)
      of(x)  == {r \in recent : r.commit = x[1] /\ r.source = x[2]}
  IN {Signal(h, x[1], x[2], of(x), days, now) : x \in {y \in Commits \X Sources : of(y) # {}}}

SignalOf(signals, source)  == {s \in signals : s.source = source}
FailedIn(signals, source)  == {s.commit : s \in {x \in SignalOf(signals, source) : x.failures > 0}}
PassedIn(signals, source)  == {s.commit : s \in {x \in SignalOf(signals, source) : x.failures = 0}}

\* The commits behind the counts of the confusion matrix.
Matrix(signals) ==
  [truePositive  |-> FailedIn(signals, "local") \cap FailedIn(signals, "ci"),
   falsePositive |-> FailedIn(signals, "local") \cap PassedIn(signals, "ci"),
   falseNegative |-> PassedIn(signals, "local") \cap FailedIn(signals, "ci"),
   trueNegative  |-> PassedIn(signals, "local") \cap PassedIn(signals, "ci")]

ConfusionReport(signals) ==
  LET local   == CommitsOf(SignalOf(signals, "local"))
      ci      == CommitsOf(SignalOf(signals, "ci"))
      m       == Matrix(signals)
      tp      == Cardinality(m.truePositive)
      fp      == Cardinality(m.falsePositive)
      fn      == Cardinality(m.falseNegative)
      tn      == Cardinality(m.trueNegative)
  IN [matched   |-> Cardinality(local \cap ci),
      localOnly |-> Cardinality(local \ ci),
      ciOnly    |-> Cardinality(ci \ local),
      passRate  |-> Rate(tn, fn + tn), failRate |-> Rate(tp, tp + fp),
      fnRate    |-> Rate(fn, fn + tn), fpRate |-> Rate(fp, tp + fp),
      tp |-> tp, fp |-> fp, fn |-> fn, tn |-> tn]

SamplingReport(h, days, now) == ConfusionReport(Signals(h, days, now))

-----------------------------------------------------------------------------
(* runHoldoutKpi.                                                          *)

\* Held-out tests of a commit's latest sampled run, when CI ran the commit.
HeldOut(h, c, days, now) ==
  IF \/ SampledRuns(h, c, days, now) = {}
     \/ ~\E r \in Recent(h, days, now) : r.commit = c /\ r.source = "ci"
  THEN {} ELSE LatestSample(h, c, days, now).heldOut

FailuresAnywhere(h, c, days, now) ==
  {t \in HeldOut(h, c, days, now) :
     \E r \in Recent(h, days, now) : r.commit = c /\ r.test = t /\ Failed(r)}

HeldOutFailures(h, c, days, now) ==
  {t \in HeldOut(h, c, days, now) :
     \E r \in Recent(h, days, now) : r.commit = c /\ r.source = "ci" /\ r.test = t /\ Failed(r)}

\* The rows of `holdout', and those that failed.
HoldoutReport(h, days, now) ==
  LET held     == {x \in Commits \X Tests : x[2] \in HeldOut(h, x[1], days, now)}
      tests    == Cardinality(held)
      failures == Cardinality({x \in held : x[2] \in HeldOutFailures(h, x[1], days, now)})
  IN [commits |-> Cardinality({x[1] : x \in held}), tests |-> tests, failures |-> failures,
      fnRate |-> Rate(failures, tests)]

-----------------------------------------------------------------------------
(* computeKpi, and the issues formatKpi finds in it.                       *)

Known(value, default) == IF value = Null THEN default ELSE value

\* Of the sampling and the held-out tests, the health of the tests now and a window ago, the
\* commits with history, those of them with changes, and the days since the last run.
Dashboard(s, holdout, health, previous, commits, changed, staleDays) ==
  LET if(v) == IF s.matched = 0 THEN Null ELSE v
  IN [matched         |-> s.matched,
      recall          |-> if(Known(Rate(s.tp, s.tp + s.fn), 1000)),
      fpRate          |-> if(Known(Rate(s.fp, s.fp + s.tn), 0)),
      fnRate          |-> if(Known(s.fnRate, 0)),
      passCorrelation |-> if(Known(s.passRate, 1000)),
      holdoutFnr      |-> holdout.fnRate,
      matrix          |-> <<s.tp, s.fp, s.fn, s.tn>>,
      broken          |-> health.broken,
      flaky           |-> health.flaky,
      flakyRate       |-> Rate(health.flaky, IF health.classified = 0 THEN 1 ELSE health.classified),
      trend           |-> (health.flaky + health.broken) - (previous.flaky + previous.broken),
      commits         |-> commits,
      coFailureReady  |-> commits > 0 /\ 10 * changed >= 8 * commits,
      confidence      |-> DataConfidence(commits),
      staleDays       |-> staleDays]

DaysSince(dates, now) ==
  IF dates = {} THEN Null ELSE now - (CHOOSE d \in dates : \A e \in dates : e <= d)

Kpi(h, days, now) ==
  Dashboard(SamplingReport(h, days, now), HoldoutReport(h, days, now),
            TestHealth(FlakyWindow(h, days, now)), TestHealth(FlakyWindow(h, days, now - days)),
            HistoryCommits(h, days, now),
            Cardinality(CommitsOf({r \in Rows(h) : r.day > now - days}) \cap Changed),
            DaysSince({h[i].day : i \in DOMAIN h}, now))

KpiIssues(k) ==
  {i \in {"broken tests", "high false negative rate", "too little data", "co-failure data incomplete",
          "stale data"} :
     \/ i = "broken tests" /\ k.broken > 0
     \/ i = "high false negative rate" /\ k.matched > 0 /\ k.fnRate > 50
     \/ i = "too little data" /\ k.confidence < 2
     \/ i = "co-failure data incomplete" /\ ~k.coFailureReady
     \/ i = "stale data" /\ k.staleDays > 7}
=============================================================================
