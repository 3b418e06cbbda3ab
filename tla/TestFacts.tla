--------------------------------- MODULE TestFacts ---------------------------------
(***************************************************************************)
(* The facts that the reports are made of: the datasets and their windowed *)
(* macros (datasets/views.ts, windowed.ts, facts.ts) and the queries of    *)
(* the store (storage/duckdb.ts, schema.ts), over the stored runs.         *)
(*                                                                         *)
(* A history h is the sequence of the stored runs.  A run has its commit,  *)
(* source and day, the outcomes of its tests and, when `flaker run'        *)
(* recorded it, the sample.  The outcome "retried" is a pass after a       *)
(* retry.  Mutation trials keep their failures in tables of their own and  *)
(* are no runs here; durations, messages and suites are left out.  Rates   *)
(* are counted in the unit the code rounds to.                             *)
(***************************************************************************)
EXTENDS Integers, Sequences, FiniteSets

CONSTANTS
  Tests, Commits, Files,
  ChangedFiles,       \* commit_changes: the files that each commit changed
  DetectionPercent,   \* [flaky].detection_threshold_ratio, in percent
  MinRuns,            \* minRuns ?? 5
  ConfidenceAt        \* the commits at which confidence rises, <<5, 30, 100>>

ASSUME TestFactsAssumption ==
  /\ IsFiniteSet(Tests) /\ IsFiniteSet(Commits) /\ IsFiniteSet(Files)
  /\ ChangedFiles \in [Commits -> SUBSET Files]
  /\ DetectionPercent \in 0 .. 100 /\ MinRuns \in Nat \ {0}
  /\ ConfidenceAt \in [1 .. 3 -> Nat]

Outcomes == {"passed", "retried", "failed", "flaky", "skipped"}
Sources  == {"ci", "local"}
Null     == -1

\* Division rounded to the nearest, halves up.
Rounded(a, b) == (2 * a + b) \div (2 * b)

\* `num' of `den' in tenths of a percent.
Rate(num, den) == IF den = 0 THEN Null ELSE Rounded(1000 * num, den)

-----------------------------------------------------------------------------
(* Rows.                                                                   *)

RowsOf(h, i) ==
  {[run |-> i, test |-> t, commit |-> h[i].commit, source |-> h[i].source, day |-> h[i].day,
    outcome |-> h[i].results[t]] : t \in DOMAIN h[i].results}

Rows(h) == UNION {RowsOf(h, i) : i \in DOMAIN h}

InWindow(day, days, until) == until - days < day /\ day <= until

RunsIn(h, days, until) == {i \in DOMAIN h : InWindow(h[i].day, days, until)}

Recent(h, days, until) == UNION {RowsOf(h, i) : i \in RunsIn(h, days, until)}

\* status IN ('failed', 'flaky'), and FAILURE_SQL.
Failed(r)  == r.outcome \in {"failed", "flaky"}
Failure(r) == Failed(r) \/ r.outcome = "retried"

\* status = 'passed', retried or not.
Passed(r) == r.outcome \in {"passed", "retried"}

TestsOf(rows)   == {r.test : r \in rows}
CommitsOf(rows) == {r.commit : r \in rows}
Count(rows)     == Cardinality(rows)

-----------------------------------------------------------------------------
(* flaker_flaky_window, in basis points, and what is made of it.           *)

Flips(rows, r) == \E p \in rows : p.test = r.test /\ p.commit = r.commit /\ Passed(p)

Evidence(rows) ==
  {r \in rows : r.outcome \in {"flaky", "retried"} \/ (r.outcome = "failed" /\ Flips(rows, r))}

FlakyRow(t, rows, evidence) ==
  [test |-> t, runs |-> Count(rows), failures |-> Count({r \in rows : Failure(r)}),
   rate |-> Rounded(10000 * Count(evidence), Count(rows)),
   isFlaky |-> evidence # {} /\ 100 * Count(evidence) >= DetectionPercent * Count(rows)]

FlakyRows(recent) ==
  LET evidence == Evidence(recent) IN
  {FlakyRow(t, {r \in recent : r.test = t}, {r \in evidence : r.test = t}) : t \in TestsOf(recent)}

FlakyWindow(h, days, until) == FlakyRows(Recent(h, days, until))

BrokenByFailures(row) == row.failures = row.runs

IsBroken(row) == row.failures = row.runs /\ row.rate = 0

TestHealth(flakyRows) ==
  LET rows == {w \in flakyRows : w.runs >= MinRuns} IN
  [classified |-> Count(rows),
   flaky      |-> Count({w \in rows : w.isFlaky}),
   broken     |-> Count({w \in rows : IsBroken(w)}),
   failing    |-> Count({w \in rows : w.failures > 0})]

Changed == {c \in Commits : ChangedFiles[c] # {}}

HistoryCommits(h, days, until) == Count(CommitsOf(Recent(h, days, until)))

\* flaker_co_failures_window: per changed file and test, the commits behind it, and those of them
\* on which the test failed, if there are any.
CoFailureCounts(rows, f, t) ==
  LET of(S) == CommitsOf({r \in S : r.test = t /\ f \in ChangedFiles[r.commit]})
      failing == {r \in rows : Failure(r)}
  IN [file |-> f, test |-> t, changes |-> Cardinality(of(rows)), coFailures |-> Cardinality(of(failing))]

CoFailuresWindow(h, days, until) ==
  LET recent == Recent(h, days, until) IN
  {p \in {CoFailureCounts(recent, x[1], x[2]) : x \in Files \X Tests} : p.coFailures > 0}

DataConfidence(commits) == Cardinality({i \in 1 .. 3 : commits >= ConfidenceAt[i]})

Activity(h, days, until) ==
  LET runs == RunsIn(h, days, until)
      rows == Recent(h, days, until)
  IN [runs    |-> Cardinality(runs),
      ci      |-> Cardinality({i \in runs : h[i].source = "ci"}),
      local   |-> Cardinality({i \in runs : h[i].source = "local"}),
      results |-> Count(rows),
      passed  |-> Count({r \in rows : r.outcome = "passed"}),
      failed  |-> Count({r \in rows : Failure(r)}),
      tests   |-> Count(TestsOf(rows)),
      commits |-> Count(CommitsOf(rows))]

-----------------------------------------------------------------------------
(* Queries of the store.                                                   *)

\* queryFlakyTests: the tests that failed in the window.
FlakyTests(h, days, now) ==
  LET recent == Recent(h, days, now) IN
  {[row     |-> w,
    broken  |-> w.failures = w.runs /\ w.rate = 0,
    retries |-> Count({r \in recent : r.test = w.test /\ r.outcome \in {"flaky", "retried"}})] :
     w \in {x \in FlakyWindow(h, days, now) : x.failures > 0}}

\* queryTrueFlakyTests, over the whole history: commits tested and commits with both statuses.
TrueFlaky(h, t) ==
  LET rows == {r \in Rows(h) : r.test = t} IN
  [tested |-> Count(CommitsOf(rows)),
   both   |-> Count({c \in CommitsOf(rows) :
                       /\ \E r \in rows : r.commit = c /\ r.outcome = "failed"
                       /\ \E r \in rows : r.commit = c /\ Passed(r)})]

TrueFlakyTests(h) == {t \in TestsOf(Rows(h)) : TrueFlaky(h, t).both > 0}

\* queryTestCoFailures: the pairs that failed in the same runs, often enough.
FailRuns(recent, t) == {r.run : r \in {x \in recent : x.test = t /\ Failure(x)}}

TestCoFailures(h, days, now, minCoFailures, minCoPercent) ==
  LET recent == {r \in Rows(h) : r.day > now - days}
      failed == [t \in Tests |-> FailRuns(recent, t)]
      both(p) == Cardinality({i \in DOMAIN h : \A t \in p : i \in failed[t]})
  IN {p \in {q \in SUBSET Tests : Cardinality(q) = 2} :
        /\ both(p) >= minCoFailures
        /\ \E t \in p : 100 * both(p) >= minCoPercent * Cardinality(failed[t])}

-----------------------------------------------------------------------------
(* buildFailureClusters.                                                   *)

Neighbours(pairs, found) == UNION {p \in pairs : p \cap found # {}}

\* What the stack finds from a test on: no more rounds than there are tests.
Visited(pairs, test) ==
  LET found[n \in 0 .. Cardinality(Tests)] ==
        IF n = 0 THEN {test} ELSE found[n - 1] \cup Neighbours(pairs, found[n - 1])
  IN found[Cardinality(Tests)]

DirectClusters(pairs) == {Neighbours(pairs, {t}) : t \in UNION pairs}

Clusters(pairs) == {Visited(pairs, t) : t \in UNION pairs}
=============================================================================
