------------------------------- MODULE TestReport -------------------------------
(***************************************************************************)
(* flaker report: what an adapter reads of a report is summarised, compared *)
(* with the summary of another run, and aggregated over the shards of a run *)
(* (commands/report/index.ts and the MoonBit functions it calls).           *)
(*                                                                         *)
(* Operators only.  A read that throws is the empty set, another one the    *)
(* set of what it returns.  `idOf' gives the identity of a test: its file,  *)
(* title and innermost suite, which tests of nested suites can share.       *)
(***************************************************************************)
EXTENDS Naturals, Sequences, FiniteSets, Folds

Statuses == {"passed", "failed", "flaky", "skipped"}

\* walkSuites of the Playwright adapter: only the last try decides (mutated: also
\* about retries).
LastStatus(attempts) ==
  IF attempts[Len(attempts)] \in {"passed", "skipped"} THEN attempts[Len(attempts)] ELSE "failed"
StatusOf(attempts) ==
  LET last == attempts[Len(attempts)]
  IN IF last = "passed" THEN IF Len(attempts) > 1 THEN "flaky" ELSE "passed"
     ELSE IF last = "skipped" THEN "skipped" ELSE "failed"

\* playwrightAdapter.parse: a test that was never tried has no last result.
Parsed(report, idOf, fileOf) ==
  IF \E i \in DOMAIN report : report[i].attempts = <<>> THEN {}
  ELSE {[i \in DOMAIN report |->
           [id      |-> idOf[report[i].test],
            suite   |-> fileOf[report[i].test],
            status  |-> StatusOf(report[i].attempts),
            retries |-> Len(report[i].attempts) - 1]]}

\* add_to_totals
CountOf(tests, status) ==
  Cardinality({i \in DOMAIN tests : status \in {tests[i].status, "total"}})
ReportTotals(tests) == [s \in Statuses \cup {"total"} |-> CountOf(tests, s)]

\* The rows at some positions, in their order.
RowsAt(rows, positions) ==
  LET upTo[n \in 0 .. Len(rows)] ==
        IF n = 0 THEN <<>>
        ELSE IF n \in positions THEN Append(upTo[n - 1], rows[n]) ELSE upTo[n - 1]
  IN upTo[Len(rows)]

OfSuite(tests, suite) == RowsAt(tests, {i \in DOMAIN tests : tests[i].suite = suite})

\* unstable_test_ids of summarize_report
UnstableIds(tests) ==
  {tests[i].id : i \in {j \in DOMAIN tests : tests[j].status \in {"failed", "flaky"}}}

\* summarizeResults.  The rows are sorted by what identifies them, so those of one
\* identity stay in the order of the report.
Summarize(tests) ==
  [tests    |-> tests,
   totals   |-> ReportTotals(tests),
   files    |-> [s \in {tests[i].suite : i \in DOMAIN tests} |-> ReportTotals(OfSuite(tests, s))],
   unstable |-> RowsAt(tests, {i \in DOMAIN tests : tests[i].id \in UnstableIds(tests)})]

\* formatReportSummary: what its page shows.
SummaryPage(summary) ==
  [totals |-> summary.totals, files |-> summary.files,
   rows   |-> {[id |-> r.id, status |-> r.status, retries |-> r.retries] :
                 r \in {summary.unstable[i] : i \in DOMAIN summary.unstable}}]

-----------------------------------------------------------------------------
\* The Map of runReportDiff: the last row of an identity; "" without one.
StatusIn(summary, id) ==
  LET found == {i \in DOMAIN summary.tests : summary.tests[i].id = id}
  IN IF found = {} THEN ""
     ELSE summary.tests[CHOOSE i \in found : \A j \in found : j <= i].status

\* classify_report_diff: the buckets of a test, none, one or two.
AllBuckets ==
  {"new_failures", "new_flaky", "resolved_failures", "resolved_flaky", "persistent_flaky"}
Buckets(base, head) ==
  {b \in AllBuckets :
     CASE b = "new_failures"      -> head = "failed" /\ base # "failed"
       [] b = "new_flaky"         -> head = "flaky" /\ base \notin {"flaky", "failed"}
       [] b = "persistent_flaky"  -> head = "flaky" /\ base = "flaky"
       [] b = "resolved_failures" -> base = "failed" /\ head \notin {"failed", ""}
       [] b = "resolved_flaky"    -> base = "flaky" /\ head \notin {"flaky", ""}}

\* toDiffEntry: a row with the status of each side.
DiffEntry(base, head, id) == [id |-> id, base |-> StatusIn(base, id), head |-> StatusIn(head, id)]

\* runReportDiff: the rows of each bucket.
ReportDiff(base, head) ==
  LET ids == {base.tests[i].id : i \in DOMAIN base.tests} \cup {head.tests[i].id : i \in DOMAIN head.tests}
  IN [bucket \in AllBuckets |->
        {e \in {DiffEntry(base, head, id) : id \in ids} : bucket \in Buckets(e.base, e.head)}]

\* formatReportDiff: the counts above, the rows below.
DiffPage(diff) ==
  [counts |-> [bucket \in AllBuckets |-> Cardinality(diff[bucket])], rows |-> diff]

InBuckets(diff, buckets) == {e.id : e \in UNION {diff[bucket] : bucket \in buckets}}

-----------------------------------------------------------------------------
\* The status an aggregate gives to an unstable row: a row that shares the identity
\* of a failing one comes along, as "flaky", even when it passed.
UnstableStatus(row) == IF row.status = "failed" THEN "failed" ELSE "flaky"

\* runReportAggregate, aggregate_report: `summaries' has one summary for each shard.
Aggregate(summaries) ==
  LET Sum(s)  == MapThenFoldSet(LAMBDA x, y : x + y, 0, LAMBDA k : summaries[k].totals[s],
                                LAMBDA S : CHOOSE k \in S : TRUE, DOMAIN summaries)
      rows(k) == {summaries[k].unstable[i] : i \in DOMAIN summaries[k].unstable}
      all     == UNION {rows(k) : k \in DOMAIN summaries}
  IN [shards   |-> summaries,
      totals   |-> [s \in Statuses \cup {"total"} |-> Sum(s)],
      unstable |-> [id \in {r.id : r \in all} |->
                      [shards   |-> {k \in DOMAIN summaries : \E r \in rows(k) : r.id = id},
                       statuses |-> {UnstableStatus(r) : r \in {q \in all : q.id = id}}]]]

\* loadReportSummaryArtifactsFromDir and the aggregate of what it loads, when `others'
\* lie beside the summaries: a "text" is skipped; a "json" is taken for a summary, and
\* the aggregate throws where it looks for its rows.
JsonFiles(summaries, others) == DOMAIN summaries \cup (others \ {"text"})
AggregateDir(summaries, others) == 
  IF JsonFiles(summaries, others) = DOMAIN summaries THEN {Aggregate(summaries)} ELSE {}

\* formatReportAggregate: the counts above, a row for each shard and for each unstable test.
AggregatePage(aggregate) ==
  [totals   |-> aggregate.totals,
   count    |-> Cardinality(DOMAIN aggregate.unstable),
   shards   |-> [k \in DOMAIN aggregate.shards |->
                   [totals |-> aggregate.shards[k].totals, unstable |-> Len(aggregate.shards[k].unstable)]],
   rows     |-> aggregate.unstable]

WithStatus(rows, status) == RowsAt(rows, {i \in DOMAIN rows : rows[i].status = status})

\* formatPrComment: the rows under "Failures" and under "Flaky".
PrComment(summary) ==
  [totals   |-> summary.totals,
   failures |-> WithStatus(summary.unstable, "failed"),
   flaky    |-> WithStatus(summary.unstable, "flaky")]
=============================================================================
