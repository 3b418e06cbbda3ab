---------------------------- MODULE PlaywrightReport ----------------------------
(***************************************************************************)
(* The reports of Playwright and the summary and diff that reporting/ makes *)
(* of them.  Operators only.                                               *)
(*                                                                         *)
(* A report is a sequence of [test, attempts], one for each test in file    *)
(* order; `attempts' are the statuses of its tries, the first one first.    *)
(* The identity of a row (file, titles and project) is the test itself.     *)
(***************************************************************************)
EXTENDS Naturals, Sequences, FiniteSets

Outcomes == {"passed", "failed", "flaky", "skipped", "timedout", "interrupted", "unknown"}

\* Playwright's own verdict on a test.
RawStatus(attempts) ==
  LET counted == {attempts[i] : i \in DOMAIN attempts} \ {"interrupted", "skipped"}
  IN IF counted = {} THEN "skipped"
     ELSE IF counted = {"passed"} THEN "expected"
     ELSE IF "passed" \in counted THEN "flaky" ELSE "unexpected"

\* normalizeOutcome
Outcome(rawStatus, attempts) ==
  LET tried == {attempts[i] : i \in DOMAIN attempts}
  IN IF rawStatus \in {"skipped", "flaky"} THEN rawStatus
     ELSE IF "timedout" \in tried THEN "timedout"
     ELSE IF "interrupted" \in tried THEN "interrupted"
     ELSE IF attempts = <<>> THEN "unknown"
     ELSE IF attempts[Len(attempts)] = "passed" /\ Cardinality(tried) > 1 THEN "flaky"
     ELSE attempts[Len(attempts)]

Retries(attempts) == IF attempts = <<>> THEN 0 ELSE Len(attempts) - 1

\* collectRowsFromSuite
Rows(report, fileOf) ==
  [i \in DOMAIN report |->
     [id      |-> report[i].test,
      file    |-> fileOf[report[i].test],
      outcome |-> Outcome(RawStatus(report[i].attempts), report[i].attempts),
      retries |-> Retries(report[i].attempts)]]

Count(rows, P(_)) == Cardinality({i \in DOMAIN rows : P(rows[i])})

\* createEmptyPlaywrightSummaryTotals, accumulatePlaywrightSummaryTotals
Totals(rows) ==
  [o \in Outcomes \cup {"total"} |-> Count(rows, LAMBDA r : o \in {r.outcome, "total"})]

\* accumulatePlaywrightFileSummary: a file has no count of the other outcomes.
FileTotals(rows, file) ==
  [o \in {"total", "passed", "failed", "flaky", "skipped"} |->
     Count(rows, LAMBDA r : r.file = file /\ o \in {r.outcome, "total"})]

\* buildPlaywrightSummary
PlaywrightSummary(report, fileOf) ==
  LET rows == Rows(report, fileOf)
  IN [tests  |-> rows,
      totals |-> Totals(rows),
      files  |-> [f \in {rows[i].file : i \in DOMAIN rows} |-> FileTotals(rows, f)]]

\* renderPlaywrightMarkdown: what it shows, with the rows of "Flaky / Retried Tests".
Markdown(summary) ==
  [totals   |-> summary.totals,
   files    |-> summary.files,
   unstable |-> {i \in DOMAIN summary.tests :
                   summary.tests[i].outcome \in {"failed", "flaky"} \/ summary.tests[i].retries > 0}]

-----------------------------------------------------------------------------
\* playwrightOutcomeSeverity; "none" is a test the report does not have.
Severity(outcome) ==
  CASE outcome \in {"none", "passed", "skipped"} -> 0
    [] outcome = "flaky" -> 1
    [] OTHER -> 2

\* The last row of a test, as in a Map.
OutcomeIn(summary, id) ==
  LET found == {i \in DOMAIN summary.tests : summary.tests[i].id = id}
  IN IF found = {} THEN "none"
     ELSE summary.tests[CHOOSE i \in found : \A j \in found : j <= i].outcome

\* compareRows
DiffKind(base, head) ==
  LET was == Severity(base)
      is  == Severity(head)
  IN IF base # "none" /\ head = "none" THEN IF was > 0 THEN "removed_unstable" ELSE "none"
     ELSE IF is > was THEN IF is = 1 THEN "new_flaky"
                           ELSE IF was = 1 THEN "worsened_failure" ELSE "new_failure"
     ELSE IF is < was THEN IF is = 0 THEN "resolved" ELSE "improved"
     ELSE IF is = 2 THEN "persistent_failure"
     ELSE IF is = 1 THEN "persistent_flaky" ELSE "none"

Regressions  == {"new_failure", "worsened_failure", "new_flaky"}
Improvements == {"resolved", "improved", "removed_unstable"}
Persistent   == {"persistent_failure", "persistent_flaky"}

\* buildPlaywrightDiff: the kind of each test of either report.
PlaywrightDiff(base, head) ==
  [id \in {base.tests[i].id : i \in DOMAIN base.tests} \cup
          {head.tests[i].id : i \in DOMAIN head.tests} |->
     DiffKind(OutcomeIn(base, id), OutcomeIn(head, id))]

\* createTotals, and what compareRows adds to them.
DiffTotals(base, head) ==
  LET diff    == PlaywrightDiff(base, head)
      in(s)   == {s.tests[i].id : i \in DOMAIN s.tests}
      kind(S) == Cardinality({id \in DOMAIN diff : diff[id] \in S})
  IN [baseTotal |-> Len(base.tests), headTotal |-> Len(head.tests),
      added     |-> Cardinality(in(head) \ in(base)),
      removed   |-> Cardinality(in(base) \ in(head)),
      regressions  |-> kind(Regressions),
      improvements |-> kind(Improvements),
      persistent   |-> kind(Persistent)]

\* createRow: of a test that is in one of the reports at least.
DiffRow(base, head, diff, id) ==
  [id |-> id, kind |-> diff[id], base |-> OutcomeIn(base, id), head |-> OutcomeIn(head, id)]

\* renderPlaywrightDiffMarkdown: the totals and three tables, each if it has rows.
DiffPage(base, head) ==
  LET diff     == PlaywrightDiff(base, head)
      rows(S)  == {DiffRow(base, head, diff, id) : id \in {x \in DOMAIN diff : diff[x] \in S}}
  IN [totals       |-> DiffTotals(base, head),
      regressions  |-> rows(Regressions),
      improvements |-> rows(Improvements),
      persistent   |-> rows(Persistent)]
=============================================================================
