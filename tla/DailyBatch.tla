------------------------------- MODULE DailyBatch -------------------------------
(***************************************************************************)
(* A nightly batch in CI: flaker.star is checked and says which tasks run   *)
(* for a change, every task is a job that leaves a Playwright report, or    *)
(* none, and two reporting pipelines read the same reports: reporting/ for  *)
(* the batch summary and the diff with the night before, `flaker report'    *)
(* for the summaries, the diff, the aggregate of all jobs and the comment   *)
(* on the pull request.  Until the batch is due, somebody edits the         *)
(* quarantine manifest, which two checks review.                            *)
(*                                                                         *)
(* A project is a record [config, existing, testsOf, fileOf, idOf, others]: *)
(* flaker.star, the spec files there are, the tests of each task in file    *)
(* order, their files, their identities, and what else lies among the       *)
(* artifacts that are aggregated.                                           *)
(***************************************************************************)
EXTENDS Integers, Sequences, FiniteSets, Functions, FlakerStar

CONSTANTS Projects, Manifests, Changes,
          Tries,        \* what the attempts of a test can be
          BatchAt       \* bound: the half day the first batch starts at

TryStatuses == {"passed", "failed", "timedout", "skipped", "interrupted"}

\* The tasks are a list, each test is in one file and listed once in its task, the
\* instant of a day is its midnight, and Playwright tries nothing again that passed.
ASSUME BatchAssumption ==
  /\ BatchAt \in Nat
  /\ \A p \in Projects :
       LET tasks == p.config.tasks IN
       /\ tasks \in Seq(Range(tasks))
       /\ \A id \in Ids(tasks) : p.testsOf[id] \in Seq(DOMAIN p.fileOf) /\ IsInjective(p.testsOf[id])
       /\ DOMAIN p.fileOf \subseteq DOMAIN p.idOf
  /\ \A m \in Manifests : \A k \in DOMAIN m : \A date \in {m[k].introduced, m[k].expires} :
       /\ date.at \in Int /\ date.form \in {"day", "instant", "bad"}
       /\ date.form = "day" => date.at % 2 = 0
  /\ Tries \subseteq Seq(TryStatuses)
  /\ \A tries \in Tries : \A i \in 1 .. Len(tries) - 1 : tries[i] # "passed"

PW == INSTANCE PlaywrightReport
TR == INSTANCE TestReport
QR == INSTANCE QuarantineReview

VARIABLES project,   \* the repository
          manifest,  \* the quarantine manifest
          now,       \* half days since the start
          phase,     \* "desk", "first" or "second" night, "over"
          waiting,   \* tasks whose job has not ended
          base,      \* task -> the report it left the night before, none or one
          head       \* task -> the report it left this night, none or one

batchVars == <<project, manifest, now, phase, waiting, base, head>>

Tasks  == project.config.tasks
Nobody == [t \in {} |-> {}]

\* What Playwright can report of a task: a test that was deleted or deselected is
\* not in the report, one it did not get to has no attempt.
Reports(task) ==
  LET tests         == project.testsOf[task]
      some(present) == TR!RowsAt(tests, {i \in DOMAIN tests : tests[i] \in present})
  IN UNION {{[i \in DOMAIN some(present) |-> [test |-> some(present)[i], attempts |-> tries[some(present)[i]]]]
             : tries \in [present -> Tries]} : present \in SUBSET Range(tests)}

BatchInit ==
  /\ project \in Projects
  /\ manifest \in Manifests
  /\ now = 0
  /\ phase = "desk"
  /\ waiting = {}
  /\ base = Nobody
  /\ head = Nobody

HalfDay ==
  /\ phase = "desk"
  /\ now < BatchAt
  /\ now' = now + 1
  /\ UNCHANGED <<project, manifest, phase, waiting, base, head>>

EditManifest ==
  /\ phase = "desk"
  /\ manifest' \in Manifests
  /\ UNCHANGED <<project, now, phase, waiting, base, head>>

\* The plan of a batch has the tasks that its change selects.
StartBatch(from, to) ==
  /\ phase = from
  /\ waiting = {}
  /\ \E change \in Changes :
       waiting' = BatchPlan(Tasks, Selection(Tasks, change).selected)
  /\ phase' = to
  /\ base' = head
  /\ head' = Nobody
  /\ UNCHANGED <<project, manifest, now>>

FirstNight  == now = BatchAt /\ StartBatch("desk", "first")
SecondNight == StartBatch("first", "second")

Leave(task, reports) ==
  /\ task \in waiting
  /\ waiting' = waiting \ {task}
  /\ head' = [t \in DOMAIN head \cup {task} |-> IF t = task THEN reports ELSE head[t]]
  /\ UNCHANGED <<project, manifest, now, phase, base>>

RunTask(task) == \E report \in Reports(task) : Leave(task, {report})

\* Playwright dies; the steps after it run all the same.
RunnerDies(task) == Leave(task, {})

\* The job itself is lost: nothing of it is uploaded.
JobDies(task) ==
  /\ task \in waiting
  /\ waiting' = waiting \ {task}
  /\ UNCHANGED <<project, manifest, now, phase, base, head>>

BatchNext ==
  \/ HalfDay
  \/ EditManifest
  \/ FirstNight
  \/ SecondNight
  \/ \E task \in waiting : RunTask(task) \/ RunnerDies(task) \/ JobDies(task)

BatchSpec == BatchInit /\ [][BatchNext]_batchVars

-----------------------------------------------------------------------------
Reported(night) == {t \in DOMAIN night : night[t] # {}}
ReportOf(night, task) == CHOOSE r \in night[task] : TRUE

\* buildPlaywrightSummary for the report of a task.
SummaryOf(night, task) == PW!PlaywrightSummary(ReportOf(night, task), project.fileOf)

\* runReportSummarize, which throws when the adapter does.
Summarized(night, task) ==
  {TR!Summarize(tests) : tests \in TR!Parsed(ReportOf(night, task), project.idOf, project.fileOf)}

\* The failures of a task in the batch summary (mutated: those that did not time out).
FailedOnly(totals) == totals["failed"]
FailedOf(totals) == totals["failed"] + totals["timedout"] + totals["interrupted"]

\* buildFlakerBatchSummary: a row for each task that left a summary of either kind.
BatchRow(task) ==
  IF head[task] = {} THEN [status |-> "missing", failed |-> 0, flaky |-> 0, skipped |-> 0, total |-> 0]
  ELSE LET totals == SummaryOf(head, task).totals
       IN [status  |-> IF FailedOf(totals) > 0 THEN "failed" ELSE "ok",
           failed  |-> FailedOf(totals),
           flaky   |-> totals["flaky"],
           skipped |-> totals["skipped"],
           total   |-> totals["total"]]

BatchSummary == [task \in DOMAIN head |-> BatchRow(task)]

\* renderFlakerBatchSummaryMarkdown.
BatchPage ==
  [tasks  |-> Cardinality(DOMAIN head),
   failed |-> Cardinality({t \in DOMAIN head : BatchSummary[t].status = "failed"}),
   rows   |-> BatchSummary]

\* flaker report aggregate over the summaries that could be made.
Shards == {t \in Reported(head) : Summarized(head, t) # {}}
Aggregated ==
  TR!AggregateDir([t \in Shards |-> CHOOSE s \in Summarized(head, t) : TRUE], project.others)

-----------------------------------------------------------------------------
BatchTypeOK ==
  /\ project \in Projects
  /\ manifest \in Manifests
  /\ now \in 0..BatchAt
  /\ phase \in {"desk", "first", "second"}
  /\ waiting \subseteq Ids(Tasks)
  /\ DOMAIN base \subseteq Ids(Tasks)
  /\ DOMAIN head \subseteq Ids(Tasks)

\* When the check finds no error, the batch runs no task without what it needs - every
\* need of a planned task is planned too, unless it waits for a trigger of its own - and
\* no spec twice: tasks that share one are filtered differently.  Check, selection and
\* plan read the same file, each in its own way; and a change of a spec that the check
\* does not warn of selects a task that runs it.  A project stays what it is, so it is
\* looked at before the nights (buildFlakerConfigSummary, buildFlakerSelection,
\* buildFlakerBatchPlan).
PlanIsSound ==
  phase = "desk" /\ ConfigErrors(project.config, project.existing) = {} =>
    /\ \A s \in project.existing :
         \/ <<"unmanaged-spec", s>> \in ConfigWarnings(project.config, project.existing)
         \/ \E id \in Selection(Tasks, {s}).selected : s \in TaskById(Tasks, id).specs
    /\ \A change \in Changes :
         LET plan == {TaskById(Tasks, id) : id \in BatchPlan(Tasks, Selection(Tasks, change).selected)}
         IN \A task \in plan :
              /\ \A id \in task.needs :
                   TaskById(Tasks, id) \in plan \/ TaskById(Tasks, id).trigger \notin {"none", "auto"}
              /\ \A other \in plan \ {task} :
                   task.specs \cap other.specs # {} => IsFiltered(task) /\ task.filter # other.filter

\* The two checks of the manifest agree: what one refuses the other refuses, except
\* that only one of them reads dates with a time, knows which task owns a spec, or
\* compares the two dates - and except on the day an entry expires, which counts as
\* expired from its first moment in one of them and not before the next day in the
\* other, and except that one of them takes a project without tasks for one whose tasks it
\* was not told; and they warn of the same entries (validateQuarantineManifest,
\* buildFlakerQuarantineSummary).
ReviewsAgree ==
  phase = "desk" =>
    LET known    == Ids(Tasks)
        untold   == IF known = {} THEN {"unknown-task"} ELSE {}
        refused  == QR!ManifestErrors(manifest, known, project.existing, now)
        refused2 == QR!SummaryErrors(manifest, Tasks, project.existing, now)
    IN IF ~QR!Parses(manifest) THEN \E p \in refused : p[2] = "incomplete"
       ELSE \A k \in DOMAIN manifest :
              LET e     == manifest[k]
                  first == {p[2] : p \in {q \in refused : q[1] = k}}
                  other == {p[2] : p \in {q \in refused2 : q[1] = k}}
                  lastDay == e.expires.form = "day" /\ e.expires.at < now /\ now < e.expires.at + 2
              IN /\ e.expires.form = "day" =>
                      (k \in QR!ManifestWarnings(manifest, now) <=> k \in QR!SummaryWarnings(manifest, now) /\ ~lastDay)
                 /\ IF e.introduced.form = "instant" \/ e.expires.form = "instant"
                    THEN first \ {"expired"} \subseteq other
                    ELSE first = (other \ ({"task-does-not-own-spec", "invalid-expiry-range"} \cup untold))
                                  \cup (IF lastDay THEN {"expired"} ELSE {})

\* What the pages have of a test that failed in the night.
FailureShown(task, i) ==
  LET batch     == BatchPage
      aggregate == Aggregated
      report    == ReportOf(head, task)
      page      == PW!Markdown(SummaryOf(head, task))
      tries     == report[i].attempts
      id        == project.idOf[report[i].test]
  IN /\ batch.rows[task].status = "failed" /\ batch.failed > 0
     /\ tries # <<"timedout">> => i \in page.unstable
     /\ \A s \in Summarized(head, task) :
          /\ \E r \in Range(TR!PrComment(s).failures) : r.id = id
          /\ \E r \in TR!SummaryPage(s).rows : r.id = id /\ r.status = "failed"
     /\ task \in Shards => \A a \in aggregate :
          LET merged == TR!AggregatePage(a) IN
          /\ id \in DOMAIN merged.rows
          /\ task \in merged.rows[id].shards
          /\ "failed" \in merged.rows[id].statuses
          /\ merged.shards[task].unstable > 0

\* A test that failed in the night is not lost on the way: its task failed in the batch
\* summary, the comment and the pages of its job list it (one of the pages not when it timed
\* out at its only try), and the aggregate of all jobs has it as failed, with its job -
\* whatever else the job ran, also when other tests have the same identity
\* (buildFlakerBatchSummary, formatPrComment, renderPlaywrightMarkdown,
\* runReportAggregate).  The summary of a job that did not get to all of its tests
\* cannot be made, and a JSON file that is no summary stops the aggregate.
NoFailureIsLost ==
  \A task \in Reported(head) : \A i \in DOMAIN ReportOf(head, task) :
    LET tries == ReportOf(head, task)[i].attempts
    IN tries # <<>> /\ tries[Len(tries)] \in {"failed", "timedout"} => FailureShown(task, i)

\* Some test was interrupted, or timed out and was then skipped by its own condition.
Disputed(report) ==
  \E i \in DOMAIN report :
    LET tries == report[i].attempts IN
    \/ "interrupted" \in Range(tries)
    \/ "timedout" \in Range(tries) /\ tries[Len(tries)] = "skipped"

\* The diffs of the two pipelines name the same tests.
DiffsAgree(pw, tr) ==
  LET Named(rows) == {project.idOf[r.id] : r \in rows}
      Of(rows, kinds) == {r \in rows : r.kind \in kinds}
  IN /\ Named(pw.regressions) = TR!InBuckets(tr.rows, {"new_failures", "new_flaky"})
     /\ pw.totals.regressions = tr.counts["new_failures"] + tr.counts["new_flaky"]
     /\ Named(Of(pw.persistent, {"persistent_flaky"})) = TR!InBuckets(tr.rows, {"persistent_flaky"})
     /\ Named(Of(pw.improvements, {"resolved", "improved"}) \cup Of(pw.regressions, {"worsened_failure"}))
          = TR!InBuckets(tr.rows, {"resolved_failures", "resolved_flaky"})
     /\ pw.totals.baseTotal + pw.totals.added = pw.totals.headTotal + pw.totals.removed

\* Both pipelines say the same of two nights of a task, when each test has its own identity,
\* and none was interrupted or skipped after it timed out (one of them goes by the last try):
\* the same counts, the same regressions, the same tests that
\* stay flaky, and the same improvements but for tests that are gone (in one of them an
\* improvement when they were unstable) and for flaky tests that fail now (a resolved
\* flaky test in the other, beside the new failure).
PipelinesAgree ==
  \A task \in Reported(base) \cap Reported(head) :
    LET was == ReportOf(base, task)
        is  == ReportOf(head, task)
        row == BatchRow(task)
    IN IsInjective(project.idOf) /\ ~Disputed(was) /\ ~Disputed(is) =>
         \A old \in Summarized(base, task), new \in Summarized(head, task) :
           /\ DiffsAgree(PW!DiffPage(SummaryOf(base, task), SummaryOf(head, task)),
                         TR!DiffPage(TR!ReportDiff(old, new)))
           /\ \A count \in {"total", "failed", "flaky", "skipped"} :
                row[count] = new.totals[count]
=============================================================================
