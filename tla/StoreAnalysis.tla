------------------------------- MODULE StoreAnalysis -------------------------------
(***************************************************************************)
(* A store that grows, and what the reports say of it at every moment: CI  *)
(* runs are imported, on their day or late, and `flaker run' records local *)
(* runs (commands/exec/record-local-run.ts), whose held-out tests run and  *)
(* are stored with the sampled ones.                                       *)
(*                                                                         *)
(* The reports only read; they are operators on the history, evaluated in  *)
(* every state.                                                            *)
(***************************************************************************)
EXTENDS SamplingProfile

CONSTANTS
  CiReports,     \* the results that CI runs bring, functions from tests to outcomes
  LocalReports,  \* the results that local runs bring
  HoldBacks,     \* sets of tests that samples hold out
  WindowDays,    \* windowDays ?? 30
  LastDay,       \* bound: the last day
  MaxRuns        \* bound: runs

ASSUME StoreAnalysisAssumption ==
  /\ \A f \in CiReports \cup LocalReports :
       /\ DOMAIN f \subseteq Tests /\ DOMAIN f # {}
       /\ \A t \in DOMAIN f : f[t] \in Outcomes
  /\ HoldBacks \subseteq SUBSET Tests
  /\ WindowDays \in Nat \ {0} /\ LastDay \in Nat /\ MaxRuns \in Nat

VARIABLES today, history
vars == <<today, history>>

Init == today = 0 /\ history = << >>

NextDay ==
  /\ today < LastDay
  /\ today' = today + 1
  /\ UNCHANGED history

Store(run) ==
  /\ Len(history) < MaxRuns
  /\ history' = Append(history, run)
  /\ UNCHANGED today

\* A run keeps the time of its own start, however late it is collected.
ImportCiRun ==
  \E c \in Commits, f \in CiReports, late \in 0 .. 1 :
    /\ late <= today
    /\ Store([commit |-> c, source |-> "ci", day |-> today - late, results |-> f, sample |-> NoSample])

\* recordLocalRun: the sampled tests, the held-out tests, the sampling run.
RecordLocalRun ==
  \E c \in Commits, f \in LocalReports, held \in HoldBacks :
    /\ held \subseteq DOMAIN f
    /\ Store([commit |-> c, source |-> "local", day |-> today, results |-> f,
              sample |-> [selected |-> DOMAIN f \ held, heldOut |-> held]])

Next == NextDay \/ ImportCiRun \/ RecordLocalRun

Spec == Init /\ [][Next]_vars

-----------------------------------------------------------------------------
(* Properties.                                                             *)

\* Type invariant: runs are of known commits and of days that have come, and local runs of sampled
\* and held-out tests that do not overlap.
TypeOK ==
  /\ today \in 0 .. LastDay
  /\ Len(history) <= MaxRuns
  /\ \A i \in DOMAIN history :
       LET r == history[i] IN
       /\ r.commit \in Commits /\ r.source \in Sources /\ r.day \in 0 .. today
       /\ r.results \in CiReports \cup LocalReports
       /\ r.sample.selected \cap r.sample.heldOut = {}

\* Two days of windows next to each other share no result and lose none.
WindowsTile ==
  LET whole == Activity(history, 2 * WindowDays, today)
      last  == Activity(history, WindowDays, today)
      first == Activity(history, WindowDays, today - WindowDays)
  IN \A f \in {"runs", "ci", "local", "results", "passed", "failed"} : whole[f] = last[f] + first[f]

\* What is shown alike, and hangs together, in the bundle, the table and the list of flaky tests, the
\* calibration and the boosts it leads to.
Agree(all, status, table, listed, calibration, boosts) ==
  LET shown   == {EvalText(all.eval), EvalMarkdown(all.eval), TaskSummary(all.eval, all.reason),
                  KpiText(all.kpi), StatusText(status), StatusMarkdown(status), calibration}
      failing == table.flaky \cup table.broken \cup table.failing
      s       == all.eval.sampling
  IN /\ \A x, y \in shown : \A q \in DOMAIN x \cap DOMAIN y : x[q] = y[q]
     /\ all.eval.flaky = status.flaky + status.broken /\ all.eval.flaky = Count(listed)
     /\ calibration.warned = ("too little data" \in KpiIssues(all.kpi)) /\ calibration.coFailures <= 100
     /\ DOMAIN boosts \subseteq {p.test : p \in CoFailuresWindow(history, WindowDays, today)}
     /\ table.flaky \cap table.broken = {}
     /\ {x.test : x \in all.reason.classifications} = failing
     /\ TestsOf(all.recent) = {x.test : x \in all.evidence}
     /\ all.insights.both \cup all.insights.ciOnly \cup all.insights.localOnly \subseteq failing
     /\ s.tp + s.fp + s.fn + s.tn = s.matched
     /\ s.matched + s.localOnly + s.ciOnly <= all.kpi.commits

\* The reports of the current state, made of one bundle.
AllAgree(all) ==
  Agree(all, StatusSummary(all.data, all.kpi), FlakyTable(history, WindowDays, today),
        {x \in ListFlaky(history, WindowDays, today) : x.runs >= MinRuns},
        CalibrationReport(CalibrateSampling(history, WindowDays, today)),
        CoFailureBoosts(Files, history, WindowDays, today))

\* What any two reports both show, they show alike, although evaluations, the dashboard, the status
\* and the lists count for themselves, by queries of their own (eval.ts:704-706, facts.ts:31-43,
\* status/summary.ts:416-425, analyze/flaky.ts:39-41): flaky and broken tests, matched commits, the
\* matrix, the confidence.  Calibration asks for more data when the dashboard does, and every boost
\* it leads to has a pair of the dataset behind it.  No test is both flaky and broken, every failure of
\* the window is behind some verdict, and the windows of the trend tile.
ReportsAgree == AllAgree(Bundle(history, WindowDays, today)) /\ WindowsTile

\* A commit that passed locally and failed in CI is a miss: no later run of it, imported late or
\* passing, makes CI's failure pass, as long as the window has not moved (eval.ts:505-517).
MissesStay ==
  [][today' = today =>
       Matrix(Signals(history, WindowDays, today)).falseNegative \subseteq
         LET m == Matrix(Signals(history', WindowDays, today)) IN m.falseNegative \cup m.truePositive]_vars

\* A held-out failure is evidence from CI: its commit failed in CI by the other query, too, and is
\* no commit on which a local failure was a false alarm, or a local pass was right
\* (eval.ts:640-670 and 488-554).
HoldoutsAreEvidence ==
  LET m == Matrix(Signals(history, WindowDays, today))
      h == HoldoutReport(history, WindowDays, today)
  IN /\ \A c \in Commits : HeldOutFailures(history, c, WindowDays, today) # {} =>
          c \notin m.falsePositive \cup m.trueNegative
     /\ h.fnRate <= 1000
     /\ h.failures > 0 => FailedIn(Signals(history, WindowDays, today), "ci") # {}

\* Tests that fail together, directly or through others, are in one cluster; a test is in no more
\* than one; and no cluster is two that have nothing to do with each other (failure-clusters.ts:90-137).
ClustersAreWhole ==
  LET pairs    == TestCoFailures(history, WindowDays, today, 2, 80)
      clusters == Clusters(pairs)
  IN /\ \A p \in pairs : \E c \in clusters : p \subseteq c
     /\ \A c, d \in clusters : c = d \/ c \cap d = {}
     /\ \A c \in clusters : \A part \in (SUBSET c) \ {{}, c} :
          \E p \in pairs : p \cap part # {} /\ ~(p \subseteq part)

\* "CI failures caught by sampling / total CI failures" (analyze/kpi.ts:11): a commit counted as
\* caught has a failure of a test of the sample.
CaughtBySampling ==
  \A c \in Matrix(Signals(history, WindowDays, today)).truePositive :
    \E r \in Recent(history, WindowDays, today) :
      /\ r.commit = c /\ r.source = "local" /\ Failure(r)
      /\ r.test \notin history[r.run].sample.heldOut
=============================================================================
