-------------------------------- MODULE RunTests --------------------------------
(***************************************************************************)
(* `flaker run' (commands/run.ts): the runner lists its tests, a sample    *)
(* and a holdout are planned (Sampling, AffectedTests), both are executed  *)
(* in batches (runners/orchestrator.ts), behind the quarantine manifest    *)
(* when there is one (QuarantineRuntime), and the results are recorded.    *)
(*                                                                         *)
(* Recording is one step here: LocalHistory has its steps and what a kill  *)
(* leaves of them.                                                         *)
(***************************************************************************)
EXTENDS RunRequest, Sampling, AffectedTests, QuarantineRuntime, SequencesExt

CONSTANTS
  Tests,
  SuiteOf,        \* the file of a test
  Tagged,         \* the tests with the configured flaky tag
  Projects,       \* the projects a resolver may find
  Cores,          \* subset of {"typescript", "moonbit"}
  Histories,      \* the tests with rows in the store when the first run starts
  Quarantinable,  \* the tests that the store may have in quarantine
  Manifests,      \* the manifests: for each test, the modes of its entries
  Listings,       \* what the runner may list: sets of entries
  Invocations,    \* options and configurations `flaker run' may be called with
  Concurrencies,  \* batches that run at a time
  BatchSizes,     \* maxBatchSize of the runner
  RunnerStatuses, \* the statuses the runner gives
  MaxRuns         \* bound: runs

ASSUME RunAssumption ==
  /\ RunnerStatuses \subseteq Statuses
  /\ IsFiniteSet(Tests) /\ Quarantinable \subseteq Tests /\ Histories \subseteq SUBSET Tests
  /\ Manifests \subseteq [Tests -> Seq(Modes)]
  /\ \A l \in Listings : IsFiniteSet(l) /\ \A e \in l : e = <<e[1], e[2]>> /\ e[1] \in Tests /\ e[2] \in Nat \ {0}
  /\ BatchSizes \cup Concurrencies \subseteq Nat \ {0}
  /\ \A p \in Projects : IsProject(p)
  /\ Invocations # {} /\ \A i \in Invocations : IsRequest(PrepareRunRequest(i))

VARIABLES
  core,        \* the core that loadCore found
  project,     \* what is on the disk
  graph,       \* what the resolver read of it
  manifest,    \* the quarantine manifest
  history,     \* tests with rows in the store
  quarantined, \* tests that the store has in quarantine
  runs,        \* runs so far
  pc,
  invocation,  \* the options and the configuration of the run
  request,     \* what prepareRunRequest makes of them
  listed,      \* listedTests; listing is over when pc leaves "list"
  plan,        \* planSample's result
  batches,     \* of the orchestration that goes on, and how far it is
  merged,      \* outcomes of the batches of the sample and of the holdout
  exit         \* the exit code of the process

setup == <<core, project, graph, manifest>>
store == <<history, quarantined>>
vars  == <<setup, store, runs, pc, invocation, request, listed, plan, batches, merged, exit>>

Suites     == {SuiteOf[t] : t \in Tests}
NoPlan     == [candidates |-> {}, sampled |-> {}, holdout |-> {}, mode |-> "none", coldStart |-> FALSE]
NoBatches  == [todo |-> <<>>, running |-> <<>>, concurrency |-> 1]
NoOutcomes == [sample |-> <<>>, holdout |-> <<>>]

\* What a batch came to; `asked' are the entries of the batch.
IsOutcome(o) ==
  /\ o.exitCode \in {0, 1} /\ KeysOf(ToSet(o.asked)) \subseteq Tests
  /\ o.results \in UNION {[ts -> Result] : ts \in SUBSET Tests}

\* Type invariant: what is sampled or held out is a candidate, and no more batches run
\* than are let.
TypeOK ==
  /\ history \subseteq Tests /\ quarantined \subseteq Tests
  /\ pc \in {"start", "list", "plan", "sample", "holdout", "record"}
  /\ plan.sampled \cup plan.holdout \subseteq plan.candidates
  /\ Len(batches.running) <= batches.concurrency
  /\ \A i \in DOMAIN merged.sample : IsOutcome(merged.sample[i])
  /\ \A i \in DOMAIN merged.holdout : IsOutcome(merged.holdout[i])
  /\ exit \in {"none", "0", "1", "thrown"}

Init ==
  /\ core \in Cores /\ manifest \in Manifests
  /\ project \in Projects /\ graph = GraphOf(project)
  /\ history \in Histories /\ quarantined = {} /\ runs = 0
  /\ pc = "start" /\ listed = {} /\ plan = NoPlan
  /\ invocation = (CHOOSE i \in Invocations : TRUE) /\ request = PrepareRunRequest(invocation)
  /\ batches = NoBatches /\ merged = NoOutcomes /\ exit = "none"

-----------------------------------------------------------------------------
(* The request, the list and the plan                                      *)

\* `flaker run', after the quarantine of the store has changed, or not.
StartRun(i) ==
  /\ pc = "start" /\ runs < MaxRuns
  /\ pc' = "list" /\ runs' = runs + 1
  /\ invocation' = i /\ request' = PrepareRunRequest(i)
  /\ \E q \in SUBSET Quarantinable : quarantined' = q
  /\ listed' = {} /\ plan' = NoPlan /\ merged' = NoOutcomes /\ exit' = "none"
  /\ UNCHANGED <<setup, history, batches>>

\* loadListedTests, filterFlakyTaggedTests
Untagged(entries) == IF request.skipTagged THEN {e \in entries : KeyOf(e) \notin Tagged} ELSE entries

ListTests ==
  /\ pc = "list" /\ pc' = "plan"
  /\ \E l \in Listings : listed' = Untagged(l)
  /\ UNCHANGED <<setup, store, runs, invocation, request, plan, batches, merged, exit>>

\* The runner cannot list: the run goes on without a list.
ListFails ==
  /\ pc = "list" /\ pc' = "plan" /\ listed' = {}
  /\ UNCHANGED <<setup, store, runs, invocation, request, plan, batches, merged, exit>>

\* prepareRunRequest reads the manifest for runs that skip what is quarantined, and when
\* the configuration applies it to every run.
Entries == IF request.skipQuarantined \/ request.runtimeApply THEN manifest
           ELSE [t \in Tests |-> <<>>]

\* filterQuarantinedTests (mutated: the manifest alone decides).
InManifest(metas)     == {e \in metas : KeyOf(e) \notin Skipped(Tests, Entries)}
NotQuarantined(metas) == {e \in InManifest(metas) : KeyOf(e) \notin quarantined}

Candidates ==
  LET metas == FilterMetaToListedTests(BuildSamplingMeta(core, history, listed), listed)
  IN IF request.skipQuarantined THEN NotQuarantined(metas) ELSE metas

\* fallbackReason of prepareSamplingMeta
ColdStart == history = {} /\ listed # {}

\* No resolver is asked when no file has changed.
AffectedSuites == Resolve(project.resolver, graph, request.changed, Suites)
Affected(metas) == LET suites == AffectedSuites IN {e \in metas : SuiteOf[KeyOf(e)] \in suites}

\* The batches of `entries', in some order (mutated: only the full ones).
Orders(entries) == {o \in [1 .. Cardinality(entries) -> entries] : IsInjective(o)}
FullBatches(order, size) ==
  [i \in 1 .. Len(order) \div size |-> SubSeq(order, (i - 1) * size + 1, i * size)]
Batches(order, size) ==
  [i \in 1 .. (Len(order) + size - 1) \div size |->
     SubSeq(order, (i - 1) * size + 1, Clamp(i * size, Len(order)))]

\* orchestrate is called for `entries'.
Orchestrate(entries) ==
  \E order \in Orders(entries), size \in BatchSizes, concurrency \in Concurrencies :
     batches' = [todo |-> Batches(order, size), running |-> <<>>, concurrency |-> concurrency]

\* planSample; a dry run ends with it, and an error ends the run.
Plan ==
  /\ pc = "plan"
  /\ LET candidates == Candidates IN
     \E pick \in SelectByStrategy(request, candidates, Affected(candidates)) :
       IF pick.mode = "error"
       THEN /\ pc' = "start" /\ exit' = "thrown" /\ UNCHANGED <<plan, batches>>
       ELSE /\ \E holdout \in SelectHoldout(candidates, pick.sampled, request.holdout) :
                 plan' = [candidates |-> candidates, sampled |-> pick.sampled,
                          holdout |-> holdout, mode |-> pick.mode, coldStart |-> ColdStart]
            /\ IF request.dryRun
               THEN pc' = "start" /\ exit' = "0" /\ UNCHANGED batches
               ELSE pc' = "sample" /\ exit' = "none" /\ Orchestrate(pick.sampled)
  /\ UNCHANGED <<setup, store, runs, invocation, request, listed, merged>>

-----------------------------------------------------------------------------
(* executeBatched                                                          *)

\* The runner, behind the manifest when it has entries; it may throw.
Wrapped == \E t \in Tests : Entries[t] # <<>>
Executions(batch) ==
  LET tests    == KeysOf(ToSet(batch))
      outcomes == IF Wrapped
                  THEN {WithQuarantine(tests, Entries, o) : o \in BaseOutcomes(tests, Entries, RunnerStatuses)}
                  ELSE RunnerOutcomes(tests, RunnerStatuses)
  IN {[asked |-> batch, exitCode |-> o.exitCode, results |-> o.results] : o \in outcomes}

\* A batch is started while the group is not full.
HasRoom == Len(batches.running) < batches.concurrency

StartBatch ==
  /\ pc \in {"sample", "holdout"} /\ batches.todo # <<>> /\ HasRoom
  /\ \E o \in Executions(Head(batches.todo)) :
       batches' = [batches EXCEPT !.todo = Tail(@), !.running = Append(@, o)]
  /\ UNCHANGED <<setup, store, runs, pc, invocation, request, listed, plan, merged, exit>>

\* A group is full, or there is nothing left to start (mutated: only a full group is
\* waited for).
GroupIsFull == Len(batches.running) = batches.concurrency
GroupIsWhole == Len(batches.running) = batches.concurrency \/ batches.todo = <<>>

\* Promise.all of a group: its outcomes are merged in the order of the batches.
MergeGroup ==
  /\ pc \in {"sample", "holdout"} /\ batches.running # <<>> /\ GroupIsWhole
  /\ merged' = [merged EXCEPT ![pc] = @ \o batches.running]
  /\ batches' = [batches EXCEPT !.running = <<>>]
  /\ UNCHANGED <<setup, store, runs, pc, invocation, request, listed, plan, exit>>

\* A runner throws: whatever else was run is lost, and nothing is recorded.
BatchThrows ==
  /\ pc \in {"sample", "holdout"} /\ batches.todo # <<>> /\ HasRoom
  /\ pc' = "start" /\ exit' = "thrown" /\ batches' = NoBatches
  /\ UNCHANGED <<setup, store, runs, invocation, request, listed, plan, merged>>

\* The holdout follows the sample; without one it is skipped.
EndSample ==
  /\ pc = "sample" /\ batches.todo = <<>> /\ batches.running = <<>>
  /\ IF plan.holdout # {} THEN pc' = "holdout" /\ Orchestrate(plan.holdout)
     ELSE pc' = "record" /\ batches' = NoBatches
  /\ UNCHANGED <<setup, store, runs, invocation, request, listed, plan, merged, exit>>

EndHoldout ==
  /\ pc = "holdout" /\ batches.todo = <<>> /\ batches.running = <<>>
  /\ pc' = "record" /\ batches' = NoBatches
  /\ UNCHANGED <<setup, store, runs, invocation, request, listed, plan, merged, exit>>

-----------------------------------------------------------------------------
(* recordLocalRun and the exit code                                        *)

\* The largest exit code of the batches (mutated: the last one's).
LastExitCode == IF merged.sample = <<>> THEN 0 ELSE merged.sample[Len(merged.sample)].exitCode
MaxExitCode == IF \E i \in DOMAIN merged.sample : merged.sample[i].exitCode = 1 THEN 1 ELSE 0

WithRows(outcomes) == UNION {DOMAIN outcomes[i].results : i \in DOMAIN outcomes}

Record ==
  /\ pc = "record" /\ pc' = "start"
  /\ history' = history \cup WithRows(merged.sample) \cup WithRows(merged.holdout)
  /\ exit' = IF MaxExitCode = 0 THEN "0" ELSE "1"
  /\ UNCHANGED <<setup, quarantined, runs, invocation, request, listed, plan, batches, merged>>

Next ==
  \/ \E i \in Invocations : StartRun(i)
  \/ ListTests \/ ListFails \/ Plan
  \/ StartBatch \/ MergeGroup \/ BatchThrows \/ EndSample \/ EndHoldout
  \/ Record

Spec == Init /\ [][Next]_vars
FairSpec == Spec /\ WF_vars(Next)

-----------------------------------------------------------------------------
(* Properties                                                              *)

Planned == plan.mode # "none"
Ended   == pc = "start" /\ exit \in {"0", "1"} /\ ~request.dryRun

\* The packages that a change reaches, without an algorithm: the ones in every set that has
\* the packages of the changed files and is closed under dependents.
Reached ==
  {p \in Packages(graph) : \A closed \in SUBSET Packages(graph) :
     /\ \A q \in Packages(graph) : graph.owns[q] \cap request.changed # {} => q \in closed
     /\ \A q \in Packages(graph) : graph.needs[q] \cap closed # {} => q \in closed
     => p \in closed}
IsReached(entry) == \E p \in Reached : SuiteOf[KeyOf(entry)] \in graph.tests[p]

\* What a package file says is needed, behind the name of the module or by a path that does not
\* read as the module's name before another package.  Nothing names the root.
ReadsAsOther(q) ==
  project.name # <<>> /\ \E other \in Packages(graph) \ {<<>>} : q = project.name \o other
Declares(p, q) ==
  /\ q # <<>>
  /\ project.name \o q \in project.dirs[p].declared \/ (q \in project.dirs[p].declared /\ ~ReadsAsOther(q))

\* An affected run executes the candidates that depend on a changed file, over however many
\* packages and whatever cycles, and no others; a hybrid run has room for a test that no
\* change reaches only when all that are reached are in the sample.  No declared dependency
\* between two packages is overlooked (selectByStrategy, resolve, sampleHybrid, buildDependents).
AffectedComeFirst ==
  /\ Planned /\ merged = NoOutcomes =>
    /\ plan.mode = "affected" => plan.sampled = {e \in plan.candidates : IsReached(e)}
    /\ plan.mode = "hybrid" /\ (\E e \in plan.sampled : ~IsReached(e)) =>
         \A e \in plan.candidates : IsReached(e) => e \in plan.sampled
  /\ pc = "plan" /\ ~HasRules(project.resolver) =>
         \A p, q \in Packages(graph) : Declares(p, q) => q \in graph.needs[p]

\* The budget is spent and not exceeded: no candidate counts twice, and a fallback counts
\* like the mode it stands in for (resolveCount, weightedPick, sampleHybrid).
BudgetIsSpent ==
  Planned /\ plan.mode \in {"weighted", "hybrid"} =>
    Cardinality(plan.sampled) =
      Clamp(ResolveCount(request, Cardinality(plan.candidates)), Cardinality(plan.candidates))

\* A full gate executes every candidate, also under a sampling strategy of the command line
\* and whatever share the project's configuration gives (resolveGate, planSample).
FullGateRunsAll ==
  /\ Planned /\ invocation.gate.strategy = {"full"}
  /\ invocation.opts.percentage = {} /\ plan.mode # "affected"
  => plan.sampled = plan.candidates

\* What a plan samples is what was asked for: by the change, the budget, and the gate.
SampleIsSound == AffectedComeFirst /\ BudgetIsSpent /\ FullGateRunsAll

\* A holdout finds what sampling misses, so no test is in the sample and in the holdout, even
\* if it is listed twice; and none is planned because the store remembers it, nor more often
\* than it is listed (selectHoldout, filterMetaToListedTests).
NoTestTwice ==
  /\ KeysOf(plan.sampled) \cap KeysOf(plan.holdout) = {}
  /\ Planned /\ listed # {} =>
       \A t \in Tests : Cardinality({e \in plan.candidates : KeyOf(e) = t})
                        <= Cardinality({e \in listed : KeyOf(e) = t})

\* When quarantined tests are to be skipped, neither the store's nor the manifest's are run,
\* not even as a holdout: nothing they do is recorded.
QuarantinedAreLeftAlone ==
  request.skipQuarantined =>
    \A outcome \in ToSet(merged.sample \o merged.holdout) :
      DOMAIN outcome.results \cap (quarantined \cup Skipped(Tests, manifest)) = {}

Asked(outcomes) == FlattenSeq([i \in DOMAIN outcomes |-> outcomes[i].asked])

\* Every entry of the sample, and then of the holdout, is handed to the runner once, however it
\* is cut into batches and groups; the summary, made before that, says how many they are and how
\* many are spared, and calls the store empty only if it still is (executeBatched,
\* formatSamplingSummary).
EveryTestIsAskedOnce ==
  pc \in {"holdout", "record"} =>
    LET sample  == Asked(merged.sample)
        holdout == Asked(merged.holdout)
        page    == SummaryPage(plan)
    IN /\ IsInjective(sample) /\ ToSet(sample) = plan.sampled
       /\ page.selected[1] = Len(sample)
       /\ page.saved = Cardinality(plan.candidates \ ToSet(sample))
       /\ pc = "record" =>
            /\ IsInjective(holdout) /\ ToSet(holdout) = plan.holdout
            /\ page.holdout = {Len(holdout)} \ {0}
       /\ page.hint # {} => history = {}

Blocks(outcome) == \E t \in DOMAIN outcome.results : IsBlockingFailure(outcome.results[t])

\* A run exits with 0 only when no result of its sample blocks.  Behind a manifest it exits with
\* 1 only when one does, or a batch has none: what is held out or allowed to fail does not fail
\* it (executeBatched, summarizeQuarantineResults).
ExitTellsFailures ==
  Ended =>
    /\ exit = "0" => \A i \in DOMAIN merged.sample : ~Blocks(merged.sample[i])
    /\ exit = "1" /\ Wrapped =>
         \E i \in DOMAIN merged.sample : Blocks(merged.sample[i]) \/ DOMAIN merged.sample[i].results = {}

Targets == UNION {{[spec |-> s, task |-> p] : s \in graph.tests[p] \cap Suites} : p \in Packages(graph)}
Specs(selections) == {s.spec : s \in selections}

\* What explain reports as affected is what resolve selects, once, and a target that no change
\* is in is there because of a package that it needs and that is itself reached; its summary
\* says when nothing was affected (explain, buildAffectedReport).
ReportAgrees ==
  pc = "plan" =>
  LET report == Explain(project.resolver, graph, request.changed, Targets)
      others == report.selected \ report.matched
  IN /\ Specs(report.selected) = AffectedSuites
     /\ {[spec |-> s.spec, task |-> s.task] : s \in report.matched}
          \cap {[spec |-> s.spec, task |-> s.task] : s \in others} = {}
     /\ \A s \in others : s.includedBy # {} /\ s.includedBy \subseteq graph.needs[s.task] \cap Reached
     /\ report.summary.selectedCount = 0 => AffectedSuites = {}
     /\ report.matched = {} /\ project.resolver = "simple" => report.unmatched = request.changed

\* Every run ends: no batch is forgotten, and no group is waited for that is not started.
RunEnds == [](pc # "start" => <>(pc = "start"))
=============================================================================
