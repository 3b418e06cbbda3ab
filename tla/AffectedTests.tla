------------------------------ MODULE AffectedTests ------------------------------
(***************************************************************************)
(* Which tests a change affects: the dependency resolvers (resolvers/*.ts) *)
(* and the graph functions of the TypeScript core (core/fallback.ts).      *)
(*                                                                         *)
(* Operators only.  A project is what is on the disk: for each directory   *)
(* (a path: the sequence of its segments) whether it has a package file,   *)
(* what that declares, and the sources and tests directly in it.  A task   *)
(* of flaker.star or a glob rule takes the place of a directory: its       *)
(* sources are the files that its patterns match.  What a resolver reads   *)
(* of a project is a graph: `owns' gives the files of a package, `needs'   *)
(* the packages it depends on, `tests' its test files.                     *)
(***************************************************************************)
EXTENDS Naturals, FiniteSets, Sequences, SequencesExt

Resolvers == {"workspace", "moon", "simple", "bitflow", "glob"}

\* Only a moon project has a name that imports begin with, and a rule depends on nothing.
IsProject(project) ==
  /\ project.resolver \in Resolvers
  /\ project.name \in Seq(STRING) /\ (project.resolver # "moon" => project.name = <<>>)
  /\ IsFiniteSet(DOMAIN project.dirs) /\ DOMAIN project.dirs \subseteq Seq(STRING)
  /\ project.resolver = "glob" => \A d \in DOMAIN project.dirs : project.dirs[d].declared = {}

Directories(project)  == DOMAIN project.dirs
Below(project, path)  == {d \in Directories(project) : IsPrefix(path, d)}
FilesIn(project, dirs) == UNION {project.dirs[d].sources \cup project.dirs[d].tests : d \in dirs}
TestsIn(project, dirs) == UNION {project.dirs[d].tests : d \in dirs}

-----------------------------------------------------------------------------
(* WorkspaceResolver: packages are known by their directories, not names.  *)

\* discoverPackages: the directories right below a workspace pattern.
WorkspacePackages(project) ==
  {d \in Directories(project) :
     project.dirs[d].package /\ \E base \in project.bases : IsPrefix(base, d) /\ Len(d) = Len(base) + 1}

\* extractWorkspaceDeps: a dependency that is not in the workspace reaches no package.
WorkspaceDeps(project, p) == project.dirs[p].declared \cap WorkspacePackages(project)

\* findTestFiles, walkDir
TestDirectories == {"tests", "test", "__tests__", "src"}
WorkspaceTests(project, p) ==
  LET InTestDirectory(d) ==
        /\ Len(d) > Len(p) /\ d[Len(p) + 1] \in TestDirectories
        /\ \A i \in Len(p) + 2 .. Len(d) : d[i] \notin {"node_modules", ".git"}
  IN TestsIn(project, {d \in Below(project, p) : InTestDirectory(d)})

WorkspaceGraph(project) ==
  LET packages == WorkspacePackages(project) IN
  [owns  |-> [p \in packages |-> FilesIn(project, Below(project, p))],
   needs |-> [p \in packages |-> WorkspaceDeps(project, p)],
   tests |-> [p \in packages |-> WorkspaceTests(project, p)]]

-----------------------------------------------------------------------------
(* MoonResolver: an import is a path, behind the name of the module or not. *)

\* walkForPackages
Unwalked == {"node_modules", ".git", "_build", "target", ".mooncakes"}
MoonPackages(project) ==
  {d \in Directories(project) : project.dirs[d].package /\ ToSet(d) \cap Unwalked = {}}

\* resolveImportToPath: none, or the local package that an import means.  The last resort
\* is the first package of the walk whose path the import ends with.
ResolveImport(project, import) ==
  LET packages == MoonPackages(project) \ {<<>>}
      module   == project.name
      local    == SubSeq(import, Len(module) + 1, Len(import))
      tails    == SelectSeq(project.walk, LAMBDA p : p \in packages /\ IsSuffix(p, import))
  IN IF module # <<>> /\ IsPrefix(module, import) /\ local \in packages THEN {local}
     ELSE IF import \in packages THEN {import}
     ELSE IF tails # <<>> THEN {Head(tails)} ELSE {}

\* matchChangedPackages: the root owns nothing but what is directly in it.
MoonFiles(project, p) == FilesIn(project, IF p = <<>> THEN {p} ELSE Below(project, p))

MoonGraph(project) ==
  LET packages == MoonPackages(project) IN
  [owns  |-> [p \in packages |-> MoonFiles(project, p)],
   needs |-> [p \in packages |-> UNION {ResolveImport(project, i) : i \in project.dirs[p].declared}],
   tests |-> [p \in packages |-> project.dirs[p].tests]]

-----------------------------------------------------------------------------
(* The other resolvers.                                                    *)

\* parseBitflowWorkflowTasks, matchBitflowTaskPaths.  A test file belongs to a task only
\* if it has the id of the task.
WorkflowGraph(project) ==
  [owns  |-> [t \in Directories(project) |-> project.dirs[t].sources],
   needs |-> [t \in Directories(project) |-> project.dirs[t].declared],
   tests |-> [t \in Directories(project) |-> project.dirs[t].tests]]

\* SimpleResolver: a file in src/<directory> selects what is below tests/<directory>; one in
\* src itself, what is in tests itself.
Covers(changed, spec) == spec = changed \/ (changed # <<>> /\ IsPrefix(changed, spec))
DirectoryGraph(project) ==
  [owns  |-> [d \in Directories(project) |-> project.dirs[d].sources],
   needs |-> [d \in Directories(project) |-> {}],
   tests |-> [d \in Directories(project) |->
                TestsIn(project, {s \in Directories(project) : Covers(d, s)})]]

\* createResolver
GraphOf(project) ==
  CASE project.resolver = "workspace"          -> WorkspaceGraph(project)
    [] project.resolver = "moon"               -> MoonGraph(project)
    [] project.resolver = "simple"             -> DirectoryGraph(project)
    [] project.resolver \in {"bitflow", "glob"} -> WorkflowGraph(project)

-----------------------------------------------------------------------------
(* resolver.resolve                                                        *)

Packages(graph) == DOMAIN graph.owns

\* matchChangedPackages; the first loop of findAffectedNodes.
DirectPackages(graph, changed) == {p \in Packages(graph) : graph.owns[p] \cap changed # {}}

\* The changed files that no package owns.
Unmatched(graph, changed) == {f \in changed : \A p \in Packages(graph) : f \notin graph.owns[p]}

\* buildDependents; buildReverseDeps.
Dependents(graph, p) == {q \in Packages(graph) : p \in graph.needs[q]}

\* The queue of resolve, explain and expandTransitive: every package in it adds its
\* dependents (mutated: only the ones that are in it at the start do).
OneRound(graph, direct) == direct \cup UNION {Dependents(graph, p) : p \in direct}
Expand(graph, direct) ==
  LET queued[n \in 0 .. Cardinality(Packages(graph))] ==
        IF n = 0 THEN direct ELSE OneRound(graph, queued[n - 1])
  IN queued[Cardinality(Packages(graph))]

\* expandAffectedPackages: the affected packages that a package was reached from.
IncludedBy(graph, direct) ==
  LET affected == Expand(graph, direct)
      reached  == UNION {Dependents(graph, p) : p \in affected}
  IN [q \in reached |-> graph.needs[q] \cap affected]

\* resolve of the resolvers with packages.
ResolveByGraph(graph, changed, suites) ==
  suites \cap UNION {graph.tests[p] : p \in Expand(graph, DirectPackages(graph, changed))}

\* compileRules; a directory is a rule of SimpleResolver.
Rules(graph) == {[changed |-> graph.owns[p], select |-> graph.tests[p]] : p \in Packages(graph)}

\* resolve of SimpleResolver and GlobRuleResolver.
ResolveByRules(rules, changed, suites) ==
  {s \in suites : \E r \in rules : r.changed \cap changed # {} /\ s \in r.select}

HasRules(resolver) == resolver \in {"glob", "simple"}
Resolve(resolver, graph, changed, suites) ==
  IF HasRules(resolver) THEN ResolveByRules(Rules(graph), changed, suites)
  ELSE ResolveByGraph(graph, changed, suites)

-----------------------------------------------------------------------------
(* Affected reports: resolver.explain                                      *)

\* createAffectedSelection
Selection(target, paths, parents) ==
  [spec |-> target.spec, task |-> target.task, direct |-> paths # {},
   paths |-> paths, includedBy |-> parents]

\* buildAffectedReportFallback: `direct' gives the changed files of the targets that were
\* matched, `includedBy' the parents of a task; what was matched itself is not listed
\* a second time (mutated: it is).
Also(targets, direct, includedBy)       == {t \in targets : t.task \in DOMAIN includedBy}
Transitive(targets, direct, includedBy) ==
  {t \in targets \ DOMAIN direct : t.task \in DOMAIN includedBy}
Selections(targets, direct, includedBy) ==
  {Selection(t, direct[t], {}) : t \in targets \cap DOMAIN direct} \cup
  {Selection(t, {}, includedBy[t.task]) : t \in Transitive(targets, direct, includedBy)}

\* buildAffectedReport, with its summary.
BuildAffectedReport(targets, direct, includedBy, unmatched) ==
  LET selected == Selections(targets, direct, includedBy)
      matched  == {s \in selected : s.direct}
  IN [matched |-> matched, selected |-> selected, unmatched |-> unmatched,
      summary |-> [matchedCount   |-> Cardinality(matched),
                   selectedCount  |-> Cardinality(selected),
                   unmatchedCount |-> Cardinality(unmatched)]]

\* targetsByTaskId and directSelections of explain.
DirectSelections(graph, changed, targets) ==
  [t \in {t \in targets : t.task \in DirectPackages(graph, changed)} |-> graph.owns[t.task] \cap changed]

\* explain of WorkspaceResolver, MoonResolver and BitflowNativeResolver.
ExplainByGraph(graph, changed, targets) ==
  BuildAffectedReport(targets,
    DirectSelections(graph, changed, targets),
    IncludedBy(graph, DirectPackages(graph, changed)),
    Unmatched(graph, changed))

\* The files of a change that a rule selects a target for.
Paths(rules, changed, target) ==
  {f \in changed : \E r \in rules : f \in r.changed /\ target.spec \in r.select}
ByRules(rules, changed, targets, unmatched) ==
  BuildAffectedReport(targets,
    [t \in {t \in targets : Paths(rules, changed, t) # {}} |-> Paths(rules, changed, t)],
    [task \in {} |-> {}], unmatched)

\* explain of GlobRuleResolver: a file that matches a rule is matched, whatever that selects.
ExplainByRules(rules, changed, targets) ==
  ByRules(rules, changed, targets, {f \in changed : \A r \in rules : f \notin r.changed})

\* explain of SimpleResolver: a file that selects no target is unmatched.
ExplainByDirectory(rules, changed, targets) ==
  ByRules(rules, changed, targets, changed \ UNION {Paths(rules, changed, t) : t \in targets})

Explain(resolver, graph, changed, targets) ==
  CASE resolver = "glob"   -> ExplainByRules(Rules(graph), changed, targets)
    [] resolver = "simple" -> ExplainByDirectory(Rules(graph), changed, targets)
    [] OTHER               -> ExplainByGraph(graph, changed, targets)
=============================================================================
