------------------------------- MODULE FlakerStar -------------------------------
(***************************************************************************)
(* The batch configuration flaker.star: what the check of it reports, which *)
(* tasks a change selects, and which of them the batch plan runs            *)
(* (reporting/flaker-config-*, reporting/flaker-batch-plan-core.ts).        *)
(*                                                                         *)
(* Operators only.  A configuration has a sequence of nodes [id, dependsOn] *)
(* and one of tasks [id, node, specs, filter, srcs, needs, trigger]: the    *)
(* spec files and the grep options on its command line, the files its `srcs'*)
(* patterns match, and a trigger or "none".                                 *)
(***************************************************************************)
EXTENDS Naturals, Sequences, FiniteSets

Ids(entries) == {entries[i].id : i \in DOMAIN entries}

Repeated(entries) ==
  {entries[i].id : i \in {k \in DOMAIN entries : \E j \in 1..(k - 1) : entries[j].id = entries[k].id}}

Owners(tasks, spec) == {i \in DOMAIN tasks : spec \in tasks[i].specs}

\* isFilteredTask
IsFiltered(task) == task.filter # "none"

\* The last two checks of buildFlakerConfigSummary, for one spec.
OwnershipErrors(tasks, spec) ==
  LET owners == Owners(tasks, spec)
  IN IF Cardinality(owners) < 2 THEN {}
     ELSE IF \E i \in owners : ~IsFiltered(tasks[i]) THEN {"duplicate-spec-ownership"}
     ELSE IF Cardinality({tasks[i].filter : i \in owners}) # Cardinality(owners)
          THEN {"duplicate-spec-selector"} ELSE {}

\* buildFlakerConfigSummary: the codes of the errors with what they are about.
ConfigErrors(config, existing) ==
  LET nodes == config.nodes
      tasks == config.tasks
      specs == UNION {tasks[i].specs : i \in DOMAIN tasks}
  IN {<<"duplicate-node-id", id>> : id \in Repeated(nodes)}
     \cup {<<"unknown-node-dependency", nodes[i].id>> :
             i \in {k \in DOMAIN nodes : ~(nodes[k].dependsOn \subseteq Ids(nodes))}}
     \cup {<<"duplicate-task-id", id>> : id \in Repeated(tasks)}
     \cup {<<"unknown-task-node", tasks[i].id>> :
             i \in {k \in DOMAIN tasks : tasks[k].node \notin Ids(nodes)}}
     \cup {<<"unknown-task-dependency", tasks[i].id>> :
             i \in {k \in DOMAIN tasks : ~(tasks[k].needs \subseteq Ids(tasks))}}
     \cup {<<"missing-spec-file", s>> : s \in specs \ existing}
     \cup UNION {{<<code, s>> : code \in OwnershipErrors(tasks, s)} : s \in specs}

ConfigWarnings(config, discovered) ==
  {<<"no-spec-files", config.tasks[i].id>> :
     i \in {k \in DOMAIN config.tasks : config.tasks[k].specs = {}}}
  \cup {<<"unmanaged-spec", s>> :
          s \in discovered \ UNION {config.tasks[i].specs : i \in DOMAIN config.tasks}}

-----------------------------------------------------------------------------
\* The changed paths that are a spec of the task or match one of its patterns.
Reasons(task, changed) == changed \cap (task.specs \cup task.srcs)

\* taskById: the last task of an id.
TaskById(tasks, id) ==
  tasks[CHOOSE i \in DOMAIN tasks : tasks[i].id = id /\ \A j \in DOMAIN tasks : tasks[j].id = id => j <= i]

\* What the tasks of `ids' need, as far as there is such a task.
NeedsOf(tasks, ids) == (UNION {TaskById(tasks, id).needs : id \in ids}) \cap Ids(tasks)

\* The while loop of buildFlakerSelection without pushing what it found.
DirectNeeds(tasks, ids) == ids \cup NeedsOf(tasks, ids)

\* The while loop of buildFlakerSelection, when `ids' are matched.
WithNeeds(tasks, ids) ==
  LET Queue[k \in 0..Len(tasks)] ==
        IF k = 0 THEN ids ELSE Queue[k - 1] \cup NeedsOf(tasks, Queue[k - 1])
  IN Queue[Len(tasks)]

\* buildFlakerSelection
Selection(tasks, changed) ==
  LET matched  == {tasks[i].id : i \in {k \in DOMAIN tasks : Reasons(tasks[k], changed) # {}}}
      selected == WithNeeds(tasks, matched)
  IN [matched    |-> matched,
      selected   |-> selected,
      includedBy |-> [id \in selected |-> {d \in selected : id \in NeedsOf(tasks, {d})}],
      unmatched  |-> changed \ UNION {Reasons(tasks[i], changed) : i \in DOMAIN tasks}]

\* shouldIncludeTask of the batch plan; `only' is the list of tasks it was given.
ShouldIncludeTask(task, only) == task.trigger \in {"none", "auto"} /\ task.id \in only

\* buildFlakerBatchPlan: the tasks the batch runs.
BatchPlan(tasks, only) == {tasks[i].id : i \in {k \in DOMAIN tasks : ShouldIncludeTask(tasks[k], only)}}
=============================================================================
