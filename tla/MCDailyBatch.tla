------------------------------ MODULE MCDailyBatch ------------------------------
(* Two tests: in one job, with one identity or two, or in two jobs that need a third one. *)
EXTENDS DailyBatch, TLC

Task(id, spec, srcs, needs, trigger) ==
  [id |-> id, node |-> "web", specs |-> {spec}, filter |-> "none", srcs |-> srcs, needs |-> needs,
   trigger |-> trigger]
Config(tasks) == [nodes |-> <<[id |-> "web", dependsOn |-> {}]>>, tasks |-> tasks]

OneJob(x, y, others) ==
  [config   |-> Config(<<Task("smoke", "a.spec.ts", {"app"}, {}, "none")>>),
   existing |-> {"a.spec.ts"},
   testsOf  |-> ("smoke" :> <<"x", "y">>),
   fileOf   |-> ("x" :> "a.spec.ts" @@ "y" :> "a.spec.ts"),
   idOf     |-> ("x" :> x @@ "y" :> y),
   others   |-> others]

\* login needs smoke, which may need a task that waits for its trigger.
Jobs(needed) ==
  [config   |-> Config(<<Task("login", "b.spec.ts", {"app"}, {"smoke"}, "auto"),
                         Task("smoke", "a.spec.ts", {"core"}, needed, "none"),
                         Task("deploy", "c.spec.ts", {}, {"build"}, "manual"),
                         Task("build", "d.spec.ts", {}, {}, "none")>>),
   existing |-> {"a.spec.ts", "b.spec.ts", "c.spec.ts", "d.spec.ts"},
   testsOf  |-> ("smoke" :> <<"x">> @@ "login" :> <<"y">> @@ "deploy" :> <<>> @@ "build" :> <<>>),
   fileOf   |-> ("x" :> "a.spec.ts" @@ "y" :> "b.spec.ts"),
   idOf     |-> ("x" :> "x" @@ "y" :> "y"),
   others   |-> {}]

\* Two tasks of one spec, told apart by their filters or not; nobody runs anything.
Shared(filter) ==
  [Jobs({}) EXCEPT !.config.tasks = <<[Task("login", "a.spec.ts", {"app"}, {"smoke"}, "none") EXCEPT !.filter = "fast"],
                                       [Task("smoke", "a.spec.ts", {}, {}, "none") EXCEPT !.filter = filter]>>,
                   !.testsOf = ("smoke" :> <<>> @@ "login" :> <<>>)]

\* A flaker.star that lists no task.
NoJob == [Jobs({}) EXCEPT !.config.tasks = <<>>, !.testsOf = <<>>]

MCProjects == {OneJob("x", "y", {"text"}), OneJob("x", "x", {}), [Jobs({"deploy", "build"}) EXCEPT !.others = {"json"}],
               Jobs({"gone"}), NoJob, Shared("slow"), Shared("fast"), Shared("none")}

MCTries == {<<>>, <<"passed">>, <<"failed">>, <<"failed", "passed">>, <<"skipped">>,
            <<"timedout">>, <<"timedout", "skipped">>, <<"interrupted">>}
MCChanges == {{}, {"app"}}

Day(d)  == [at |-> 2 * d, form |-> "day"]
Entry   == [id |-> "q", task |-> "smoke", spec |-> "a.spec.ts", patternOk |-> TRUE, complete |-> TRUE,
            introduced |-> Day(0), expires |-> Day(1)]
Undated == [at |-> 0, form |-> "bad"]
MCManifests ==
  {<<[Entry EXCEPT !.complete = FALSE]>>,
   <<Entry, [Entry EXCEPT !.expires = Day(9), !.spec = "gone.spec.ts"]>>,
   <<[Entry EXCEPT !.expires = [at |-> 3, form |-> "instant"]],
     [Entry EXCEPT !.id = "r", !.introduced = Day(2), !.task = "gone"],
     [Entry EXCEPT !.id = "s", !.introduced = Undated, !.patternOk = FALSE]>>}
=============================================================================
