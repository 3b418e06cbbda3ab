------------------------------ MODULE MCRunTests ------------------------------
(* Three tests in three files, of packages that need each other in a chain or in a cycle. *)
EXTENDS RunTests

CONSTANTS a, b, c

MCSuiteOf == [t \in Tests |-> t]

Dir(declared, sources, tests) ==
  [package |-> TRUE, declared |-> declared, sources |-> sources, tests |-> tests]
Plain(tests) == [package |-> FALSE, declared |-> {}, sources |-> {}, tests |-> tests]
Disk(resolver, name, dirs) ==
  [resolver |-> resolver, name |-> name, bases |-> {<<"p">>}, dirs |-> dirs,
   walk |-> <<<<"a">>, <<"c">>, <<"lib", "b">>>>]

Workspace(needsOfA, needsOfB, needsOfC) ==
  Disk("workspace", <<>>,
    <<>> :> Plain({}) @@ <<"p", "a">> :> Dir(needsOfA, {"fa"}, {}) @@ <<"p", "a", "tests">> :> Plain({a})
    @@ <<"p", "b">> :> Dir(needsOfB, {"fb"}, {}) @@ <<"p", "b", "src">> :> Plain({b})
    @@ <<"p", "c">> :> Dir(needsOfC, {"fc"}, {}) @@ <<"p", "c", "test">> :> Plain({c})
    @@ <<"other">> :> Dir({<<"p", "a">>}, {"other"}, {}))
Moon ==
  Disk("moon", <<"m">>,
    <<"a">> :> Dir({<<"x", "y">>}, {"fa"}, {a}) @@ <<"lib", "b">> :> Dir({<<"m", "a">>}, {"fb"}, {b})
    @@ <<"c">> :> Dir({<<"m", "lib", "b">>, <<"x", "a">>}, {"fc"}, {c})
    @@ <<"_build", "a">> :> Dir({}, {"other"}, {}))
Workflow ==
  Disk("bitflow", <<>>,
    <<"a">> :> Dir({}, {"fa"}, {a}) @@ <<"b">> :> Dir({<<"a">>}, {"fb"}, {b}) @@ <<"c">> :> Dir({<<"b">>}, {"fc"}, {}))
Simple ==
  Disk("simple", <<>>,
    <<>> :> Dir({}, {"fc"}, {c}) @@ <<"x">> :> Dir({}, {"fa"}, {a}) @@ <<"x", "y">> :> Dir({}, {"fb"}, {b}))
Glob == Disk("glob", <<>>, <<"1">> :> Dir({}, {"fa", "fb"}, {a, b}) @@ <<"2">> :> Dir({}, {"fb"}, {c}))

A == <<"p", "a">>
B == <<"p", "b">>
MCProjects == {Workspace({}, {A}, {B}), Workspace({B}, {A}, {}), Moon, Workflow, Simple, Glob}

MCHistories == {{}, {a, b, c}}

MCManifests == {[t \in Tests |-> <<>>],
                [t \in Tests |-> IF t = a THEN <<"allow_failure">> ELSE IF t = b THEN <<"skip">> ELSE <<>>]}

\* All tests; one that is gone; one that is listed twice; only the tagged one.
MCListings == {{<<a, 1>>, <<b, 1>>, <<c, 1>>}, {<<a, 1>>, <<a, 2>>, <<b, 1>>}, {<<c, 1>>}}

Call(opts, gate, sampling, changed) ==
  [opts |-> opts, gate |-> gate, sampling |-> sampling, changed |-> changed, runtimeApply |-> FALSE]
Strategy(s) == [NoOptions EXCEPT !.strategy = {s}]
Gate(s, f)  == [NoGate EXCEPT !.strategy = {s}, !.fallback = f]
Half        == [NoSampling EXCEPT !.percentage = {50}]

MCInvocations ==
  {Call([NoOptions EXCEPT !.count = {1}, !.holdout = {50}], NoGate, NoSampling, {}),
   Call([NoOptions EXCEPT !.skipQuarantined = {TRUE}], [NoGate EXCEPT !.holdout = {100}], Half, {}),
   [Call(NoOptions, [Gate("full", {}) EXCEPT !.skipTagged = {TRUE}], Half, {}) EXCEPT !.runtimeApply = TRUE],
   Call([Strategy("hybrid") EXCEPT !.count = {2}], NoGate, NoSampling, {"fb"}),
   Call([NoOptions EXCEPT !.count = {2}], Gate("affected", {"weighted"}), NoSampling, {"fa"}),
   Call([NoOptions EXCEPT !.dryRun = TRUE], Gate("affected", {"weighted"}), Half, {"fc", "other"}),
   Call([NoOptions EXCEPT !.count = {1}], Gate("affected", {"weighted"}), NoSampling, {}),
   Call([Strategy("weighted") EXCEPT !.dryRun = TRUE], Gate("full", {}), Half, {"fa"}),
   Call([NoOptions EXCEPT !.percentage = {10}], Gate("weighted", {"affected"}), Half, {"fa"})}
=============================================================================
