------------------------------- MODULE RunRequest -------------------------------
(***************************************************************************)
(* What `flaker run' is asked for: the options of the command line, over   *)
(* the gate's section of the configuration, over its [sampling] section    *)
(* (gate-config.ts, commands/exec/prepare-run-request.ts).                 *)
(*                                                                         *)
(* Operators only.  What may be left out is a set of at most one value.    *)
(***************************************************************************)
EXTENDS Integers

\* What an option says, or else a default (??).
Given(option, default) == IF option = {} THEN default ELSE CHOOSE v \in option : TRUE
Or(option, default)    == IF option = {} THEN default ELSE option

NoOptions  == [strategy |-> {}, count |-> {}, percentage |-> {}, holdout |-> {},
               skipQuarantined |-> {}, skipTagged |-> {}, dryRun |-> FALSE]
NoSampling == [strategy |-> {}, percentage |-> {}, holdout |-> {}, skipQuarantined |-> {}, skipTagged |-> {}]
NoGate     == [strategy |-> {}, percentage |-> {}, holdout |-> {}, skipQuarantined |-> {}, skipTagged |-> {},
               fallback |-> {}]

\* resolveGate: the gate's values over the project's; a full gate runs everything and
\* holds nothing out (mutated: the project's share stays).
Merged(gate, sampling) ==
  [strategy        |-> Given(gate.strategy, Given(sampling.strategy, "weighted")),
   percentage      |-> Or(gate.percentage, sampling.percentage),
   holdout         |-> Or(gate.holdout, sampling.holdout),
   skipQuarantined |-> Or(gate.skipQuarantined, sampling.skipQuarantined),
   skipTagged      |-> Or(gate.skipTagged, sampling.skipTagged),
   fallback        |-> gate.fallback]
ResolveGate(gate, sampling) ==
  LET merged == Merged(gate, sampling)
  IN IF merged.strategy # "full" THEN merged
     ELSE [merged EXCEPT !.percentage = {100}, !.holdout = {0}]

\* prepareRunRequest: the options over the gate.  A resolver is made only for a strategy
\* that wants one, and only when a file has changed.  Numbers left out are -1.
PrepareRunRequest(invocation) ==
  LET opts == invocation.opts
      gate == ResolveGate(invocation.gate, invocation.sampling)
      mode == Given(opts.strategy, gate.strategy)
  IN [mode            |-> mode,
      fallback        |-> Given(gate.fallback, "none"),
      count           |-> Given(opts.count, -1),
      percentage      |-> Given(opts.percentage, Given(gate.percentage, -1)),
      holdout         |-> Given(opts.holdout, Given(gate.holdout, 0)),
      skipQuarantined |-> Given(opts.skipQuarantined, Given(gate.skipQuarantined, FALSE)),
      skipTagged      |-> Given(opts.skipTagged, Given(gate.skipTagged, FALSE)),
      changed         |-> invocation.changed,
      resolver        |-> mode \in {"affected", "hybrid"} /\ invocation.changed # {},
      runtimeApply    |-> invocation.runtimeApply,
      dryRun          |-> opts.dryRun]

\* SAMPLING_MODES, parseSamplingMode, parseSampleCount, parseSamplePercentage: what is
\* anything else is refused before a run starts.
SamplingModes == {"weighted", "affected", "hybrid", "full"}
IsRequest(request) ==
  /\ request.mode \in SamplingModes /\ request.fallback \in SamplingModes \cup {"none"}
  /\ {request.count, request.percentage} \subseteq Nat \cup {-1}
  /\ request.holdout \in Nat
=============================================================================
