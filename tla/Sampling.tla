-------------------------------- MODULE Sampling --------------------------------
(***************************************************************************)
(* Which tests a run executes: planSample (commands/exec/plan.ts) and the  *)
(* samplers of the TypeScript core (core/fallback.ts).                     *)
(*                                                                         *)
(* Operators only.  A candidate (TestMeta) is a pair of a test and a copy: *)
(* a runner may list the same test twice, and the copies have one key.     *)
(* The weights and the seed decide what is picked; any candidate may be,   *)
(* as every weight is positive, so a sampler is the set of its outcomes.   *)
(***************************************************************************)
EXTENDS Naturals, FiniteSets, FiniteSetsExt

KeyOf(entry)  == entry[1]
KeysOf(metas) == {KeyOf(e) : e \in metas}

\* Math.round of percent / 100 of a number.
Rounded(percent, number) == (2 * percent * number + 100) \div 200

\* clampSampleCount
Clamp(count, total) == IF count < total THEN count ELSE total

\* buildSamplingMeta: the TypeScript core describes the tests that are listed, the
\* MoonBit core these and the ones with a history, once each.
BuildSamplingMeta(core, history, listed) ==
  IF core = "typescript" THEN listed
  ELSE {<<t, 1>> : t \in history \cup KeysOf(listed)}

\* filterMetaToListedTests: as many of a key as are listed; without a list, all.
FilterMetaToListedTests(metas, listed) ==
  IF listed = {} THEN metas
  ELSE {e \in metas : e[2] <= Cardinality({l \in listed : KeyOf(l) = KeyOf(e)})}

\* resolveCount: a percentage wins over a count, and without either all are wanted.
ResolveCount(request, total) ==
  IF request.percentage # -1 THEN Rounded(request.percentage, total)
  ELSE IF request.count # -1 THEN request.count ELSE total

\* sampleWeighted: weightedPick draws without putting back.
SampleWeighted(metas, count) == kSubset(Clamp(count, Cardinality(metas)), metas)

\* sampleHybrid: the affected candidates come first, and others fill what they leave
\* of the count.
SampleHybrid(metas, affected, count) ==
  LET target == Clamp(count, Cardinality(metas))
      direct == metas \cap affected
      taken  == Clamp(target, Cardinality(direct))
  IN UNION {{d \cup f : f \in SampleWeighted(metas \ affected, target - taken)} :
              d \in SampleWeighted(direct, taken)}

\* pickPrimary
Pick(mode, metas, affected, count) ==
  CASE mode = "full"     -> {metas}
    [] mode = "weighted" -> SampleWeighted(metas, count)
    [] mode = "hybrid"   -> SampleHybrid(metas, affected, count)
    [] mode = "affected" -> {metas \cap affected}

\* A mode that wants a resolver that the request has none of.
Unresolved(mode, request) == mode \in {"affected", "hybrid"} /\ request.changed # {} /\ ~request.resolver

\* selectByStrategy: the fallback mode is used when the first one selects nothing.
SelectByStrategy(request, metas, affected) ==
  LET count == ResolveCount(request, Cardinality(metas))
      Picks(mode) ==
        IF Unresolved(mode, request) THEN {[mode |-> "error", sampled |-> {}]}
        ELSE {[mode |-> mode, sampled |-> s] : s \in Pick(mode, metas, affected, count)}
      FallsBack(pick) ==
        /\ pick.mode # "error" /\ pick.sampled = {} /\ metas # {}
        /\ request.fallback \notin {"none", request.mode}
  IN UNION {IF FallsBack(p) THEN Picks(request.fallback) ELSE {p} : p \in Picks(request.mode)}

\* selectHoldout: some of the candidates whose key was not sampled (mutated: of the
\* entries that were not).
OtherEntries(metas, sampled) == metas \ sampled
Unsampled(metas, sampled)    == {e \in metas : KeyOf(e) \notin KeysOf(sampled)}
SelectHoldout(metas, sampled, ratio) ==
  LET skipped == Unsampled(metas, sampled)
      wanted  == Rounded(ratio, Cardinality(skipped))
  IN IF ratio = 0 \/ skipped = {} THEN {{}}
     ELSE kSubset(IF wanted < 1 THEN 1 ELSE wanted, skipped)

\* buildSamplingSummary: of a plan, as it was when it was made.
SamplingSummary(plan) ==
  LET candidates == Cardinality(plan.candidates)
      selected   == Cardinality(plan.sampled)
  IN [strategy       |-> plan.mode,
      candidateCount |-> candidates,
      selectedCount  |-> selected,
      holdoutCount   |-> Cardinality(plan.holdout),
      sampleRatio    |-> IF candidates = 0 THEN {} ELSE {(200 * selected + candidates) \div (2 * candidates)},
      estimatedSavedTests |-> IF candidates > selected THEN candidates - selected ELSE 0,
      coldStart      |-> plan.coldStart]

\* formatSamplingSummary, with the hint of describeSamplingFallback.
SummaryPage(plan) ==
  LET summary == SamplingSummary(plan)
  IN [selected |-> <<summary.selectedCount, summary.candidateCount>>,
      ratio    |-> summary.sampleRatio,
      saved    |-> summary.estimatedSavedTests,
      holdout  |-> IF summary.holdoutCount > 0 THEN {summary.holdoutCount} ELSE {},
      hint     |-> IF summary.coldStart THEN {"import --ci"} ELSE {}]
=============================================================================
