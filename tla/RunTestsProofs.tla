------------------------------ MODULE RunTestsProofs ------------------------------
(***************************************************************************)
(* Proofs about RunTests, for any tests, listings, manifests and calls:    *)
(* what a plan takes of its candidates, that the batches are a partition   *)
(* of it, and what the outcomes and the exit code may say.                 *)
(***************************************************************************)
EXTENDS RunTests, FiniteSetTheorems, SequenceTheorems, TLAPS

-----------------------------------------------------------------------------
(* Lemmas about finite sets.                                               *)

\* A finite set falls into what is in another set and what is not.
LEMMA SumOfParts ==
  ASSUME NEW S, IsFiniteSet(S), NEW T
  PROVE  /\ IsFiniteSet(S \cap T) /\ IsFiniteSet(S \ T)
         /\ Cardinality(S \cap T) \in Nat /\ Cardinality(S \ T) \in Nat
         /\ Cardinality(S) = Cardinality(S \cap T) + Cardinality(S \ T)
  <1>1. IsFiniteSet(S \cap T) /\ IsFiniteSet(S \ T)
    BY FS_Subset
  <1>2. (S \cap T) \cup (S \ T) = S /\ (S \cap T) \cap (S \ T) = {}
    OBVIOUS
  <1>3. Cardinality(S \cap T) \in Nat /\ Cardinality(S \ T) \in Nat
    BY <1>1, FS_CardinalityType
  <1>4. Cardinality(S) = Cardinality(S \cap T) + Cardinality(S \ T) - Cardinality({})
    BY <1>1, <1>2, FS_Union
  <1> QED  BY <1>1, <1>3, <1>4, FS_EmptySet

\* The sizes of disjoint sets add up.
LEMMA DisjointUnion ==
  ASSUME NEW S, IsFiniteSet(S), NEW T, IsFiniteSet(T), S \cap T = {}
  PROVE  Cardinality(S \cup T) = Cardinality(S) + Cardinality(T)
  <1>1. Cardinality(S \cup T) = Cardinality(S) + Cardinality(T) - Cardinality({})
    BY FS_Union
  <1>2. Cardinality(S) \in Nat /\ Cardinality(T) \in Nat
    BY FS_CardinalityType
  <1> QED  BY <1>1, <1>2, FS_EmptySet

-----------------------------------------------------------------------------
(* Lemmas about the samplers.                                              *)

\* weightedPick draws as many as it is asked for, or all.
LEMMA WeightedSample ==
  ASSUME NEW metas, IsFiniteSet(metas), NEW count \in Nat, NEW s \in SampleWeighted(metas, count)
  PROVE  /\ s \subseteq metas /\ IsFiniteSet(s)
         /\ Cardinality(s) = Clamp(count, Cardinality(metas))
  BY FS_Subset DEF SampleWeighted, kSubset

\* The affected candidates come first.
LEMMA HybridSample ==
  ASSUME NEW metas, IsFiniteSet(metas), NEW count \in Nat, NEW affected,
         NEW s \in SampleHybrid(metas, affected, count)
  PROVE  /\ s \subseteq metas
         /\ Cardinality(s) = Clamp(count, Cardinality(metas))
         /\ ~(s \subseteq affected) => metas \cap affected \subseteq s
  <1> DEFINE target == Clamp(count, Cardinality(metas))
             direct == metas \cap affected
             others == metas \ affected
             taken  == Clamp(target, Cardinality(direct))
  <1>1. /\ IsFiniteSet(direct) /\ IsFiniteSet(others)
        /\ Cardinality(direct) \in Nat /\ Cardinality(others) \in Nat
        /\ Cardinality(metas) = Cardinality(direct) + Cardinality(others)
    BY SumOfParts
  <1>2. PICK d \in SampleWeighted(direct, taken), f \in SampleWeighted(others, target - taken) : s = d \cup f
    BY DEF SampleHybrid
  <1>3. direct \subseteq metas /\ others \subseteq metas /\ direct \cap others = {} /\ direct \subseteq affected
    OBVIOUS
  <1> HIDE DEF direct, others
  <1>4. /\ target \in Nat /\ taken \in Nat /\ target - taken \in Nat
        /\ Clamp(taken, Cardinality(direct)) = taken
        /\ Clamp(target - taken, Cardinality(others)) = target - taken
        /\ taken < target => taken = Cardinality(direct)
    <2>1. \A c, m, n \in Nat :
            LET t == Clamp(c, m + n)
                k == Clamp(t, m)
            IN /\ t \in Nat /\ k \in Nat /\ t - k \in Nat /\ Clamp(k, m) = k
               /\ Clamp(t - k, n) = t - k /\ (k < t => k = m)
      BY DEF Clamp
    <2> DEFINE m == Cardinality(direct)
               n == Cardinality(others)
    <2>2. m \in Nat /\ n \in Nat /\ target = Clamp(count, m + n)
      BY <1>1
    <2> HIDE DEF m, n
    <2>3. /\ target \in Nat /\ Clamp(target, m) \in Nat /\ target - Clamp(target, m) \in Nat
          /\ Clamp(Clamp(target, m), m) = Clamp(target, m)
          /\ Clamp(target - Clamp(target, m), n) = target - Clamp(target, m)
          /\ Clamp(target, m) < target => Clamp(target, m) = m
      <3> HIDE DEF target, taken
      <3> QED  BY <2>1, <2>2
    <2> QED  BY <2>3 DEF m, n
  <1> HIDE DEF target, taken
  <1>5. d \subseteq direct /\ IsFiniteSet(d) /\ Cardinality(d) = taken
    BY <1>1, <1>2, <1>4, WeightedSample
  <1>6. f \subseteq others /\ IsFiniteSet(f) /\ Cardinality(f) = target - taken
    BY <1>1, <1>2, <1>4, WeightedSample
  <1>7. Cardinality(s) = target
    BY <1>2, <1>3, <1>4, <1>5, <1>6, DisjointUnion
  <1>8. ASSUME ~(s \subseteq affected) PROVE direct \subseteq s
    <2>1. f # {}
      BY <1>2, <1>3, <1>5, <1>8
    <2>2. taken < target
      BY <1>4, <1>6, <2>1, FS_EmptySet
    <2>3. d = direct
      BY <1>1, <1>4, <1>5, <2>2, FS_Subset
    <2> QED  BY <1>2, <2>3
  <1> QED  BY <1>2, <1>3, <1>5, <1>6, <1>7, <1>8 DEF direct, target

\* What pickPrimary takes of the candidates, and with a fallback, too.
LEMMA Picked ==
  ASSUME NEW r, IsRequest(r), NEW metas, IsFiniteSet(metas), NEW affected,
         NEW pick \in SelectByStrategy(r, metas, affected), pick.mode # "error"
  PROVE  /\ pick.mode \in SamplingModes /\ pick.sampled \subseteq metas
         /\ pick.mode = "full" => pick.sampled = metas
         /\ pick.mode = "affected" => pick.sampled = metas \cap affected
         /\ pick.mode = "hybrid" /\ ~(pick.sampled \subseteq affected) => metas \cap affected \subseteq pick.sampled
         /\ pick.mode \in {"weighted", "hybrid"} =>
              Cardinality(pick.sampled) = Clamp(ResolveCount(r, Cardinality(metas)), Cardinality(metas))
  <1> DEFINE count == ResolveCount(r, Cardinality(metas))
             Picks(mode) ==
               IF Unresolved(mode, r) THEN {[mode |-> "error", sampled |-> {}]}
               ELSE {[mode |-> mode, sampled |-> s] : s \in Pick(mode, metas, affected, count)}
  <1>1. count \in Nat
    <2>1. Cardinality(metas) \in Nat
      BY FS_CardinalityType
    <2>2. \A p, n \in Nat : Rounded(p, n) \in Nat
      BY DEF Rounded
    <2> QED  BY <2>1, <2>2 DEF ResolveCount, IsRequest
  <1>2. PICK mode \in SamplingModes : pick \in Picks(mode)
    <2>1. PICK p \in Picks(r.mode) :
            pick \in IF /\ p.mode # "error" /\ p.sampled = {} /\ metas # {}
                        /\ r.fallback \notin {"none", r.mode}
                     THEN Picks(r.fallback) ELSE {p}
      BY DEF SelectByStrategy
    <2> HIDE DEF Picks
    <2> QED  BY <2>1 DEF IsRequest
  <1>3. PICK s \in Pick(mode, metas, affected, count) : pick = [mode |-> mode, sampled |-> s]
    BY <1>2
  <1>4. pick.mode = mode /\ pick.sampled = s
    BY <1>3
  <1> HIDE DEF count
  <1>5. CASE mode = "full"
    BY <1>3, <1>4, <1>5 DEF Pick, SamplingModes
  <1>6. CASE mode = "weighted"
    <2>1. s \in SampleWeighted(metas, count)
      BY <1>3, <1>6 DEF Pick
    <2> QED  BY <1>1, <1>4, <1>6, <2>1, WeightedSample DEF SamplingModes, count
  <1>7. CASE mode = "hybrid"
    <2>1. s \in SampleHybrid(metas, affected, count)
      BY <1>3, <1>7 DEF Pick
    <2> QED  BY <1>1, <1>4, <1>7, <2>1, HybridSample DEF SamplingModes, count
  <1>8. CASE mode = "affected"
    BY <1>3, <1>4, <1>8 DEF Pick, SamplingModes
  <1> QED  BY <1>2, <1>5, <1>6, <1>7, <1>8 DEF SamplingModes

\* selectHoldout leaves out whatever shares a key with the sample.
LEMMA HeldOut ==
  ASSUME NEW metas, NEW sampled, NEW ratio, NEW h \in SelectHoldout(metas, sampled, ratio)
  PROVE  h \subseteq metas /\ KeysOf(sampled) \cap KeysOf(h) = {}
  BY DEF SelectHoldout, Unsampled, kSubset, KeysOf

-----------------------------------------------------------------------------
(* Lemmas about the candidates and the outcomes.                           *)

\* Entries as a runner lists them or a core describes them.
Entry          == Tests \X (Nat \ {0})
IsMetas(metas) == IsFiniteSet(metas) /\ metas \subseteq Entry

\* filterMetaToListedTests leaves no test that is not listed, nor more of it than listed.
LEMMA Described ==
  ASSUME IsMetas(listed), history \subseteq Tests
  PROVE  LET metas == FilterMetaToListedTests(BuildSamplingMeta(core, history, listed), listed)
         IN /\ IsMetas(metas)
            /\ listed # {} => \A t \in Tests : Cardinality({e \in metas : KeyOf(e) = t})
                                              <= Cardinality({e \in listed : KeyOf(e) = t})
  <1> DEFINE built == BuildSamplingMeta(core, history, listed)
             metas == FilterMetaToListedTests(built, listed)
             Of(S, t) == {e \in S : KeyOf(e) = t}
  <1>1. IsMetas(built)
    <2>1. CASE core = "typescript"
      BY <2>1 DEF BuildSamplingMeta
    <2>2. CASE core # "typescript"
      <3>1. built \subseteq Tests \X {1}
        BY <2>2 DEF BuildSamplingMeta, IsMetas, Entry, KeysOf, KeyOf
      <3>2. IsFiniteSet(Tests \X {1})
        BY FS_Product, FS_Singleton, RunAssumption DEF RunAssumption
      <3>3. IsFiniteSet(built)
        <4> HIDE DEF built
        <4> QED  BY <3>1, <3>2, FS_Subset
      <3> QED  BY <3>1, <3>3 DEF IsMetas, Entry
    <2> QED  BY <2>1, <2>2
  <1>2. IsMetas(metas)
    <2>1. metas \subseteq built
      BY DEF FilterMetaToListedTests
    <2> HIDE DEF metas, built
    <2> QED  BY <1>1, <2>1, FS_Subset DEF IsMetas, Entry
  <1>3. ASSUME listed # {}, NEW t \in Tests PROVE Cardinality(Of(metas, t)) <= Cardinality(Of(listed, t))
    <2>1. IsFiniteSet(Of(listed, t)) /\ IsFiniteSet(Of(metas, t))
      BY <1>2, FS_Subset DEF IsMetas, Entry
    <2>2. Cardinality(Of(listed, t)) \in Nat /\ Cardinality(Of(metas, t)) \in Nat
      BY <2>1, FS_CardinalityType
    <2>3. CASE core = "typescript"
      <3>1. Of(metas, t) \subseteq Of(listed, t)
        BY <2>3 DEF FilterMetaToListedTests, BuildSamplingMeta
      <3> QED  BY <2>1, <3>1, FS_Subset
    <2>4. CASE core # "typescript"
      <3>1. Of(metas, t) \subseteq {<<t, 1>>}
        BY <2>4 DEF FilterMetaToListedTests, BuildSamplingMeta, KeyOf
      <3>2. Cardinality(Of(metas, t)) <= 1
        <4>1. IsFiniteSet({<<t, 1>>}) /\ Cardinality({<<t, 1>>}) = 1
          BY FS_Singleton
        <4> HIDE DEF Of
        <4> QED  BY <3>1, <4>1, FS_Subset
      <3>3. CASE Of(metas, t) = {}
        BY <2>2, <3>3, FS_EmptySet
      <3>4. CASE Of(metas, t) # {}
        <4>1. PICK e \in metas : KeyOf(e) = t
          BY <3>4
        <4>2. e = <<t, 1>>
          <5> HIDE DEF metas
          <5> QED  BY <3>1, <4>1
        <4>3. e[2] <= Cardinality({l \in listed : KeyOf(l) = KeyOf(e)})
          BY <1>3, <4>1 DEF FilterMetaToListedTests
        <4> QED  BY <2>2, <3>2, <4>1, <4>2, <4>3
      <3> QED  BY <3>3, <3>4
    <2> QED  BY <2>3, <2>4
  <1> QED  BY <1>2, <1>3

\* What is to be skipped is no candidate.
LEMMA CandidatesAre ==
  ASSUME IsMetas(listed), history \subseteq Tests
  PROVE  /\ IsMetas(Candidates)
         /\ listed # {} => \A t \in Tests : Cardinality({e \in Candidates : KeyOf(e) = t})
                                           <= Cardinality({e \in listed : KeyOf(e) = t})
         /\ request.skipQuarantined =>
              KeysOf(Candidates) \cap (quarantined \cup Skipped(Tests, manifest)) = {}
  <1> DEFINE metas == FilterMetaToListedTests(BuildSamplingMeta(core, history, listed), listed)
  <1>1. /\ IsMetas(metas)
        /\ listed # {} => \A t \in Tests : Cardinality({e \in metas : KeyOf(e) = t})
                                          <= Cardinality({e \in listed : KeyOf(e) = t})
    BY Described
  <1>2. Candidates = IF request.skipQuarantined THEN NotQuarantined(metas) ELSE metas
    BY DEF Candidates
  <1> HIDE DEF metas
  <1>3. Candidates \subseteq metas
    BY <1>2 DEF NotQuarantined, InManifest
  <1>4. IsMetas(Candidates)
    BY <1>1, <1>3, FS_Subset DEF IsMetas, Entry
  <1>5. ASSUME listed # {}, NEW t \in Tests
        PROVE  Cardinality({e \in Candidates : KeyOf(e) = t}) <= Cardinality({e \in listed : KeyOf(e) = t})
    <2> DEFINE C == {e \in Candidates : KeyOf(e) = t}
               M == {e \in metas : KeyOf(e) = t}
               L == {e \in listed : KeyOf(e) = t}
    <2>1. IsFiniteSet(C) /\ IsFiniteSet(M) /\ IsFiniteSet(L) /\ C \subseteq M
      BY <1>1, <1>3, <1>4, FS_Subset DEF IsMetas, Entry
    <2>2. Cardinality(M) <= Cardinality(L)
      BY <1>1, <1>5
    <2> HIDE DEF C, M, L
    <2>3. Cardinality(C) <= Cardinality(M)
      BY <2>1, FS_Subset
    <2>4. Cardinality(C) \in Nat /\ Cardinality(M) \in Nat /\ Cardinality(L) \in Nat
      BY <2>1, FS_CardinalityType
    <2>5. Cardinality(C) <= Cardinality(L)
      BY <2>2, <2>3, <2>4
    <2> QED  BY <2>5 DEF C, L
  <1>6. ASSUME request.skipQuarantined
        PROVE  KeysOf(Candidates) \cap (quarantined \cup Skipped(Tests, manifest)) = {}
    BY <1>2, <1>6 DEF NotQuarantined, InManifest, Entries, KeysOf
  <1> QED  BY <1>4, <1>5, <1>6

\* What one test execution is recorded as.
Outcomes ==
  [asked : Seq(Entry), exitCode : {0, 1}, results : UNION {[ts -> Result] : ts \in SUBSET Tests}]

\* What a batch of entries of `metas' may come to.
Sound(outcome, metas) ==
  /\ ToSet(outcome.asked) \subseteq metas
  /\ DOMAIN outcome.results \subseteq KeysOf(ToSet(outcome.asked))
  /\ Blocks(outcome) => outcome.exitCode = 1
  /\ Wrapped /\ outcome.exitCode = 1 => Blocks(outcome) \/ DOMAIN outcome.results = {}

\* The results of a runner: what it was not asked for it does not return.
LEMMA RunnerOutcome ==
  ASSUME NEW tests \in SUBSET Tests, NEW o \in RunnerOutcomes(tests, RunnerStatuses)
  PROVE  /\ o.exitCode \in {0, 1}
         /\ o.results \in [DOMAIN o.results -> Result] /\ DOMAIN o.results \subseteq tests
         /\ (\E t \in DOMAIN o.results : o.results[t].status = "failed") => o.exitCode = 1
  <1>1. PICK found \in SUBSET tests : o.results \in [found -> [status : RunnerStatuses, mode : {"none"}]]
    BY DEF RunnerOutcomes
  <1>2. [status : RunnerStatuses, mode : {"none"}] \subseteq Result
    BY RunAssumption DEF RunAssumption, Result
  <1> QED  BY <1>1, <1>2 DEF RunnerOutcomes

\* Behind the manifest, the exit code tells the blocking failures.
LEMMA WrappedOutcome ==
  ASSUME NEW tests \in SUBSET Tests, NEW modes \in [Tests -> Seq(Modes)],
         NEW base \in BaseOutcomes(tests, modes, RunnerStatuses)
  PROVE  LET o == WithQuarantine(tests, modes, base) IN
         /\ o.exitCode \in {0, 1}
         /\ o.results \in [DOMAIN o.results -> Result] /\ DOMAIN o.results \subseteq tests
         /\ (\E t \in DOMAIN o.results : IsBlockingFailure(o.results[t])) => o.exitCode = 1
         /\ o.exitCode = 1 =>
              (\E t \in DOMAIN o.results : IsBlockingFailure(o.results[t])) \/ DOMAIN o.results = {}
  <1> DEFINE skipped   == Skipped(tests, modes)
             annotated == Annotated(base.results, modes)
             results   == [t \in skipped \cup DOMAIN annotated |->
                             IF t \in skipped THEN [status |-> "skipped", mode |-> "skip"] ELSE annotated[t]]
             o         == [exitCode |-> ComputeExitCode(results, base.exitCode), results |-> results]
  <1>1. /\ base.exitCode \in {0, 1} /\ DOMAIN base.results \subseteq tests
        /\ base.results \in [DOMAIN base.results -> Result]
    <2>1. CASE Runnable(tests, modes) = {}
      <3>1. base = [exitCode |-> 0, results |-> NoResults]
        BY <2>1 DEF BaseOutcomes
      <3>2. NoResults \in [{} -> Result] /\ DOMAIN NoResults = {}
        BY DEF NoResults
      <3> QED  BY <3>1, <3>2
    <2>2. CASE Runnable(tests, modes) # {}
      <3>1. Runnable(tests, modes) \subseteq tests
        BY DEF Runnable
      <3> QED  BY <2>2, <3>1, RunnerOutcome DEF BaseOutcomes
    <2> QED  BY <2>1, <2>2
  <1>2. skipped \subseteq tests
    BY DEF Skipped
  <1>3. annotated \in [DOMAIN base.results -> Result]
    <2>1. ASSUME NEW t \in DOMAIN base.results PROVE [base.results[t] EXCEPT !.mode = FirstMatch(modes[t])] \in Result
      <3>1. modes[t] \in Seq(Modes) /\ base.results[t] \in Result
        BY <1>1
      <3>2. FirstMatch(modes[t]) \in Modes \cup {"none"}
        BY <3>1 DEF FirstMatch
      <3> QED  BY <3>1, <3>2 DEF Result
    <2> QED  BY <2>1 DEF Annotated
  <1>4. [status |-> "skipped", mode |-> "skip"] \in Result
    BY DEF Result, Statuses, Modes
  <1> HIDE DEF skipped, annotated
  <1>5. results \in [DOMAIN results -> Result] /\ DOMAIN results \subseteq tests
    BY <1>1, <1>2, <1>3, <1>4
  <1> HIDE DEF results
  <1>6. o.exitCode = ComputeExitCode(results, base.exitCode) /\ o.results = results
    OBVIOUS
  <1>7. WithQuarantine(tests, modes, base) = o
    BY DEF WithQuarantine, results, skipped, annotated
  <1> HIDE DEF o
  <1> QED  BY <1>1, <1>5, <1>6, <1>7 DEF ComputeExitCode

\* What a batch can come back with: results of what it asked for, and an exit code that tells of them.
LEMMA Executed ==
  ASSUME NEW batch \in Seq(Entry), manifest \in Manifests, NEW o \in Executions(batch)
  PROVE  o \in Outcomes /\ o.asked = batch /\ Sound(o, ToSet(batch))
  <1> DEFINE tests == KeysOf(ToSet(batch))
  <1>1. tests \subseteq Tests
    BY DEF KeysOf, KeyOf, ToSet, Entry
  <1>2. Entries \in [Tests -> Seq(Modes)]
    BY RunAssumption DEF RunAssumption, Entries
  <1>3. PICK p : /\ o = [asked |-> batch, exitCode |-> p.exitCode, results |-> p.results]
                 /\ p \in IF Wrapped
                          THEN {WithQuarantine(tests, Entries, b) : b \in BaseOutcomes(tests, Entries, RunnerStatuses)}
                          ELSE RunnerOutcomes(tests, RunnerStatuses)
    BY DEF Executions
  <1> HIDE DEF tests
  <1>4. /\ p.exitCode \in {0, 1}
        /\ p.results \in [DOMAIN p.results -> Result] /\ DOMAIN p.results \subseteq tests
        /\ (\E t \in DOMAIN p.results : IsBlockingFailure(p.results[t])) => p.exitCode = 1
        /\ Wrapped /\ p.exitCode = 1 =>
             (\E t \in DOMAIN p.results : IsBlockingFailure(p.results[t])) \/ DOMAIN p.results = {}
    <2>1. CASE Wrapped
      <3>1. PICK b \in BaseOutcomes(tests, Entries, RunnerStatuses) : p = WithQuarantine(tests, Entries, b)
        BY <1>3, <2>1
      <3> QED  BY <1>1, <1>2, <3>1, WrappedOutcome
    <2>2. CASE ~Wrapped
      BY <1>1, <1>3, <2>2, RunnerOutcome DEF IsBlockingFailure
    <2> QED  BY <2>1, <2>2
  <1>5. o.asked = batch /\ o.exitCode = p.exitCode /\ o.results = p.results
    BY <1>3
  <1>6. p.results \in UNION {[ts -> Result] : ts \in SUBSET Tests}
    BY <1>1, <1>4
  <1>7. o \in Outcomes
    BY <1>3, <1>4, <1>6 DEF Outcomes
  <1> QED  BY <1>4, <1>5, <1>7 DEF Sound, Blocks, tests

-----------------------------------------------------------------------------
(* Induction, for a set of numbers.                                        *)

\* Induction over the natural numbers, for a set of them: without it nothing could be said of
\* what a recursive function computes.
LEMMA Induction ==
  ASSUME NEW S, 0 \in S, \A n \in Nat : n \in S => n + 1 \in S
  PROVE  Nat \subseteq S
  <1> DEFINE others == Nat \ S
             T      == {1 .. n : n \in others}
             R      == StrictSubsetOrdering(Nat)
  <1> SUFFICES ASSUME others # {} PROVE FALSE
    OBVIOUS
  <1>1. T \subseteq FiniteSubsetsOf(Nat) /\ T # {}
    <2>1. ASSUME NEW n \in others PROVE 1 .. n \in FiniteSubsetsOf(Nat)
      <3>1. n \in Int /\ 1 .. n \subseteq Nat
        OBVIOUS
      <3> QED  BY <3>1, FS_Interval DEF FiniteSubsetsOf
    <2> QED  BY <2>1
  <1>2. PICK t \in T : \A u \in T : ~(<<u, t>> \in R)
    <2> HIDE DEF T, R
    <2> QED  BY <1>1, FS_StrictSubsetOrderingWellFounded, WFMin DEF R
  <1>3. PICK n \in others : t = 1 .. n
    OBVIOUS
  <1>4. n # 0 /\ n - 1 \in others
    <2>1. n - 1 \in Nat => (n - 1 \in S => (n - 1) + 1 \in S)
      OBVIOUS
    <2> QED  BY <2>1
  <1>5. <<1 .. n - 1, 1 .. n>> \in R
    <2>1. 1 .. n - 1 \subseteq 1 .. n /\ n \in 1 .. n /\ n \notin 1 .. n - 1
      BY <1>4
    <2>2. 1 .. n \subseteq Nat
      OBVIOUS
    <2> QED  BY <2>1, <2>2 DEF StrictSubsetOrdering
  <1> QED  BY <1>2, <1>3, <1>4, <1>5

-----------------------------------------------------------------------------
(* Lemmas about batches.                                                   *)

\* An order of a finite set lists each of its members once.
LEMMA Ordered ==
  ASSUME NEW entries, IsFiniteSet(entries), NEW order \in Orders(entries)
  PROVE  /\ order \in Seq(entries) /\ Len(order) = Cardinality(entries)
         /\ ToSet(order) = entries /\ IsInjective(order)
  <1> DEFINE n == Cardinality(entries)
  <1>1. n \in Nat
    BY FS_CardinalityType
  <1>2. order \in [1 .. n -> entries] /\ IsInjective(order)
    BY DEF Orders
  <1>3. IsFiniteSet(1 .. n) /\ Cardinality(1 .. n) = n
    BY <1>1, FS_Interval
  <1>4. order \in Surjection(1 .. n, entries)
    BY <1>2, <1>3, FS_Injection DEF Injection
  <1>5. ToSet(order) = entries
    BY <1>2, <1>4 DEF Surjection, ToSet
  <1> HIDE DEF n
  <1>6. order \in Seq(entries) /\ Len(order) = n
    BY <1>1, <1>2
  <1> QED  BY <1>2, <1>5, <1>6 DEF n

\* Where the batches end.
LEMMA BatchBounds ==
  ASSUME NEW l \in Nat, NEW size \in Nat \ {0}
  PROVE  LET k == (l + size - 1) \div size IN
         /\ k \in Nat /\ l <= k * size /\ (l = 0 => k = 0) /\ (l # 0 => k # 0)
         /\ \A i \in 1 .. k : /\ (i - 1) * size \in 0 .. l - 1 /\ i * size = (i - 1) * size + size
                              /\ i * size \in Nat
  <1> DEFINE k == (l + size - 1) \div size
  <1>1. /\ k \in Nat /\ l + size - 1 = size * k + ((l + size - 1) % size)
        /\ (l + size - 1) % size \in 0 .. size - 1
    <2>1. \A m, b \in Nat : b > 0 => m \div b \in Nat /\ m = b * (m \div b) + (m % b) /\ m % b \in 0 .. b - 1
      OBVIOUS
    <2> QED  BY <2>1
  <1>2. size * k \in Nat /\ k * size = size * k
    BY <1>1
  <1>3. l <= k * size /\ k * size <= l + size - 1
    BY <1>1, <1>2
  <1> HIDE DEF k
  <1>4. (l = 0 => k = 0) /\ (l # 0 => k # 0)
    BY <1>1, <1>2, <1>3
  <1>5. ASSUME NEW i \in 1 .. k
        PROVE  /\ (i - 1) * size \in 0 .. l - 1 /\ i * size = (i - 1) * size + size
               /\ i * size \in Nat
    <2>1. i * size = (i - 1) * size + size /\ (i - 1) * size \in Nat
      BY <1>1
    <2>2. i * size <= k * size
      BY <1>1
    <2> QED  BY <1>1, <1>2, <1>3, <2>1, <2>2
  <1> QED  BY <1>1, <1>3, <1>4, <1>5 DEF k

\* Cut into batches and put together again, an order is the same.
LEMMA BatchesFlat ==
  ASSUME NEW S, NEW order \in Seq(S), NEW size \in Nat \ {0}
  PROVE  Batches(order, size) \in Seq(Seq(S)) /\ FlattenSeq(Batches(order, size)) = order
  <1> DEFINE l       == Len(order)
             k       == (l + size - 1) \div size
             parts   == Batches(order, size)
             start(i) == (i - 1) * size
             end(i)  == Clamp(i * size, l)
             g       == [i \in 1 .. k |-> SubSeq(order, 1, end(i))]
  <1>1. l \in Nat /\ k \in Nat /\ l <= k * size /\ (l = 0 => k = 0) /\ (l # 0 => k # 0)
    BY BatchBounds
  <1>2. ASSUME NEW i \in 1 .. k
        PROVE  /\ end(i) \in 0 .. l /\ start(i) \in 0 .. end(i)
               /\ (i # 1 => end(i - 1) = start(i)) /\ (i = 1 => start(i) = 0)
    <2>1. /\ (i - 1) * size \in 0 .. l - 1 /\ i * size = (i - 1) * size + size
          /\ i * size \in Nat
      BY BatchBounds
    <2> QED  BY <1>1, <2>1 DEF Clamp
  <1>3. k # 0 => end(k) = l
    BY <1>1, BatchBounds DEF Clamp
  <1>4. parts = [i \in 1 .. k |-> SubSeq(order, start(i) + 1, end(i))]
    BY DEF Batches
  <1> HIDE DEF parts, k, start, end
  <1>5. ASSUME NEW i \in 1 .. k PROVE parts[i] \in Seq(S)
    <2>1. start(i) + 1 \in Int /\ end(i) \in Int /\ \A j \in start(i) + 1 .. end(i) : order[j] \in S
      BY <1>1, <1>2
    <2> QED  BY <1>4, <2>1, SubSeqProperties
  <1>6. parts \in Seq(Seq(S)) /\ Len(parts) = k
    BY <1>1, <1>4, <1>5
  <1>7. CASE k = 0
    <2>1. order = <<>> /\ parts = <<>>
      BY <1>1, <1>6, <1>7
    <2>2. FlattenSeq(parts) = parts
      BY <1>6, <1>7 DEF FlattenSeq
    <2> QED  BY <1>6, <2>1, <2>2 DEF parts
  <1>8. CASE k # 0
    <2> DEFINE Flat(f) == f = [i \in 1 .. Len(parts) |-> IF i = 1 THEN parts[i] ELSE f[i - 1] \o parts[i]]
    <2>1. Flat(g)
      <3>1. ASSUME NEW i \in 1 .. k
            PROVE  SubSeq(order, 1, end(i)) = IF i = 1 THEN parts[i] ELSE g[i - 1] \o parts[i]
        <4>1. CASE i = 1
          <5>1. start(i) + 1 = 1
            BY <1>2, <4>1
          <5>2. parts[i] = SubSeq(order, start(i) + 1, end(i))
            BY <1>4
          <5> QED  BY <4>1, <5>1, <5>2
        <4>2. CASE i # 1
          <5>1. g[i - 1] = SubSeq(order, 1, start(i))
            <6>1. i - 1 \in 1 .. k /\ end(i - 1) = start(i)
              BY <1>1, <1>2, <4>2
            <6> QED  BY <6>1
          <5>2. parts[i] = SubSeq(order, start(i) + 1, end(i))
            BY <1>4
          <5>3. 1 \in 1 .. l + 1 /\ start(i) \in 1 - 1 .. l /\ end(i) \in start(i) .. l
            BY <1>1, <1>2
          <5>4. SubSeq(order, 1, start(i)) \o SubSeq(order, start(i) + 1, end(i)) = SubSeq(order, 1, end(i))
            BY <5>3, ConcatAdjacentSubSeq
          <5> QED  BY <4>2, <5>1, <5>2, <5>4
        <4> QED  BY <4>1, <4>2
      <3> QED  BY <1>6, <3>1
    <2>2. PICK f : Flat(f) /\ FlattenSeq(parts) = f[Len(parts)]
      <3> DEFINE c == CHOOSE f : Flat(f)
      <3>1. Flat(c)
        <4> HIDE DEF Flat
        <4> QED  BY <2>1
      <3>2. FlattenSeq(parts) = c[Len(parts)]
        BY <1>6, <1>8 DEF FlattenSeq
      <3> QED  BY <3>1, <3>2
    <2>3. /\ \A i \in 1 .. k : f[i] = IF i = 1 THEN parts[i] ELSE f[i - 1] \o parts[i]
          /\ \A i \in 1 .. k : g[i] = IF i = 1 THEN parts[i] ELSE g[i - 1] \o parts[i]
      <3>1. \A h : Flat(h) => \A i \in 1 .. k : h[i] = IF i = 1 THEN parts[i] ELSE h[i - 1] \o parts[i]
        BY <1>6
      <3> HIDE DEF Flat, g
      <3> QED  BY <2>1, <2>2, <3>1
    <2> DEFINE Same == {i \in Nat : i \in 1 .. k => f[i] = g[i]}
    <2>4. 0 \in Same
      OBVIOUS
    <2>5. ASSUME NEW n \in Nat, n \in Same PROVE n + 1 \in Same
      <3> HIDE DEF g
      <3> SUFFICES ASSUME n + 1 \in 1 .. k PROVE f[n + 1] = g[n + 1]
        OBVIOUS
      <3>1. CASE n = 0
        BY <2>3, <3>1
      <3>2. CASE n # 0
        <4>1. n \in 1 .. k /\ n + 1 # 1 /\ n + 1 - 1 = n
          BY <1>1, <3>2
        <4> QED  BY <2>3, <2>5, <4>1
      <3> QED  BY <3>1, <3>2
    <2>6. Nat \subseteq Same
      <3> HIDE DEF Same
      <3> QED  BY <2>4, <2>5, Induction
    <2>7. f[k] = SubSeq(order, 1, l)
      <3>1. k \in 1 .. k /\ k \in Nat
        BY <1>1, <1>8
      <3>2. f[k] = g[k]
        <4> HIDE DEF g
        <4> QED  BY <2>6, <3>1
      <3> QED  BY <1>3, <1>8, <3>1, <3>2
    <2> QED  BY <1>6, <2>2, <2>7, SubSeqFull DEF parts
  <1> QED  BY <1>7, <1>8

-----------------------------------------------------------------------------
(* The inductive invariant.                                                *)

SetupInv ==
  /\ core \in Cores /\ manifest \in Manifests
  /\ project \in Projects /\ graph = GraphOf(project)
  /\ history \subseteq Tests /\ quarantined \subseteq Tests
  /\ invocation \in Invocations /\ request = PrepareRunRequest(invocation)
  /\ IsMetas(listed)
  /\ pc \in {"start", "list", "plan", "sample", "holdout", "record"}
  /\ merged \in [sample : Seq(Outcomes), holdout : Seq(Outcomes)]
  /\ batches \in [todo : Seq(Seq(Entry)), running : Seq(Outcomes), concurrency : Nat \ {0}]

\* What a plan took of its candidates, and what it left.
PlanInv ==
  /\ IsMetas(plan.candidates)
  /\ plan.sampled \subseteq plan.candidates /\ plan.holdout \subseteq plan.candidates
  /\ NoTestTwice
  /\ request.skipQuarantined =>
       KeysOf(plan.candidates) \cap (quarantined \cup Skipped(Tests, manifest)) = {}
  /\ BudgetIsSpent /\ FullGateRunsAll
  /\ plan.mode = "affected" => plan.sampled = plan.candidates \cap Affected(plan.candidates)
  /\ plan.mode = "hybrid" /\ ~(plan.sampled \subseteq Affected(plan.candidates)) =>
       plan.candidates \cap Affected(plan.candidates) \subseteq plan.sampled
  /\ pc \in {"list", "plan"} => plan = NoPlan
  /\ pc \in {"sample", "holdout", "record"} /\ plan.coldStart => history = {}

AllSound(outcomes, metas) == \A i \in DOMAIN outcomes : Sound(outcomes[i], metas)

\* The entries of the orchestration that goes on.
Orchestrated == IF pc = "sample" THEN plan.sampled ELSE plan.holdout

BatchInv ==
  /\ pc \in {"start", "list", "plan", "record"} => batches = NoBatches
  /\ pc \in {"list", "plan"} => merged = NoOutcomes
  /\ Len(batches.running) <= batches.concurrency
  /\ \A i \in DOMAIN batches.todo : ToSet(batches.todo[i]) \subseteq Orchestrated
  /\ AllSound(batches.running, Orchestrated)
  /\ AllSound(merged.sample, plan.sampled) /\ AllSound(merged.holdout, plan.holdout)

ExitInv ==
  /\ exit \in {"none", "0", "1", "thrown"}
  /\ Ended => exit = IF MaxExitCode = 0 THEN "0" ELSE "1"

\* The batches that were asked for; all batches of some order of the entries.
AskedOf(outcomes) == [i \in DOMAIN outcomes |-> outcomes[i].asked]
Whole(parts, entries) ==
  \E order \in Orders(entries), size \in BatchSizes : parts = Batches(order, size)

AskedInv ==
  /\ pc = "sample" =>
       /\ Whole((AskedOf(merged.sample) \o AskedOf(batches.running)) \o batches.todo, plan.sampled)
       /\ merged.holdout = <<>>
  /\ pc \in {"holdout", "record"} => Whole(AskedOf(merged.sample), plan.sampled)
  /\ pc = "holdout" =>
       Whole((AskedOf(merged.holdout) \o AskedOf(batches.running)) \o batches.todo, plan.holdout)
  /\ pc = "record" => Whole(AskedOf(merged.holdout), plan.holdout)

Inv == SetupInv /\ PlanInv /\ BatchInv /\ ExitInv /\ AskedInv

-----------------------------------------------------------------------------
(* Lemmas about steps.                                                     *)

LEMMA NothingPlanned ==
  /\ IsMetas({}) /\ NoPlan.candidates = {} /\ NoPlan.sampled = {} /\ NoPlan.holdout = {}
  /\ NoPlan.mode = "none" /\ NoPlan.coldStart = FALSE /\ KeysOf({}) = {}
  BY FS_EmptySet DEF IsMetas, NoPlan, KeysOf

LEMMA NothingAsked ==
  /\ NoOutcomes \in [sample : Seq(Outcomes), holdout : Seq(Outcomes)]
  /\ NoOutcomes.sample = <<>> /\ NoOutcomes.holdout = <<>>
  /\ NoBatches \in [todo : Seq(Seq(Entry)), running : Seq(Outcomes), concurrency : Nat \ {0}]
  /\ NoBatches.todo = <<>> /\ NoBatches.running = <<>> /\ NoBatches.concurrency = 1
  BY DEF NoOutcomes, NoBatches

\* The request of a run is one that prepareRunRequest makes.
LEMMA RequestIsOne ==
  ASSUME SetupInv
  PROVE  IsRequest(request)
  BY RunAssumption DEF RunAssumption, SetupInv

\* A step that leaves a plan, its request and what it was made from alone.
LEMMA PlanKept ==
  ASSUME PlanInv, UNCHANGED <<setup, quarantined, invocation, request, listed, plan>>,
         pc' \in {"start", "sample", "holdout", "record"},
         pc' \in {"sample", "holdout", "record"} => pc \in {"sample", "holdout", "record"} /\ history' = history
  PROVE  PlanInv'
  <1>1. AffectedSuites' = AffectedSuites
    BY DEF setup, AffectedSuites, Suites
  <1>2. Affected(plan.candidates)' = Affected(plan.candidates)
    BY <1>1 DEF Affected
  <1>3. NoTestTwice' /\ BudgetIsSpent' /\ FullGateRunsAll'
    BY DEF PlanInv, NoTestTwice, BudgetIsSpent, FullGateRunsAll, Planned
  <1> QED  BY <1>2, <1>3 DEF PlanInv, setup

\* Whether the runner is behind the manifest depends on the request and the manifest alone.
LEMMA WrappedKept ==
  ASSUME UNCHANGED <<request, manifest>>
  PROVE  Wrapped' = Wrapped /\ Entries' = Entries
  BY DEF Wrapped, Entries

\* An orchestration starts with all batches of its entries.
LEMMA Started ==
  ASSUME NEW entries, IsMetas(entries), Orchestrate(entries)
  PROVE  /\ batches' \in [todo : Seq(Seq(Entry)), running : Seq(Outcomes), concurrency : Nat \ {0}]
         /\ batches'.running = <<>> /\ Whole(batches'.todo, entries)
         /\ \A i \in DOMAIN batches'.todo : ToSet(batches'.todo[i]) \subseteq entries
  <1>1. PICK order \in Orders(entries), size \in BatchSizes, concurrency \in Concurrencies :
          batches' = [todo |-> Batches(order, size), running |-> <<>>, concurrency |-> concurrency]
    BY DEF Orchestrate
  <1>2. order \in Seq(entries) /\ size \in Nat \ {0} /\ concurrency \in Nat \ {0}
    BY Ordered, RunAssumption DEF IsMetas, RunAssumption
  <1>3. Batches(order, size) \in Seq(Seq(entries))
    BY <1>2, BatchesFlat
  <1>4. Batches(order, size) \in Seq(Seq(Entry))
    BY <1>3, SeqMonotonic DEF IsMetas, Entry
  <1>5. ASSUME NEW i \in DOMAIN Batches(order, size) PROVE ToSet(Batches(order, size)[i]) \subseteq entries
    BY <1>3 DEF ToSet
  <1>6. Whole(Batches(order, size), entries)
    BY DEF Whole
  <1>7. /\ batches'.todo = Batches(order, size) /\ batches'.running = <<>>
        /\ batches' \in [todo : Seq(Seq(Entry)), running : Seq(Outcomes), concurrency : Nat \ {0}]
    BY <1>1, <1>2, <1>4
  <1> QED  BY <1>5, <1>6, <1>7

-----------------------------------------------------------------------------
(* The initial states, and the steps up to the plan.                       *)

LEMMA InitInv == Init => Inv
  <1> SUFFICES ASSUME Init PROVE Inv
    OBVIOUS
  <1> USE DEF Init
  <1>1. SetupInv
    BY NothingAsked, FS_EmptySet, RunAssumption DEF SetupInv, RunAssumption, IsMetas
  <1>2. PlanInv
    BY NothingPlanned DEF PlanInv, NoTestTwice, BudgetIsSpent, FullGateRunsAll, Planned
  <1>3. BatchInv
    BY NothingAsked DEF BatchInv, AllSound
  <1>4. ExitInv
    BY DEF ExitInv, Ended
  <1>5. AskedInv
    BY DEF AskedInv
  <1> QED  BY <1>1, <1>2, <1>3, <1>4, <1>5 DEF Inv

\* One lemma for each action of Next: the invariant is kept.
LEMMA StartRunStep ==
  ASSUME Inv, NEW i \in Invocations, StartRun(i)
  PROVE  Inv'
  <1>1. /\ pc = "start" /\ pc' = "list" /\ invocation' = i /\ request' = PrepareRunRequest(i)
        /\ listed' = {} /\ plan' = NoPlan /\ merged' = NoOutcomes /\ exit' = "none"
        /\ UNCHANGED <<core, project, graph, manifest, history, batches>>
        /\ quarantined' \subseteq Tests
    BY RunAssumption DEF StartRun, setup, RunAssumption
  <1>2. SetupInv'
    BY <1>1, NothingAsked, NothingPlanned DEF Inv, SetupInv
  <1>3. PlanInv'
    BY <1>1, NothingPlanned DEF PlanInv, NoTestTwice, BudgetIsSpent, FullGateRunsAll, Planned
  <1>4. BatchInv'
    <2>1. batches' = NoBatches
      BY <1>1 DEF Inv, BatchInv
    <2> QED  BY <1>1, <2>1, NothingAsked DEF BatchInv, AllSound
  <1>5. ExitInv'
    BY <1>1 DEF ExitInv, Ended
  <1>6. AskedInv'
    BY <1>1 DEF AskedInv
  <1> QED  BY <1>2, <1>3, <1>4, <1>5, <1>6 DEF Inv

LEMMA ListStep ==
  ASSUME Inv, ListTests \/ ListFails
  PROVE  Inv'
  <1>1. /\ pc = "list" /\ pc' = "plan"
        /\ UNCHANGED <<core, project, graph, manifest, history, quarantined, invocation, request,
                       plan, batches, merged, exit>>
    BY DEF ListTests, ListFails, setup, store
  <1>2. IsMetas(listed')
    <2>1. CASE ListFails
      BY <2>1, NothingPlanned DEF ListFails
    <2>2. CASE ListTests
      <3>1. PICK l \in Listings : listed' = Untagged(l)
        BY <2>2 DEF ListTests
      <3>2. IsMetas(l)
        BY RunAssumption DEF RunAssumption, IsMetas, Entry
      <3>3. Untagged(l) \subseteq l
        BY DEF Untagged
      <3> QED  BY <3>1, <3>2, <3>3, FS_Subset DEF IsMetas
    <2> QED  BY <2>1, <2>2
  <1>3. plan = NoPlan /\ batches = NoBatches /\ merged = NoOutcomes
    BY <1>1 DEF Inv, PlanInv, BatchInv
  <1>4. SetupInv'
    BY <1>1, <1>2 DEF Inv, SetupInv
  <1>5. PlanInv'
    BY <1>1, <1>3, NothingPlanned DEF PlanInv, NoTestTwice, BudgetIsSpent, FullGateRunsAll, Planned
  <1>6. BatchInv'
    BY <1>1, <1>3, NothingAsked DEF BatchInv, AllSound
  <1>7. ExitInv'
    BY <1>1 DEF Inv, ExitInv, Ended
  <1>8. AskedInv'
    BY <1>1 DEF AskedInv
  <1> QED  BY <1>4, <1>5, <1>6, <1>7, <1>8 DEF Inv

\* A full gate asks for all, unless the command line asks for another share.
LEMMA FullRequest ==
  ASSUME NEW i, i.gate.strategy = {"full"}, i.opts.percentage = {}
  PROVE  PrepareRunRequest(i).percentage = 100
  <1>1. Merged(i.gate, i.sampling).strategy = "full"
    BY DEF Merged, Given
  <1>2. ResolveGate(i.gate, i.sampling).percentage = {100}
    <2>1. ResolveGate(i.gate, i.sampling) = [Merged(i.gate, i.sampling) EXCEPT !.percentage = {100}, !.holdout = {0}]
      BY <1>1 DEF ResolveGate
    <2>2. "percentage" \in DOMAIN Merged(i.gate, i.sampling)
      BY DEF Merged
    <2> QED  BY <2>1, <2>2
  <1> QED  BY <1>2 DEF PrepareRunRequest, Given

\* 100 percent of the candidates are all of them.
LEMMA AllOf ==
  ASSUME NEW metas, IsFiniteSet(metas), NEW s \in SUBSET metas,
         Cardinality(s) = Clamp(Rounded(100, Cardinality(metas)), Cardinality(metas))
  PROVE  s = metas
  <1>1. Cardinality(metas) \in Nat
    BY FS_CardinalityType
  <1>2. Cardinality(s) = Cardinality(metas)
    BY <1>1 DEF Clamp, Rounded
  <1> QED  BY <1>2, FS_Subset

\* What planSample gives.
LEMMA Made ==
  ASSUME Inv, pc = "plan",
         NEW pick \in SelectByStrategy(request, Candidates, Affected(Candidates)), pick.mode # "error",
         NEW holdout \in SelectHoldout(Candidates, pick.sampled, request.holdout),
         plan' = [candidates |-> Candidates, sampled |-> pick.sampled,
                  holdout |-> holdout, mode |-> pick.mode, coldStart |-> ColdStart],
         UNCHANGED <<setup, store, invocation, request, listed>>, pc' \in {"start", "sample"}
  PROVE  PlanInv'
  <1>1. IsRequest(request) /\ IsMetas(listed) /\ history \subseteq Tests
    BY RequestIsOne DEF Inv, SetupInv
  <1>2. /\ IsMetas(Candidates)
        /\ listed # {} => \A t \in Tests : Cardinality({e \in Candidates : KeyOf(e) = t})
                                          <= Cardinality({e \in listed : KeyOf(e) = t})
        /\ request.skipQuarantined =>
             KeysOf(Candidates) \cap (quarantined \cup Skipped(Tests, manifest)) = {}
    BY <1>1, CandidatesAre
  <1> DEFINE all == Candidates
             hit == Affected(Candidates)
  <1> HIDE DEF all, hit
  <1>3. /\ pick.mode \in SamplingModes /\ pick.sampled \subseteq all
        /\ pick.mode = "full" => pick.sampled = all
        /\ pick.mode = "affected" => pick.sampled = all \cap hit
        /\ pick.mode = "hybrid" /\ ~(pick.sampled \subseteq hit) => all \cap hit \subseteq pick.sampled
        /\ pick.mode \in {"weighted", "hybrid"} =>
             Cardinality(pick.sampled) = Clamp(ResolveCount(request, Cardinality(all)), Cardinality(all))
    BY <1>1, <1>2, Picked DEF all, hit, IsMetas
  <1>4. holdout \subseteq all /\ KeysOf(pick.sampled) \cap KeysOf(holdout) = {}
    BY HeldOut DEF all
  <1>5. /\ plan'.candidates = all /\ plan'.sampled = pick.sampled /\ plan'.holdout = holdout
        /\ plan'.mode = pick.mode /\ plan'.coldStart = ColdStart
    BY DEF all
  <1>6. /\ UNCHANGED <<core, project, graph, manifest, history, quarantined>>
    BY DEF setup, store
  <1>7. NoTestTwice'
    BY <1>2, <1>4, <1>5 DEF NoTestTwice, all
  <1>8. BudgetIsSpent'
    BY <1>3, <1>5 DEF BudgetIsSpent
  <1>9. FullGateRunsAll'
    <2> SUFFICES ASSUME invocation.gate.strategy = {"full"}, invocation.opts.percentage = {}, pick.mode # "affected"
                 PROVE  pick.sampled = all
      BY <1>5 DEF FullGateRunsAll
    <2>1. request.percentage = 100
      BY FullRequest DEF Inv, SetupInv
    <2>2. ResolveCount(request, Cardinality(all)) = Rounded(100, Cardinality(all))
      BY <2>1 DEF ResolveCount
    <2>3. CASE pick.mode = "full"
      BY <1>3, <2>3
    <2>4. CASE pick.mode \in {"weighted", "hybrid"}
      BY <1>2, <1>3, <2>2, <2>4, AllOf DEF IsMetas, all
    <2> QED  BY <1>3, <2>3, <2>4 DEF SamplingModes
  <1>10. Affected(plan.candidates)' = hit
    <2>1. AffectedSuites' = AffectedSuites
      BY <1>6 DEF AffectedSuites, Suites
    <2> QED  BY <1>5, <2>1 DEF Affected, hit, all
  <1>11. plan'.coldStart => history = {}
    BY <1>5 DEF ColdStart
  <1> QED  BY <1>2, <1>3, <1>4, <1>5, <1>6, <1>7, <1>8, <1>9, <1>10, <1>11 DEF PlanInv, all

LEMMA PlanStep ==
  ASSUME Inv, Plan
  PROVE  Inv'
  <1>1. /\ pc = "plan" /\ UNCHANGED <<setup, store, runs, invocation, request, listed, merged>>
        /\ UNCHANGED <<core, project, graph, manifest, history, quarantined>>
    BY DEF Plan, setup, store
  <1>2. plan = NoPlan /\ batches = NoBatches /\ merged = NoOutcomes
    BY <1>1 DEF Inv, PlanInv, BatchInv
  <1>3. PICK pick \in SelectByStrategy(request, Candidates, Affected(Candidates)) :
          IF pick.mode = "error"
          THEN /\ pc' = "start" /\ exit' = "thrown" /\ UNCHANGED <<plan, batches>>
          ELSE /\ \E holdout \in SelectHoldout(Candidates, pick.sampled, request.holdout) :
                    plan' = [candidates |-> Candidates, sampled |-> pick.sampled,
                             holdout |-> holdout, mode |-> pick.mode, coldStart |-> ColdStart]
               /\ IF request.dryRun
                  THEN pc' = "start" /\ exit' = "0" /\ UNCHANGED batches
                  ELSE pc' = "sample" /\ exit' = "none" /\ Orchestrate(pick.sampled)
    BY DEF Plan
  <1>4. ASSUME pc' = "start", batches' = NoBatches, PlanInv', exit' = "thrown" \/ (exit' = "0" /\ request.dryRun)
        PROVE  Inv'
    <2>1. SetupInv'
      BY <1>1, <1>4, NothingAsked DEF Inv, SetupInv
    <2>2. BatchInv'
      BY <1>1, <1>2, <1>4, NothingAsked DEF BatchInv, AllSound
    <2>3. ExitInv'
      BY <1>1, <1>4 DEF ExitInv, Ended
    <2>4. AskedInv'
      BY <1>4 DEF AskedInv
    <2> QED  BY <1>4, <2>1, <2>2, <2>3, <2>4 DEF Inv
  <1>5. CASE pick.mode = "error"
    <2>1. PlanInv'
      BY <1>1, <1>3, <1>5, PlanKept DEF Inv
    <2> QED  BY <1>2, <1>3, <1>4, <1>5, <2>1
  <1>6. CASE pick.mode # "error" /\ request.dryRun
    <2>1. PlanInv'
      BY <1>1, <1>3, <1>6, Made
    <2> QED  BY <1>2, <1>3, <1>4, <1>6, <2>1
  <1>7. CASE pick.mode # "error" /\ ~request.dryRun
    <2>1. pc' = "sample" /\ exit' = "none" /\ Orchestrate(pick.sampled) /\ plan'.sampled = pick.sampled
      BY <1>3, <1>7
    <2>2. PlanInv'
      BY <1>1, <1>3, <1>7, <2>1, Made
    <2>3. IsMetas(pick.sampled)
      BY <2>1, <2>2, FS_Subset DEF PlanInv, IsMetas
    <2>4. /\ batches' \in [todo : Seq(Seq(Entry)), running : Seq(Outcomes), concurrency : Nat \ {0}]
          /\ batches'.running = <<>> /\ Whole(batches'.todo, pick.sampled)
          /\ \A i \in DOMAIN batches'.todo : ToSet(batches'.todo[i]) \subseteq pick.sampled
      BY <2>1, <2>3, Started
    <2>5. SetupInv'
      BY <1>1, <2>1, <2>4 DEF Inv, SetupInv
    <2>6. BatchInv'
      <3>1. Orchestrated' = pick.sampled
        BY <2>1 DEF Orchestrated
      <3>2. merged'.sample = <<>> /\ merged'.holdout = <<>>
        BY <1>1, <1>2, NothingAsked
      <3> QED  BY <2>1, <2>4, <3>1, <3>2 DEF BatchInv, AllSound
    <2>7. ExitInv'
      BY <2>1 DEF ExitInv, Ended
    <2>8. AskedInv'
      <3>1. AskedOf(<<>>) = <<>> /\ <<>> \o <<>> = <<>>
        BY DEF AskedOf
      <3>2. <<>> \o batches'.todo = batches'.todo
        BY <2>4, ConcatEmptySeq
      <3>3. merged'.sample = <<>> /\ merged'.holdout = <<>>
        BY <1>1, <1>2, NothingAsked
      <3> QED  BY <2>1, <2>4, <3>1, <3>2, <3>3 DEF AskedInv
    <2> QED  BY <2>2, <2>5, <2>6, <2>7, <2>8 DEF Inv
  <1> QED  BY <1>5, <1>6, <1>7

-----------------------------------------------------------------------------
(* The steps of an orchestration.                                          *)

\* Of what is merged, a step that leaves it alone disturbs nothing.
LEMMA SoundKept ==
  ASSUME AllSound(merged.sample, plan.sampled), AllSound(merged.holdout, plan.holdout),
         UNCHANGED <<request, manifest, merged, plan>>
  PROVE  AllSound(merged.sample, plan.sampled)' /\ AllSound(merged.holdout, plan.holdout)'
  <1>1. Wrapped' = Wrapped
    BY WrappedKept
  <1> QED  BY <1>1 DEF AllSound, Sound

LEMMA AskedType ==
  ASSUME NEW outcomes \in Seq(Outcomes)
  PROVE  AskedOf(outcomes) \in Seq(Seq(Entry)) /\ Len(AskedOf(outcomes)) = Len(outcomes)
  <1>0. \A o \in Outcomes : o.asked \in Seq(Entry)
    BY DEF Outcomes
  <1>1. \A i \in 1 .. Len(outcomes) : outcomes[i].asked \in Seq(Entry)
    BY <1>0
  <1>2. AskedOf(outcomes) = [i \in 1 .. Len(outcomes) |-> outcomes[i].asked]
    BY DEF AskedOf
  <1> QED  BY <1>1, <1>2

\* A list is what it begins with and the rest.
LEMMA HeadAndTail ==
  ASSUME NEW T, NEW todo \in Seq(T), todo # <<>>, NEW b \in Seq(T)
  PROVE  /\ <<Head(todo)>> \in Seq(T) /\ Tail(todo) \in Seq(T)
         /\ todo = <<Head(todo)>> \o Tail(todo) /\ Append(b, Head(todo)) = b \o <<Head(todo)>>
  <1>1. Head(todo) \in T /\ Tail(todo) \in Seq(T)
    OBVIOUS
  <1> DEFINE h == <<Head(todo)>>
             t == Tail(todo)
             c == h \o t
  <1>2. h \in Seq(T) /\ Len(h) = 1 /\ h[1] = todo[1]
    BY <1>1
  <1>3. t \in Seq(T) /\ Len(t) = Len(todo) - 1 /\ \A i \in 1 .. Len(todo) - 1 : t[i] = todo[i + 1]
    OBVIOUS
  <1>4. Append(b, Head(todo)) = b \o h
    BY <1>1, AppendIsConcat, Zenon
  <1> HIDE DEF h, t
  <1>t. h \in Seq(T) /\ t \in Seq(T)
    BY <1>2, <1>3
  <1>c. /\ c \in Seq(T) /\ Len(c) = Len(h) + Len(t)
        /\ \A i \in 1 .. Len(h) + Len(t) : c[i] = IF i <= Len(h) THEN h[i] ELSE t[i - Len(h)]
    BY <1>t
  <1> HIDE DEF c
  <1>5. c \in Seq(T) /\ Len(c) = 1 + Len(t)
        /\ \A i \in 1 .. 1 + Len(t) : c[i] = IF i <= 1 THEN h[i] ELSE t[i - 1]
    BY <1>2, <1>c
  <1>6. \A i \in 1 .. Len(todo) : c[i] = todo[i]
    BY <1>2, <1>3, <1>5
  <1>7. Len(c) = Len(todo)
    BY <1>3, <1>5
  <1>8. c = todo
    BY <1>5, <1>6, <1>7, SeqEqual
  <1> QED  BY <1>2, <1>3, <1>4, <1>8 DEF h, t, c

\* Batches that come back with one more outcome have asked for its batch as well.
LEMMA AskedOfMore ==
  ASSUME NEW outcomes \in Seq(Outcomes), NEW o \in Outcomes
  PROVE  AskedOf(Append(outcomes, o)) = Append(AskedOf(outcomes), o.asked)
  <1> DEFINE more == Append(outcomes, o)
             l    == Len(outcomes)
  <1>1. /\ l \in Nat /\ DOMAIN more = 1 .. l + 1
        /\ \A i \in 1 .. l + 1 : more[i] = IF i <= l THEN outcomes[i] ELSE o
    OBVIOUS
  <1>2. AskedOf(outcomes) \in Seq(Seq(Entry)) /\ Len(AskedOf(outcomes)) = l
        /\ \A i \in 1 .. l : AskedOf(outcomes)[i] = outcomes[i].asked
    BY AskedType DEF AskedOf
  <1>3. o.asked \in Seq(Entry)
    BY DEF Outcomes
  <1> HIDE DEF more, l
  <1>4. AskedOf(more) = [i \in 1 .. l + 1 |-> IF i <= l THEN outcomes[i].asked ELSE o.asked]
    BY <1>1 DEF AskedOf
  <1> DEFINE asked == AskedOf(outcomes)
             last  == o.asked
  <1>5. asked \in Seq(Seq(Entry)) /\ Len(asked) = l /\ last \in Seq(Entry)
    BY <1>2, <1>3
  <1>6. AskedOf(more) = [i \in 1 .. l + 1 |-> IF i <= l THEN asked[i] ELSE last]
    BY <1>1, <1>2, <1>4
  <1> HIDE DEF asked, last
  <1> DEFINE more2 == Append(asked, last)
  <1>7. /\ more2 \in Seq(Seq(Entry)) /\ Len(more2) = l + 1
        /\ \A i \in 1 .. l : more2[i] = asked[i]
        /\ more2[l + 1] = last
    BY <1>5, AppendProperties
  <1> HIDE DEF more2
  <1>8. more2 = [i \in 1 .. l + 1 |-> more2[i]]
    BY <1>1, <1>7
  <1>9. \A i \in 1 .. l + 1 : more2[i] = IF i <= l THEN asked[i] ELSE last
    BY <1>1, <1>7 DEF l
  <1> QED  BY <1>6, <1>8, <1>9 DEF more, more2, asked, last

\* A batch starts: what it was asked for is the head of what was to come.
LEMMA StartBatchStep ==
  ASSUME Inv, StartBatch
  PROVE  Inv'
  <1>1. /\ pc \in {"sample", "holdout"} /\ batches.todo # <<>> /\ HasRoom
        /\ UNCHANGED <<core, project, graph, manifest, history, quarantined, runs, pc, invocation,
                       request, listed, plan, merged, exit>>
    BY DEF StartBatch, setup, store
  <1>2. PICK o \in Executions(Head(batches.todo)) :
          batches' = [batches EXCEPT !.todo = Tail(@), !.running = Append(@, o)]
    BY DEF StartBatch
  <1> DEFINE todo    == batches.todo
             running == batches.running
  <1>3. /\ batches \in [todo : Seq(Seq(Entry)), running : Seq(Outcomes), concurrency : Nat \ {0}]
        /\ todo \in Seq(Seq(Entry)) /\ running \in Seq(Outcomes) /\ todo # <<>>
        /\ manifest \in Manifests /\ merged \in [sample : Seq(Outcomes), holdout : Seq(Outcomes)]
    BY <1>1 DEF Inv, SetupInv
  <1>4. /\ batches'.todo = Tail(todo) /\ batches'.running = Append(running, o)
        /\ batches'.concurrency = batches.concurrency
    BY <1>2, <1>3
  <1>5. Head(todo) \in Seq(Entry) /\ Tail(todo) \in Seq(Seq(Entry))
        /\ Len(Tail(todo)) = Len(todo) - 1 /\ (\A i \in 1 .. Len(todo) - 1 : Tail(todo)[i] = todo[i + 1])
        /\ Head(todo) = todo[1] /\ Len(todo) \in Nat \ {0}
    BY <1>3
  <1>6. o \in Outcomes /\ o.asked = Head(todo) /\ Sound(o, ToSet(Head(todo)))
    BY <1>3, <1>5, Executed
  <1>7. batches' \in [todo : Seq(Seq(Entry)), running : Seq(Outcomes), concurrency : Nat \ {0}]
    <2>1. batches' = [todo |-> Tail(todo), running |-> Append(running, o), concurrency |-> batches.concurrency]
      BY <1>2, <1>3
    <2>2. Append(running, o) \in Seq(Outcomes)
      BY <1>3, <1>6
    <2> QED  BY <1>3, <1>5, <2>1, <2>2
  <1> HIDE DEF todo, running
  <1>8. SetupInv'
    BY <1>1, <1>7 DEF Inv, SetupInv
  <1>9. PlanInv'
    BY <1>1, PlanKept DEF Inv, setup
  <1>10. BatchInv'
    <2>1. Orchestrated' = Orchestrated
      BY <1>1 DEF Orchestrated
    <2>2. /\ \A i \in 1 .. Len(todo) : ToSet(todo[i]) \subseteq Orchestrated
          /\ AllSound(running, Orchestrated) /\ Len(running) < batches.concurrency
      BY <1>1, <1>3 DEF Inv, BatchInv, HasRoom, todo, running
    <2>3. Sound(o, Orchestrated)
      <3>1. ToSet(Head(todo)) \subseteq Orchestrated
        BY <1>5, <2>2
      <3> QED  BY <1>6, <3>1 DEF Sound, KeysOf
    <2>4. AllSound(Append(running, o), Orchestrated) /\ Len(Append(running, o)) <= batches.concurrency
      <3>1. /\ Len(Append(running, o)) = Len(running) + 1 /\ Len(running) \in Nat
            /\ \A i \in 1 .. Len(running) + 1 :
                 Append(running, o)[i] = IF i <= Len(running) THEN running[i] ELSE o
            /\ batches.concurrency \in Nat
            /\ DOMAIN running = 1 .. Len(running) /\ DOMAIN Append(running, o) = 1 .. Len(running) + 1
        BY <1>3, <1>6
      <3>2. \A i \in 1 .. Len(running) + 1 : Sound(Append(running, o)[i], Orchestrated)
        BY <2>2, <2>3, <3>1 DEF AllSound
      <3> QED  BY <2>2, <3>1, <3>2 DEF AllSound
    <2>5. \A i \in DOMAIN Tail(todo) : ToSet(Tail(todo)[i]) \subseteq Orchestrated
      BY <1>5, <2>2
    <2>6. AllSound(merged.sample, plan.sampled)' /\ AllSound(merged.holdout, plan.holdout)'
      BY <1>1, SoundKept DEF Inv, BatchInv
    <2>7. Wrapped' = Wrapped
      BY <1>1, WrappedKept
    <2>8. AllSound(batches.running, Orchestrated)'
      BY <1>4, <2>1, <2>4, <2>7 DEF AllSound, Sound
    <2>9. pc' \notin {"start", "list", "plan", "record"}
      BY <1>1
    <2> QED  BY <1>4, <2>1, <2>4, <2>5, <2>6, <2>8, <2>9 DEF BatchInv
  <1>11. ExitInv'
    BY <1>1 DEF Inv, ExitInv, Ended, MaxExitCode
  <1>12. AskedInv'
    <2>1. AskedOf(Append(running, o)) = Append(AskedOf(running), Head(todo))
      BY <1>3, <1>6, AskedOfMore
    <2>2. AskedOf(running) \in Seq(Seq(Entry))
      BY <1>3, AskedType
    <2>3. ASSUME NEW a \in Seq(Seq(Entry))
          PROVE  (a \o Append(AskedOf(running), Head(todo))) \o Tail(todo) = (a \o AskedOf(running)) \o todo
      <3> DEFINE T == Seq(Entry)
                 b == AskedOf(running)
                 h == <<Head(todo)>>
                 t == Tail(todo)
      <3>1. a \in Seq(T) /\ b \in Seq(T) /\ todo \in Seq(T) /\ todo # <<>>
        BY <1>3, <2>2
      <3> HIDE DEF T, b
      <3>2. h \in Seq(T) /\ t \in Seq(T) /\ todo = h \o t /\ Append(b, Head(todo)) = b \o h
        BY <3>1, HeadAndTail
      <3> HIDE DEF h, t
      <3>3. a \in Seq(T) /\ b \in Seq(T) /\ h \in Seq(T) /\ t \in Seq(T)
        BY <3>1, <3>2
      <3>4. (a \o b) \o h = a \o (b \o h)
        BY <3>3
      <3> DEFINE ab == a \o b
      <3>5. ab \in Seq(T)
        BY <3>3
      <3> HIDE DEF ab
      <3>6. (ab \o h) \o t = ab \o (h \o t)
        BY <3>3, <3>5
      <3> QED  BY <3>2, <3>4, <3>6 DEF ab, b, t
    <2>4. AskedOf(merged.sample) \in Seq(Seq(Entry)) /\ AskedOf(merged.holdout) \in Seq(Seq(Entry))
      BY <1>3, AskedType
    <2>5. /\ AskedOf(batches.running)' = Append(AskedOf(running), Head(todo))
          /\ AskedOf(merged.sample)' = AskedOf(merged.sample)
          /\ AskedOf(merged.holdout)' = AskedOf(merged.holdout)
      BY <1>1, <1>4, <2>1 DEF AskedOf
    <2>6. /\ ((AskedOf(merged.sample) \o AskedOf(batches.running)) \o batches.todo)'
               = (AskedOf(merged.sample) \o AskedOf(batches.running)) \o batches.todo
          /\ ((AskedOf(merged.holdout) \o AskedOf(batches.running)) \o batches.todo)'
               = (AskedOf(merged.holdout) \o AskedOf(batches.running)) \o batches.todo
      BY <1>4, <2>3, <2>4, <2>5 DEF running, todo
    <2> QED  BY <1>1, <2>5, <2>6 DEF Inv, AskedInv, Whole
  <1> QED  BY <1>8, <1>9, <1>10, <1>11, <1>12 DEF Inv

\* Two lists of outcomes, one after the other.
LEMMA Concatenated ==
  ASSUME NEW a \in Seq(Outcomes), NEW b \in Seq(Outcomes)
  PROVE  /\ a \o b \in Seq(Outcomes) /\ AskedOf(a \o b) = AskedOf(a) \o AskedOf(b)
         /\ \A i \in DOMAIN (a \o b) : (\E j \in DOMAIN a : (a \o b)[i] = a[j])
                                       \/ (\E j \in DOMAIN b : (a \o b)[i] = b[j])
  <1> DEFINE c == a \o b
             x == AskedOf(a)
             y == AskedOf(b)
  <1>1. /\ c \in Seq(Outcomes) /\ Len(c) = Len(a) + Len(b) /\ Len(a) \in Nat /\ Len(b) \in Nat
        /\ \A i \in 1 .. Len(a) + Len(b) : c[i] = IF i <= Len(a) THEN a[i] ELSE b[i - Len(a)]
    <2> DEFINE S == Outcomes
    <2>1. a \in Seq(S) /\ b \in Seq(S)
      OBVIOUS
    <2> HIDE DEF S
    <2>2. c \in Seq(S) /\ Len(c) = Len(a) + Len(b) /\ Len(a) \in Nat /\ Len(b) \in Nat
      BY <2>1
    <2>3. \A i \in 1 .. Len(a) + Len(b) : c[i] = IF i <= Len(a) THEN a[i] ELSE b[i - Len(a)]
      BY <2>1
    <2> QED  BY <2>2, <2>3 DEF S
  <1>2. /\ Len(x) = Len(a) /\ Len(y) = Len(b) /\ Len(AskedOf(c)) = Len(c)
        /\ x \in Seq(Seq(Entry)) /\ y \in Seq(Seq(Entry)) /\ AskedOf(c) \in Seq(Seq(Entry))
    BY <1>1, AskedType
  <1>3. /\ \A i \in 1 .. Len(a) : x[i] = a[i].asked
        /\ \A i \in 1 .. Len(b) : y[i] = b[i].asked
        /\ \A i \in 1 .. Len(c) : AskedOf(c)[i] = c[i].asked
    BY <1>1 DEF AskedOf
  <1> HIDE DEF c, x, y
  <1>4. /\ Len(x \o y) = Len(x) + Len(y) /\ x \o y \in Seq(Seq(Entry))
        /\ \A i \in 1 .. Len(x) + Len(y) : (x \o y)[i] = IF i <= Len(x) THEN x[i] ELSE y[i - Len(x)]
    BY <1>2
  <1>5. ASSUME NEW i \in 1 .. Len(c) PROVE AskedOf(c)[i] = (x \o y)[i]
    <2> DEFINE z == AskedOf(c)
               w == x \o y
    <2>1. /\ z[i] = c[i].asked /\ c[i] = IF i <= Len(a) THEN a[i] ELSE b[i - Len(a)]
          /\ w[i] = IF i <= Len(a) THEN x[i] ELSE y[i - Len(a)]
      BY <1>1, <1>2, <1>3, <1>4
    <2> HIDE DEF z, w
    <2>2. CASE i <= Len(a)
      <3>1. x[i] = a[i].asked
        BY <1>1, <1>3, <2>2
      <3>2. c[i] = a[i] /\ w[i] = x[i]
        BY <2>1, <2>2
      <3> QED  BY <2>1, <3>1, <3>2 DEF z, w
    <2>3. CASE ~(i <= Len(a))
      <3> DEFINE j == i - Len(a)
      <3>1. j \in 1 .. Len(b)
        BY <1>1, <2>3
      <3>2. c[i] = b[j] /\ w[i] = y[j]
        BY <2>1, <2>3
      <3> HIDE DEF j
      <3>3. y[j] = b[j].asked
        BY <1>3, <3>1
      <3> QED  BY <2>1, <3>2, <3>3 DEF z, w
    <2> QED  BY <2>2, <2>3 DEF z, w
  <1>6. AskedOf(c) = x \o y
    BY <1>1, <1>2, <1>4, <1>5, SeqEqual
  <1>7. ASSUME NEW i \in DOMAIN c
        PROVE  (\E j \in DOMAIN a : c[i] = a[j]) \/ (\E j \in DOMAIN b : c[i] = b[j])
    <2>1. DOMAIN c = 1 .. Len(a) + Len(b) /\ DOMAIN a = 1 .. Len(a) /\ DOMAIN b = 1 .. Len(b)
      BY <1>1
    <2>2. CASE i <= Len(a)
      BY <1>1, <2>1, <2>2
    <2>3. CASE ~(i <= Len(a))
      <3>1. i - Len(a) \in DOMAIN b /\ c[i] = b[i - Len(a)]
        BY <1>1, <2>1, <2>3
      <3> QED  BY <3>1
    <2> QED  BY <2>2, <2>3
  <1> QED  BY <1>1, <1>6, <1>7 DEF c, x, y

LEMMA MergeGroupStep ==
  ASSUME Inv, MergeGroup
  PROVE  Inv'
  <1>1. /\ pc \in {"sample", "holdout"}
        /\ merged' = [merged EXCEPT ![pc] = @ \o batches.running]
        /\ batches' = [batches EXCEPT !.running = <<>>]
        /\ UNCHANGED <<core, project, graph, manifest, history, quarantined, runs, pc, invocation,
                       request, listed, plan, exit>>
    BY DEF MergeGroup, setup, store
  <1>2. /\ batches \in [todo : Seq(Seq(Entry)), running : Seq(Outcomes), concurrency : Nat \ {0}]
        /\ merged \in [sample : Seq(Outcomes), holdout : Seq(Outcomes)]
    BY DEF Inv, SetupInv
  <1>3. /\ batches' = [todo |-> batches.todo, running |-> <<>>, concurrency |-> batches.concurrency]
        /\ batches'.todo = batches.todo /\ batches'.running = <<>>
        /\ batches'.concurrency = batches.concurrency
        /\ batches' \in [todo : Seq(Seq(Entry)), running : Seq(Outcomes), concurrency : Nat \ {0}]
    <2> DEFINE next == [todo |-> batches.todo, running |-> <<>>, concurrency |-> batches.concurrency]
    <2>1. batches' = next
      BY <1>1, <1>2
    <2>2. next \in [todo : Seq(Seq(Entry)), running : Seq(Outcomes), concurrency : Nat \ {0}]
      <3>1. <<>> \in Seq(Outcomes)
        OBVIOUS
      <3>2. batches.todo \in Seq(Seq(Entry)) /\ batches.concurrency \in Nat \ {0}
        BY <1>2
      <3> QED  BY <3>1, <3>2
    <2> QED  BY <2>1, <2>2
  <1> DEFINE a == merged[pc]
             b == batches.running
             c == a \o b
  <1>4. a \in Seq(Outcomes) /\ b \in Seq(Outcomes)
    <2>1. merged.sample \in Seq(Outcomes) /\ merged.holdout \in Seq(Outcomes) /\ b \in Seq(Outcomes)
      BY <1>2
    <2>2. a = merged.sample \/ a = merged.holdout
      BY <1>1
    <2> QED  BY <2>1, <2>2
  <1> HIDE DEF c
  <1>5. /\ pc = "sample"  => merged' = [sample |-> c, holdout |-> merged.holdout]
        /\ pc = "holdout" => merged' = [sample |-> merged.sample, holdout |-> c]
    <2>1. merged' = [merged EXCEPT ![pc] = c]
      BY <1>1 DEF a, b, c
    <2> QED  BY <1>1, <1>2, <2>1
  <1>6. /\ pc = "sample"  => merged'.sample = c /\ merged'.holdout = merged.holdout
        /\ pc = "holdout" => merged'.sample = merged.sample /\ merged'.holdout = c
    BY <1>5
  <1>7. /\ c \in Seq(Outcomes) /\ AskedOf(c) = AskedOf(a) \o AskedOf(b)
        /\ \A i \in DOMAIN c : (\E j \in DOMAIN a : c[i] = a[j]) \/ (\E j \in DOMAIN b : c[i] = b[j])
    BY <1>4, Concatenated DEF c
  <1>8. SetupInv'
    BY <1>1, <1>2, <1>3, <1>5, <1>7 DEF Inv, SetupInv
  <1>9. PlanInv'
    BY <1>1, PlanKept DEF Inv, setup
  <1>10. BatchInv'
    <2>1. Orchestrated' = Orchestrated /\ Wrapped' = Wrapped
      BY <1>1, WrappedKept DEF Orchestrated
    <2>2. AllSound(a, Orchestrated) /\ AllSound(b, Orchestrated)
      BY <1>1 DEF Inv, BatchInv, Orchestrated
    <2>3. AllSound(c, Orchestrated)
      BY <1>7, <2>2 DEF AllSound
    <2>4. AllSound(merged'.sample, plan.sampled) /\ AllSound(merged'.holdout, plan.holdout)
      BY <1>1, <1>6, <2>3 DEF Inv, BatchInv, Orchestrated
    <2>5. AllSound(merged.sample, plan.sampled)' /\ AllSound(merged.holdout, plan.holdout)'
      BY <1>1, <2>1, <2>4 DEF AllSound, Sound
    <2>6. AllSound(batches.running, Orchestrated)'
      BY <1>3 DEF AllSound
    <2> QED  BY <1>1, <1>2, <1>3, <2>1, <2>5, <2>6 DEF Inv, BatchInv
  <1>11. ExitInv'
    <2>1. pc' # "start" /\ exit' = exit
      BY <1>1
    <2> QED  BY <2>1 DEF Inv, ExitInv, Ended
  <1>12. AskedInv'
    <2>1. AskedOf(<<>>) = <<>>
      BY DEF AskedOf
    <2>2. AskedOf(c) \in Seq(Seq(Entry))
      BY <1>7, AskedType
    <2>3. AskedOf(c) \o <<>> = AskedOf(a) \o AskedOf(b)
      BY <1>7, <2>2
    <2>4. /\ AskedOf(batches.running)' = <<>>
          /\ AskedOf(merged.sample)' = AskedOf(merged'.sample)
          /\ AskedOf(merged.holdout)' = AskedOf(merged'.holdout)
      BY <1>3, <2>1 DEF AskedOf
    <2>5. CASE pc = "sample"
      <3>1. /\ AskedOf(merged.sample)' \o AskedOf(batches.running)' = AskedOf(merged.sample) \o AskedOf(batches.running)
            /\ merged'.holdout = merged.holdout
        BY <1>6, <2>3, <2>4, <2>5 DEF a, b
      <3>2. /\ Whole((AskedOf(merged.sample) \o AskedOf(batches.running)) \o batches.todo, plan.sampled)
            /\ merged.holdout = <<>>
        BY <2>5 DEF Inv, AskedInv
      <3>3. Whole((AskedOf(merged.sample) \o AskedOf(batches.running)) \o batches.todo, plan.sampled)'
        BY <1>1, <1>3, <3>1, <3>2 DEF Whole
      <3> QED  BY <1>1, <2>5, <3>1, <3>2, <3>3 DEF AskedInv
    <2>6. CASE pc = "holdout"
      <3>1. /\ AskedOf(merged.holdout)' \o AskedOf(batches.running)' = AskedOf(merged.holdout) \o AskedOf(batches.running)
            /\ AskedOf(merged.sample)' = AskedOf(merged.sample)
        BY <1>6, <2>3, <2>4, <2>6 DEF a, b
      <3>2. /\ Whole((AskedOf(merged.holdout) \o AskedOf(batches.running)) \o batches.todo, plan.holdout)
            /\ Whole(AskedOf(merged.sample), plan.sampled)
        BY <2>6 DEF Inv, AskedInv
      <3>3. /\ Whole((AskedOf(merged.holdout) \o AskedOf(batches.running)) \o batches.todo, plan.holdout)'
            /\ Whole(AskedOf(merged.sample), plan.sampled)'
        BY <1>1, <1>3, <3>1, <3>2 DEF Whole
      <3> QED  BY <1>1, <2>6, <3>3 DEF AskedInv
    <2> QED  BY <1>1, <2>5, <2>6
  <1> QED  BY <1>8, <1>9, <1>10, <1>11, <1>12 DEF Inv

LEMMA BatchThrowsStep ==
  ASSUME Inv, BatchThrows
  PROVE  Inv'
  <1>1. /\ pc \in {"sample", "holdout"} /\ pc' = "start" /\ exit' = "thrown" /\ batches' = NoBatches
        /\ UNCHANGED <<core, project, graph, manifest, history, quarantined, runs, invocation,
                       request, listed, plan, merged>>
    BY DEF BatchThrows, setup, store
  <1>2. SetupInv'
    BY <1>1, NothingAsked DEF Inv, SetupInv
  <1>3. PlanInv'
    BY <1>1, PlanKept DEF Inv, setup
  <1>4. BatchInv'
    <2>1. AllSound(merged.sample, plan.sampled)' /\ AllSound(merged.holdout, plan.holdout)'
      BY <1>1, SoundKept DEF Inv, BatchInv
    <2> QED  BY <1>1, <2>1, NothingAsked DEF BatchInv, AllSound
  <1>5. ExitInv'
    BY <1>1 DEF ExitInv, Ended
  <1>6. AskedInv'
    BY <1>1 DEF AskedInv
  <1> QED  BY <1>2, <1>3, <1>4, <1>5, <1>6 DEF Inv

\* When nothing is left to start or to wait for, all batches were asked for.
LEMMA AllAsked ==
  ASSUME NEW outcomes \in Seq(Outcomes), NEW entries,
         Whole((AskedOf(outcomes) \o AskedOf(<<>>)) \o <<>>, entries)
  PROVE  Whole(AskedOf(outcomes), entries)
  <1>1. AskedOf(<<>>) = <<>>
    BY DEF AskedOf
  <1> DEFINE a == AskedOf(outcomes)
             S == Seq(Entry)
  <1>2. a \in Seq(S)
    BY AskedType
  <1> HIDE DEF a, S
  <1>3. (a \o <<>>) \o <<>> = a
    BY <1>2
  <1> QED  BY <1>1, <1>3 DEF a

\* No batches are all the batches of nothing.
LEMMA NothingIsWhole ==
  ASSUME BatchSizes # {}
  PROVE  Whole(AskedOf(<<>>), {})
  <1>1. PICK size \in BatchSizes : size \in Nat \ {0}
    BY RunAssumption DEF RunAssumption
  <1>2. Orders({}) # {}
    <2>1. Cardinality({}) = 0 /\ 1 .. 0 = {}
      BY FS_EmptySet
    <2>2. <<>> \in Orders({})
      BY <2>1 DEF Orders, IsInjective
    <2> QED  BY <2>2
  <1>3. PICK order : order \in Orders({})
    BY <1>2
  <1>4. Len(order) = 0
    BY <1>3, Ordered, FS_EmptySet
  <1>5. (Len(order) + size - 1) \div size = 0
    BY <1>1, <1>4, BatchBounds
  <1>6. Batches(order, size) = <<>>
    BY <1>5 DEF Batches
  <1>7. AskedOf(<<>>) = <<>>
    BY DEF AskedOf
  <1> QED  BY <1>1, <1>3, <1>6, <1>7 DEF Whole

LEMMA EndSampleStep ==
  ASSUME Inv, EndSample
  PROVE  Inv'
  <1>1. /\ pc = "sample" /\ batches.todo = <<>> /\ batches.running = <<>>
        /\ IF plan.holdout # {} THEN pc' = "holdout" /\ Orchestrate(plan.holdout)
           ELSE pc' = "record" /\ batches' = NoBatches
        /\ pc' \in {"holdout", "record"}
        /\ UNCHANGED <<core, project, graph, manifest, history, quarantined, runs, invocation,
                       request, listed, plan, merged, exit>>
    BY DEF EndSample, setup, store
  <1>2. /\ merged \in [sample : Seq(Outcomes), holdout : Seq(Outcomes)]
        /\ merged.sample \in Seq(Outcomes)
    BY DEF Inv, SetupInv
  <1>3. Whole(AskedOf(merged.sample), plan.sampled) /\ merged.holdout = <<>>
    BY <1>1, <1>2, AllAsked DEF Inv, AskedInv
  <1>4. PlanInv'
    BY <1>1, PlanKept DEF Inv, setup
  <1>5. AllSound(merged.sample, plan.sampled)' /\ AllSound(merged.holdout, plan.holdout)'
    BY <1>1, SoundKept DEF Inv, BatchInv
  <1>6. ExitInv'
    BY <1>1 DEF Inv, ExitInv, Ended
  <1>7. Whole(AskedOf(merged.sample), plan.sampled)'
    <2>1. AskedOf(merged.sample)' = AskedOf(merged.sample)
      BY <1>1 DEF AskedOf
    <2> QED  BY <1>1, <1>3, <2>1 DEF Whole
  <1>8. CASE plan.holdout # {}
    <2>1. pc' = "holdout" /\ Orchestrate(plan.holdout)
      BY <1>1, <1>8
    <2>2. IsMetas(plan.holdout)
      BY FS_Subset DEF Inv, PlanInv, IsMetas
    <2>3. /\ batches' \in [todo : Seq(Seq(Entry)), running : Seq(Outcomes), concurrency : Nat \ {0}]
          /\ batches'.running = <<>> /\ Whole(batches'.todo, plan.holdout)
          /\ \A i \in DOMAIN batches'.todo : ToSet(batches'.todo[i]) \subseteq plan.holdout
      BY <2>1, <2>2, Started
    <2>4. SetupInv'
      BY <1>1, <2>1, <2>3 DEF Inv, SetupInv
    <2>5. BatchInv'
      <3>1. Orchestrated' = plan.holdout
        BY <1>1, <2>1 DEF Orchestrated
      <3> QED  BY <1>5, <2>1, <2>3, <3>1 DEF BatchInv, AllSound
    <2>6. AskedInv'
      <3>1. AskedOf(<<>>) = <<>> /\ <<>> \o <<>> = <<>>
        BY DEF AskedOf
      <3>2. <<>> \o batches'.todo = batches'.todo
        BY <2>3, ConcatEmptySeq
      <3>3. merged'.holdout = <<>> /\ plan' = plan
        BY <1>1, <1>3
      <3> QED  BY <1>7, <2>1, <2>3, <3>1, <3>2, <3>3 DEF AskedInv
    <2> QED  BY <1>4, <1>6, <2>4, <2>5, <2>6 DEF Inv
  <1>9. CASE plan.holdout = {}
    <2>1. pc' = "record" /\ batches' = NoBatches
      BY <1>1, <1>9
    <2>2. SetupInv'
      BY <1>1, <2>1, NothingAsked DEF Inv, SetupInv
    <2>3. BatchInv'
      BY <1>5, <2>1, NothingAsked DEF BatchInv, AllSound
    <2>4. AskedInv'
      <3>1. BatchSizes # {}
        BY <1>3 DEF Whole
      <3>2. Whole(AskedOf(<<>>), {})
        BY <3>1, NothingIsWhole, FS_EmptySet
      <3>3. AskedOf(merged.holdout)' = AskedOf(<<>>) /\ plan'.holdout = {}
        BY <1>1, <1>3, <1>9 DEF AskedOf
      <3>4. Whole(AskedOf(merged.holdout), plan.holdout)'
        BY <3>2, <3>3 DEF Whole
      <3> QED  BY <1>7, <2>1, <3>4 DEF AskedInv
    <2> QED  BY <1>4, <1>6, <2>2, <2>3, <2>4 DEF Inv
  <1> QED  BY <1>8, <1>9

LEMMA EndHoldoutStep ==
  ASSUME Inv, EndHoldout
  PROVE  Inv'
  <1>1. /\ pc = "holdout" /\ batches.todo = <<>> /\ batches.running = <<>>
        /\ pc' = "record" /\ batches' = NoBatches
        /\ UNCHANGED <<core, project, graph, manifest, history, quarantined, runs, invocation,
                       request, listed, plan, merged, exit>>
    BY DEF EndHoldout, setup, store
  <1>2. merged.sample \in Seq(Outcomes) /\ merged.holdout \in Seq(Outcomes)
    BY DEF Inv, SetupInv
  <1>3. SetupInv'
    BY <1>1, NothingAsked DEF Inv, SetupInv
  <1>4. PlanInv'
    BY <1>1, PlanKept DEF Inv, setup
  <1>5. BatchInv'
    <2>1. AllSound(merged.sample, plan.sampled)' /\ AllSound(merged.holdout, plan.holdout)'
      BY <1>1, SoundKept DEF Inv, BatchInv
    <2> QED  BY <1>1, <2>1, NothingAsked DEF BatchInv, AllSound
  <1>6. ExitInv'
    BY <1>1 DEF Inv, ExitInv, Ended
  <1>7. AskedInv'
    <2>1. Whole(AskedOf(merged.sample), plan.sampled) /\ Whole(AskedOf(merged.holdout), plan.holdout)
      BY <1>1, <1>2, AllAsked DEF Inv, AskedInv
    <2>2. /\ AskedOf(merged.sample)' = AskedOf(merged.sample)
          /\ AskedOf(merged.holdout)' = AskedOf(merged.holdout)
      BY <1>1 DEF AskedOf
    <2>3. Whole(AskedOf(merged.sample), plan.sampled)' /\ Whole(AskedOf(merged.holdout), plan.holdout)'
      BY <1>1, <2>1, <2>2 DEF Whole
    <2> QED  BY <1>1, <2>3 DEF AskedInv
  <1> QED  BY <1>3, <1>4, <1>5, <1>6, <1>7 DEF Inv

LEMMA RecordStep ==
  ASSUME Inv, Record
  PROVE  Inv'
  <1>1. /\ pc = "record" /\ pc' = "start"
        /\ history' = history \cup WithRows(merged.sample) \cup WithRows(merged.holdout)
        /\ exit' = IF MaxExitCode = 0 THEN "0" ELSE "1"
        /\ UNCHANGED <<core, project, graph, manifest, quarantined, runs, invocation, request,
                       listed, plan, batches, merged>>
    BY DEF Record, setup
  <1>2. /\ merged.sample \in Seq(Outcomes) /\ merged.holdout \in Seq(Outcomes)
        /\ batches = NoBatches /\ history \subseteq Tests
    BY <1>1 DEF Inv, SetupInv, BatchInv
  <1>3. history' \subseteq Tests
    <2>1. \A o \in Outcomes : DOMAIN o.results \subseteq Tests
      BY DEF Outcomes
    <2>2. ASSUME NEW outcomes \in Seq(Outcomes) PROVE WithRows(outcomes) \subseteq Tests
      <3>1. \A i \in DOMAIN outcomes : outcomes[i] \in Outcomes
        OBVIOUS
      <3> QED  BY <2>1, <3>1 DEF WithRows
    <2>3. WithRows(merged.sample) \subseteq Tests /\ WithRows(merged.holdout) \subseteq Tests
      BY <1>2, <2>2
    <2> QED  BY <1>1, <1>2, <2>3
  <1>4. SetupInv'
    BY <1>1, <1>3 DEF Inv, SetupInv
  <1>5. PlanInv'
    BY <1>1, PlanKept DEF Inv, setup
  <1>6. BatchInv'
    <2>1. AllSound(merged.sample, plan.sampled)' /\ AllSound(merged.holdout, plan.holdout)'
      BY <1>1, SoundKept DEF Inv, BatchInv
    <2>2. batches' = NoBatches
      BY <1>1, <1>2
    <2> QED  BY <1>1, <2>1, <2>2, NothingAsked DEF BatchInv, AllSound
  <1>7. ExitInv'
    BY <1>1 DEF ExitInv, MaxExitCode
  <1>8. AskedInv'
    BY <1>1 DEF AskedInv
  <1> QED  BY <1>4, <1>5, <1>6, <1>7, <1>8 DEF Inv

LEMMA StutterStep ==
  ASSUME Inv, UNCHANGED vars
  PROVE  Inv'
  <1>1. UNCHANGED <<core, project, graph, manifest, history, quarantined, runs, pc, invocation,
                    request, listed, plan, batches, merged, exit>>
    BY DEF vars, setup, store
  <1>2. SetupInv'
    BY <1>1 DEF Inv, SetupInv
  <1>3. PlanInv'
    <2>1. Affected(plan.candidates)' = Affected(plan.candidates)
      BY <1>1 DEF Affected, AffectedSuites, Suites
    <2>2. NoTestTwice' /\ BudgetIsSpent' /\ FullGateRunsAll'
      BY <1>1 DEF Inv, PlanInv, NoTestTwice, BudgetIsSpent, FullGateRunsAll, Planned
    <2> QED  BY <1>1, <2>1, <2>2 DEF Inv, PlanInv
  <1>4. BatchInv'
    <2>1. AllSound(merged.sample, plan.sampled)' /\ AllSound(merged.holdout, plan.holdout)'
      BY <1>1, SoundKept DEF Inv, BatchInv
    <2>2. Orchestrated' = Orchestrated /\ Wrapped' = Wrapped
      BY <1>1, WrappedKept DEF Orchestrated
    <2>3. AllSound(batches.running, Orchestrated)'
      BY <1>1, <2>2 DEF Inv, BatchInv, AllSound, Sound
    <2> QED  BY <1>1, <2>1, <2>2, <2>3 DEF Inv, BatchInv
  <1>5. ExitInv'
    BY <1>1 DEF Inv, ExitInv, Ended, MaxExitCode
  <1>6. AskedInv'
    <2>1. /\ AskedOf(merged.sample)' = AskedOf(merged.sample)
          /\ AskedOf(merged.holdout)' = AskedOf(merged.holdout)
          /\ AskedOf(batches.running)' = AskedOf(batches.running)
      BY <1>1 DEF AskedOf
    <2> QED  BY <1>1, <2>1 DEF Inv, AskedInv, Whole
  <1> QED  BY <1>2, <1>3, <1>4, <1>5, <1>6 DEF Inv

\* In every state of every behaviour: what the steps above keep.
THEOREM Invariance == Spec => []Inv
  <1>1. ASSUME Inv, [Next]_vars PROVE Inv'
    <2>1. CASE Next
      BY <1>1, <2>1, StartRunStep, ListStep, PlanStep, StartBatchStep, MergeGroupStep, BatchThrowsStep,
         EndSampleStep, EndHoldoutStep, RecordStep DEF Next
    <2>2. CASE UNCHANGED vars
      BY <1>1, <2>2, StutterStep
    <2> QED  BY <1>1, <2>1, <2>2
  <1> QED  BY <1>1, InitInv, PTL DEF Spec

-----------------------------------------------------------------------------
(* The packages that a change reaches, for any graph.                      *)

\* The dependents of the packages of a set.
After(g, packages) == UNION {Dependents(g, p) : p \in packages}

IsQueue(g, direct, f, k) == f = [n \in 0 .. k |-> IF n = 0 THEN direct ELSE OneRound(g, f[n - 1])]
AreRounds(g, direct, f, k) ==
  /\ Expand(g, direct) = f[k] /\ f[0] = direct
  /\ \A n \in 1 .. k : f[n] = f[n - 1] \cup After(g, f[n - 1])

\* The queue exists: a round follows from the one before it.
LEMMA Queued ==
  ASSUME NEW g, NEW direct, NEW last \in Nat
  PROVE  \E f : IsQueue(g, direct, f, last)
  <1> DEFINE Queue(f, k) == IsQueue(g, direct, f, k)
             S == {k \in Nat : \E f : Queue(f, k)}
  <1>1. 0 \in S
    <2> DEFINE f0 == [n \in 0 .. 0 |-> direct]
    <2>1. \A n \in 0 .. 0 : n = 0
      OBVIOUS
    <2>2. Queue(f0, 0)
      BY <2>1 DEF IsQueue
    <2> QED  BY <2>2
  <1>2. ASSUME NEW k \in Nat, k \in S PROVE k + 1 \in S
    <2>1. PICK f : Queue(f, k)
      BY <1>2
    <2>2. \A n \in 0 .. k : f[n] = IF n = 0 THEN direct ELSE OneRound(g, f[n - 1])
      BY <2>1 DEF IsQueue
    <2> HIDE DEF Queue
    <2> DEFINE h == [n \in 0 .. k + 1 |-> IF n = k + 1 THEN OneRound(g, f[k]) ELSE f[n]]
    <2>3. ASSUME NEW n \in 0 .. k + 1
          PROVE  h[n] = IF n = 0 THEN direct ELSE OneRound(g, h[n - 1])
      <3>1. CASE n = 0
        <4>1. h[n] = f[0] /\ f[0] = direct
          BY <2>2, <3>1
        <4> QED  BY <3>1, <4>1
      <3>2. CASE n = k + 1
        <4>1. h[n] = OneRound(g, f[k]) /\ h[n - 1] = f[k]
          BY <3>2
        <4> QED  BY <3>2, <4>1
      <3>3. CASE n \in 1 .. k
        <4>1. h[n] = f[n] /\ h[n - 1] = f[n - 1]
          BY <3>3
        <4> QED  BY <2>2, <3>3, <4>1
      <3> QED  BY <3>1, <3>2, <3>3
    <2>4. h = [n \in 0 .. k + 1 |-> IF n = 0 THEN direct ELSE OneRound(g, h[n - 1])]
      BY <2>3
    <2>5. Queue(h, k + 1)
      BY <2>4 DEF Queue, IsQueue
    <2> HIDE DEF h
    <2> QED  BY <2>5
  <1>3. Nat \subseteq S
    <2> HIDE DEF S
    <2> QED  BY <1>1, <1>2, Induction
  <1> QED  BY <1>3

\* The rounds of expandTransitive are a function of their number.
LEMMA Rounds ==
  ASSUME NEW g, NEW direct, IsFiniteSet(Packages(g))
  PROVE  \E f : AreRounds(g, direct, f, Cardinality(Packages(g)))
  <1> DEFINE last == Cardinality(Packages(g))
             c == CHOOSE f : IsQueue(g, direct, f, last)
  <1>1. last \in Nat
    BY FS_CardinalityType
  <1>2. IsQueue(g, direct, c, last)
    <2> HIDE DEF last
    <2>1. \E f : IsQueue(g, direct, f, last)
      BY <1>1, Queued
    <2> QED  BY <2>1
  <1>3. Expand(g, direct) = c[last]
    BY DEF Expand, IsQueue
  <1>4. \A n \in 0 .. last : c[n] = IF n = 0 THEN direct ELSE OneRound(g, c[n - 1])
    <2> HIDE DEF c, last
    <2> QED  BY <1>2 DEF IsQueue
  <1> HIDE DEF c, last
  <1>5. c[0] = direct /\ \A n \in 1 .. last : c[n] = OneRound(g, c[n - 1])
    BY <1>1, <1>4
  <1>6. \A s : OneRound(g, s) = s \cup After(g, s)
    BY DEF OneRound, After
  <1>7. AreRounds(g, direct, c, last)
    BY <1>3, <1>5, <1>6 DEF AreRounds
  <1> QED  BY <1>7 DEF last

\* What expandTransitive gives is the least set of packages with the direct ones that is
\* closed under dependents: as many rounds as there are packages reach it.
LEMMA Expanded ==
  ASSUME NEW g, IsFiniteSet(Packages(g)), NEW direct \in SUBSET Packages(g)
  PROVE  LET affected == Expand(g, direct) IN
         /\ affected \subseteq Packages(g) /\ affected = direct \cup After(g, affected)
         /\ \A closed : direct \subseteq closed /\ After(g, closed) \subseteq closed => affected \subseteq closed
  <1> DEFINE last == Cardinality(Packages(g))
             Closed(s) == After(g, s) \subseteq s
  <1>1. last \in Nat
    BY FS_CardinalityType
  <1>0. PICK f : AreRounds(g, direct, f, last)
    BY Rounds
  <1>2. /\ Expand(g, direct) = f[last] /\ f[0] = direct
        /\ \A n \in 1 .. last : f[n] = f[n - 1] \cup After(g, f[n - 1])
    BY <1>0 DEF AreRounds
  <1>3. /\ \A s : After(g, s) \subseteq Packages(g)
        /\ \A s, t : s \subseteq t => After(g, s) \subseteq After(g, t)
        /\ After(g, {}) = {}
    BY DEF After, Dependents
  <1>4. ASSUME NEW s \in SUBSET Packages(g)
        PROVE  IsFiniteSet(s) /\ Cardinality(s) \in Nat /\ Cardinality(s) <= last
    BY FS_Subset, FS_CardinalityType
  <1> DEFINE Reach(s, n) ==
               /\ direct \subseteq s /\ s \subseteq Packages(g) /\ s \subseteq direct \cup After(g, s)
               /\ Closed(s) \/ Cardinality(s) >= n + 1
               /\ \A closed : direct \subseteq closed /\ Closed(closed) => s \subseteq closed
             S == {n \in Nat : n <= last => Reach(f[n], n)}
  <1>5. 0 \in S
    <2>1. Closed(direct) \/ Cardinality(direct) >= 1
      <3>1. CASE direct = {}
        BY <1>3, <3>1
      <3>2. CASE direct # {}
        <4>1. Cardinality(direct) # 0 /\ Cardinality(direct) \in Nat
          BY <1>4, <3>2, FS_EmptySet
        <4> QED  BY <4>1
      <3> QED  BY <3>1, <3>2
    <2> QED  BY <1>2, <2>1
  <1>6. ASSUME NEW n \in Nat, n \in S PROVE n + 1 \in S
    <2> SUFFICES ASSUME n + 1 <= last PROVE Reach(f[n + 1], n + 1)
      OBVIOUS
    <2> DEFINE s == f[n]
               t == f[n + 1]
    <2>1. Reach(s, n)
      BY <1>1, <1>6
    <2>2. t = s \cup After(g, s)
      <3>1. n + 1 \in 1 .. last /\ (n + 1) - 1 = n
        BY <1>1
      <3> QED  BY <1>2, <3>1
    <2> HIDE DEF s, t
    <2>3. direct \subseteq t /\ t \subseteq Packages(g) /\ t \subseteq direct \cup After(g, t)
      <3>1. After(g, s) \subseteq After(g, t)
        BY <1>3, <2>2
      <3> QED  BY <1>3, <2>1, <2>2, <3>1
    <2>4. Closed(t) \/ Cardinality(t) >= (n + 1) + 1
      <3>1. CASE Closed(s)
        <4>1. t = s
          BY <2>2, <3>1
        <4> QED  BY <3>1, <4>1
      <3>2. CASE ~Closed(s)
        <4>1. s \subseteq t /\ s # t /\ IsFiniteSet(t) /\ t \subseteq Packages(g) /\ s \subseteq Packages(g)
          BY <1>4, <2>1, <2>2, <2>3, <3>2
        <4>2. Cardinality(s) < Cardinality(t)
          BY <1>4, <4>1, FS_Subset
        <4>3. Cardinality(s) >= n + 1 /\ Cardinality(s) \in Nat /\ Cardinality(t) \in Nat
          BY <1>4, <2>1, <3>2, <4>1
        <4> QED  BY <4>2, <4>3
      <3> QED  BY <3>1, <3>2
    <2>5. ASSUME NEW closed, direct \subseteq closed, Closed(closed) PROVE t \subseteq closed
      <3>1. s \subseteq closed
        BY <2>1, <2>5
      <3>2. After(g, s) \subseteq After(g, closed)
        BY <1>3, <3>1
      <3> QED  BY <2>2, <2>5, <3>1, <3>2
    <2> QED  BY <2>3, <2>4, <2>5 DEF t
  <1>7. Nat \subseteq S
    <2> HIDE DEF S
    <2> QED  BY <1>5, <1>6, Induction
  <1> DEFINE affected == f[last]
  <1>8. Reach(affected, last)
    BY <1>1, <1>7
  <1> HIDE DEF affected
  <1>9. Closed(affected)
    <2>1. Cardinality(affected) \in Nat /\ Cardinality(affected) <= last
      BY <1>4, <1>8
    <2> QED  BY <1>1, <1>8, <2>1
  <1>10. Expand(g, direct) = affected
    BY <1>2 DEF affected
  <1>11. affected = direct \cup After(g, affected)
    BY <1>8, <1>9
  <1> HIDE DEF last
  <1> QED  BY <1>8, <1>10, <1>11

\* The graphs of the resolvers are finite, and those of rules have no dependencies.
LEMMA Graphs ==
  ASSUME NEW p, IsProject(p)
  PROVE  /\ Packages(GraphOf(p)) \subseteq DOMAIN p.dirs /\ IsFiniteSet(Packages(GraphOf(p)))
         /\ HasRules(p.resolver) => \A q \in Packages(GraphOf(p)) : GraphOf(p).needs[q] = {}
  <1> DEFINE g == GraphOf(p)
  <1>1. Packages(g) \subseteq DOMAIN p.dirs /\ (HasRules(p.resolver) => \A q \in Packages(g) : g.needs[q] = {})
    <2>1. CASE p.resolver = "workspace"
      <3>1. g = WorkspaceGraph(p)
        BY <2>1 DEF GraphOf
      <3> QED  BY <2>1, <3>1 DEF WorkspaceGraph, WorkspacePackages, Packages, Directories, HasRules
    <2>2. CASE p.resolver = "moon"
      <3>1. g = MoonGraph(p)
        BY <2>2 DEF GraphOf
      <3> QED  BY <2>2, <3>1 DEF MoonGraph, MoonPackages, Packages, Directories, HasRules
    <2>3. CASE p.resolver = "simple"
      <3>1. g = DirectoryGraph(p)
        BY <2>3 DEF GraphOf
      <3> QED  BY <3>1 DEF DirectoryGraph, Packages, Directories
    <2>4. CASE p.resolver \in {"bitflow", "glob"}
      <3>1. g = WorkflowGraph(p)
        BY <2>4 DEF GraphOf
      <3> QED  BY <2>4, <3>1 DEF WorkflowGraph, Packages, Directories, HasRules, IsProject
    <2> QED  BY <2>1, <2>2, <2>3, <2>4 DEF IsProject, Resolvers
  <1>2. IsFiniteSet(Packages(g))
    BY <1>1, FS_Subset DEF IsProject
  <1> QED  BY <1>1, <1>2

\* What the resolvers expand to is what a change reaches.
LEMMA ReachedIs ==
  ASSUME SetupInv
  PROVE  LET direct == DirectPackages(graph, request.changed) IN
         /\ Expand(graph, direct) = Reached /\ IsFiniteSet(Packages(graph))
         /\ Reached = direct \cup After(graph, Reached)
         /\ HasRules(project.resolver) => Reached = direct
  <1> DEFINE g      == graph
             direct == DirectPackages(graph, request.changed)
             affected == Expand(g, direct)
  <1>1. IsFiniteSet(Packages(g)) /\ (HasRules(project.resolver) => \A q \in Packages(g) : g.needs[q] = {})
    BY Graphs, RunAssumption DEF SetupInv, RunAssumption
  <1>2. direct \subseteq Packages(g)
    BY DEF DirectPackages
  <1>3. /\ affected \subseteq Packages(g) /\ affected = direct \cup After(g, affected)
        /\ \A closed : direct \subseteq closed /\ After(g, closed) \subseteq closed => affected \subseteq closed
    BY <1>1, <1>2, Expanded
  <1>4. ASSUME NEW closed \in SUBSET Packages(g)
        PROVE  /\ (\A q \in Packages(g) : g.owns[q] \cap request.changed # {} => q \in closed)
                    <=> direct \subseteq closed
               /\ (\A q \in Packages(g) : g.needs[q] \cap closed # {} => q \in closed)
                    <=> After(g, closed) \subseteq closed
    BY DEF DirectPackages, After, Dependents
  <1> HIDE DEF affected, direct
  <1>5. Reached = {p \in Packages(g) : \A closed \in SUBSET Packages(g) :
                     direct \subseteq closed /\ After(g, closed) \subseteq closed => p \in closed}
    BY <1>4 DEF Reached
  <1>6. affected \subseteq Reached
    BY <1>3, <1>5
  <1>7. Reached \subseteq affected
    BY <1>3, <1>5
  <1>8. HasRules(project.resolver) => After(g, affected) = {}
    BY <1>1 DEF After, Dependents
  <1> QED  BY <1>1, <1>3, <1>6, <1>7, <1>8 DEF affected, direct

\* A test file is affected if and only if a package that the change reaches has it.
LEMMA ResolvedIs ==
  ASSUME SetupInv
  PROVE  AffectedSuites = {s \in Suites : \E p \in Reached : s \in graph.tests[p]}
  <1> DEFINE direct == DirectPackages(graph, request.changed)
  <1>1. /\ Expand(graph, direct) = Reached
        /\ HasRules(project.resolver) => Reached = direct
    BY ReachedIs
  <1>2. CASE HasRules(project.resolver)
    <2>1. AffectedSuites = ResolveByRules(Rules(graph), request.changed, Suites)
      BY <1>2 DEF AffectedSuites, Resolve
    <2>2. ASSUME NEW s \in Suites
          PROVE  (\E r \in Rules(graph) : r.changed \cap request.changed # {} /\ s \in r.select)
                   <=> \E p \in direct : s \in graph.tests[p]
      <3>1. ASSUME NEW r \in Rules(graph), r.changed \cap request.changed # {}, s \in r.select
            PROVE  \E p \in direct : s \in graph.tests[p]
        <4>1. PICK p \in Packages(graph) : r = [changed |-> graph.owns[p], select |-> graph.tests[p]]
          BY DEF Rules
        <4>2. r.changed = graph.owns[p] /\ r.select = graph.tests[p]
          BY <4>1
        <4> QED  BY <3>1, <4>2 DEF DirectPackages
      <3>2. ASSUME NEW p \in direct, s \in graph.tests[p]
            PROVE  \E r \in Rules(graph) : r.changed \cap request.changed # {} /\ s \in r.select
        <4> DEFINE r == [changed |-> graph.owns[p], select |-> graph.tests[p]]
        <4>1. p \in Packages(graph) /\ graph.owns[p] \cap request.changed # {}
          BY DEF DirectPackages
        <4>2. r \in Rules(graph) /\ r.changed = graph.owns[p] /\ r.select = graph.tests[p]
          BY <4>1 DEF Rules
        <4> HIDE DEF r
        <4> QED  BY <3>2, <4>1, <4>2
      <3> QED  BY <3>1, <3>2
    <2>3. AffectedSuites = {s \in Suites : \E r \in Rules(graph) : r.changed \cap request.changed # {} /\ s \in r.select}
      BY <2>1 DEF ResolveByRules
    <2> HIDE DEF direct
    <2> QED  BY <1>1, <1>2, <2>2, <2>3
  <1>3. CASE ~HasRules(project.resolver)
    BY <1>1, <1>3 DEF AffectedSuites, Resolve, ResolveByGraph
  <1> QED  BY <1>2, <1>3

\* The affected candidates are those whose suite the change reaches.
LEMMA AffectedIs ==
  ASSUME SetupInv, NEW metas, IsMetas(metas)
  PROVE  Affected(metas) = {e \in metas : IsReached(e)}
  <1>1. ASSUME NEW e \in metas PROVE SuiteOf[KeyOf(e)] \in Suites
    BY DEF IsMetas, Entry, KeyOf, Suites
  <1>2. ASSUME NEW e \in metas PROVE SuiteOf[KeyOf(e)] \in AffectedSuites <=> IsReached(e)
    BY <1>1, ResolvedIs DEF IsReached
  <1> QED  BY <1>2 DEF Affected

-----------------------------------------------------------------------------
(* Declared dependencies.                                                  *)

\* The name of the module and a path, taken apart again.
LEMMA TakenApart ==
  ASSUME NEW name \in Seq(STRING), NEW path \in Seq(STRING)
  PROVE  /\ IsPrefix(name, name \o path)
         /\ SubSeq(name \o path, Len(name) + 1, Len(name \o path)) = path
  <1> DEFINE S == STRING
             m == Len(name)
             n == Len(name \o path)
  <1>1. name \in Seq(S) /\ path \in Seq(S) /\ m \in Nat /\ n = m + Len(path) /\ Len(path) \in Nat
    OBVIOUS
  <1>2. SubSeq(name \o path, 1, m) = name
    BY <1>1, SubSeqOfConcat1, SubSeqFull
  <1>3. IsPrefix(name, name \o path)
    BY <1>1, <1>2, SubSeqFull DEF IsPrefix
  <1>4. SubSeq(name \o path, m + 1, n) = path
    BY <1>1, SubSeqOfConcat2, SubSeqFull
  <1> QED  BY <1>3, <1>4

\* A path is the name it begins with and the rest.
LEMMA PutTogether ==
  ASSUME NEW name \in Seq(STRING), NEW path \in Seq(STRING), IsPrefix(name, path)
  PROVE  path = name \o SubSeq(path, Len(name) + 1, Len(path))
  <1> DEFINE S == STRING
  <1>1. Len(name) \in 0 .. Len(path) /\ SubSeq(path, 1, Len(name)) = SubSeq(name, 1, Len(name))
    BY DEF IsPrefix
  <1>2. SubSeq(name, 1, Len(name)) = name
    BY SubSeqFull
  <1>3. SubSeq(path, 1, Len(name)) \o SubSeq(path, Len(name) + 1, Len(path)) = SubSeq(path, 1, Len(path))
    <2>1. /\ 1 \in 1 .. Len(path) + 1 /\ Len(name) \in 1 - 1 .. Len(path)
          /\ Len(path) \in Len(name) .. Len(path)
      BY <1>1
    <2> QED  BY <2>1, ConcatAdjacentSubSeq
  <1>4. SubSeq(path, 1, Len(path)) = path
    BY SubSeqFull
  <1> QED  BY <1>1, <1>2, <1>3, <1>4

\* An import of a moon project means the package that it names.
LEMMA ImportMeans ==
  ASSUME NEW p, IsProject(p), NEW q \in MoonPackages(p), q # <<>>
  PROVE  /\ ResolveImport(p, p.name \o q) = {q}
         /\ \/ ResolveImport(p, q) = {q}
            \/ p.name # <<>> /\ \E other \in MoonPackages(p) \ {<<>>} : q = p.name \o other
  <1> DEFINE name     == p.name
             packages == MoonPackages(p) \ {<<>>}
             Local(i) == SubSeq(i, Len(name) + 1, Len(i))
  <1>1. name \in Seq(STRING) /\ q \in Seq(STRING) /\ q \in packages
    BY DEF IsProject, MoonPackages, Directories
  <1>2. \A i : name # <<>> /\ IsPrefix(name, i) /\ Local(i) \in packages => ResolveImport(p, i) = {Local(i)}
    BY DEF ResolveImport
  <1>3. \A i \in packages : ~(name # <<>> /\ IsPrefix(name, i) /\ Local(i) \in packages) => ResolveImport(p, i) = {i}
    BY DEF ResolveImport
  <1>4. IsPrefix(name, name \o q) /\ Local(name \o q) = q
    BY <1>1, TakenApart
  <1>5. IsPrefix(name, q) => q = name \o Local(q)
    BY <1>1, PutTogether
  <1> HIDE DEF packages, Local
  <1>6. name # <<>> => ResolveImport(p, name \o q) = {q}
    <2> DEFINE i == name \o q
    <2>1. IsPrefix(name, i) /\ Local(i) = q
      BY <1>4
    <2> HIDE DEF i
    <2> QED  BY <1>1, <1>2, <2>1 DEF i
  <1>7. name = <<>> => ResolveImport(p, name \o q) = {q}
    <2>1. name = <<>> => name \o q = q
      BY <1>1
    <2> QED  BY <1>1, <1>3, <2>1
  <1>8. ResolveImport(p, q) = {q} \/ (name # <<>> /\ \E other \in packages : q = name \o other)
    BY <1>1, <1>3, <1>5
  <1> QED  BY <1>6, <1>7, <1>8 DEF packages

\* What a package declares is an edge of the graph that the resolver reads.
LEMMA DeclaredIsNeeded ==
  ASSUME SetupInv, ~HasRules(project.resolver),
         NEW p \in Packages(graph), NEW q \in Packages(graph), Declares(p, q)
  PROVE  q \in graph.needs[p]
  <1>1. IsProject(project) /\ graph = GraphOf(project) /\ q # <<>>
    BY RunAssumption DEF SetupInv, RunAssumption, Declares
  <1>2. q \in Seq(STRING)
    BY <1>1, Graphs DEF IsProject
  <1>3. <<>> \o q = q
    BY <1>2
  <1>4. CASE project.resolver = "moon"
    <2>1. graph = MoonGraph(project)
      BY <1>1, <1>4 DEF GraphOf
    <2>2. /\ Packages(graph) = MoonPackages(project)
          /\ graph.needs[p] = UNION {ResolveImport(project, i) : i \in project.dirs[p].declared}
      BY <2>1 DEF MoonGraph, Packages
    <2>a. q \in MoonPackages(project)
      BY <2>2
    <2>b. /\ ResolveImport(project, project.name \o q) = {q}
          /\ \/ ResolveImport(project, q) = {q}
             \/ project.name # <<>> /\ \E other \in MoonPackages(project) \ {<<>>} : q = project.name \o other
      BY <1>1, <2>a, ImportMeans, Zenon
    <2>3. /\ ResolveImport(project, project.name \o q) = {q}
          /\ ReadsAsOther(q) \/ ResolveImport(project, q) = {q}
      BY <2>2, <2>b, Zenon DEF ReadsAsOther
    <2>4. PICK i \in project.dirs[p].declared : ResolveImport(project, i) = {q}
      BY <2>3 DEF Declares
    <2> QED  BY <2>2, <2>4
  <1>5. CASE project.resolver # "moon"
    <2>1. q \in project.dirs[p].declared
      BY <1>1, <1>3, <1>5 DEF Declares, IsProject
    <2>2. CASE project.resolver = "workspace"
      <3>1. graph = WorkspaceGraph(project)
        BY <1>1, <2>2 DEF GraphOf
      <3> QED  BY <2>1, <3>1 DEF WorkspaceGraph, WorkspaceDeps, Packages
    <2>3. CASE project.resolver = "bitflow"
      <3>1. graph = WorkflowGraph(project)
        BY <1>1, <2>3 DEF GraphOf
      <3> QED  BY <2>1, <3>1 DEF WorkflowGraph, Packages
    <2> QED  BY <1>1, <1>5, <2>2, <2>3 DEF IsProject, Resolvers, HasRules
  <1> QED  BY <1>4, <1>5

\* The affected tests are in the sample, and no declared dependency was overlooked.
LEMMA AffectedFirst ==
  ASSUME Inv
  PROVE  AffectedComeFirst
  <1>1. IsMetas(plan.candidates) /\ plan.sampled \subseteq plan.candidates
    BY DEF Inv, PlanInv
  <1>2. Affected(plan.candidates) = {e \in plan.candidates : IsReached(e)}
    BY <1>1, AffectedIs DEF Inv
  <1>3. plan.mode = "affected" => plan.sampled = {e \in plan.candidates : IsReached(e)}
    BY <1>2 DEF Inv, PlanInv
  <1>4. plan.mode = "hybrid" /\ (\E e \in plan.sampled : ~IsReached(e)) =>
          \A e \in plan.candidates : IsReached(e) => e \in plan.sampled
    BY <1>1, <1>2 DEF Inv, PlanInv
  <1>5. ~HasRules(project.resolver) =>
          \A p, q \in Packages(graph) : Declares(p, q) => q \in graph.needs[p]
    BY DeclaredIsNeeded DEF Inv
  <1> QED  BY <1>3, <1>4, <1>5 DEF AffectedComeFirst

-----------------------------------------------------------------------------
(* Affected reports.                                                       *)

\* What explain hands to buildAffectedReport: the targets that are matched with their files,
\* and the parents of the packages that were reached from others.
IsExplained(direct, includedBy, unmatched) ==
  /\ DOMAIN direct \subseteq Targets /\ \A t \in DOMAIN direct : direct[t] # {}
  /\ \A q \in DOMAIN includedBy : includedBy[q] # {} /\ includedBy[q] \subseteq graph.needs[q] \cap Reached
  /\ {t.spec : t \in {t \in Targets : t \in DOMAIN direct \/ t.task \in DOMAIN includedBy}} = AffectedSuites
  /\ project.resolver = "simple" /\ DOMAIN direct = {} => unmatched = request.changed

\* A target is a suite of a package, and each is one.
LEMMA TargetsAre ==
  /\ \A t \in Targets : /\ t = [spec |-> t.spec, task |-> t.task] /\ t.task \in Packages(graph)
                        /\ t.spec \in graph.tests[t.task] /\ t.spec \in Suites
  /\ \A p \in Packages(graph), s \in Suites :
       s \in graph.tests[p] => [spec |-> s, task |-> p] \in Targets
  <1>1. ASSUME NEW t \in Targets
        PROVE  /\ t = [spec |-> t.spec, task |-> t.task] /\ t.task \in Packages(graph)
               /\ t.spec \in graph.tests[t.task] /\ t.spec \in Suites
    <2>1. PICK p \in Packages(graph) : t \in {[spec |-> s, task |-> p] : s \in graph.tests[p] \cap Suites}
      BY DEF Targets
    <2>2. PICK s \in graph.tests[p] \cap Suites : t = [spec |-> s, task |-> p]
      BY <2>1
    <2> QED  BY <2>2
  <1>2. ASSUME NEW p \in Packages(graph), NEW s \in Suites, s \in graph.tests[p]
        PROVE  [spec |-> s, task |-> p] \in Targets
    BY <1>2 DEF Targets
  <1> QED  BY <1>1, <1>2

LEMMA FiniteTargets ==
  ASSUME SetupInv
  PROVE  IsFiniteSet(Targets)
  <1> DEFINE suite == [t \in Tests |-> SuiteOf[t]]
             pairs == Suites \X Packages(graph)
             target == [x \in pairs |-> [spec |-> x[1], task |-> x[2]]]
             range  == {target[x] : x \in pairs}
  <1>1. IsFiniteSet(Tests) /\ IsFiniteSet(Packages(graph))
    BY ReachedIs, RunAssumption DEF RunAssumption
  <1>2. IsFiniteSet(Suites)
    <2>1. suite \in Surjection(Tests, Suites)
      BY DEF Surjection, Suites
    <2> QED  BY <1>1, <2>1, FS_Surjection
  <1>3. IsFiniteSet(pairs)
    BY <1>1, <1>2, FS_Product
  <1>4. IsFiniteSet(range)
    <2>1. target \in Surjection(pairs, range)
      <3> HIDE DEF pairs
      <3> QED  BY DEF Surjection
    <2> QED  BY <1>3, <2>1, FS_Surjection
  <1>5. ASSUME NEW t \in Targets PROVE t \in range
    <2>1. t = [spec |-> t.spec, task |-> t.task] /\ t.task \in Packages(graph) /\ t.spec \in Suites
      BY TargetsAre
    <2> DEFINE x == <<t.spec, t.task>>
    <2>2. x \in pairs /\ target[x] = [spec |-> t.spec, task |-> t.task]
      BY <2>1
    <2> HIDE DEF x, target, pairs
    <2> QED  BY <2>1, <2>2
  <1>6. Targets \subseteq range
    BY <1>5
  <1> HIDE DEF range
  <1> QED  BY <1>4, <1>6, FS_Subset

\* explain of the resolvers with packages.
LEMMA ExplainedByGraph ==
  ASSUME SetupInv, project.resolver \notin {"glob", "simple"}
  PROVE  \E direct, includedBy, unmatched :
           /\ IsExplained(direct, includedBy, unmatched)
           /\ Explain(project.resolver, graph, request.changed, Targets)
                = BuildAffectedReport(Targets, direct, includedBy, unmatched)
  <1> DEFINE packages   == DirectPackages(graph, request.changed)
             direct     == DirectSelections(graph, request.changed, Targets)
             includedBy == IncludedBy(graph, packages)
             unmatched  == Unmatched(graph, request.changed)
  <1>1. Explain(project.resolver, graph, request.changed, Targets)
          = BuildAffectedReport(Targets, direct, includedBy, unmatched)
    BY DEF Explain, ExplainByGraph
  <1>2. Expand(graph, packages) = Reached /\ Reached = packages \cup After(graph, Reached)
    BY ReachedIs
  <1>3. includedBy = [q \in After(graph, Reached) |-> graph.needs[q] \cap Reached]
    BY <1>2 DEF IncludedBy, After
  <1>4. /\ DOMAIN direct = {t \in Targets : t.task \in packages}
        /\ \A t \in DOMAIN direct : direct[t] = graph.owns[t.task] \cap request.changed
    BY DEF DirectSelections
  <1>5. \A t \in DOMAIN direct : direct[t] # {}
    BY <1>4 DEF DirectPackages
  <1> HIDE DEF direct, includedBy, unmatched, packages
  <1>6. DOMAIN includedBy = After(graph, Reached)
    BY <1>3
  <1>7. ASSUME NEW q \in DOMAIN includedBy
        PROVE  includedBy[q] # {} /\ includedBy[q] \subseteq graph.needs[q] \cap Reached
    <2>1. includedBy[q] = graph.needs[q] \cap Reached
      BY <1>3
    <2>2. \E p \in Reached : p \in graph.needs[q]
      BY <1>6 DEF After, Dependents
    <2> QED  BY <2>1, <2>2
  <1>8. {t.spec : t \in {t \in Targets : t \in DOMAIN direct \/ t.task \in DOMAIN includedBy}} = AffectedSuites
    <2>1. {t \in Targets : t \in DOMAIN direct \/ t.task \in DOMAIN includedBy} = {t \in Targets : t.task \in Reached}
      BY <1>2, <1>4, <1>6
    <2>2. ASSUME NEW t \in Targets, t.task \in Reached PROVE t.spec \in AffectedSuites
      BY <2>2, TargetsAre, ResolvedIs
    <2>3. ASSUME NEW s \in AffectedSuites PROVE \E t \in Targets : t.task \in Reached /\ t.spec = s
      <3>1. PICK p \in Reached : s \in graph.tests[p] /\ s \in Suites /\ p \in Packages(graph)
        BY ResolvedIs DEF Reached
      <3> DEFINE t == [spec |-> s, task |-> p]
      <3>2. t \in Targets /\ t.task = p /\ t.spec = s
        BY <3>1, TargetsAre
      <3> HIDE DEF t
      <3> QED  BY <3>1, <3>2
    <2> QED  BY <2>1, <2>2, <2>3
  <1>9. IsExplained(direct, includedBy, unmatched)
    BY <1>4, <1>5, <1>7, <1>8 DEF IsExplained
  <1> QED  BY <1>1, <1>9

\* explain of the resolvers with rules.
LEMMA ExplainedByRules ==
  ASSUME SetupInv, project.resolver \in {"glob", "simple"}
  PROVE  \E direct, includedBy, unmatched :
           /\ IsExplained(direct, includedBy, unmatched)
           /\ Explain(project.resolver, graph, request.changed, Targets)
                = BuildAffectedReport(Targets, direct, includedBy, unmatched)
  <1> DEFINE rules      == Rules(graph)
             Of(t)      == Paths(rules, request.changed, t)
             direct     == [t \in {t \in Targets : Of(t) # {}} |-> Of(t)]
             includedBy == [task \in {} |-> {}]
             unmatched  == IF project.resolver = "simple"
                           THEN request.changed \ UNION {Of(t) : t \in Targets}
                           ELSE {f \in request.changed : \A r \in rules : f \notin r.changed}
  <1>1. Explain(project.resolver, graph, request.changed, Targets)
          = BuildAffectedReport(Targets, direct, includedBy, unmatched)
    <2>1. CASE project.resolver = "simple"
      BY <2>1 DEF Explain, ExplainByDirectory, ByRules
    <2>2. CASE project.resolver = "glob"
      BY <2>2 DEF Explain, ExplainByRules, ByRules
    <2> QED  BY <2>1, <2>2
  <1>2. Reached = DirectPackages(graph, request.changed)
    BY ReachedIs DEF HasRules
  <1>3. DOMAIN direct = {t \in Targets : Of(t) # {}} /\ (\A t \in DOMAIN direct : direct[t] # {}) /\ DOMAIN includedBy = {}
    OBVIOUS
  <1>4. ASSUME NEW t \in Targets PROVE Of(t) # {} <=> \E p \in Reached : t.spec \in graph.tests[p]
    <2>1. ASSUME NEW f \in Of(t) PROVE \E p \in Reached : t.spec \in graph.tests[p]
      <3>1. PICK r \in rules : f \in r.changed /\ t.spec \in r.select /\ f \in request.changed
        BY DEF Paths
      <3>2. PICK p \in Packages(graph) : r = [changed |-> graph.owns[p], select |-> graph.tests[p]]
        BY DEF Rules
      <3>3. r.changed = graph.owns[p] /\ r.select = graph.tests[p]
        BY <3>2
      <3> QED  BY <1>2, <3>1, <3>3 DEF DirectPackages
    <2>2. ASSUME NEW p \in Reached, t.spec \in graph.tests[p] PROVE Of(t) # {}
      <3>1. PICK f \in graph.owns[p] : f \in request.changed /\ p \in Packages(graph)
        BY <1>2 DEF DirectPackages
      <3> DEFINE r == [changed |-> graph.owns[p], select |-> graph.tests[p]]
      <3>2. r \in rules /\ r.changed = graph.owns[p] /\ r.select = graph.tests[p]
        BY <3>1 DEF Rules
      <3> HIDE DEF r, rules
      <3>3. f \in Of(t)
        BY <2>2, <3>1, <3>2 DEF Paths
      <3> QED  BY <3>3
    <2> QED  BY <2>1, <2>2
  <1>5. project.resolver = "simple" /\ DOMAIN direct = {} => unmatched = request.changed
    <2> SUFFICES ASSUME project.resolver = "simple", DOMAIN direct = {} PROVE unmatched = request.changed
      OBVIOUS
    <2>1. \A t \in Targets : Of(t) = {}
      BY <1>3
    <2> HIDE DEF Of
    <2>2. UNION {Of(t) : t \in Targets} = {}
      BY <2>1
    <2> QED  BY <2>2
  <1> HIDE DEF direct, includedBy, unmatched, Of
  <1>6. {t.spec : t \in {t \in Targets : t \in DOMAIN direct \/ t.task \in DOMAIN includedBy}} = AffectedSuites
    <2>1. {t \in Targets : t \in DOMAIN direct \/ t.task \in DOMAIN includedBy}
            = {t \in Targets : \E p \in Reached : t.spec \in graph.tests[p]}
      BY <1>3, <1>4
    <2>2. ASSUME NEW t \in Targets, \E p \in Reached : t.spec \in graph.tests[p] PROVE t.spec \in AffectedSuites
      BY <2>2, TargetsAre, ResolvedIs
    <2>3. ASSUME NEW s \in AffectedSuites
          PROVE  \E t \in Targets : t.spec = s /\ \E p \in Reached : t.spec \in graph.tests[p]
      <3>1. PICK p \in Reached : s \in graph.tests[p] /\ s \in Suites /\ p \in Packages(graph)
        BY ResolvedIs DEF Reached
      <3> DEFINE t == [spec |-> s, task |-> p]
      <3>2. t \in Targets /\ t.spec = s
        BY <3>1, TargetsAre
      <3> HIDE DEF t
      <3> QED  BY <3>1, <3>2
    <2> QED  BY <2>1, <2>2, <2>3
  <1>7. IsExplained(direct, includedBy, unmatched)
    BY <1>3, <1>5, <1>6 DEF IsExplained
  <1> QED  BY <1>1, <1>7

\* What buildAffectedReport makes of it: a matched target is listed once.
LEMMA Reported ==
  ASSUME NEW direct, NEW includedBy, NEW unmatched, IsExplained(direct, includedBy, unmatched)
  PROVE  LET report == BuildAffectedReport(Targets, direct, includedBy, unmatched)
             others == {t \in Targets \ DOMAIN direct : t.task \in DOMAIN includedBy}
         IN /\ report.unmatched = unmatched /\ report.summary.selectedCount = Cardinality(report.selected)
            /\ report.selected = {Selection(t, direct[t], {}) : t \in DOMAIN direct}
                                   \cup {Selection(t, {}, includedBy[t.task]) : t \in others}
            /\ report.matched = {Selection(t, direct[t], {}) : t \in DOMAIN direct}
            /\ report.selected \ report.matched = {Selection(t, {}, includedBy[t.task]) : t \in others}
  <1> DEFINE report == BuildAffectedReport(Targets, direct, includedBy, unmatched)
             others == {t \in Targets \ DOMAIN direct : t.task \in DOMAIN includedBy}
             A      == {Selection(t, direct[t], {}) : t \in DOMAIN direct}
             B      == {Selection(t, {}, includedBy[t.task]) : t \in others}
  <1>1. Targets \cap DOMAIN direct = DOMAIN direct /\ others = Transitive(Targets, direct, includedBy)
    BY DEF IsExplained, Transitive
  <1>2. Selections(Targets, direct, includedBy) = A \cup B
    BY <1>1 DEF Selections
  <1>3. /\ report.unmatched = unmatched /\ report.selected = A \cup B
        /\ report.summary.selectedCount = Cardinality(report.selected)
        /\ report.matched = {s \in report.selected : s.direct}
    BY <1>2 DEF BuildAffectedReport
  <1>4. ASSUME NEW s \in A PROVE s.direct
    <2>1. PICK t \in DOMAIN direct : s = Selection(t, direct[t], {})
      OBVIOUS
    <2>2. s.direct = (direct[t] # {})
      BY <2>1 DEF Selection
    <2> QED  BY <2>2 DEF IsExplained
  <1>5. ASSUME NEW s \in B PROVE ~s.direct
    <2>1. PICK t \in others : s = Selection(t, {}, includedBy[t.task])
      OBVIOUS
    <2>2. s.direct = ({} # {})
      BY <2>1 DEF Selection
    <2> QED  BY <2>2
  <1> HIDE DEF A, B, report
  <1>6. report.matched = A /\ report.selected \ report.matched = B
    BY <1>3, <1>4, <1>5
  <1> QED  BY <1>3, <1>6 DEF A, B, report, others

\* The report selects what resolve selects, for all five resolvers.
LEMMA Agrees ==
  ASSUME Inv
  PROVE  ReportAgrees
  <1> DEFINE report == Explain(project.resolver, graph, request.changed, Targets)
             others == report.selected \ report.matched
             Key(s) == [spec |-> s.spec, task |-> s.task]
  <1>1. PICK direct, includedBy, unmatched :
          /\ IsExplained(direct, includedBy, unmatched)
          /\ report = BuildAffectedReport(Targets, direct, includedBy, unmatched)
    BY ExplainedByGraph, ExplainedByRules DEF Inv
  <1> DEFINE rest == {t \in Targets \ DOMAIN direct : t.task \in DOMAIN includedBy}
             A == {Selection(t, direct[t], {}) : t \in DOMAIN direct}
             B == {Selection(t, {}, includedBy[t.task]) : t \in rest}
  <1>2. /\ report.unmatched = unmatched /\ report.summary.selectedCount = Cardinality(report.selected)
        /\ report.selected = A \cup B /\ report.matched = A /\ others = B
    BY <1>1, Reported
  <1>3. /\ DOMAIN direct \subseteq Targets /\ rest \subseteq Targets
        /\ DOMAIN direct \cup rest = {t \in Targets : t \in DOMAIN direct \/ t.task \in DOMAIN includedBy}
        /\ {t.spec : t \in DOMAIN direct \cup rest} = AffectedSuites
    BY <1>1 DEF IsExplained
  <1>4. /\ \A t \in DOMAIN direct : Selection(t, direct[t], {}).spec = t.spec /\ Selection(t, direct[t], {}).task = t.task
        /\ \A t \in rest : /\ Selection(t, {}, includedBy[t.task]).spec = t.spec
                           /\ Selection(t, {}, includedBy[t.task]).task = t.task
                           /\ Selection(t, {}, includedBy[t.task]).includedBy = includedBy[t.task]
    BY DEF Selection
  <1> HIDE DEF report, rest
  <1>5. Specs(A \cup B) = AffectedSuites
    <2>1. ASSUME NEW s \in A \cup B PROVE s.spec \in AffectedSuites
      <3>1. CASE s \in A
        <4>1. PICK t \in DOMAIN direct : s = Selection(t, direct[t], {})
          BY <3>1
        <4> QED  BY <1>3, <1>4, <4>1
      <3>2. CASE s \in B
        <4>1. PICK t \in rest : s = Selection(t, {}, includedBy[t.task])
          BY <3>2
        <4> QED  BY <1>3, <1>4, <4>1
      <3> QED  BY <3>1, <3>2
    <2>2. ASSUME NEW x \in AffectedSuites PROVE \E s \in A \cup B : s.spec = x
      <3>1. PICK t \in DOMAIN direct \cup rest : t.spec = x
        BY <1>3
      <3>2. CASE t \in DOMAIN direct
        <4>1. Selection(t, direct[t], {}) \in A
          BY <3>2
        <4> QED  BY <1>4, <3>1, <3>2, <4>1
      <3>3. CASE t \in rest
        <4>1. Selection(t, {}, includedBy[t.task]) \in B
          BY <3>3
        <4> QED  BY <1>4, <3>1, <3>3, <4>1
      <3> QED  BY <3>2, <3>3
    <2> HIDE DEF A, B
    <2> QED  BY <2>1, <2>2 DEF Specs
  <1>6. ASSUME NEW a \in A, NEW b \in B PROVE Key(a) # Key(b)
    <2>1. PICK t \in DOMAIN direct : a = Selection(t, direct[t], {})
      OBVIOUS
    <2>2. PICK u \in rest : b = Selection(u, {}, includedBy[u.task])
      OBVIOUS
    <2>3. Key(a) = t /\ Key(b) = u
      BY <1>3, <1>4, <2>1, <2>2, TargetsAre
    <2>4. t # u
      BY <2>2 DEF rest
    <2> QED  BY <2>3, <2>4
  <1>7. ASSUME NEW s \in B
        PROVE  s.includedBy # {} /\ s.includedBy \subseteq graph.needs[s.task] \cap Reached
    <2>1. PICK t \in rest : s = Selection(t, {}, includedBy[t.task])
      OBVIOUS
    <2>2. s.task = t.task /\ s.includedBy = includedBy[t.task] /\ t.task \in DOMAIN includedBy
      BY <1>4, <2>1 DEF rest
    <2> QED  BY <1>1, <2>2 DEF IsExplained
  <1>8. IsFiniteSet(A \cup B)
    <2> DEFINE f == [t \in DOMAIN direct \cup rest |->
                       IF t \in DOMAIN direct THEN Selection(t, direct[t], {})
                       ELSE Selection(t, {}, includedBy[t.task])]
    <2>1. IsFiniteSet(DOMAIN direct \cup rest)
      BY <1>3, FiniteTargets, FS_Subset DEF Inv
    <2>2. f \in Surjection(DOMAIN direct \cup rest, A \cup B)
      BY DEF Surjection, rest
    <2> QED  BY <2>1, <2>2, FS_Surjection
  <1>9. Cardinality(A \cup B) = 0 => AffectedSuites = {}
    <2>1. Cardinality(A \cup B) = 0 => A \cup B = {}
      BY <1>8, FS_EmptySet
    <2> QED  BY <1>5, <2>1 DEF Specs
  <1>10. A = {} /\ project.resolver = "simple" => unmatched = request.changed
    <2>1. A = {} => DOMAIN direct = {}
      OBVIOUS
    <2> QED  BY <1>1, <2>1 DEF IsExplained
  <1> HIDE DEF A, B, others
  <1>11. {Key(s) : s \in A} \cap {Key(s) : s \in B} = {}
    BY <1>6
  <1> QED  BY <1>2, <1>5, <1>7, <1>9, <1>10, <1>11 DEF ReportAgrees, report, others

-----------------------------------------------------------------------------
(* What the invariant says.                                                *)

\* All the batches of an order, one after the other, are that order.
LEMMA WholeIsOnce ==
  ASSUME NEW outcomes, NEW entries, IsMetas(entries), Whole(AskedOf(outcomes), entries)
  PROVE  /\ IsInjective(Asked(outcomes)) /\ ToSet(Asked(outcomes)) = entries
         /\ Len(Asked(outcomes)) = Cardinality(entries)
  <1>1. PICK order \in Orders(entries), size \in BatchSizes : AskedOf(outcomes) = Batches(order, size)
    BY DEF Whole
  <1>2. /\ order \in Seq(entries) /\ Len(order) = Cardinality(entries)
        /\ ToSet(order) = entries /\ IsInjective(order)
    BY Ordered DEF IsMetas
  <1>3. FlattenSeq(Batches(order, size)) = order
    BY <1>2, BatchesFlat, RunAssumption DEF RunAssumption
  <1>4. Asked(outcomes) = order
    BY <1>1, <1>3 DEF Asked, AskedOf
  <1> QED  BY <1>2, <1>4

\* When the holdout starts all of the sample was asked for, and all of the holdout when the run is recorded.
LEMMA AskedOnce ==
  ASSUME Inv
  PROVE  EveryTestIsAskedOnce
  <1> SUFFICES ASSUME pc \in {"holdout", "record"}
               PROVE  LET sample  == Asked(merged.sample)
                          holdout == Asked(merged.holdout)
                          page    == SummaryPage(plan)
                      IN /\ IsInjective(sample) /\ ToSet(sample) = plan.sampled
                         /\ page.selected[1] = Len(sample)
                         /\ page.saved = Cardinality(plan.candidates \ ToSet(sample))
                         /\ pc = "record" =>
                              /\ IsInjective(holdout) /\ ToSet(holdout) = plan.holdout
                              /\ page.holdout = {Len(holdout)} \ {0}
                         /\ page.hint # {} => history = {}
    BY DEF EveryTestIsAskedOnce
  <1> DEFINE sample  == Asked(merged.sample)
             holdout == Asked(merged.holdout)
             page    == SummaryPage(plan)
  <1>1. IsMetas(plan.candidates) /\ plan.sampled \subseteq plan.candidates /\ plan.holdout \subseteq plan.candidates
    BY DEF Inv, PlanInv
  <1>2. IsMetas(plan.sampled) /\ IsMetas(plan.holdout)
    BY <1>1, FS_Subset DEF IsMetas
  <1>3. IsInjective(sample) /\ ToSet(sample) = plan.sampled /\ Len(sample) = Cardinality(plan.sampled)
    BY <1>2, WholeIsOnce DEF Inv, AskedInv
  <1>4. pc = "record" =>
          IsInjective(holdout) /\ ToSet(holdout) = plan.holdout /\ Len(holdout) = Cardinality(plan.holdout)
    BY <1>2, WholeIsOnce DEF Inv, AskedInv
  <1> HIDE DEF sample, holdout
  <1> DEFINE c == Cardinality(plan.candidates)
             s == Cardinality(plan.sampled)
             h == Cardinality(plan.holdout)
  <1>5. /\ page.selected = <<s, c>> /\ page.saved = IF c > s THEN c - s ELSE 0
        /\ page.holdout = IF h > 0 THEN {h} ELSE {}
        /\ page.hint = IF plan.coldStart THEN {"import --ci"} ELSE {}
    BY DEF SummaryPage, SamplingSummary
  <1> HIDE DEF page
  <1>6. plan.candidates \cap plan.sampled = plan.sampled
    BY <1>1
  <1>7. c \in Nat /\ s \in Nat /\ h \in Nat /\ c = s + Cardinality(plan.candidates \ plan.sampled)
        /\ Cardinality(plan.candidates \ plan.sampled) \in Nat
    BY <1>1, <1>2, <1>6, SumOfParts, FS_CardinalityType DEF IsMetas
  <1>8. plan.coldStart => history = {}
    BY DEF Inv, PlanInv
  <1> HIDE DEF c, s, h
  <1>9. page.selected[1] = s /\ page.saved = Cardinality(plan.candidates \ plan.sampled)
    <2> DEFINE rest == Cardinality(plan.candidates \ plan.sampled)
    <2>1. c \in Nat /\ s \in Nat /\ rest \in Nat /\ c = s + rest
      BY <1>7
    <2> HIDE DEF rest
    <2>2. (IF c > s THEN c - s ELSE 0) = rest
      BY <2>1
    <2>3. page.saved = rest /\ page.selected = <<s, c>>
      BY <1>5, <2>2
    <2> QED  BY <2>3 DEF rest
  <1>10. page.holdout = {h} \ {0}
    <2>1. h \in Nat
      BY <1>7
    <2>2. (IF h > 0 THEN {h} ELSE {}) = {h} \ {0}
      <3>1. CASE h > 0
        BY <2>1, <3>1
      <3>2. CASE h = 0
        BY <3>2
      <3> QED  BY <2>1, <3>1, <3>2
    <2> QED  BY <1>5, <2>2
  <1>11. page.hint # {} => history = {}
    BY <1>5, <1>8
  <1> QED  BY <1>3, <1>4, <1>9, <1>10, <1>11 DEF s, h, page, sample, holdout

LEMMA OutcomeTypes ==
  ASSUME NEW outcomes \in Seq(Outcomes), NEW i \in DOMAIN outcomes
  PROVE  outcomes[i] \in Outcomes /\ IsOutcome(outcomes[i])
  <1>1. outcomes[i] \in Outcomes
    OBVIOUS
  <1>2. \A o \in Outcomes : o.asked \in Seq(Entry) /\ o.exitCode \in {0, 1}
                            /\ o.results \in UNION {[ts -> Result] : ts \in SUBSET Tests}
    BY DEF Outcomes
  <1>3. \A asked \in Seq(Entry) : KeysOf(ToSet(asked)) \subseteq Tests
    BY DEF KeysOf, KeyOf, ToSet, Entry
  <1> QED  BY <1>1, <1>2, <1>3 DEF IsOutcome

\* Tests in quarantine are no candidates, and a run has results of candidates only.
LEMMA LeftAlone ==
  ASSUME Inv
  PROVE  QuarantinedAreLeftAlone
  <1> SUFFICES ASSUME request.skipQuarantined,
                      NEW outcome \in ToSet(merged.sample \o merged.holdout)
               PROVE  DOMAIN outcome.results \cap (quarantined \cup Skipped(Tests, manifest)) = {}
    BY DEF QuarantinedAreLeftAlone
  <1>1. merged.sample \in Seq(Outcomes) /\ merged.holdout \in Seq(Outcomes)
    BY DEF Inv, SetupInv
  <1>2. PICK k \in DOMAIN (merged.sample \o merged.holdout) : outcome = (merged.sample \o merged.holdout)[k]
    BY DEF ToSet
  <1>3. \/ \E j \in DOMAIN merged.sample : outcome = merged.sample[j]
        \/ \E j \in DOMAIN merged.holdout : outcome = merged.holdout[j]
    BY <1>1, <1>2, Concatenated
  <1>4. Sound(outcome, plan.sampled) \/ Sound(outcome, plan.holdout)
    BY <1>3 DEF Inv, BatchInv, AllSound
  <1>5. DOMAIN outcome.results \subseteq KeysOf(plan.candidates)
    BY <1>4 DEF Sound, KeysOf, Inv, PlanInv
  <1> QED  BY <1>5 DEF Inv, PlanInv

\* The exit code is the largest of the batches, and each of them tells of its results.
LEMMA ExitTells ==
  ASSUME Inv
  PROVE  ExitTellsFailures
  <1> SUFFICES ASSUME Ended
               PROVE  /\ exit = "0" => \A i \in DOMAIN merged.sample : ~Blocks(merged.sample[i])
                      /\ exit = "1" /\ Wrapped =>
                           \E i \in DOMAIN merged.sample :
                              Blocks(merged.sample[i]) \/ DOMAIN merged.sample[i].results = {}
    BY DEF ExitTellsFailures
  <1>1. exit = IF MaxExitCode = 0 THEN "0" ELSE "1"
    BY DEF Inv, ExitInv
  <1>2. \A i \in DOMAIN merged.sample : Sound(merged.sample[i], plan.sampled)
    BY DEF Inv, BatchInv, AllSound
  <1>3. exit = "0" => \A i \in DOMAIN merged.sample : merged.sample[i].exitCode # 1
    BY <1>1 DEF MaxExitCode
  <1>4. exit = "1" => \E i \in DOMAIN merged.sample : merged.sample[i].exitCode = 1
    BY <1>1 DEF MaxExitCode
  <1> QED  BY <1>2, <1>3, <1>4 DEF Sound

\* Types, that what is sampled or held out is a candidate, and that no more batches run at a time
\* than are let (executeBatched).
THEOREM TypeCorrect == Spec => []TypeOK
  <1>1. Inv => TypeOK
    <2> SUFFICES ASSUME Inv PROVE TypeOK
      OBVIOUS
    <2>1. merged.sample \in Seq(Outcomes) /\ merged.holdout \in Seq(Outcomes)
      BY DEF Inv, SetupInv
    <2>2. /\ \A i \in DOMAIN merged.sample : IsOutcome(merged.sample[i])
          /\ \A i \in DOMAIN merged.holdout : IsOutcome(merged.holdout[i])
      BY <2>1, OutcomeTypes
    <2> QED  BY <2>2 DEF Inv, SetupInv, PlanInv, BatchInv, ExitInv, TypeOK
  <1> QED  BY <1>1, Invariance, PTL

\* No test is in the sample and in the holdout, and none is planned more often than it is listed,
\* whatever is listed twice and whatever the store remembers (selectHoldout,
\* filterMetaToListedTests).
THEOREM PlannedOnce == Spec => []NoTestTwice
  <1>1. Inv => NoTestTwice
    BY DEF Inv, PlanInv
  <1> QED  BY <1>1, Invariance, PTL

\* What a plan samples is what was asked for: an affected run takes the candidates that the change
\* reaches, for any packages and dependencies, a hybrid run takes those first, and no declared
\* dependency is overlooked; the budget is spent and not exceeded, whatever stands in for the
\* mode; a full gate takes all candidates (selectByStrategy, resolve, resolveGate, planSample).
THEOREM SampleSound == Spec => []SampleIsSound
  <1>1. Inv => SampleIsSound
    BY AffectedFirst DEF Inv, PlanInv, SampleIsSound
  <1> QED  BY <1>1, Invariance, PTL

\* A run that skips what is quarantined has no result of a test that the store or the manifest
\* has in quarantine (filterQuarantinedTests).
THEOREM LeftAloneAlways == Spec => []QuarantinedAreLeftAlone
  <1> QED  BY LeftAlone, Invariance, PTL

\* The batches that the runner was given are a partition of what was planned, in any order, for
\* every batch size and concurrency, and the summary counts them (executeBatched,
\* formatSamplingSummary).
THEOREM BatchesPartition == Spec => []EveryTestIsAskedOnce
  <1> QED  BY AskedOnce, Invariance, PTL

\* The exit code tells whether a result of the sample blocks, over all its batches
\* (executeBatched, summarizeQuarantineResults).
THEOREM ExitCode == Spec => []ExitTellsFailures
  <1> QED  BY ExitTells, Invariance, PTL

\* The affected report agrees with what is executed: it selects what resolve selects, lists no
\* target twice, and gives a parent that the change reaches for each target that no changed file
\* is in (explain, buildAffectedReport).
THEOREM ReportIsTrue == Spec => []ReportAgrees
  <1> QED  BY Agrees, Invariance, PTL
=============================================================================
