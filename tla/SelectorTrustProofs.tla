----------------------------- MODULE SelectorTrustProofs -----------------------------
(***************************************************************************)
(* Proofs about SelectorTrust and GateCalibration, for any tests, heads,   *)
(* gates and thresholds.  A decision stays explained by the evidence until *)
(* the evidence changes; what it adopts cannot be improved in the same     *)
(* direction, which is why calibrating comes to rest.                      *)
(***************************************************************************)
EXTENDS SelectorTrust, FiniteSetTheorems, TLAPS

-----------------------------------------------------------------------------
(* Lemmas about the least of a set.                                        *)

\* A function into the numbers is least somewhere.
LEMMA LeastExists ==
  ASSUME NEW S, S # {}, NEW f \in [S -> Nat]
  PROVE  \E x \in S : \A y \in S : f[x] <= f[y]
  <1> DEFINE T == {1 .. f[x] : x \in S}
             R == StrictSubsetOrdering(Nat)
  <1>1. IsWellFoundedOn(R, FiniteSubsetsOf(Nat))
    BY FS_StrictSubsetOrderingWellFounded
  <1>2. T \subseteq FiniteSubsetsOf(Nat) /\ T # {}
    <2>1. ASSUME NEW x \in S PROVE 1 .. f[x] \in FiniteSubsetsOf(Nat)
      <3>1. f[x] \in Int /\ 1 .. f[x] \subseteq Nat
        OBVIOUS
      <3>2. IsFiniteSet(1 .. f[x])
        BY <3>1, FS_Interval
      <3> QED  BY <3>1, <3>2 DEF FiniteSubsetsOf
    <2> QED  BY <2>1
  <1>3. \E t \in T : \A u \in T : ~(<<u, t>> \in R)
    <2> HIDE DEF T, R
    <2> QED  BY <1>1, <1>2, WFMin
  <1>4. PICK x \in S : \A y \in S : ~(<<1 .. f[y], 1 .. f[x]>> \in R)
    BY <1>3
  <1>5. ASSUME NEW y \in S, f[y] < f[x] PROVE <<1 .. f[y], 1 .. f[x]>> \in R
    <2>1. f[x] \in 1 .. f[x] /\ f[x] \notin 1 .. f[y]
      BY <1>5
    <2>2. 1 .. f[y] \subseteq 1 .. f[x] /\ 1 .. f[y] # 1 .. f[x]
      BY <1>5, <2>1
    <2> QED  BY <2>2 DEF StrictSubsetOrdering
  <1>6. \A y \in S : f[x] <= f[y]
    <2>1. \A y \in S : f[y] \in Nat
      OBVIOUS
    <2>2. \A y \in S : ~(f[y] < f[x])
      <3> HIDE DEF R
      <3> QED  BY <1>4, <1>5
    <2> QED  BY <2>1, <2>2
  <1> QED  BY <1>6

-----------------------------------------------------------------------------
(* Lemmas about the decision.                                              *)

Allowed == Gates \cup {DefaultGate}

\* Records of finitely many ids.
Countable(known) == IsFiniteSet({r.id : r \in known})

\* Of finitely many verdicts finitely many are selected and missed, so their numbers compare.
LEMMA SizesAreNumbers ==
  ASSUME NEW known, Countable(known), NEW g
  PROVE  /\ IsFiniteSet(Selection(known, g)) /\ Size(known, g) \in Nat
         /\ IsFiniteSet(Missed(known, g)) /\ Misses(known, g) \in Nat
         /\ IsFiniteSet(FailuresOf(known))
  <1> DEFINE Pairs == {r.id : r \in known} \X Tests
  <1>1. IsFiniteSet(Pairs)
    BY FS_Product, TrustAssumption DEF Countable, TrustAssumption
  <1>2. Selection(known, g) \subseteq Pairs /\ Missed(known, g) \subseteq Pairs
        /\ FailuresOf(known) \subseteq Pairs
    BY DEF Selection, Missed, FailuresOf
  <1> HIDE DEF Pairs
  <1>3. /\ IsFiniteSet(Selection(known, g)) /\ IsFiniteSet(Missed(known, g))
        /\ IsFiniteSet(FailuresOf(known))
    BY <1>1, <1>2, FS_Subset
  <1> QED  BY <1>3, FS_CardinalityType DEF Size, Misses

\* How far one gate is from another (calibrate-core.ts) is a natural number.
LEMMA DistanceIsNumber ==
  ASSUME NEW g \in Allowed, NEW h \in Allowed
  PROVE  Distance(g, h) \in Nat
  <1>1. g \in [cutoff : Nat, below : Nat, margin : Nat] /\ h \in [cutoff : Nat, below : Nat, margin : Nat]
    BY TrustAssumption DEF TrustAssumption, Allowed
  <1>2. \A m, n \in Nat : Difference(m, n) \in Nat
    BY DEF Difference
  <1>3. /\ Difference(g.cutoff, h.cutoff) \in Nat /\ Difference(g.below, h.below) \in Nat
        /\ Difference(g.margin, h.margin) \in Nat
    BY <1>1, <1>2
  <1> QED  BY <1>3 DEF Distance

\* Among candidates pickFewest picks one that selects the fewest tests.
LEMMA FewestPicked ==
  ASSUME NEW known, Countable(known), NEW candidates \in SUBSET Allowed, candidates # {}
  PROVE  /\ PickFewest(known, candidates) \in candidates
         /\ \A h \in candidates : Size(known, PickFewest(known, candidates)) <= Size(known, h)
  <1> DEFINE Fewest  == {g \in candidates : \A h \in candidates : Size(known, g) <= Size(known, h)}
             Nearest == {g \in Fewest : \A h \in Fewest : Distance(g, DefaultGate) <= Distance(h, DefaultGate)}
  <1>1. Fewest # {}
    <2> DEFINE f == [g \in candidates |-> Size(known, g)]
    <2>1. f \in [candidates -> Nat]
      BY SizesAreNumbers
    <2>2. \E x \in candidates : \A y \in candidates : f[x] <= f[y]
      <3> HIDE DEF f
      <3> QED  BY <2>1, LeastExists
    <2> QED  BY <2>2
  <1>2. Nearest # {}
    <2> DEFINE f == [g \in Fewest |-> Distance(g, DefaultGate)]
    <2>1. \A g \in Fewest : g \in Allowed /\ DefaultGate \in Allowed
      BY DEF Allowed
    <2>2. f \in [Fewest -> Nat]
      <3> HIDE DEF Fewest
      <3> QED  BY <2>1, DistanceIsNumber
    <2>3. \E x \in Fewest : \A y \in Fewest : f[x] <= f[y]
      <3> HIDE DEF f, Fewest
      <3> QED  BY <1>1, <2>2, LeastExists
    <2>4. \E x \in Fewest : \A y \in Fewest : Distance(x, DefaultGate) <= Distance(y, DefaultGate)
      <3> HIDE DEF Fewest
      <3> QED  BY <2>3
    <2> QED
      <3> HIDE DEF Fewest
      <3> QED  BY <2>4
  <1>3. PickFewest(known, candidates) = CHOOSE g \in Nearest : TRUE
    BY DEF PickFewest
  <1>4. PickFewest(known, candidates) \in Nearest
    <2> HIDE DEF Nearest
    <2> QED  BY <1>2, <1>3
  <1> QED  BY <1>4

\* What fewestMisses leaves of candidates.
LEMMA FewestMissed ==
  ASSUME NEW known, Countable(known), NEW candidates, candidates # {}
  PROVE  FewestMisses(known, candidates) # {}
  <1> DEFINE f == [g \in candidates |-> Misses(known, g)]
  <1>1. f \in [candidates -> Nat]
    BY SizesAreNumbers
  <1>2. \E x \in candidates : \A y \in candidates : f[x] <= f[y]
    <2> HIDE DEF f
    <2> QED  BY <1>1, LeastExists
  <1> QED  BY <1>2 DEF FewestMisses

\* What was decided, and that no candidate goes further in the same direction.
Tightened(known, old, gate) ==
  /\ Missed(known, old) # {}
  /\ gate \in Tighter(known, old)
  /\ \A g \in Tighter(known, old) : Misses(known, gate) <= Misses(known, g)
Loosened(known, old, gate) ==
  /\ Missed(known, old) = {} /\ EnoughFailures(known)
  /\ gate \in Looser(known, old)
  /\ \A g \in Looser(known, old) : Size(known, gate) <= Size(known, g)

\* What calibrateGate answers, whatever gate it is asked about.
LEMMA Decided ==
  ASSUME NEW all, NEW old \in Allowed, Countable(WithoutQuarantined(all))
  PROVE  LET known == WithoutQuarantined(all)
             made    == CalibrateGate(all, old)
         IN /\ made.gate \in Allowed
            /\ \/ made.decision = "keep" /\ made.gate = old
               \/ made.decision = "tighten" /\ Tightened(known, old, made.gate)
               \/ made.decision = "loosen" /\ Loosened(known, old, made.gate)
  <1> DEFINE known == WithoutQuarantined(all)
             made    == CalibrateGate(all, old)
  <1>0. Candidates(old) \subseteq Allowed
    BY DEF Candidates, Allowed
  <1>1. made \in {Keep(old), Tighten(known, old), Loosen(known, old)}
        /\ (made # Keep(old) =>
              \/ Missed(known, old) # {} /\ made = Tighten(known, old)
              \/ Missed(known, old) = {} /\ made = Loosen(known, old))
    BY DEF CalibrateGate
  <1>2. Keep(old).decision = "keep" /\ Keep(old).gate = old
    BY DEF Keep
  <1> HIDE DEF known, made
  <1>3. CASE made = Keep(old)
    BY <1>2, <1>3 DEF known, made
  <1>4. CASE made # Keep(old) /\ Missed(known, old) # {} /\ made = Tighten(known, old)
    <2> DEFINE tighter == Tighter(known, old)
               best    == FewestMisses(known, tighter)
    <2>1. tighter # {} /\ made = [decision |-> "tighten", gate |-> PickFewest(known, best)]
      BY <1>4 DEF Tighten
    <2>2. tighter \subseteq Allowed /\ best \subseteq tighter
      BY <1>0 DEF Tighter, FewestMisses
    <2>3. best # {}
      <3> HIDE DEF tighter
      <3> QED  BY <2>1, FewestMissed DEF known
    <2>4. PickFewest(known, best) \in best
      <3> HIDE DEF best
      <3> QED  BY <2>2, <2>3, FewestPicked DEF known
    <2>5. made.decision = "tighten" /\ made.gate \in best
      <3> HIDE DEF best
      <3> QED  BY <2>1, <2>4
    <2>6. Tightened(known, old, made.gate) /\ made.gate \in Allowed
      BY <1>4, <2>2, <2>5 DEF Tightened, FewestMisses
    <2> QED  BY <2>5, <2>6 DEF known, made
  <1>5. CASE made # Keep(old) /\ Missed(known, old) = {} /\ made = Loosen(known, old)
    <2> DEFINE looser == Looser(known, old)
    <2>1. /\ looser # {} /\ EnoughFailures(known)
          /\ made = [decision |-> "loosen", gate |-> PickFewest(known, looser)]
      BY <1>5 DEF Loosen
    <2>2. looser \subseteq Allowed
      BY <1>0 DEF Looser
    <2>3. PickFewest(known, looser) \in looser
          /\ \A h \in looser : Size(known, PickFewest(known, looser)) <= Size(known, h)
      <3> HIDE DEF looser
      <3> QED  BY <2>1, <2>2, FewestPicked DEF known
    <2>4. made.decision = "loosen" /\ made.gate = PickFewest(known, looser)
      <3> HIDE DEF looser
      <3> QED  BY <2>1
    <2>5. Loosened(known, old, made.gate) /\ made.gate \in Allowed
      BY <1>5, <2>1, <2>2, <2>3, <2>4 DEF Loosened
    <2> QED  BY <2>4, <2>5 DEF known, made
  <1> QED  BY <1>1, <1>3, <1>4, <1>5

\* A tightened gate that still misses something cannot be tightened further.
LEMMA TightenedRests ==
  ASSUME NEW known, Countable(known), NEW old, NEW gate, Tightened(known, old, gate)
  PROVE  Tighter(known, gate) = {}
  <1> SUFFICES ASSUME NEW g \in Tighter(known, gate) PROVE FALSE
    OBVIOUS
  <1>1. /\ Misses(known, g) < Misses(known, gate) /\ Misses(known, gate) < Misses(known, old)
        /\ Selection(known, old) \subseteq Selection(known, g)
    BY DEF Tighter, Tightened
  <1>2. g \in Candidates(old)
    BY DEF Tighter, Tightened, Candidates
  <1>3. g \in Tighter(known, old)
    BY <1>1, <1>2, SizesAreNumbers DEF Tighter
  <1> QED  BY <1>1, <1>3, SizesAreNumbers DEF Tightened

\* A loosened gate misses nothing and cannot be loosened further.
LEMMA LoosenedRests ==
  ASSUME NEW known, Countable(known), NEW old, NEW gate, Loosened(known, old, gate)
  PROVE  Missed(known, gate) = {} /\ Looser(known, gate) = {}
  <1>1. Missed(known, gate) = {} /\ Size(known, gate) < Size(known, old)
    BY DEF Loosened, Looser
  <1>2. SUFFICES ASSUME NEW g \in Looser(known, gate) PROVE FALSE
    BY <1>1
  <1>3. Missed(known, g) = {} /\ Size(known, g) < Size(known, gate) /\ g \in Candidates(old)
    BY DEF Looser, Loosened, Candidates
  <1>4. g \in Looser(known, old)
    BY <1>1, <1>3, SizesAreNumbers DEF Looser
  <1> QED  BY <1>3, <1>4, SizesAreNumbers DEF Loosened

-----------------------------------------------------------------------------
(* The inductive invariant.                                                *)

\* Records are numbered by their count, so there are finitely many.
EvidenceInv ==
  /\ IsFiniteSet(records)
  /\ \A r \in records :
       r.id \in 1 .. Cardinality(records) /\ r.source \in Sources /\ r.verdicts \in RecordVerdicts
  /\ fullHeads \subseteq Heads /\ hushed \subseteq Tests

\* While the evidence stays, the last decision follows from it.
DecisionInv ==
  /\ adopted.decision = "tighten" => Tightened(Counted, adopted.before, adopted.gate)
  /\ adopted.decision = "loosen"  => Loosened(Counted, adopted.before, adopted.gate)

\* From the present instant to the last on record there is no gap, so the first free
\* instant is later than all of them.
GatesInv ==
  /\ gates \in [DOMAIN gates -> Allowed] /\ DOMAIN gates \subseteq Nat \ {0}
  /\ instant \in Nat \ {0}
  /\ \A at \in DOMAIN gates : \A i \in instant .. at : i \in DOMAIN gates
  /\ DOMAIN gates # {} => \E at \in DOMAIN gates : \A other \in DOMAIN gates : other <= at
  /\ adopted.decision # "none" => adopted.at \in DOMAIN gates /\ \A other \in DOMAIN gates : other <= adopted.at

\* A gate that was moved cannot be moved in the same direction, nor back.
SettleInv ==
  /\ moves \in 0 .. 2
  /\ moves >= 1 /\ Missed(Counted, LatestGate) # {} => moves = 1 /\ Tighter(Counted, LatestGate) = {}
  /\ moves = 2 => Missed(Counted, LatestGate) = {} /\ Looser(Counted, LatestGate) = {}

\* The worktree holds the mutation of the trial under way, or nothing.
TrialInv ==
  /\ pc \in {"idle", "mutate", "select", "suite", "record"}
  /\ baseline \subseteq Tests
  /\ current \in [head : Nat, mutation : Mutations \cup {"none"}, killed : SUBSET Tests]
  /\ pc \in {"idle", "mutate"} => tree = {}
  /\ pc \in {"select", "suite", "record"} => current.mutation \in Mutations /\ tree = {current.mutation}
  /\ pc = "record" => current.killed \subseteq Kills[current.mutation]
  /\ \A s \in trials :
       s.mutation \in Mutations /\ s.killed \subseteq Tests /\ s.killed \subseteq Kills[s.mutation]

Inv == EvidenceInv /\ DecisionInv /\ GatesInv /\ SettleInv /\ TrialInv

-----------------------------------------------------------------------------
(* What a step does to the evidence and to the decisions made of it.       *)

\* New evidence comes in, a calibration is made, or neither.
LEMMA StepKinds ==
  ASSUME [Next]_vars
  PROVE  \/ NewEvidence
         \/ Calibrate
         \/ UNCHANGED <<store, gates, adopted, moves>> /\ instant' \in {instant, instant + 1}
  <1>1. ASSUME NEW h \in Heads, FullRun(h) \/ ImportRecord(h) PROVE NewEvidence
    BY <1>1 DEF FullRun, ImportRecord
  <1>2. ASSUME NEW t \in Tests, Hush(t) PROVE NewEvidence
    BY <1>2 DEF Hush
  <1>3. ASSUME StartTrials \/ SelectOnMutant \/ RecordTrial PROVE NewEvidence
    BY <1>3 DEF StartTrials, SelectOnMutant, RecordTrial
  <1>4. ASSUME NEW m \in Mutations, Mutate(m)
        PROVE  UNCHANGED <<store, gates, adopted, moves>> /\ instant' = instant
    BY <1>4 DEF Mutate
  <1>5. ASSUME Skip \/ RunSuite \/ EndTrials \/ UNCHANGED vars
        PROVE  UNCHANGED <<store, gates, adopted, moves>> /\ instant' = instant
    BY <1>5 DEF Skip, RunSuite, EndTrials, vars
  <1>6. ASSUME Tick PROVE UNCHANGED <<store, gates, adopted, moves>> /\ instant' = instant + 1
    BY <1>6 DEF Tick
  <1> QED  BY <1>1, <1>2, <1>3, <1>4, <1>5, <1>6 DEF Next

\* The records that calibration counts are finite and have known verdicts.
LEMMA EvidenceCountable ==
  ASSUME EvidenceInv
  PROVE  Countable(Counted)
  <1> DEFINE Ids == 1 .. Cardinality(records)
  <1>1. IsFiniteSet(Ids)
    BY FS_CardinalityType, FS_Interval DEF EvidenceInv
  <1>2. {r.id : r \in Counted} \subseteq Ids
    <2>1. \A e \in LoadCalibrationRecords : \E r \in records : e.id = r.id
      BY DEF LoadCalibrationRecords, RealEvidence, MutationEvidence, Evidence, LatestPerHead
    <2>2. \A c \in Counted : \E e \in LoadCalibrationRecords : c.id = e.id
      <3>1. \A e \in LoadCalibrationRecords : \A f : [e EXCEPT !.failures = f].id = e.id
        BY DEF LoadCalibrationRecords, RealEvidence, MutationEvidence, Evidence
      <3>2. SUFFICES ASSUME NEW c \in Counted PROVE \E e \in LoadCalibrationRecords : c.id = e.id
        OBVIOUS
      <3>3. PICK e \in LoadCalibrationRecords :
              c = [e EXCEPT !.failures = {t \in @ : e.verdicts[t].reason # "quarantined"}]
        BY <3>2, Zenon DEF Counted, WithoutQuarantined
      <3> QED  BY <3>1, <3>3
    <2> QED  BY <2>1, <2>2 DEF EvidenceInv
  <1> HIDE DEF Ids
  <1> QED  BY <1>1, <1>2, FS_Subset DEF Countable

\* Calibration reads the tables of the store and nothing else.
LEMMA SameEvidence ==
  ASSUME UNCHANGED store
  PROVE  Counted' = Counted /\ LoadCalibrationRecords' = LoadCalibrationRecords
  BY DEF store, Counted, WithoutQuarantined, LoadCalibrationRecords, RealEvidence, MutationEvidence,
         Evidence, LatestPerHead, TrialsOf

\* The gate in force is one of the candidates, or the default.
LEMMA LatestAllowed ==
  ASSUME GatesInv
  PROVE  LatestGate \in Allowed
  BY DEF GatesInv, LatestGate, Allowed

\* What a calibration writes, and that the row is the last one on record.
LEMMA Calibrated ==
  ASSUME EvidenceInv, GatesInv, Calibrate
  PROVE  /\ \/ adopted'.decision = "keep" /\ adopted'.gate = LatestGate
            \/ adopted'.decision = "tighten" /\ Tightened(Counted, LatestGate, adopted'.gate)
            \/ adopted'.decision = "loosen" /\ Loosened(Counted, LatestGate, adopted'.gate)
         /\ adopted'.gate \in Allowed /\ adopted'.before = LatestGate
         /\ adopted'.at \in Nat \ {0} /\ adopted'.at \notin DOMAIN gates /\ instant <= adopted'.at
         /\ DOMAIN gates' = DOMAIN gates \cup {adopted'.at}
         /\ gates' = [at \in DOMAIN gates \cup {adopted'.at} |-> IF at = adopted'.at THEN adopted'.gate ELSE gates[at]]
         /\ \A i \in instant .. adopted'.at - 1 : i \in DOMAIN gates
         /\ \A at \in DOMAIN gates : at <= adopted'.at
         /\ LatestGate' = adopted'.gate
         /\ moves' = IF adopted'.gate = LatestGate THEN moves ELSE moves + 1
  <1> DEFINE made == CalibrateGate(LoadCalibrationRecords, LatestGate)
  <1>1. PICK n \in Int :
          /\ FirstFree(n)
          /\ gates' = [at \in DOMAIN gates \cup {n} |-> IF at = n THEN made.gate ELSE gates[at]]
          /\ adopted' = [decision |-> made.decision, at |-> n, before |-> LatestGate, gate |-> made.gate]
          /\ moves' = IF made.gate = LatestGate THEN moves ELSE moves + 1
    BY DEF Calibrate
  <1>2. /\ made.gate \in Allowed
        /\ \/ made.decision = "keep" /\ made.gate = LatestGate
           \/ made.decision = "tighten" /\ Tightened(Counted, LatestGate, made.gate)
           \/ made.decision = "loosen" /\ Loosened(Counted, LatestGate, made.gate)
    BY EvidenceCountable, LatestAllowed, Decided DEF Counted
  <1> HIDE DEF made
  <1>3. /\ adopted'.decision = made.decision /\ adopted'.at = n
        /\ adopted'.before = LatestGate /\ adopted'.gate = made.gate
    BY <1>1
  <1>4. n \notin DOMAIN gates /\ n \in Nat \ {0} /\ instant <= n /\ \A i \in instant .. n - 1 : i \in DOMAIN gates
    <2>1. PICK attempt \in Nat :
            /\ n = instant + attempt
            /\ \A a \in 0 .. attempt - 1 : instant + a \in DOMAIN gates
      BY <1>1, TrustAssumption DEF FirstFree, Later, TrustAssumption
    <2>2. ASSUME NEW i \in instant .. n - 1 PROVE i \in DOMAIN gates
      <3>1. i - instant \in 0 .. attempt - 1 /\ instant + (i - instant) = i
        BY <2>1 DEF GatesInv
      <3> QED  BY <2>1, <3>1
    <2> QED  BY <1>1, <2>1, <2>2 DEF FirstFree, GatesInv
  <1>5. \A at \in DOMAIN gates : at <= n
    <2> SUFFICES ASSUME NEW at \in DOMAIN gates, n < at PROVE FALSE
      BY <1>4 DEF GatesInv
    <2>1. n \in instant .. at
      BY <1>4 DEF GatesInv
    <2> QED  BY <1>4, <2>1 DEF GatesInv
  <1>6. DOMAIN gates' = DOMAIN gates \cup {n} /\ gates'[n] = made.gate
    BY <1>1
  <1>7. LatestGate' = made.gate
    <2>1. \A at \in DOMAIN gates' : (\A other \in DOMAIN gates' : other <= at) <=> at = n
      BY <1>4, <1>5, <1>6 DEF GatesInv
    <2>2. LatestGate' = gates'[CHOOSE at \in DOMAIN gates' : \A other \in DOMAIN gates' : other <= at]
      BY <1>6 DEF LatestGate
    <2>3. (CHOOSE at \in DOMAIN gates' : \A other \in DOMAIN gates' : other <= at) = n
      BY <1>6, <2>1
    <2> QED  BY <1>6, <2>2, <2>3
  <1> QED  BY <1>1, <1>2, <1>3, <1>4, <1>5, <1>6, <1>7

-----------------------------------------------------------------------------
(* Every step keeps the invariant.                                         *)

LEMMA InitInv == Init => Inv
  <1> SUFFICES ASSUME Init PROVE Inv
    OBVIOUS
  <1> USE DEF Init
  <1>1. EvidenceInv
    BY FS_EmptySet DEF EvidenceInv
  <1>2. DecisionInv
    BY DEF DecisionInv, NoDecision
  <1>3. GatesInv
    BY DEF GatesInv, NoDecision
  <1>4. SettleInv
    BY DEF SettleInv
  <1>5. TrialInv
    BY DEF TrialInv, NoTrial
  <1> QED  BY <1>1, <1>2, <1>3, <1>4, <1>5 DEF Inv

\* A new record gets the next number.
LEMMA Numbered ==
  ASSUME EvidenceInv, NEW head, NEW source \in Sources, NEW vs \in RecordVerdicts,
         NewRecord(head, source, vs)
  PROVE  /\ IsFiniteSet(records')
         /\ \A r \in records' :
              r.id \in 1 .. Cardinality(records') /\ r.source \in Sources /\ r.verdicts \in RecordVerdicts
  <1> DEFINE new == [id |-> Cardinality(records) + 1, head |-> head, source |-> source, verdicts |-> vs]
  <1>1. records' = records \cup {new} /\ IsFiniteSet(records) /\ Cardinality(records) \in Nat
    BY FS_CardinalityType DEF NewRecord, EvidenceInv
  <1>2. new.id = Cardinality(records) + 1 /\ new.source = source /\ new.verdicts = vs
    OBVIOUS
  <1>3. new \notin records
    BY <1>1, <1>2 DEF EvidenceInv
  <1> HIDE DEF new
  <1>4. IsFiniteSet(records') /\ Cardinality(records') = Cardinality(records) + 1
    BY <1>1, <1>3, FS_AddElement
  <1> QED  BY <1>1, <1>2, <1>4 DEF EvidenceInv

\* A record is added under the next number, and nothing of a head or a test is made up.
LEMMA EvidenceStep ==
  ASSUME EvidenceInv, [Next]_vars
  PROVE  EvidenceInv'
  <1> USE DEF EvidenceInv
  <1>1. ASSUME NEW h \in Heads, FullRun(h) PROVE EvidenceInv'
    BY <1>1 DEF FullRun
  <1>2. ASSUME NEW h \in Heads, ImportRecord(h) PROVE EvidenceInv'
    BY <1>2, Numbered DEF ImportRecord, Sources
  <1>3. ASSUME NEW t \in Tests, Hush(t) PROVE EvidenceInv'
    BY <1>3 DEF Hush
  <1>4. CASE SelectOnMutant
    BY <1>4, Numbered DEF SelectOnMutant, Sources
  <1>5. CASE RecordTrial
    BY <1>5 DEF RecordTrial
  <1>6. ASSUME \/ \E m \in Mutations : Mutate(m)
               \/ StartTrials \/ Skip \/ RunSuite \/ EndTrials
               \/ Calibrate \/ Tick \/ UNCHANGED vars
        PROVE  EvidenceInv'
    BY <1>6 DEF Mutate, StartTrials, Skip, RunSuite, EndTrials, Calibrate, Tick, vars, store
  <1> QED  BY <1>1, <1>2, <1>3, <1>4, <1>5, <1>6 DEF Next

\* New evidence makes the last decision void; otherwise the decision still follows from it.
LEMMA DecisionStep ==
  ASSUME Inv, [Next]_vars
  PROVE  DecisionInv'
  <1>1. CASE NewEvidence
    BY <1>1 DEF NewEvidence, NoDecision, DecisionInv
  <1>2. CASE Calibrate
    <2>1. UNCHANGED store
      BY <1>2 DEF Calibrate
    <2> QED  BY <1>2, <2>1, Calibrated, SameEvidence DEF DecisionInv, Inv
  <1>3. CASE UNCHANGED <<store, gates, adopted, moves>>
    BY <1>3, SameEvidence DEF DecisionInv, Inv
  <1> QED  BY <1>1, <1>2, <1>3, StepKinds

\* A calibration fills the first gap from the present instant on, and the clock leaves no new one.
LEMMA GatesStep ==
  ASSUME Inv, [Next]_vars
  PROVE  GatesInv'
  <1>1. CASE NewEvidence
    BY <1>1 DEF NewEvidence, NoDecision, GatesInv, Inv
  <1>2. CASE Calibrate
    <2> DEFINE n == adopted'.at
    <2>1. /\ adopted'.gate \in Allowed
          /\ n \in Nat \ {0} /\ n \notin DOMAIN gates /\ instant <= n
          /\ DOMAIN gates' = DOMAIN gates \cup {n}
          /\ gates' = [at \in DOMAIN gates \cup {n} |-> IF at = n THEN adopted'.gate ELSE gates[at]]
          /\ \A i \in instant .. n - 1 : i \in DOMAIN gates
          /\ \A at \in DOMAIN gates : at <= n
      BY <1>2, Calibrated DEF Inv
    <2>2. instant' = instant
      BY <1>2 DEF Calibrate
    <2> HIDE DEF n
    <2>3. gates' \in [DOMAIN gates' -> Allowed]
      BY <2>1 DEF GatesInv, Inv
    <2>4. DOMAIN gates' \subseteq Nat \ {0} /\ instant' \in Nat \ {0}
      BY <2>1, <2>2 DEF GatesInv, Inv
    <2>5. n \in DOMAIN gates' /\ \A other \in DOMAIN gates' : other <= n
      BY <2>1
    <2>6. \A at \in DOMAIN gates' : \A i \in instant' .. at : i \in DOMAIN gates'
      <3> SUFFICES ASSUME NEW at \in DOMAIN gates', NEW i \in instant' .. at PROVE i \in DOMAIN gates'
        OBVIOUS
      <3>1. CASE at \in DOMAIN gates
        BY <2>1, <2>2, <3>1 DEF GatesInv, Inv
      <3>2. CASE at = n
        BY <2>1, <2>2, <3>2 DEF GatesInv, Inv
      <3> QED  BY <2>1, <3>1, <3>2
    <2> QED  BY <2>3, <2>4, <2>5, <2>6 DEF GatesInv, n
  <1>3. CASE UNCHANGED <<store, gates, adopted, moves>> /\ instant' \in {instant, instant + 1}
    <2>1. gates' = gates /\ adopted' = adopted /\ instant' \in Nat \ {0} /\ instant <= instant'
      BY <1>3 DEF GatesInv, Inv
    <2>2. \A at \in DOMAIN gates : \A i \in instant' .. at : i \in DOMAIN gates
      BY <2>1 DEF GatesInv, Inv
    <2> QED  BY <2>1, <2>2 DEF GatesInv, Inv
  <1> QED  BY <1>1, <1>2, <1>3, StepKinds

\* A gate that has tightened can only loosen, and one that has loosened after that rests.
LEMMA SettleStep ==
  ASSUME Inv, [Next]_vars
  PROVE  SettleInv'
  <1>1. CASE NewEvidence
    BY <1>1 DEF NewEvidence, SettleInv
  <1>2. CASE Calibrate
    <2> DEFINE gate == adopted'.gate
    <2>0. Counted' = Counted /\ Countable(Counted) /\ moves \in 0 .. 2
      BY <1>2, SameEvidence, EvidenceCountable DEF Calibrate, Inv, SettleInv
    <2>1. LatestGate' = gate /\ moves' = IF gate = LatestGate THEN moves ELSE moves + 1
      BY <1>2, Calibrated DEF Inv
    <2>2. \/ gate = LatestGate
          \/ Tightened(Counted, LatestGate, gate)
          \/ Loosened(Counted, LatestGate, gate)
      BY <1>2, Calibrated DEF Inv
    <2> HIDE DEF gate
    <2>3. CASE gate = LatestGate
      <3>1. LatestGate' = LatestGate /\ moves' = moves
        BY <2>1, <2>3
      <3> QED  BY <2>0, <3>1 DEF SettleInv, Inv
    <2>4. CASE Tightened(Counted, LatestGate, gate) /\ gate # LatestGate
      <3>1. Missed(Counted, LatestGate) # {} /\ Tighter(Counted, LatestGate) # {}
        BY <2>4 DEF Tightened
      <3>2. moves = 0 /\ moves' = 1
        BY <2>0, <2>1, <2>4, <3>1 DEF SettleInv, Inv
      <3>3. Tighter(Counted, gate) = {}
        BY <2>0, <2>4, TightenedRests
      <3> QED  BY <2>0, <2>1, <3>2, <3>3 DEF SettleInv
    <2>5. CASE Loosened(Counted, LatestGate, gate) /\ gate # LatestGate
      <3>1. Looser(Counted, LatestGate) # {}
        BY <2>5 DEF Loosened
      <3>2. moves \in {0, 1} /\ moves' \in {1, 2}
        BY <2>0, <2>1, <2>5, <3>1 DEF SettleInv, Inv
      <3>3. Missed(Counted, gate) = {} /\ Looser(Counted, gate) = {}
        BY <2>0, <2>5, LoosenedRests
      <3> QED  BY <2>0, <2>1, <3>2, <3>3 DEF SettleInv
    <2> QED  BY <2>2, <2>3, <2>4, <2>5
  <1>3. CASE UNCHANGED <<store, gates, adopted, moves>>
    <2>1. Counted' = Counted /\ LatestGate' = LatestGate /\ moves' = moves
      BY <1>3, SameEvidence DEF LatestGate
    <2> QED  BY <2>1 DEF SettleInv, Inv
  <1> QED  BY <1>1, <1>2, <1>3, StepKinds

\* The worktree is clean whenever a mutation is applied, so what fails is the mutation's.
LEMMA TrialStep ==
  ASSUME EvidenceInv, TrialInv, [Next]_vars
  PROVE  TrialInv'
  <1> DEFINE Work == UNCHANGED <<trials, pc, tree, baseline, current>>
  <1>1. ASSUME Work PROVE TrialInv'
    BY <1>1 DEF TrialInv
  <1>2. ASSUME \/ \E h \in Heads : FullRun(h) \/ ImportRecord(h)
               \/ \E t \in Tests : Hush(t)
               \/ Calibrate \/ Tick \/ UNCHANGED vars
        PROVE  Work
    BY <1>2 DEF FullRun, ImportRecord, Hush, Calibrate, Tick, vars, store, work
  <1>3. CASE StartTrials
    BY <1>3 DEF StartTrials, store, NoTrial, TrialInv
  <1>4. ASSUME NEW m \in Mutations, Mutate(m) PROVE TrialInv'
    <2>1. Cardinality(records) + 1 \in Nat
      BY FS_CardinalityType DEF EvidenceInv
    <2>2. current' = [head |-> Cardinality(records) + 1, mutation |-> m, killed |-> {}]
      BY <1>4 DEF Mutate, NoTrial
    <2>3. /\ current' \in [head : Nat, mutation : Mutations \cup {"none"}, killed : SUBSET Tests]
          /\ current'.mutation = m
      BY <2>1, <2>2
    <2>4. tree' = {m} /\ pc' = "select" /\ UNCHANGED <<trials, baseline>>
      BY <1>4 DEF Mutate, TrialInv, store
    <2> QED  BY <2>3, <2>4 DEF TrialInv
  <1>5. CASE Skip
    BY <1>5 DEF Skip, Reset, store, TrialInv
  <1>6. CASE SelectOnMutant
    BY <1>6 DEF SelectOnMutant, TrialInv
  <1>7. CASE RunSuite
    <2> DEFINE killed == Killed((UNION {Kills[m] : m \in tree}) \cup baseline)
    <2>1. /\ current' = [current EXCEPT !.killed = killed] /\ pc' = "record"
          /\ UNCHANGED <<trials, tree, baseline>> /\ pc = "suite"
      BY <1>7 DEF RunSuite, store
    <2>2. tree = {current.mutation} /\ current.mutation \in Mutations
      BY <2>1 DEF TrialInv
    <2>3. killed \subseteq Kills[current.mutation] /\ killed \subseteq Tests
      <3>1. UNION {Kills[m] : m \in tree} = Kills[current.mutation]
        BY <2>2
      <3>2. Kills[current.mutation] \subseteq Tests
        BY <2>2, TrustAssumption DEF TrustAssumption
      <3> QED  BY <3>1, <3>2 DEF Killed
    <2> HIDE DEF killed
    <2>4. /\ current' \in [head : Nat, mutation : Mutations \cup {"none"}, killed : SUBSET Tests]
          /\ current'.mutation = current.mutation /\ current'.killed = killed
      BY <2>1, <2>3 DEF TrialInv
    <2> QED  BY <2>1, <2>2, <2>3, <2>4 DEF TrialInv
  <1>8. CASE RecordTrial
    <2>1. /\ pc = "record" /\ pc' = "mutate" /\ tree' = {} /\ trials' = trials \cup {current}
          /\ UNCHANGED <<baseline, current>>
      BY <1>8 DEF RecordTrial, Reset
    <2> QED  BY <2>1 DEF TrialInv
  <1>9. CASE EndTrials
    <2>1. NoTrial \in [head : Nat, mutation : Mutations \cup {"none"}, killed : SUBSET Tests]
      BY DEF NoTrial
    <2> QED  BY <1>9, <2>1 DEF EndTrials, store, TrialInv
  <1> QED
    <2> HIDE DEF Work
    <2> QED  BY <1>1, <1>2, <1>3, <1>4, <1>5, <1>6, <1>7, <1>8, <1>9 DEF Next

\* In every state of every behaviour: what the steps above keep.
THEOREM Invariance == Spec => []Inv
  <1>1. Inv /\ [Next]_vars => Inv'
    BY EvidenceStep, DecisionStep, GatesStep, SettleStep, TrialStep DEF Inv
  <1> QED  BY InitInv, <1>1, PTL DEF Spec

-----------------------------------------------------------------------------
(* The theorems.                                                           *)

\* Type correctness of the store, the calibrations and the trials: at most one mutation
\* is in the worktree of runMutationTrials.
THEOREM TypeCorrect == Spec => []TypeOK
  <1>1. Inv => TypeOK
    <2> SUFFICES ASSUME Inv PROVE TypeOK
      OBVIOUS
    <2>1. tree \subseteq Mutations /\ Cardinality(tree) <= 1
      <3>1. CASE tree = {}
        BY <3>1, FS_EmptySet
      <3>2. CASE pc \notin {"idle", "mutate"}
        <4>1. tree = {current.mutation} /\ current.mutation \in Mutations
          BY <3>2 DEF TrialInv, Inv
        <4>2. Cardinality(tree) = 1
          BY <4>1, FS_Singleton
        <4> QED  BY <4>1, <4>2
      <3> QED  BY <3>1, <3>2 DEF TrialInv, Inv
    <2> QED  BY <2>1 DEF TypeOK, EvidenceInv, GatesInv, TrialInv, Inv, Allowed
  <1> QED  BY Invariance, <1>1, PTL

\* The pair of a real failure on record comes from one head, and from one record only.
LEMMA RegressionsBehindFailures ==
  ASSUME EvidenceInv
  PROVE  Cardinality(RealFailures(Counted))
           <= Cardinality({p \in Heads \X Tests : p[1] \in fullHeads /\ p[2] \in Truth[p[1]]})
         /\ Cardinality(RealFailures(Counted)) \in Nat
         /\ Cardinality({p \in Heads \X Tests : p[1] \in fullHeads /\ p[2] \in Truth[p[1]]}) \in Nat
  <1> DEFINE S == RealFailures(Counted)
             T == {p \in Heads \X Tests : p[1] \in fullHeads /\ p[2] \in Truth[p[1]]}
             Source(p, r) == r \in LatestPerHead("real") /\ r.head \in fullHeads /\ r.id = p[1]
                             /\ p[2] \in Truth[r.head]
             f == [p \in S |-> <<(CHOOSE r : Source(p, r)).head, p[2]>>]
  <1>1. \A p \in S : p = <<p[1], p[2]>> /\ p[2] \in Tests /\ \E r : Source(p, r)
    <2> SUFFICES ASSUME NEW p \in S PROVE p = <<p[1], p[2]>> /\ p[2] \in Tests /\ \E r : Source(p, r)
      OBVIOUS
    <2>1. PICK c \in Counted : c.source = "real" /\ c.id = p[1] /\ p[2] \in c.failures
      BY DEF RealFailures, FailuresOf
    <2>2. p = <<p[1], p[2]>> /\ p[2] \in Tests
      BY DEF RealFailures, FailuresOf
    <2>3. PICK e \in LoadCalibrationRecords :
            c = [e EXCEPT !.failures = {t \in @ : e.verdicts[t].reason # "quarantined"}]
      BY Zenon DEF Counted, WithoutQuarantined
    <2>4. e = [id |-> e.id, head |-> e.head, source |-> e.source, verdicts |-> e.verdicts, failures |-> e.failures]
      BY DEF LoadCalibrationRecords, RealEvidence, MutationEvidence, Evidence
    <2>5. c.source = e.source /\ c.id = e.id /\ c.failures \subseteq e.failures
      BY <2>3, <2>4
    <2>6. e \in RealEvidence
      BY <2>1, <2>5 DEF LoadCalibrationRecords, MutationEvidence, Evidence, LatestPerHead
    <2>7. PICK r \in LatestPerHead("real") : r.head \in fullHeads /\ e = Evidence(r, Truth[r.head])
      BY <2>6 DEF RealEvidence
    <2>8. e.id = r.id /\ e.failures \subseteq Truth[r.head]
      BY <2>7 DEF Evidence
    <2>9. Source(p, r)
      BY <2>1, <2>5, <2>7, <2>8
    <2> QED  BY <2>2, <2>9
  <1>2. \A p \in S : Source(p, CHOOSE r : Source(p, r))
    <2> HIDE DEF S, Source
    <2> QED  BY <1>1
  <1>3. \A p \in S : f[p] \in T /\ f[p][2] = p[2]
                     /\ \E r : Source(p, r) /\ f[p][1] = r.head
    BY <1>1, <1>2 DEF EvidenceInv
  <1>4. ASSUME NEW p \in S, NEW q \in S, f[p] = f[q] PROVE p = q
    <2>1. PICK r : Source(p, r) /\ f[p][1] = r.head
      BY <1>3
    <2>2. PICK s : Source(q, s) /\ f[q][1] = s.head
      BY <1>3
    <2>3. r.head = s.head /\ r \in LatestPerHead("real") /\ s \in LatestPerHead("real")
          /\ r.id = p[1] /\ s.id = q[1]
      BY <1>4, <2>1, <2>2
    <2>4. r.id \in Int /\ s.id \in Int
      BY <2>3, FS_CardinalityType DEF EvidenceInv, LatestPerHead
    <2>5. ~(r.id > s.id) /\ ~(s.id > r.id)
      BY <2>3 DEF LatestPerHead
    <2>6. r.id = s.id
      BY <2>4, <2>5
    <2>7. p[1] = q[1]
      BY <2>3, <2>6
    <2>8. p[2] = q[2]
      <3> HIDE DEF S, T, f, Source
      <3> QED  BY <1>3, <1>4
    <2>9. p = <<p[1], p[2]>> /\ q = <<q[1], q[2]>>
      <3> HIDE DEF S, T, f, Source
      <3> QED  BY <1>1
    <2> QED  BY <2>7, <2>8, <2>9
  <1>5. IsFiniteSet(T)
    <2>1. IsFiniteSet(Heads \X Tests)
      BY FS_Product, TrustAssumption DEF TrustAssumption
    <2> QED  BY <2>1, FS_Subset
  <1>6. f \in Injection(S, T)
    <2>1. f \in [S -> T]
      <3> HIDE DEF S, T
      <3> QED  BY <1>3
    <2> HIDE DEF S, T, f
    <2> QED  BY <1>4, <2>1 DEF Injection, IsInjective
  <1>7. IsFiniteSet(S) /\ Cardinality(S) <= Cardinality(T)
    <2> HIDE DEF S, T, f
    <2> QED  BY <1>5, <1>6, FS_Injection
  <1> QED  BY <1>5, <1>7, FS_CardinalityType

\* "Tighten at once, loosen with care" (calibrate-core.ts): whatever the records, a
\* tightened gate keeps what was selected and misses less, as little as any candidate
\* that keeps it; a loosened one misses no failure on record, and rests on enough real
\* regressions, each counted once.
THEOREM CalibrationCareful == Spec => []CalibrationIsCareful
  <1>1. Inv => CalibrationIsCareful
    <2> SUFFICES ASSUME Inv PROVE CalibrationIsCareful
      OBVIOUS
    <2>0. Countable(Counted)
      BY EvidenceCountable DEF Inv
    <2>1. TightenKeepsAndCatches
      <3> SUFFICES ASSUME adopted.decision = "tighten" PROVE TightenKeepsAndCatches
        BY DEF TightenKeepsAndCatches
      <3>1. Tightened(Counted, adopted.before, adopted.gate)
        BY DEF DecisionInv, Inv
      <3>2. /\ Selection(Counted, adopted.before) \subseteq Selection(Counted, adopted.gate)
            /\ Misses(Counted, adopted.gate) < Misses(Counted, adopted.before)
        BY <3>1 DEF Tightened, Tighter
      <3>3. ASSUME NEW g \in Gates, Selection(Counted, adopted.before) \subseteq Selection(Counted, g)
            PROVE  Misses(Counted, adopted.gate) <= Misses(Counted, g)
        <4>1. CASE g \in Tighter(Counted, adopted.before)
          BY <3>1, <4>1 DEF Tightened
        <4>2. CASE g \notin Tighter(Counted, adopted.before)
          <5>1. ~(Misses(Counted, g) < Misses(Counted, adopted.before))
            BY <3>3, <4>2 DEF Tighter, Candidates
          <5>2. /\ Misses(Counted, g) \in Nat /\ Misses(Counted, adopted.before) \in Nat
                /\ Misses(Counted, adopted.gate) \in Nat
            BY <2>0, SizesAreNumbers
          <5> QED  BY <3>2, <5>1, <5>2
        <4> QED  BY <4>1, <4>2
      <3> QED  BY <3>2, <3>3 DEF TightenKeepsAndCatches
    <2>2. LooseningIsSafe
      BY DEF LooseningIsSafe, DecisionInv, Inv, Loosened, Looser
    <2>3. LooseningIsEarned
      <3> SUFFICES ASSUME adopted.decision = "loosen" PROVE LooseningIsEarned
        BY DEF LooseningIsEarned
      <3>1. EnoughFailures(Counted)
        BY DEF DecisionInv, Inv, Loosened
      <3> QED  BY <3>1, RegressionsBehindFailures, TrustAssumption
               DEF Inv, EnoughFailures, LooseningIsEarned, TrustAssumption
    <2> QED  BY <2>1, <2>2, <2>3 DEF CalibrationIsCareful
  <1> QED  BY Invariance, <1>1, PTL

\* Calibrating again and again on the same evidence comes to rest after two moves.
THEOREM CalibrationSettles == Spec => []Settles
  <1>1. Inv => Settles
    BY DEF Inv, SettleInv, Settles
  <1> QED  BY Invariance, <1>1, PTL

\* However many calibrations fall into one millisecond, and however the clock moves on
\* between them, the row of the last one is the latest: appendCalibration's retry never
\* puts it behind another.
THEOREM LastDecisionInForce == Spec => []LatestIsLast
  <1>1. Inv => LatestIsLast
    BY DEF Inv, GatesInv, LatestIsLast
  <1> QED  BY Invariance, <1>1, PTL

\* A trial records as killed only what its own mutation breaks, whatever trials before it
\* were skipped or failed half-way: runMutationTrials' finally leaves nothing behind.
THEOREM TrialsAreClean == Spec => []KilledByItsMutation
  <1>1. Inv => KilledByItsMutation
    BY DEF Inv, TrialInv, KilledByItsMutation
  <1> QED  BY Invariance, <1>1, PTL
=============================================================================
