----------------------------- MODULE GateCalibration -----------------------------
(***************************************************************************)
(* The gate of a test selector, calibrated against what full runs have     *)
(* proved: calibrateGate (selector/calibrate-core.ts) as an operator.      *)
(*                                                                         *)
(* A verdict scores one test; a gate turns scores into a selection.  A     *)
(* record holds the verdicts of one run of the selector and the tests that *)
(* failed when everything was run on the same head.  Sums over records are *)
(* cardinalities of sets of pairs.  Confidence, unsure_below and the       *)
(* scores are small numbers; the Wilson bound of n out of n successes is   *)
(* the number of them that is needed.                                      *)
(***************************************************************************)
EXTENDS Integers, FiniteSets

CONSTANTS
  Tests,
  Gates,         \* the grid of candidates: [cutoff, below, margin]
  DefaultGate,   \* jev's own
  MinFailures,   \* [selector].min_failures
  PerfectRuns    \* perfectRunsNeeded(recall_target)

Reasons  == {"scored", "touched", "dynamic", "missing", "quarantined"}
Verdict(v) == v.reason \in Reasons /\ v.score \in Nat /\ v.confidence \in Nat

\* decide of jev-test-filter under other gate values: touched, dynamic and unanswered
\* tests are always selected, quarantined ones never, and an unsure one is rescued.
Selects(v, g) ==
  /\ v.reason # "quarantined"
  /\ \/ v.reason # "scored"
     \/ v.score >= g.cutoff
     \/ v.confidence < g.below /\ v.score >= g.cutoff - g.margin

\* What a gate selects on all records, and which of their failures it misses.
Selection(records, g) ==
  {p \in {r.id : r \in records} \X Tests : \E r \in records : r.id = p[1] /\ Selects(r.verdicts[p[2]], g)}
Missed(records, g) ==
  {p \in {r.id : r \in records} \X Tests :
     \E r \in records : r.id = p[1] /\ p[2] \in r.failures /\ ~Selects(r.verdicts[p[2]], g)}

\* Failures of tests that the record quarantined are no misses.
WithoutQuarantined(records) ==
  {[r EXCEPT !.failures = {t \in @ : r.verdicts[t].reason # "quarantined"}] : r \in records}

FailuresOf(records) ==
  {p \in {r.id : r \in records} \X Tests : \E r \in records : r.id = p[1] /\ p[2] \in r.failures}
RealFailures(records) == FailuresOf({r \in records : r.source = "real"})

Size(records, g)   == Cardinality(Selection(records, g))
Misses(records, g) == Cardinality(Missed(records, g))

Difference(m, n) == IF m < n THEN n - m ELSE m - n
Distance(g, h)   == Difference(g.cutoff, h.cutoff) + Difference(g.below, h.below) + Difference(g.margin, h.margin)

\* pickFewest: the fewest selected, then the nearest to the defaults.
PickFewest(records, candidates) ==
  LET Fewest  == {g \in candidates : \A h \in candidates : Size(records, g) <= Size(records, h)}
      Nearest == {g \in Fewest : \A h \in Fewest : Distance(g, DefaultGate) <= Distance(h, DefaultGate)}
  IN CHOOSE g \in Nearest : TRUE

Candidates(current) == Gates \cup {current, DefaultGate}

\* tighter
Tighter(records, current) ==
  {g \in Candidates(current) :
     Misses(records, g) < Misses(records, current) /\ Selection(records, current) \subseteq Selection(records, g)}

FewestMisses(records, candidates) ==
  {g \in candidates : \A h \in candidates : Misses(records, g) <= Misses(records, h)}

\* looser (mutated: whatever it misses).
LooserAnyhow(records, current) ==
  {g \in Candidates(current) : Size(records, g) < Size(records, current)}
Looser(records, current) ==
  {g \in Candidates(current) : Missed(records, g) = {} /\ Size(records, g) < Size(records, current)}

\* Real failures are enough to loosen.
EnoughFailures(records) ==
  LET n == Cardinality(RealFailures(records)) IN n >= MinFailures /\ n >= PerfectRuns

Keep(current) == [decision |-> "keep", gate |-> current]

Tighten(records, current) ==
  LET tighter == Tighter(records, current) IN
  IF tighter = {} THEN Keep(current)
  ELSE [decision |-> "tighten", gate |-> PickFewest(records, FewestMisses(records, tighter))]

Loosen(records, current) ==
  LET looser == Looser(records, current) IN
  IF looser = {} \/ ~EnoughFailures(records) THEN Keep(current)
  ELSE [decision |-> "loosen", gate |-> PickFewest(records, looser)]

CalibrateGate(allRecords, current) ==
  LET records == WithoutQuarantined(allRecords) IN
  CASE records = {}                     -> Keep(current)
    [] records # {} /\ Missed(records, current) # {} -> Tighten(records, current)
    [] OTHER                            -> Loosen(records, current)
=============================================================================
