----------------------------- MODULE MCSelectorTrust -----------------------------
(* SelectorTrust on instances small enough for TLC.                          *)
EXTENDS SelectorTrust

CONSTANTS a, b, m1, m2

Gate(cutoff, below, margin) == [cutoff |-> cutoff, below |-> below, margin |-> margin]
Sure(score)   == [reason |-> "scored", score |-> score, confidence |-> 2]
Unsure(score) == [reason |-> "scored", score |-> score, confidence |-> 0]
Held          == [reason |-> "quarantined", score |-> 0, confidence |-> 2]

\* A strict gate that rescues unsure scores, a milder one, and one that takes nearly all.
MCGates       == {Gate(3, 1, 3), Gate(2, 1, 2), Gate(1, 0, 0)}
MCDefaultGate == Gate(2, 0, 0)

\* Two tests: scored high or low, unsure, or held back.
Pair(first, second) == [t \in Tests |-> IF t = a THEN first ELSE second]
MCVerdicts ==
  {Pair(Unsure(0), Sure(2)), Pair(Sure(1), Sure(2)), Pair(Held, Unsure(0))}

\* The first test fails on both heads; the second one only on a mutation.
MCTruth == [x \in Heads |-> {a}]

\* One mutation breaks the first test, the other one the second.
MCKills == [x \in Mutations |-> IF x = m1 THEN {a} ELSE {b}]
=============================================================================
