------------------------------ MODULE MCLocalHistory ------------------------------
(* LocalHistory on instances small enough for TLC.                           *)
EXTENDS LocalHistory, TLC

CONSTANTS a, b

\* Runs without results, and runs with more results than selected tests.
MCSizes == {<<0, 1>>, <<2, 1>>}

MCSymmetry == Permutations({a, b})
=============================================================================
