------------------------------ MODULE MCCollectCi ------------------------------
(* CollectCi on instances small enough for TLC.                            *)
EXTENDS CollectCi

CONSTANTS s1, s2, junit, vitest

\* Two runs of one commit, and two runs of two commits.
SameCommit == <<s1, s1>>
OwnCommits == <<s1, s2>>
=============================================================================
