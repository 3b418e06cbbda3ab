--------------------------------- MODULE MCPrune ---------------------------------
(* Prune on instances small enough for TLC.                                *)
EXTENDS Prune

CONSTANTS c1, c2, jev

\* One id: a workflow run and a selector run of one commit, or of two.
SharedCommit == [t \in NamesCommits |-> [i \in RowIds |-> c1]]
OwnCommits   == [t \in NamesCommits |-> [i \in RowIds |-> IF t = "workflow_runs" THEN c1 ELSE c2]]
=============================================================================
