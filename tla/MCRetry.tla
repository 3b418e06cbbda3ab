---------------------------------- MODULE MCRetry ----------------------------------
(* Retry on instances small enough for TLC.                                  *)
EXTENDS Retry

CONSTANTS a, b

\* One test under every combination of entries that differs, one under none.
MCManifests ==
  {[t \in Tests |-> IF t = a THEN entries ELSE <<>>] :
     entries \in {<<>>, <<"skip">>, <<"allow_failure">>, <<"allow_failure", "skip">>, <<"allow_flaky">>}}
=============================================================================
