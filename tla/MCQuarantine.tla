------------------------------ MODULE MCQuarantine ------------------------------
(* Quarantine on instances small enough for TLC.                           *)
EXTENDS Quarantine

CONSTANTS a, c1, c2
=============================================================================
