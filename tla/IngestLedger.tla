------------------------------ MODULE IngestLedger ------------------------------
(***************************************************************************)
(* What importing CI runs promises of the metric store, without the        *)
(* process that does it.  A run gets one workflow_runs row, which never    *)
(* changes.  Each artifact of a run is an open entry of the ledger: test   *)
(* results are added to it, as often as it takes, until it is closed as    *)
(* "collected", with the whole report stored, or as a "miss".  A closed    *)
(* entry is never touched again.                                           *)
(***************************************************************************)
EXTENDS Naturals

CONSTANTS Runs, Keys, Cases

VARIABLES
  known,    \* the status column of each run's row, "absent" without a row
  rows,     \* rows stored for each case of each artifact's report
  ledger    \* "no" while open, then "collected" or "miss"

ledgerVars == <<known, rows, ledger>>

LedgerInit ==
  /\ known = [r \in Runs |-> "absent"]
  /\ rows = [r \in Runs |-> [k \in Keys |-> [c \in Cases |-> 0]]]
  /\ ledger = [r \in Runs |-> [k \in Keys |-> "no"]]

Learn(r) ==
  /\ known[r] = "absent"
  /\ \E column \in {"unknown", "success", "failure"} :
       known' = [known EXCEPT ![r] = column]
  /\ UNCHANGED <<rows, ledger>>

Open(r, k) == known[r] # "absent" /\ ledger[r][k] = "no"

AddRow(r, k, c) ==
  /\ Open(r, k)
  /\ rows' = [rows EXCEPT ![r][k][c] = @ + 1]
  /\ UNCHANGED <<known, ledger>>

Whole(r, k) == \A c \in Cases : rows[r][k][c] > 0

Close(r, k) ==
  /\ Open(r, k)
  /\ \E how \in {"collected", "miss"} :
       /\ how = "collected" => Whole(r, k)
       /\ ledger' = [ledger EXCEPT ![r][k] = how]
  /\ UNCHANGED <<known, rows>>

LedgerNext ==
  \/ \E r \in Runs : Learn(r)
  \/ \E r \in Runs, k \in Keys : Close(r, k) \/ \E c \in Cases : AddRow(r, k, c)

LedgerSpec == LedgerInit /\ [][LedgerNext]_ledgerVars
=============================================================================
