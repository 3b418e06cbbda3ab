---------------------------- MODULE CollectCiProofs ----------------------------
(***************************************************************************)
(* Theorems of CollectCi, for any number of runs, keys, cases and faults.   *)
(***************************************************************************)
EXTENDS CollectCi, TLAPS

USE DEF Runs, Cases, Files

(* The steps of a run that has its report in hand, in the order they occur. *)
AfterInsert == InCommits \cup {"record"}

(* The run in hand has its row and is still open, and what the insert loop  *)
(* has passed is stored: the invariant behind every theorem below.          *)
InHandInv ==
  pc \in InRun =>
    /\ workflowRuns[cur] # "absent"
    /\ pc # "export" => recorded[cur][key] = "no"

StoredInv ==
  /\ pc = "insert" => \A c \in Cases : c < row => results[cur][key][c] > 0
  /\ pc \in AfterInsert => Whole(cur, key)

Inv == TypeOK /\ InHandInv /\ StoredInv /\ RecordedIsWhole

(* Without an interruption, what is stored of each report is exactly what   *)
(* the process has inserted of it: nothing before it has the report in      *)
(* hand, a prefix while it inserts, all of it once from then on.            *)
Writing(r, k) ==
  pc \in {"insert"} \cup AfterInsert /\ cur = r /\ key = k

CopiesOf(r, k) ==
  /\ recorded[r][k] = "collected" => Once(r, k)
  /\ recorded[r][k] # "collected" /\ ~Writing(r, k) => Mute(r, k)
  /\ Writing(r, k) =>
       \A c \in Cases : results[r][k][c] = IF pc = "insert" /\ c >= row THEN 0 ELSE 1

CopiesInv == interrupts = 0 => \A r \in Runs, k \in Keys : CopiesOf(r, k)

(* A run that is, or is listed as, failed is one that has failed.           *)
ViewInv ==
  /\ \A r \in Runs : remote[r] = "failure" \/ listing[r] = "failure" => r \in hasFailed
  /\ pc \in InRun => view # "absent" /\ (view = "failure" => cur \in hasFailed)
  /\ pc = "miss" => view = "failure"

-----------------------------------------------------------------------------
(* Updates of the nested tables keep their types.                          *)
LEMMA NestedUpdate ==
  ASSUME NEW A, NEW B, NEW S, NEW f \in [A -> [B -> S]], NEW a \in A, NEW b \in B, NEW v \in S
  PROVE  [f EXCEPT ![a][b] = v] \in [A -> [B -> S]]
OBVIOUS

LEMMA NestedBump ==
  ASSUME NEW A, NEW B, NEW C, NEW f \in [A -> [B -> [C -> Nat]]],
         NEW a \in A, NEW b \in B, NEW c \in C
  PROVE  [f EXCEPT ![a][b][c] = @ + 1] \in [A -> [B -> [C -> Nat]]]
<1>1. f[a][b][c] + 1 \in Nat
  OBVIOUS
<1>2. [f[a][b] EXCEPT ![c] = @ + 1] \in [C -> Nat]
  OBVIOUS
<1>3. [f[a] EXCEPT ![b] = [f[a][b] EXCEPT ![c] = @ + 1]] \in [B -> [C -> Nat]]
  BY <1>2
<1>4. QED
  BY <1>3

-----------------------------------------------------------------------------
(* Type correctness, one lemma for each part of the state.                 *)

LEMMA InitInv == Init => Inv
BY CollectAssumption
   DEF CollectAssumption, Init, Inv, TypeOK, GitHubOK, StoreOK, CursorOK, TalliesOK, FaultsOK,
       InHandInv, StoredInv, RecordedIsWhole, NoRuns, RemoteStates, ArtifactStates, Columns,
       Records, PCs, InRun, InCommits, AfterInsert

(* A step of the process on a run has a run in hand.                       *)
LEMMA InHand == TypeOK /\ pc \in InRun => cur \in Runs /\ key \in Keys
BY DEF TypeOK, CursorOK

LEMMA GitHubStep == TypeOK /\ [Next]_vars => GitHubOK'
<1> SUFFICES ASSUME GitHubOK, [Next]_vars PROVE GitHubOK'
  BY DEF TypeOK
<1> USE CollectAssumption DEF CollectAssumption, GitHubOK, RemoteStates, ArtifactStates
<1>1. ASSUME NEW r \in Runs, CreateRun(r) \/ CompleteRun(r) \/ RerunRun(r) PROVE GitHubOK'
  BY <1>1 DEF CreateRun, CompleteRun, RerunRun
<1>2. ASSUME NEW r \in Runs, NEW k \in Keys, ShowArtifact(r, k) \/ ExpireArtifact(r, k)
      PROVE  GitHubOK'
  <2>1. PICK v \in ArtifactStates : artifact' = [artifact EXCEPT ![r][k] = v]
    BY <1>2 DEF ShowArtifact, ExpireArtifact
  <2>2. artifact' \in [Runs -> [Keys -> ArtifactStates]]
    BY <2>1, NestedUpdate
  <2>3. QED
    BY <1>2, <2>2 DEF ShowArtifact, ExpireArtifact
<1>3. CASE AgeOut
  BY <1>3 DEF AgeOut
<1>4. CASE UNCHANGED github
  BY <1>4 DEF github
<1>5. ASSUME (\E k \in Keys : StartCollect(k)) \/ Advance \/ Fault \/ UNCHANGED vars
      PROVE  UNCHANGED github
  BY <1>5 DEF StartCollect, Advance, SkipRun, BeginRun, FindArtifact, MissingArtifactFails,
       MissingArtifactPends, RecordMiss, DownloadReport, DownloadEmpty, DownloadFails,
       InsertResult, CommitKnown, CommitFromApi, CommitFromGit, InsertCommitFile,
       RecordArtifact, Export, FinishCollect, Fault, ApiFault, StatementFails, ApiRowFails,
       Die, Interrupted, vars
<1>6. QED
  BY <1>1, <1>2, <1>3, <1>4, <1>5 DEF Next, GitHub

(* The steps that write the store; every other step leaves it alone.       *)
Writes ==
  \/ \E r \in Runs : BeginRun(r)
  \/ RecordMiss \/ InsertResult \/ InsertCommitFile \/ RecordArtifact

LEMMA OnlyWritesWrite == [Next]_vars => Writes \/ UNCHANGED db
BY DEF Next, GitHub, CreateRun, CompleteRun, RerunRun, ShowArtifact, ExpireArtifact, AgeOut, Environment,
       StartCollect, Advance, SkipRun, BeginRun, FindArtifact, MissingArtifactFails,
       MissingArtifactPends, RecordMiss, DownloadReport, DownloadEmpty, DownloadFails,
       InsertResult, CommitKnown, CommitFromApi, CommitFromGit, InsertCommitFile,
       RecordArtifact, Export, FinishCollect, Fault, ApiFault, StatementFails, ApiRowFails,
       Die, Interrupted, vars, Writes

LEMMA StoreStep == TypeOK /\ [Next]_vars => StoreOK'
<1> SUFFICES ASSUME TypeOK, [Next]_vars PROVE StoreOK'
  OBVIOUS
<1> USE DEF StoreOK, At
<1>0. StoreOK
  BY DEF TypeOK
<1>1. ASSUME NEW r \in Runs, BeginRun(r) PROVE StoreOK'
  <2>1. StatusColumn(r) \in Columns
    BY <1>1 DEF TypeOK, CursorOK, BeginRun, StatusColumn, ListedStatus, RemoteStates, Columns
  <2>2. QED
    BY <1>0, <1>1, <2>1 DEF BeginRun
<1>2. CASE RecordMiss
  <2>1. recorded' \in [Runs -> [Keys -> Records]]
    BY <1>0, <1>2, InHand, NestedUpdate DEF RecordMiss, Records, InRun
  <2>2. QED
    BY <1>0, <1>2, <2>1 DEF RecordMiss
<1>3. CASE InsertResult
  <2>1. row \in Cases
    BY <1>3 DEF InsertResult, TypeOK, CursorOK
  <2>2. results' \in [Runs -> [Keys -> [Cases -> Nat]]]
    BY <1>0, <1>3, <2>1, InHand, NestedBump DEF InsertResult, InRun
  <2>3. QED
    BY <1>0, <1>3, <2>2 DEF InsertResult
<1>4. CASE InsertCommitFile
  <2>1. row \in Files
    BY <1>4 DEF InsertCommitFile, TypeOK, CursorOK
  <2>2. QED
    BY <1>0, <1>4, <2>1 DEF InsertCommitFile
<1>5. CASE RecordArtifact
  <2>1. recorded' \in [Runs -> [Keys -> Records]]
    BY <1>0, <1>5, InHand, NestedUpdate DEF RecordArtifact, Records, InRun
  <2>2. QED
    BY <1>0, <1>5, <2>1 DEF RecordArtifact
<1>6. CASE UNCHANGED db
  BY <1>0, <1>6 DEF db
<1>7. QED
  BY <1>1, <1>2, <1>3, <1>4, <1>5, <1>6, OnlyWritesWrite DEF Writes

LEMMA CursorStep == TypeOK /\ [Next]_vars => CursorOK'
<1> SUFFICES ASSUME TypeOK, [Next]_vars PROVE CursorOK'
  OBVIOUS
<1>0. CursorOK /\ remote \in [Runs -> RemoteStates]
  BY DEF TypeOK, GitHubOK
<1> HIDE DEF Runs, Cases, Files
<1> USE DEF CursorOK, At, GoTo, NextRun, PCs, InRun, InCommits
<1>1. NoRuns \in [Runs -> RemoteStates] /\ 0 \in Nat /\ 1 \in Nat /\ "absent" \in RemoteStates
  BY DEF NoRuns, RemoteStates
<1>2. ASSUME NEW k \in Keys, StartCollect(k) PROVE CursorOK'
  BY <1>0, <1>1, <1>2 DEF StartCollect
<1>3. ASSUME NEW r \in Runs, SkipRun(r) PROVE CursorOK'
  BY <1>0, <1>1, <1>3 DEF SkipRun
<1>4. ASSUME NEW r \in Runs, BeginRun(r) PROVE CursorOK'
  <2>1. r \in Nat
    BY DEF Runs
  <2>2. QED
    BY <1>0, <1>1, <1>4, <2>1 DEF BeginRun
<1>5. CASE FindArtifact \/ MissingArtifactFails
  BY <1>0, <1>5 DEF FindArtifact, MissingArtifactFails
<1>6. CASE MissingArtifactPends \/ RecordMiss \/ DownloadEmpty \/ DownloadFails \/ Export
  BY <1>0, <1>1, <1>6 DEF MissingArtifactPends, RecordMiss, DownloadEmpty, DownloadFails, Export
<1>7. CASE DownloadReport
  <2>1. NumCases > 0 => 1 \in Cases
    BY CollectAssumption DEF CollectAssumption, Cases
  <2>2. QED
    BY <1>0, <1>1, <1>7, <2>1 DEF DownloadReport
<1>8. CASE InsertResult
  <2>1. MoreResults => row + 1 \in Cases
    BY <1>0, <1>8, CollectAssumption DEF CollectAssumption, Cases, MoreResults, InsertResult
  <2>2. row + 1 \in Nat
    BY <1>0
  <2>3. QED
    BY <1>0, <1>1, <1>8, <2>1, <2>2 DEF InsertResult
<1>9. CASE CommitKnown \/ RecordArtifact
  BY <1>0, <1>9 DEF CommitKnown, RecordArtifact
<1>10. CASE CommitFromApi \/ CommitFromGit
  <2>1. 1 \in Files
    BY CollectAssumption DEF CollectAssumption, Files
  <2>2. QED
    BY <1>0, <1>1, <1>10, <2>1 DEF CommitFromApi, CommitFromGit
<1>11. CASE InsertCommitFile
  <2>1. MoreFiles => row + 1 \in Files
    BY <1>0, <1>11, CollectAssumption DEF CollectAssumption, Files, MoreFiles, InsertCommitFile
  <2>2. row + 1 \in Nat
    BY <1>0
  <2>3. QED
    BY <1>0, <1>1, <1>11, <2>1, <2>2 DEF InsertCommitFile
<1>12. CASE FinishCollect \/ Die
  BY <1>0, <1>1, <1>12 DEF FinishCollect, Die, Abandon
<1>13. CASE ApiFault \/ StatementFails \/ ApiRowFails
  BY <1>0, <1>1, <1>13 DEF ApiFault, StatementFails, ApiRowFails
<1>14. CASE GitHub \/ UNCHANGED vars
  BY <1>0, <1>14 DEF GitHub, CreateRun, CompleteRun, RerunRun, ShowArtifact, ExpireArtifact, AgeOut,
       Environment, process, vars
<1>15. QED
  BY <1>2, <1>3, <1>4, <1>5, <1>6, <1>7, <1>8, <1>9, <1>10, <1>11, <1>12, <1>13, <1>14
     DEF Next, Advance, Fault

LEMMA TalliesStep == TypeOK /\ [Next]_vars => TalliesOK'
<1> SUFFICES ASSUME TypeOK, [Next]_vars PROVE TalliesOK'
  OBVIOUS
<1>0. TalliesOK
  BY DEF TypeOK
<1> HIDE DEF Runs, Cases, Files
<1> USE DEF TalliesOK, At, InRun, InCommits
<1>1. ASSUME pc \in InRun, CountFailed \/ CountPending \/ UNCHANGED tallies PROVE TalliesOK'
  BY <1>0, <1>1, InHand DEF CountFailed, CountPending, tallies
<1>2. CASE (\E k \in Keys : StartCollect(k)) \/ Die
  BY <1>2 DEF StartCollect, Die
<1>3. CASE Export
  BY <1>0, <1>3, InHand DEF Export
<1>4. CASE MissingArtifactFails \/ MissingArtifactPends \/ DownloadEmpty \/ DownloadFails
  BY <1>1, <1>4 DEF MissingArtifactFails, MissingArtifactPends, DownloadEmpty, DownloadFails
<1>5. CASE ApiFault \/ StatementFails
  BY <1>1, <1>5 DEF ApiFault, StatementFails, tallies
<1>6. CASE UNCHANGED tallies
  BY <1>0, <1>6 DEF tallies
<1>7. ASSUME GitHub \/ (\E r \in Runs : SkipRun(r) \/ BeginRun(r)) \/ FindArtifact \/ RecordMiss
             \/ DownloadReport \/ InsertResult \/ CommitKnown \/ CommitFromApi \/ CommitFromGit
             \/ InsertCommitFile \/ RecordArtifact \/ FinishCollect \/ ApiRowFails \/ UNCHANGED vars
      PROVE  UNCHANGED tallies
  BY <1>7 DEF GitHub, CreateRun, CompleteRun, RerunRun, ShowArtifact, ExpireArtifact, AgeOut, Environment,
       process, SkipRun, BeginRun, FindArtifact, RecordMiss, DownloadReport, InsertResult,
       CommitKnown, CommitFromApi, CommitFromGit, InsertCommitFile, RecordArtifact,
       FinishCollect, ApiRowFails, tallies, vars
<1>8. QED
  BY <1>2, <1>3, <1>4, <1>5, <1>6, <1>7 DEF Next, Advance, Fault

LEMMA FaultsStep == TypeOK /\ [Next]_vars => FaultsOK'
<1> SUFFICES ASSUME FaultsOK, [Next]_vars PROVE FaultsOK'
  BY DEF TypeOK
<1> USE CollectAssumption DEF CollectAssumption, FaultsOK
<1>1. CASE ApiFault
  BY <1>1 DEF ApiFault
<1>2. CASE StatementFails \/ ApiRowFails \/ Die
  BY <1>2 DEF StatementFails, ApiRowFails, Die, Interrupted
<1>3. ASSUME GitHub \/ (\E k \in Keys : StartCollect(k)) \/ Advance \/ UNCHANGED vars
      PROVE  UNCHANGED faults
  BY <1>3 DEF GitHub, CreateRun, CompleteRun, RerunRun, ShowArtifact, ExpireArtifact, AgeOut, Environment,
       StartCollect, Advance, SkipRun, BeginRun, FindArtifact, MissingArtifactFails,
       MissingArtifactPends, RecordMiss, DownloadReport, DownloadEmpty, DownloadFails,
       InsertResult, CommitKnown, CommitFromApi, CommitFromGit, InsertCommitFile,
       RecordArtifact, Export, FinishCollect, vars
<1>4. QED
  BY <1>1, <1>2, <1>3 DEF Next, Fault, faults

LEMMA TypeStep == TypeOK /\ [Next]_vars => TypeOK'
BY GitHubStep, StoreStep, CursorStep, TalliesStep, FaultsStep DEF TypeOK

(* Every variable keeps its type, whatever fails and wherever GitHub is.    *)
THEOREM TypeCorrect == Spec => []TypeOK
<1>1. Init => TypeOK
  BY InitInv DEF Inv
<1>2. QED
  BY <1>1, TypeStep, PTL DEF Spec

-----------------------------------------------------------------------------
(* The store keeps the promise of the ledger.                              *)

(* Steps that leave the store, and the place of the process in its run,     *)
(* alone; and those that let go of the run.                                 *)
LEMMA InvWhenIdle ==
  ASSUME Inv, UNCHANGED db, pc' \in {"idle", "loop"}
  PROVE  InHandInv' /\ StoredInv' /\ RecordedIsWhole'
BY DEF Inv, db, InHandInv, StoredInv, RecordedIsWhole, Whole, InRun, InCommits, AfterInsert

LEMMA InvStays ==
  ASSUME Inv, UNCHANGED <<db, pc, key, cur, row>>
  PROVE  InHandInv' /\ StoredInv' /\ RecordedIsWhole'
BY DEF Inv, db, InHandInv, StoredInv, RecordedIsWhole, Whole, InRun, InCommits, AfterInsert

LEMMA InvStep == Inv /\ [Next]_vars => Inv'
<1> SUFFICES ASSUME Inv, [Next]_vars PROVE InHandInv' /\ StoredInv' /\ RecordedIsWhole'
  BY TypeStep DEF Inv
<1> DEFINE Goal == InHandInv' /\ StoredInv' /\ RecordedIsWhole'
<1> HIDE DEF Runs, Cases, Files
<1>0. TypeOK /\ InHandInv /\ StoredInv /\ RecordedIsWhole
  BY DEF Inv
<1> USE DEF At, GoTo
<1>1. CASE GitHub \/ UNCHANGED vars
  BY <1>1, InvStays DEF GitHub, CreateRun, CompleteRun, RerunRun, ShowArtifact, ExpireArtifact, AgeOut,
       Environment, process, vars
<1>2. CASE \E k \in Keys : StartCollect(k)
  BY <1>2, InvWhenIdle DEF StartCollect
<1>3. CASE \E r \in Runs : SkipRun(r)
  BY <1>3, InvStays DEF SkipRun
<1>4. CASE MissingArtifactPends \/ DownloadEmpty \/ DownloadFails \/ Export
  BY <1>4, InvWhenIdle DEF MissingArtifactPends, DownloadEmpty, DownloadFails, Export, NextRun
<1>5. CASE FinishCollect \/ Die
  BY <1>5, InvWhenIdle DEF FinishCollect, Die, Abandon, Interrupted
<1>6. CASE StatementFails
  BY <1>6, InvWhenIdle DEF StatementFails, NextRun, Interrupted
<1>7. ASSUME NEW r \in Runs, BeginRun(r) PROVE Goal
  <2>1. workflowRuns' = [workflowRuns EXCEPT ![r] = StatusColumn(r)] /\ cur' = r /\ pc' = "artifacts"
        /\ UNCHANGED <<key, results, recorded>>
    BY <1>7 DEF BeginRun
  <2>2. StatusColumn(r) # "absent" /\ recorded[r][key] = "no"
    BY <1>7 DEF BeginRun, StatusColumn, ListedStatus, HasCollectedArtifact, Closed
  <2>3. InHandInv'
    BY <1>0, <2>1, <2>2 DEF TypeOK, StoreOK, InHandInv
  <2>4. RecordedIsWhole'
    BY <1>0, <2>1, <2>2 DEF TypeOK, StoreOK, RecordedIsWhole, Whole
  <2>5. QED
    BY <2>1, <2>3, <2>4 DEF StoredInv, AfterInsert, InCommits
<1>8. CASE FindArtifact \/ MissingArtifactFails
  BY <1>0, <1>8 DEF FindArtifact, MissingArtifactFails, InHandInv, StoredInv, RecordedIsWhole,
       Whole, InRun, InCommits, AfterInsert, db
<1>9. CASE RecordMiss
  <2>1. recorded' = [recorded EXCEPT ![cur][key] = "miss"] /\ pc' = "loop"
        /\ UNCHANGED <<workflowRuns, results>>
    BY <1>9 DEF RecordMiss, NextRun
  <2>2. \A r \in Runs, k \in Keys : recorded'[r][k] = "collected" => recorded[r][k] = "collected"
    BY <1>0, <2>1 DEF TypeOK, StoreOK
  <2>3. QED
    BY <1>0, <2>1, <2>2 DEF InHandInv, StoredInv, RecordedIsWhole, Whole, InRun, InCommits, AfterInsert
<1>10. CASE DownloadReport
  <2>1. ~(NumCases > 0) => Cases = {}
    BY CollectAssumption DEF CollectAssumption, Cases
  <2>2. \A c \in Cases : ~(c < 1)
    BY DEF Cases
  <2>3. QED
    BY <1>0, <1>10, <2>1, <2>2 DEF DownloadReport, InHandInv, StoredInv, RecordedIsWhole,
         Whole, InRun, InCommits, AfterInsert, db
<1>11. CASE InsertResult
  <2> DEFINE Bumped == [results EXCEPT ![cur][key][row] = @ + 1]
  <2>1. cur \in Runs /\ key \in Keys /\ row \in Cases /\ row \in Nat
    BY <1>0, <1>11 DEF InsertResult, TypeOK, CursorOK, InRun
  <2>2. results' = Bumped /\ UNCHANGED <<workflowRuns, recorded, key, cur>>
    BY <1>11 DEF InsertResult
  <2>3. \A r \in Runs, k \in Keys, c \in Cases :
          Bumped[r][k][c] \in Nat /\ Bumped[r][k][c] >= results[r][k][c]
    BY <1>0, <2>1 DEF TypeOK, StoreOK
  <2>4. Bumped[cur][key][row] > 0
    BY <1>0, <2>1 DEF TypeOK, StoreOK
  <2>5. RecordedIsWhole'
    <3>1. ASSUME NEW r \in Runs, NEW k \in Keys, NEW c \in Cases, results[r][k][c] > 0
          PROVE  results'[r][k][c] > 0
      BY <1>0, <2>2, <2>3, <3>1 DEF TypeOK, StoreOK
    <3>2. QED
      BY <1>0, <2>2, <3>1 DEF RecordedIsWhole, Whole
  <2>6. \A c \in Cases : c < row => results'[cur][key][c] > 0
    <3>1. ASSUME NEW c \in Cases, c < row PROVE results'[cur][key][c] > 0
      <4>1. results[cur][key][c] > 0
        BY <1>0, <1>11, <3>1 DEF InsertResult, StoredInv
      <4>2. QED
        BY <1>0, <2>1, <2>2, <2>3, <4>1 DEF TypeOK, StoreOK
    <3>2. QED
      BY <3>1
  <2>7. CASE MoreResults
    <3>1. \A c \in Cases : c < row + 1 => c < row \/ c = row
      BY <2>1 DEF Cases
    <3>2. pc' = "insert" /\ row' = row + 1
      BY <1>11, <2>7 DEF InsertResult
    <3>3. StoredInv'
      BY <2>2, <2>4, <2>6, <3>1, <3>2 DEF StoredInv, AfterInsert, InCommits
    <3>4. QED
      BY <1>0, <1>11, <2>2, <2>5, <3>2, <3>3 DEF InsertResult, InHandInv, InRun
  <2>8. CASE ~MoreResults
    <3>1. \A c \in Cases : c < row \/ c = row
      BY <2>1, <2>8, CollectAssumption DEF CollectAssumption, Cases, MoreResults
    <3>2. pc' = "commits"
      BY <1>11, <2>8 DEF InsertResult
    <3>3. StoredInv'
      BY <2>2, <2>4, <2>6, <3>1, <3>2 DEF StoredInv, Whole
    <3>4. QED
      BY <1>0, <1>11, <2>2, <2>5, <3>2, <3>3 DEF InsertResult, InHandInv, InRun
  <2>9. QED
    BY <2>7, <2>8
<1>12. CASE CommitKnown \/ CommitFromApi \/ CommitFromGit
  BY <1>0, <1>12 DEF CommitKnown, CommitFromApi, CommitFromGit, InHandInv, StoredInv,
       RecordedIsWhole, Whole, InRun, InCommits, AfterInsert, db
<1>13. CASE InsertCommitFile
  BY <1>0, <1>13 DEF InsertCommitFile, InHandInv, StoredInv,
       RecordedIsWhole, Whole, InRun, InCommits, AfterInsert, db
<1>14. CASE RecordArtifact
  <2>1. recorded' = [recorded EXCEPT ![cur][key] = "collected"] /\ pc' = "export"
        /\ UNCHANGED <<workflowRuns, results, cur, key>>
    BY <1>14 DEF RecordArtifact
  <2>2. cur \in Runs /\ key \in Keys /\ workflowRuns[cur] # "absent" /\ Whole(cur, key)
    BY <1>0, <1>14, InHand DEF RecordArtifact, InHandInv, StoredInv, AfterInsert, InRun
  <2>3. \A r \in Runs, k \in Keys :
          recorded'[r][k] = "collected" => recorded[r][k] = "collected" \/ (r = cur /\ k = key)
    BY <1>0, <2>1, <2>2 DEF TypeOK, StoreOK
  <2>4. RecordedIsWhole'
    BY <1>0, <2>1, <2>2, <2>3 DEF RecordedIsWhole, Whole
  <2>5. QED
    BY <2>1, <2>2, <2>4 DEF InHandInv, StoredInv, AfterInsert, InCommits
<1>15. CASE ApiFault
  <2>1. CASE pc' = "loop"
    BY <1>15, <2>1, InvWhenIdle DEF ApiFault
  <2>2. CASE pc' # "loop"
    BY <1>0, <1>15, <2>2 DEF ApiFault, NextRun, InHandInv, StoredInv, RecordedIsWhole, Whole,
         InRun, InCommits, AfterInsert, db
  <2>3. QED
    BY <2>1, <2>2
<1>16. CASE ApiRowFails
  BY <1>0, <1>16 DEF ApiRowFails, Interrupted, InHandInv, StoredInv, RecordedIsWhole, Whole,
       InRun, InCommits, AfterInsert, db
<1>17. QED
  BY <1>1, <1>2, <1>3, <1>4, <1>5, <1>6, <1>7, <1>8, <1>9, <1>10, <1>11, <1>12, <1>13, <1>14,
     <1>15, <1>16 DEF Next, Advance, Fault

LEMMA InvCorrect == Spec => []Inv
BY InitInv, InvStep, PTL DEF Spec

(* A run on record as collected need not be read again: its report is       *)
(* stored whole, under a workflow_runs row (ci.ts:243-345).                  *)
THEOREM RecordedWhole == Spec => []RecordedIsWhole
<1>1. Inv => RecordedIsWhole
  BY DEF Inv
<1>2. QED
  BY InvCorrect, <1>1, PTL

-----------------------------------------------------------------------------
(* Refinement of IngestLedger.                                             *)

LEMMA LedgerStep ==
  ASSUME Inv, [Next]_vars
  PROVE  [Ledger!LedgerNext]_(Ledger!ledgerVars)
<1> HIDE DEF Runs, Cases, Files
<1>0. TypeOK /\ InHandInv /\ StoredInv
  BY DEF Inv
<1> USE DEF At, Ledger!LedgerNext, Ledger!ledgerVars, Ledger!Open
<1>1. ASSUME NEW r \in Runs, BeginRun(r) PROVE [Ledger!LedgerNext]_(Ledger!ledgerVars)
  <2>1. workflowRuns' = [workflowRuns EXCEPT ![r] = StatusColumn(r)] /\ UNCHANGED <<results, recorded>>
    BY <1>1 DEF BeginRun
  <2>2. CASE workflowRuns[r] = "absent"
    <3>1. StatusColumn(r) \in {"unknown", "success", "failure"}
      BY <1>0, <1>1, <2>2
         DEF BeginRun, StatusColumn, ListedStatus, TypeOK, CursorOK, RemoteStates
    <3>2. Ledger!Learn(r)
      BY <2>1, <2>2, <3>1 DEF Ledger!Learn
    <3>3. QED
      BY <3>2
  <2>3. CASE workflowRuns[r] # "absent"
    <3>1. workflowRuns' = workflowRuns
      BY <1>0, <2>1, <2>3 DEF StatusColumn, TypeOK, StoreOK
    <3>2. QED
      BY <2>1, <3>1
  <2>4. QED
    BY <2>2, <2>3
<1>2. CASE RecordMiss \/ RecordArtifact
  <2>1. cur \in Runs /\ key \in Keys /\ workflowRuns[cur] # "absent" /\ recorded[cur][key] = "no"
    BY <1>0, <1>2, InHand DEF RecordMiss, RecordArtifact, InHandInv, InRun
  <2>2. RecordArtifact => Whole(cur, key)
    BY <1>0 DEF RecordArtifact, StoredInv, AfterInsert
  <2>3. Ledger!Close(cur, key)
    BY <1>2, <2>1, <2>2 DEF RecordMiss, RecordArtifact, Whole, Ledger!Close, Ledger!Whole
  <2>4. QED
    BY <2>1, <2>3
<1>3. CASE InsertResult
  <2>1. cur \in Runs /\ key \in Keys /\ row \in Cases
    BY <1>0, <1>3, InHand DEF InsertResult, InRun, TypeOK, CursorOK
  <2>2. Ledger!AddRow(cur, key, row)
    BY <1>0, <1>3 DEF InsertResult, InHandInv, InRun, Ledger!AddRow
  <2>3. QED
    BY <2>1, <2>2
<1>4. CASE InsertCommitFile \/ UNCHANGED db
  BY <1>4 DEF InsertCommitFile, db
<1>5. QED
  BY <1>1, <1>2, <1>3, <1>4, OnlyWritesWrite DEF Writes

(* Whatever fails and wherever the process dies, the store only ever goes   *)
(* through the states of the ledger: entries are closed once, "collected"   *)
(* only when whole, and closed entries and run rows are never written again.*)
THEOREM CollectImplementsLedger == Spec => ImplementsLedger
<1>1. Init => Ledger!LedgerInit
  BY DEF Init, NoRuns, Ledger!LedgerInit
<1>2. Inv /\ [Next]_vars => [Ledger!LedgerNext]_(Ledger!ledgerVars)
  BY LedgerStep
<1>3. QED
  BY <1>1, <1>2, InvCorrect, PTL DEF Spec, ImplementsLedger, Ledger!LedgerSpec

-----------------------------------------------------------------------------
(* A miss is only ever recorded of a run that failed.                      *)

LEMMA ViewStep == TypeOK /\ ViewInv /\ [Next]_vars => ViewInv'
<1> SUFFICES ASSUME TypeOK, ViewInv, [Next]_vars PROVE ViewInv'
  OBVIOUS
<1> HIDE DEF Runs, Cases, Files
<1> USE DEF At, GoTo, NextRun, InRun, InCommits, ViewInv
<1>1. ASSUME NEW r \in Runs, CreateRun(r) \/ CompleteRun(r) \/ RerunRun(r) PROVE ViewInv'
  <2>1. hasFailed \subseteq hasFailed' /\ \A q \in Runs : remote'[q] = "failure" => q \in hasFailed'
    BY <1>1 DEF CreateRun, CompleteRun, RerunRun, TypeOK, GitHubOK
  <2>2. UNCHANGED <<listing, pc, view, cur>>
    BY <1>1 DEF CreateRun, CompleteRun, RerunRun, Environment, process
  <2>3. QED
    BY <2>1, <2>2
<1>2. CASE (\E r \in Runs, k \in Keys : ShowArtifact(r, k) \/ ExpireArtifact(r, k)) \/ AgeOut \/ UNCHANGED vars
  BY <1>2 DEF ShowArtifact, ExpireArtifact, AgeOut, Environment, process, vars, github
<1>3. CASE \E k \in Keys : StartCollect(k)
  BY <1>3 DEF StartCollect, github
<1>4. ASSUME NEW r \in Runs, SkipRun(r) PROVE ViewInv'
  BY <1>4 DEF SkipRun, github, TypeOK, CursorOK
<1>5. ASSUME NEW r \in Runs, BeginRun(r) PROVE ViewInv'
  BY <1>5 DEF BeginRun, github, TypeOK, CursorOK
<1>6. CASE MissingArtifactFails
  <2>1. view = "failure"
    BY <1>6 DEF MissingArtifactFails, ShouldFailMissingArtifact, TypeOK, CursorOK, RemoteStates
  <2>2. QED
    BY <1>6, <2>1 DEF MissingArtifactFails, github
<1>7. CASE FindArtifact \/ DownloadReport \/ InsertResult \/ CommitKnown \/ CommitFromApi \/ CommitFromGit
           \/ InsertCommitFile \/ RecordArtifact
  BY <1>7 DEF FindArtifact, DownloadReport, InsertResult, CommitKnown, CommitFromApi,
       CommitFromGit, InsertCommitFile, RecordArtifact, github
<1>8. CASE MissingArtifactPends \/ RecordMiss \/ DownloadEmpty \/ DownloadFails \/ Export
  BY <1>8 DEF MissingArtifactPends, RecordMiss, DownloadEmpty, DownloadFails, Export, github
<1>9. CASE FinishCollect \/ Die
  BY <1>9 DEF FinishCollect, Die, Abandon, Interrupted, NoRuns, github
<1>10. CASE ApiFault \/ StatementFails \/ ApiRowFails
  BY <1>10 DEF ApiFault, StatementFails, ApiRowFails, Interrupted, github
<1>11. QED
  BY <1>1, <1>2, <1>3, <1>4, <1>5, <1>6, <1>7, <1>8, <1>9, <1>10 DEF Next, GitHub, Advance, Fault

MissInv == ViewInv /\ MissOnlyWhenFailed

LEMMA MissStep == Inv /\ MissInv /\ [Next]_vars => MissInv'
<1> SUFFICES ASSUME Inv, MissInv, [Next]_vars PROVE MissOnlyWhenFailed'
  BY ViewStep DEF Inv, MissInv
<1> HIDE DEF Runs, Cases, Files
<1> USE DEF MissOnlyWhenFailed
<1>0. TypeOK /\ ViewInv /\ MissOnlyWhenFailed
  BY DEF Inv, MissInv
<1>1. hasFailed \subseteq hasFailed'
  BY DEF Next, GitHub, CreateRun, CompleteRun, RerunRun, ShowArtifact, ExpireArtifact, AgeOut,
       StartCollect, Advance, SkipRun, BeginRun, FindArtifact, MissingArtifactFails,
       MissingArtifactPends, RecordMiss, DownloadReport, DownloadEmpty, DownloadFails,
       InsertResult, CommitKnown, CommitFromApi, CommitFromGit, InsertCommitFile,
       RecordArtifact, Export, FinishCollect, Fault, ApiFault, StatementFails, ApiRowFails,
       Die, Interrupted, vars, github
<1>2. CASE RecordMiss \/ RecordArtifact
  <2>1. cur \in Runs /\ key \in Keys
    BY <1>0, <1>2, InHand DEF RecordMiss, RecordArtifact, At, InRun
  <2>2. RecordMiss => cur \in hasFailed
    BY <1>0 DEF RecordMiss, At, ViewInv, InRun
  <2>3. \A r \in Runs, k \in Keys :
          recorded'[r][k] = "miss" => recorded[r][k] = "miss" \/ (RecordMiss /\ r = cur)
    BY <1>0, <1>2, <2>1 DEF RecordMiss, RecordArtifact, TypeOK, StoreOK
  <2>4. QED
    BY <1>0, <1>1, <2>2, <2>3
<1>3. CASE UNCHANGED recorded
  BY <1>0, <1>1, <1>3
<1>4. QED
  BY <1>2, <1>3, OnlyWritesWrite DEF Writes, BeginRun, InsertResult, InsertCommitFile, db

(* No run is ever written off for want of an artifact before an attempt of  *)
(* it failed, although the listing that decides it may be out of date       *)
(* (ci.ts:170-174, 258-268).                                               *)
THEOREM MissesFailed == Spec => []MissOnlyWhenFailed
<1>1. Init => MissInv
  BY DEF Init, MissInv, ViewInv, MissOnlyWhenFailed, NoRuns, InRun, InCommits
<1>2. MissInv => MissOnlyWhenFailed
  BY DEF MissInv
<1>3. QED
  BY <1>1, <1>2, InvCorrect, MissStep, PTL DEF Spec

-----------------------------------------------------------------------------
(* Without an interruption every report is stored once.                    *)

(* A step that writes no result and no record disturbs no entry, unless it  *)
(* takes a report in hand or lets go of it.                                *)
LEMMA CopiesStay ==
  ASSUME CopiesInv, UNCHANGED <<results, recorded, key>>, interrupts' = 0 => interrupts = 0,
         \/ UNCHANGED <<pc, cur, row>>
         \/ pc \notin {"insert"} \cup AfterInsert /\ pc' \notin {"insert"} \cup AfterInsert
         \/ pc \in AfterInsert /\ pc' \in AfterInsert /\ cur' = cur
  PROVE  CopiesInv'
BY DEF CopiesInv, CopiesOf, Writing, Once, Mute, AfterInsert, InCommits

LEMMA CopiesStep == Inv /\ CopiesInv /\ [Next]_vars => CopiesInv'
<1> SUFFICES ASSUME Inv, CopiesInv, [Next]_vars PROVE CopiesInv'
  OBVIOUS
<1> HIDE DEF Runs, Cases, Files
<1>0. TypeOK /\ InHandInv
  BY DEF Inv
<1>i. ASSUME Interrupted PROVE CopiesInv'
  BY <1>0, <1>i DEF Interrupted, CopiesInv, TypeOK, FaultsOK
<1> USE DEF At, GoTo
<1>1. CASE GitHub \/ UNCHANGED vars
  BY <1>1, CopiesStay DEF GitHub, CreateRun, CompleteRun, RerunRun, ShowArtifact, ExpireArtifact, AgeOut,
       Environment, process, vars, db, faults
<1>2. CASE \E k \in Keys : StartCollect(k)
  <2>1. /\ pc = "idle" /\ pc' = "loop" /\ UNCHANGED <<results, recorded, interrupts>>
    BY <1>2 DEF StartCollect, db, faults
  <2>2. \A r, k : ~Writing(r, k) /\ ~Writing(r, k)'
    BY <2>1 DEF Writing, AfterInsert, InCommits
  <2>3. QED
    BY <2>1, <2>2 DEF CopiesInv, CopiesOf, Once, Mute
<1>3. CASE (\E r \in Runs : SkipRun(r) \/ BeginRun(r)) \/ FindArtifact \/ MissingArtifactFails
           \/ MissingArtifactPends \/ DownloadEmpty \/ DownloadFails \/ Export \/ FinishCollect
  BY <1>3, CopiesStay DEF SkipRun, BeginRun, FindArtifact, MissingArtifactFails, MissingArtifactPends,
       DownloadEmpty, DownloadFails, Export, FinishCollect, NextRun, Abandon, db, faults,
       AfterInsert, InCommits
<1>4. CASE CommitKnown \/ CommitFromApi \/ CommitFromGit \/ InsertCommitFile
  BY <1>4, CopiesStay DEF CommitKnown, CommitFromApi, CommitFromGit, InsertCommitFile, db, faults,
       AfterInsert, InCommits
<1>5. CASE ApiFault
  <2>1. \/ pc \in {"artifacts", "download"} /\ pc' = "loop"
        \/ pc = "commits" /\ pc' = "git" /\ cur' = cur
    BY <1>5 DEF ApiFault, NextRun
  <2>2. UNCHANGED <<results, recorded, key, interrupts>>
    BY <1>5 DEF ApiFault, NextRun, db
  <2>3. QED
    BY <2>1, <2>2, CopiesStay DEF AfterInsert, InCommits
<1>6. CASE StatementFails \/ ApiRowFails \/ Die
  BY <1>6, <1>i DEF StatementFails, ApiRowFails, Die
<1>7. CASE RecordMiss
  <2>1. cur \in Runs /\ key \in Keys /\ recorded[cur][key] = "no" /\ pc = "miss" /\ pc' = "loop"
    BY <1>0, <1>7, InHand DEF RecordMiss, InHandInv, InRun, NextRun
  <2>2. /\ recorded' = [recorded EXCEPT ![cur][key] = "miss"]
        /\ UNCHANGED <<results, interrupts>>
    BY <1>7 DEF RecordMiss, faults
  <2>3. \A r \in Runs, k \in Keys : recorded'[r][k] = "collected" <=> recorded[r][k] = "collected"
    BY <1>0, <2>1, <2>2 DEF TypeOK, StoreOK
  <2>4. \A r, k : ~Writing(r, k) /\ ~Writing(r, k)'
    BY <2>1 DEF Writing, AfterInsert, InCommits
  <2>5. QED
    BY <2>2, <2>3, <2>4 DEF CopiesInv, CopiesOf, Once, Mute
<1>8. CASE DownloadReport
  <2>1. /\ pc = "download" /\ pc' = (IF NumCases > 0 THEN "insert" ELSE "commits") /\ row' = 1
        /\ UNCHANGED <<cur, key, results, recorded, interrupts>> /\ recorded[cur][key] = "no"
    BY <1>0, <1>8 DEF DownloadReport, InHandInv, InRun, db, faults
  <2>2. \A c \in Cases : c >= 1 /\ pc' = "insert"
    BY <2>1, CollectAssumption DEF CollectAssumption, Cases
  <2>3. \A r, k : Writing(r, k)' <=> r = cur /\ k = key
    BY <2>1 DEF Writing, AfterInsert, InCommits
  <2>4. \A r, k : ~Writing(r, k)
    BY <2>1 DEF Writing, AfterInsert, InCommits
  <2>5. QED
    BY <2>1, <2>2, <2>3, <2>4 DEF CopiesInv, CopiesOf, Once, Mute
<1>9. CASE InsertResult
  <2> DEFINE Bumped == [results EXCEPT ![cur][key][row] = @ + 1]
  <2>1. cur \in Runs /\ key \in Keys /\ row \in Cases /\ recorded[cur][key] = "no"
    BY <1>0, <1>9, InHand DEF InsertResult, TypeOK, CursorOK, InHandInv, InRun
  <2>2. /\ results' = Bumped /\ pc = "insert"
        /\ UNCHANGED <<cur, key, recorded, interrupts>>
        /\ pc' = (IF MoreResults THEN "insert" ELSE "commits")
        /\ row' = (IF MoreResults THEN row + 1 ELSE 1)
    BY <1>9 DEF InsertResult, faults
  <2>3. \A r \in Runs, k \in Keys : (Writing(r, k) <=> r = cur /\ k = key) /\ (Writing(r, k)' <=> Writing(r, k))
    BY <2>2 DEF Writing, AfterInsert, InCommits
  <2>4. ASSUME interrupts = 0, NEW r \in Runs, NEW k \in Keys, ~Writing(r, k) PROVE CopiesOf(r, k)'
    <3>1. \A c \in Cases : results'[r][k][c] = results[r][k][c]
      BY <1>0, <2>1, <2>2, <2>3, <2>4 DEF TypeOK, StoreOK
    <3>2. CopiesOf(r, k) /\ ~Writing(r, k)'
      BY <2>3, <2>4 DEF CopiesInv
    <3>3. QED
      BY <2>2, <2>4, <3>1, <3>2 DEF CopiesOf, Once, Mute
  <2>5. ASSUME interrupts = 0 PROVE CopiesOf(cur, key)'
    <3>1. \A c \in Cases : results[cur][key][c] = IF c >= row THEN 0 ELSE 1
      BY <2>1, <2>2, <2>3, <2>5 DEF CopiesInv, CopiesOf
    <3>2. \A c \in Cases : results'[cur][key][c] = IF c = row THEN results[cur][key][c] + 1 ELSE results[cur][key][c]
      BY <1>0, <2>1, <2>2 DEF TypeOK, StoreOK
    <3>3. \A c \in Cases : results'[cur][key][c] = IF c >= row + 1 THEN 0 ELSE 1
      BY <2>1, <3>1, <3>2 DEF Cases
    <3>4. ~MoreResults => \A c \in Cases : ~(c >= row + 1)
      BY <2>1, CollectAssumption DEF CollectAssumption, Cases, MoreResults
    <3>5. \A c \in Cases : results'[cur][key][c] = IF pc' = "insert" /\ c >= row' THEN 0 ELSE 1
      BY <2>2, <3>3, <3>4
    <3>6. Writing(cur, key)' /\ recorded'[cur][key] = "no"
      BY <2>1, <2>2, <2>3
    <3>7. QED
      BY <2>2, <3>5, <3>6 DEF CopiesOf
  <2>6. QED
    BY <2>2, <2>3, <2>4, <2>5 DEF CopiesInv
<1>10. CASE RecordArtifact
  <2>1. cur \in Runs /\ key \in Keys /\ pc = "record" /\ pc' = "export"
    BY <1>0, <1>10, InHand DEF RecordArtifact, InRun
  <2>2. /\ recorded' = [recorded EXCEPT ![cur][key] = "collected"]
        /\ UNCHANGED <<results, cur, key, interrupts>>
    BY <1>10 DEF RecordArtifact, faults
  <2>3. \A r \in Runs, k \in Keys :
          recorded'[r][k] = IF r = cur /\ k = key THEN "collected" ELSE recorded[r][k]
    BY <1>0, <2>1, <2>2 DEF TypeOK, StoreOK
  <2>4. \A r \in Runs, k \in Keys : (Writing(r, k) <=> r = cur /\ k = key) /\ ~Writing(r, k)'
    BY <2>1 DEF Writing, AfterInsert, InCommits
  <2>5. QED
    BY <2>1, <2>2, <2>3, <2>4 DEF CopiesInv, CopiesOf, Once, Mute
<1>11. QED
  BY <1>1, <1>2, <1>3, <1>4, <1>5, <1>6, <1>7, <1>8, <1>9, <1>10 DEF Next, Advance, Fault

(* Re-collecting is idempotent however often GitHub fails, as long as no    *)
(* statement fails and no process dies (ci.ts:208-345).                     *)
THEOREM StoredOnce == Spec => []OnceUnlessInterrupted
<1>1. Init => CopiesInv
  BY DEF Init, CopiesInv, CopiesOf, Writing, Once, Mute, AfterInsert, InCommits
<1>2. Inv /\ CopiesInv => OnceUnlessInterrupted
  <2> SUFFICES ASSUME Inv, CopiesInv, interrupts = 0, NEW r \in Runs, NEW k \in Keys
               PROVE  \/ Mute(r, k) /\ recorded[r][k] # "collected"
                      \/ Once(r, k) /\ recorded[r][k] = "collected"
                      \/ ~Closed(r, k) /\ pc \in InRun /\ <<cur, key>> = <<r, k>>
    BY DEF OnceUnlessInterrupted
  <2>1. CopiesOf(r, k)
    BY DEF CopiesInv
  <2>2. CASE Writing(r, k)
    BY <2>2 DEF Inv, InHandInv, Writing, Closed, AfterInsert, InRun, InCommits
  <2>3. CASE ~Writing(r, k)
    BY <2>1, <2>3 DEF CopiesOf
  <2>4. QED
    BY <2>2, <2>3
<1>3. QED
  BY <1>1, <1>2, InvCorrect, CopiesStep, PTL DEF Spec
-----------------------------------------------------------------------------
(* Without an interruption a commit is stored whole, or not at all.         *)

(* While the rows of a commit are inserted, those before the next one are   *)
(* there; any other commit has all of its rows or none.                     *)
InsertsRows == pc \in {"apiRows", "gitRows"}

CommitInv ==
  interrupts = 0 =>
    /\ \A s \in Commits : commitRows[s] \in {{}, Files} \/ (InsertsRows /\ s = Commit)
    /\ InsertsRows => commitRows[Commit] = {f \in Files : f < row}

LEMMA CommitsStay ==
  ASSUME CommitInv, UNCHANGED commitRows, interrupts' = 0 => interrupts = 0,
         \/ ~InsertsRows /\ ~InsertsRows'
         \/ UNCHANGED <<pc, cur, row>>
  PROVE  CommitInv'
BY DEF CommitInv, InsertsRows, Commit

LEMMA CommitStep == Inv /\ CommitInv /\ [Next]_vars => CommitInv'
<1> SUFFICES ASSUME Inv, CommitInv, [Next]_vars PROVE CommitInv'
  OBVIOUS
<1> HIDE DEF Runs, Cases, Files
<1>0. TypeOK
  BY DEF Inv
<1>i. ASSUME Interrupted PROVE CommitInv'
  BY <1>0, <1>i DEF Interrupted, CommitInv, TypeOK, FaultsOK
<1> USE DEF At, GoTo
<1>1. CASE GitHub \/ UNCHANGED vars
  BY <1>1, CommitsStay DEF GitHub, CreateRun, CompleteRun, RerunRun, ShowArtifact, ExpireArtifact, AgeOut,
       Environment, process, vars, db, faults
<1>2. CASE \E k \in Keys : StartCollect(k)
  BY <1>2, CommitsStay DEF StartCollect, db, faults, InsertsRows
<1>3. CASE (\E r \in Runs : SkipRun(r) \/ BeginRun(r)) \/ FindArtifact \/ MissingArtifactFails
           \/ MissingArtifactPends \/ RecordMiss \/ DownloadEmpty \/ DownloadFails \/ Export \/ FinishCollect
  BY <1>3, CommitsStay DEF SkipRun, BeginRun, FindArtifact, MissingArtifactFails, MissingArtifactPends,
       RecordMiss, DownloadEmpty, DownloadFails, Export, FinishCollect, NextRun, Abandon, db, faults,
       InsertsRows
<1>4. CASE DownloadReport \/ InsertResult \/ CommitKnown \/ RecordArtifact
  BY <1>4, CommitsStay DEF DownloadReport, InsertResult, CommitKnown, RecordArtifact, db, faults, InsertsRows
<1>5. CASE ApiFault
  BY <1>5, CommitsStay DEF ApiFault, NextRun, db, InsertsRows
<1>6. CASE CommitFromApi \/ CommitFromGit
  <2>1. CASE pc' = "record"
    BY <1>6, <2>1, CommitsStay DEF CommitFromApi, CommitFromGit, db, faults, InsertsRows
  <2>2. CASE pc' # "record"
    <3>1. commitRows[Commit] = {} /\ row' = 1 /\ UNCHANGED <<cur, commitRows, interrupts>> /\ ~InsertsRows
      BY <1>6, <2>2 DEF CommitFromApi, CommitFromGit, HasCommitChanges, db, faults, InsertsRows
    <3>2. {f \in Files : f < 1} = {}
      BY DEF Files
    <3>3. QED
      BY <3>1, <3>2 DEF CommitInv, Commit
  <2>3. QED
    BY <2>1, <2>2
<1>7. CASE InsertCommitFile
  <2>1. /\ InsertsRows /\ row \in Files /\ cur \in Runs /\ Commit \in Commits
        /\ UNCHANGED <<cur, interrupts>>
        /\ commitRows' = [commitRows EXCEPT ![Commit] = @ \cup {row}]
    BY <1>0, <1>7, CollectAssumption
       DEF CollectAssumption, InsertCommitFile, InsertsRows, Commit, TypeOK, CursorOK, faults, InRun, InCommits
  <2>2. \A s \in Commits : commitRows'[s] = IF s = Commit THEN commitRows[s] \cup {row} ELSE commitRows[s]
    BY <1>0, <2>1 DEF TypeOK, StoreOK
  <2>3. interrupts = 0 => commitRows'[Commit] = {f \in Files : f < row + 1}
    <3>1. {f \in Files : f < row} \cup {row} = {f \in Files : f < row + 1}
      BY <2>1 DEF Files
    <3>2. QED
      BY <2>1, <2>2, <3>1 DEF CommitInv
  <2>4. CASE MoreFiles
    <3>1. row' = row + 1 /\ InsertsRows'
      BY <1>7, <2>4 DEF InsertCommitFile, InsertsRows
    <3>2. QED
      BY <2>1, <2>2, <2>3, <3>1 DEF CommitInv, Commit
  <2>5. CASE ~MoreFiles
    <3>1. {f \in Files : f < row + 1} = Files
      BY <2>1, <2>5, CollectAssumption DEF CollectAssumption, MoreFiles, Files
    <3>2. ~InsertsRows'
      BY <1>7, <2>5 DEF InsertCommitFile, InsertsRows
    <3>3. QED
      BY <2>1, <2>2, <2>3, <3>1, <3>2 DEF CommitInv, Commit
  <2>6. QED
    BY <2>4, <2>5
<1>8. CASE StatementFails \/ ApiRowFails \/ Die
  BY <1>8, <1>i DEF StatementFails, ApiRowFails, Die
<1>9. QED
  BY <1>1, <1>2, <1>3, <1>4, <1>5, <1>6, <1>7, <1>8 DEF Next, Advance, Fault

(* One row of a commit may stand for all of them, as hasCommitChanges takes *)
(* it to, as long as no statement fails and no process dies (ci.ts:321-339).*)
THEOREM CommitsWhole == Spec => []CommitWholeUnlessInterrupted
<1>1. Init => CommitInv
  BY DEF Init, CommitInv, InsertsRows
<1>2. CommitInv => CommitWholeUnlessInterrupted
  BY DEF CommitInv, CommitWholeUnlessInterrupted, InsertsRows
<1>3. QED
  BY <1>1, <1>2, InvCorrect, CommitStep, PTL DEF Spec

-----------------------------------------------------------------------------
(* What a collect reports is true.                                          *)

Counted(r) == r \in collected \cup pending

(* Nothing is counted of a run that is still listed, nor of the one in hand,*)
(* until it leaves the hand; the ledger says so when that is "collected".   *)
TallyInv ==
  /\ SummaryIsTrue
  /\ \A r \in Runs : listing[r] # "absent" => ~Counted(r) /\ failed[r] = 0
  /\ pc \in InRun => /\ ~Counted(cur) /\ listing[cur] = "absent"
                     /\ pc # "miss" => failed[cur] = 0
  /\ pc = "export" => recorded[cur][key] = "collected"

LEMMA TallyStep == Inv /\ TallyInv /\ [Next]_vars => TallyInv'
<1> SUFFICES ASSUME Inv, TallyInv, [Next]_vars PROVE TallyInv'
  OBVIOUS
<1> HIDE DEF Runs, Cases, Files
<1>0. TypeOK /\ InHandInv
  BY DEF Inv
<1> USE DEF At, GoTo, InRun, InCommits, TallyInv, SummaryIsTrue, OneHeading, Closed, Counted
<1>1. CASE GitHub \/ UNCHANGED vars
  BY <1>1 DEF GitHub, CreateRun, CompleteRun, RerunRun, ShowArtifact, ExpireArtifact, AgeOut,
       Environment, process, vars, db, tallies
<1>2. CASE \E k \in Keys : StartCollect(k)
  BY <1>2 DEF StartCollect, db
<1>3. ASSUME NEW r \in Runs, SkipRun(r) \/ BeginRun(r) PROVE TallyInv'
  BY <1>0, <1>3 DEF SkipRun, BeginRun, db, tallies, TypeOK, CursorOK
<1>4. CASE FindArtifact \/ DownloadReport \/ InsertResult \/ CommitKnown \/ CommitFromApi \/ CommitFromGit
           \/ InsertCommitFile
  BY <1>4 DEF FindArtifact, DownloadReport, InsertResult, CommitKnown, CommitFromApi, CommitFromGit,
       InsertCommitFile, db, tallies
<1>5. CASE MissingArtifactFails
  BY <1>0, <1>5, InHand DEF MissingArtifactFails, CountFailed, db, TypeOK, TalliesOK
<1>6. CASE MissingArtifactPends \/ DownloadEmpty
  BY <1>0, <1>6, InHand DEF MissingArtifactPends, DownloadEmpty, CountPending, NextRun, db, InHandInv
<1>7. CASE DownloadFails
  BY <1>0, <1>7, InHand DEF DownloadFails, CountFailed, NextRun, db, TypeOK, TalliesOK
<1>8. CASE RecordMiss \/ RecordArtifact
  <2>1. cur \in Runs /\ key \in Keys
    BY <1>0, <1>8, InHand DEF RecordMiss, RecordArtifact
  <2>2. /\ \A r \in Runs : r # cur => recorded'[r] = recorded[r]
        /\ RecordArtifact => recorded'[cur][key] = "collected"
    BY <1>0, <1>8, <2>1 DEF RecordMiss, RecordArtifact, TypeOK, StoreOK
  <2>3. QED
    BY <1>8, <2>1, <2>2 DEF RecordMiss, RecordArtifact, NextRun, tallies
<1>9. CASE Export
  BY <1>0, <1>9, InHand DEF Export, NextRun, db
<1>10. CASE FinishCollect
  BY <1>10 DEF FinishCollect, Abandon, NoRuns, db, tallies
<1>11. CASE ApiFault \/ StatementFails \/ ApiRowFails
  BY <1>0, <1>11, InHand DEF ApiFault, StatementFails, ApiRowFails, CountFailed, NextRun, Interrupted, db,
       tallies, TypeOK, TalliesOK
<1>12. CASE Die
  BY <1>12 DEF Die, Abandon, Interrupted, NoRuns, db
<1>13. QED
  BY <1>1, <1>2, <1>3, <1>4, <1>5, <1>6, <1>7, <1>8, <1>9, <1>10, <1>11, <1>12 DEF Next, Advance, Fault

(* Every run of a collect stands under one heading, what is pending is open *)
(* for the next collect, what is collected is on record (ci.ts:361-369).    *)
THEOREM SummaryTrue == Spec => []SummaryIsTrue
<1>1. Init => TallyInv
  BY DEF Init, TallyInv, SummaryIsTrue, OneHeading, Counted, NoRuns, InRun, InCommits
<1>2. TallyInv => SummaryIsTrue
  BY DEF TallyInv
<1>3. QED
  BY <1>1, <1>2, InvCorrect, TallyStep, PTL DEF Spec
=============================================================================
