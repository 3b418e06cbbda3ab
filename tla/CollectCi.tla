------------------------------- MODULE CollectCi -------------------------------
(***************************************************************************)
(* `flaker import --ci` and the collect_ci action of `flaker apply`: copying *)
(* GitHub workflow runs and the results in their artifacts into the metric  *)
(* store (commands/collect/ci.ts over storage/duckdb.ts).                  *)
(*                                                                         *)
(* One collecting process runs at a time (DuckDB locks the database file), *)
(* but it is sequential code full of awaits: GitHub moves on between any   *)
(* two of its steps, every call may fail, every statement of the store     *)
(* commits by itself, and the process may be killed anywhere.              *)
(*                                                                         *)
(* Abstractions.  A report is NumCases test cases and a commit NumFiles    *)
(* changed files, inserted in order, one statement each.  A remote run is  *)
(* "running" (conclusion still null) or completed with "success" or any    *)
(* other conclusion ("failure"), and may be re-run.  Rows of test_results carry no artifact   *)
(* key; `results' splits them by the key they were read under.             *)
(***************************************************************************)
EXTENDS Naturals

CONSTANTS
  NumRuns,        \* runs GitHub ever has; ids grow, so 1..NumRuns in creation order
  Watched,        \* the runs whose workflow path [collect].workflow_paths accepts
  Keys,           \* artifact keys: adapter_type, artifact_name, adapter_config
  NumCases,       \* test cases in a run's report
  NumFiles,       \* files changed by a commit
  Commits,        \* head commits of the runs
  CommitOf,       \* the head commit of each run
  Reports,        \* what artifacts hold: a readable report, one the adapter
                  \* throws on, or no entry with content
  Rerun,          \* bound: the runs that may be re-run
  PageSize,       \* per_page of the runs listing, which is never paged through
  MaxApiFaults,   \* bound: failed GitHub calls
  MaxInterrupts   \* bound: failed store statements and killed processes

Runs  == 1 .. NumRuns
Cases == 1 .. NumCases
Files == 1 .. NumFiles

ASSUME CollectAssumption ==
  /\ NumRuns \in Nat /\ NumCases \in Nat /\ NumFiles \in Nat \ {0}
  /\ PageSize \in Nat \ {0}
  /\ MaxApiFaults \in Nat /\ MaxInterrupts \in Nat
  /\ Watched \subseteq Runs /\ Rerun \subseteq Runs
  /\ Reports \subseteq {"report", "broken", "empty"}
  /\ CommitOf \in [Runs -> Commits]

VARIABLES
  remote,        \* GitHub: state of each run
  artifact,      \* GitHub: the artifact of each run under each key
  windowStart,   \* GitHub: oldest run the `created >=` filter still returns
  hasFailed,     \* history: the runs that ever completed without success
  workflowRuns,  \* store: status column of each workflow_runs row
  results,       \* store: number of test_results rows of each case of a report
  recorded,      \* store: the collected_artifacts row of each run and key
  commitRows,    \* store: the files of each commit in commit_changes
  pc,            \* the process: where it stands
  key,           \* the process: the artifact key it collects
  listing,       \* the process: listed runs not processed yet, as listed
  cur, view,     \* the process: the run in hand, and its state when listed
  row,           \* the process: next row of the insert loop it is in
  collected,     \* the process: runsCollected, by run
  pending,       \* the process: pendingArtifactRunIds
  failed,        \* the process: occurrences of each run in failedRunIds
  apiFaults, interrupts

github  == <<remote, artifact, windowStart, hasFailed>>
db      == <<workflowRuns, results, recorded, commitRows>>
tallies == <<collected, pending, failed>>
process == <<pc, key, listing, cur, view, row, collected, pending, failed>>
faults  == <<apiFaults, interrupts>>
vars    == <<github, db, process, faults>>

RemoteStates   == {"absent", "running", "success", "failure"}
ArtifactStates == {"none", "report", "broken", "empty", "expired"}
Columns        == {"absent", "unknown", "success", "failure"}
Records        == {"no", "miss", "collected"}
InCommits      == {"commits", "apiRows", "git", "gitRows"}
InRun          == {"artifacts", "miss", "download", "insert", "record", "export"}
                    \cup InCommits
PCs            == {"idle", "loop"} \cup InRun

GitHubOK ==
  /\ remote \in [Runs -> RemoteStates]
  /\ artifact \in [Runs -> [Keys -> ArtifactStates]]
  /\ windowStart \in 1 .. NumRuns + 1
  /\ hasFailed \in SUBSET Runs

StoreOK ==
  /\ workflowRuns \in [Runs -> Columns]
  /\ results \in [Runs -> [Keys -> [Cases -> Nat]]]
  /\ recorded \in [Runs -> [Keys -> Records]]
  /\ commitRows \in [Commits -> SUBSET Files]

CursorOK ==
  /\ pc \in PCs
  /\ key \in Keys
  /\ listing \in [Runs -> RemoteStates]
  /\ cur \in Nat /\ (pc \in InRun => cur \in Runs)
  /\ view \in RemoteStates
  /\ row \in Nat
  /\ pc = "insert" => row \in Cases
  /\ pc \in {"apiRows", "gitRows"} => row \in Files

TalliesOK ==
  /\ collected \in SUBSET Runs
  /\ pending \in SUBSET Runs
  /\ failed \in [Runs -> Nat]

FaultsOK == apiFaults \in 0 .. MaxApiFaults /\ interrupts \in 0 .. MaxInterrupts

\* Type invariant: GitHub's side, the metric store, the collector's cursor and tallies stay
\* in their ranges, whatever calls fail or are cut short.
TypeOK == GitHubOK /\ StoreOK /\ CursorOK /\ TalliesOK /\ FaultsOK

NoRuns == [r \in Runs |-> "absent"]

Init ==
  /\ remote = NoRuns
  /\ artifact = [r \in Runs |-> [k \in Keys |-> "none"]]
  /\ windowStart = 1 /\ hasFailed = {}
  /\ workflowRuns = NoRuns
  /\ results = [r \in Runs |-> [k \in Keys |-> [c \in Cases |-> 0]]]
  /\ recorded = [r \in Runs |-> [k \in Keys |-> "no"]]
  /\ commitRows = [s \in Commits |-> {}]
  /\ pc = "idle" /\ key \in Keys
  /\ listing = NoRuns /\ cur = 0 /\ view = "absent" /\ row = 1
  /\ collected = {} /\ pending = {} /\ failed = [r \in Runs |-> 0]
  /\ apiFaults = 0 /\ interrupts = 0

-----------------------------------------------------------------------------
(* GitHub, which the process only reads.                                   *)

Environment == UNCHANGED <<db, process, faults>>

CreateRun(r) ==
  /\ remote[r] = "absent"
  /\ \A q \in Runs : q < r => remote[q] # "absent"
  /\ remote' = [remote EXCEPT ![r] = "running"]
  /\ UNCHANGED <<artifact, windowStart, hasFailed>> /\ Environment

CompleteRun(r) ==
  /\ remote[r] = "running"
  /\ \E conclusion \in {"success", "failure"} :
       /\ remote' = [remote EXCEPT ![r] = conclusion]
       /\ hasFailed' = IF conclusion = "failure" THEN hasFailed \cup {r} ELSE hasFailed
  /\ UNCHANGED <<artifact, windowStart>> /\ Environment

\* A new attempt of the same run: same id, conclusion null again.
RerunRun(r) ==
  /\ r \in Rerun /\ remote[r] \in {"success", "failure"}
  /\ remote' = [remote EXCEPT ![r] = "running"]
  /\ UNCHANGED <<artifact, windowStart, hasFailed>> /\ Environment

\* The artifact shows up in the artifact listing: perhaps while the run still
\* runs, perhaps only after it is listed as completed.
ShowArtifact(r, k) ==
  /\ remote[r] # "absent" /\ artifact[r][k] = "none"
  /\ \E kind \in Reports :
       artifact' = [artifact EXCEPT ![r][k] = kind]
  /\ UNCHANGED <<remote, windowStart, hasFailed>> /\ Environment

ExpireArtifact(r, k) ==
  /\ artifact[r][k] \in {"report", "broken", "empty"}
  /\ artifact' = [artifact EXCEPT ![r][k] = "expired"]
  /\ UNCHANGED <<remote, windowStart, hasFailed>> /\ Environment

\* The oldest run leaves the --days window.
AgeOut ==
  /\ windowStart \in Runs
  /\ remote[windowStart] # "absent"
  /\ windowStart' = windowStart + 1
  /\ UNCHANGED <<remote, artifact, hasFailed>> /\ Environment

\* listWorkflowRunsForRepo: created in the window, newest PageSize only.
Existing  == {r \in Runs : remote[r] # "absent"}
OnPage(r) == \A q \in Existing : q < r + PageSize
Listed    == {r \in Existing : r >= windowStart /\ OnPage(r)}

-----------------------------------------------------------------------------
(* The collecting process.  At(p) is a step from p; GoTo(p) stays in the   *)
(* run in hand; NextRun goes back to the `for' loop.                       *)

At(p)   == pc = p
GoTo(p) == pc' = p /\ UNCHANGED <<key, listing, cur, view>>
NextRun == pc' = "loop" /\ cur' = 0 /\ view' = "absent" /\ row' = 1
             /\ UNCHANGED <<key, listing>>
Abandon == pc' = "idle" /\ listing' = NoRuns /\ cur' = 0 /\ view' = "absent" /\ row' = 1
             /\ UNCHANGED key

Closed(r, k) == recorded[r][k] # "no"
Commit       == CommitOf[cur]

StartCollect(k) ==
  /\ At("idle")
  /\ pc' = "loop" /\ key' = k
  /\ listing' = [r \in Runs |-> IF r \in Listed THEN remote[r] ELSE "absent"]
  /\ collected' = {} /\ pending' = {} /\ failed' = [r \in Runs |-> 0]
  /\ UNCHANGED <<cur, view, row, github, db, faults>>

\* hasCollectedArtifact (mutated: a collected report does not count).
HasMiss(r)              == recorded[r][key] = "miss"
HasCollectedArtifact(r) == Closed(r, key)

\* A run of another workflow, or one whose artifact is on record.
SkipRun(r) ==
  /\ At("loop") /\ listing[r] # "absent"
  /\ r \notin Watched \/ HasCollectedArtifact(r)
  /\ listing' = [listing EXCEPT ![r] = "absent"]
  /\ UNCHANGED <<pc, key, cur, view, row, tallies, github, db, faults>>

\* The status insertWorkflowRun leaves: ON CONFLICT (id) DO NOTHING, and a null
\* conclusion is "unknown" (mutated: an upsert).
ListedStatus(r) == IF listing[r] = "running" THEN "unknown" ELSE listing[r]
StatusColumn(r) ==
  IF workflowRuns[r] = "absent" THEN ListedStatus(r) ELSE workflowRuns[r]

BeginRun(r) ==
  /\ At("loop") /\ listing[r] # "absent"
  /\ r \in Watched /\ ~HasCollectedArtifact(r)
  /\ pc' = "artifacts" /\ cur' = r /\ view' = listing[r]
  /\ listing' = [listing EXCEPT ![r] = "absent"]
  /\ workflowRuns' = [workflowRuns EXCEPT ![r] = StatusColumn(r)]
  /\ UNCHANGED <<key, row, tallies, results, recorded, commitRows, github, faults>>

\* shouldFailMissingArtifact reads the run as it was listed (mutated: by its
\* conclusion alone).
NotSuccessful             == view # "success"
ShouldFailMissingArtifact == view \notin {"running", "success"}

CountFailed == failed' = [failed EXCEPT ![cur] = @ + 1]
                 /\ UNCHANGED <<collected, pending>>
CountPending == pending' = pending \cup {cur} /\ UNCHANGED <<collected, failed>>

ArtifactVisible == artifact[cur][key] \in {"report", "broken", "empty"}

FindArtifact ==
  /\ At("artifacts") /\ ArtifactVisible
  /\ GoTo("download")
  /\ UNCHANGED <<row, tallies, github, db, faults>>

MissingArtifactFails ==
  /\ At("artifacts") /\ ~ArtifactVisible /\ ShouldFailMissingArtifact
  /\ CountFailed
  /\ GoTo("miss")
  /\ UNCHANGED <<row, github, db, faults>>

\* Mutated: a missing artifact is put on record like a collected one.
MissingArtifactRecorded ==
  /\ At("artifacts") /\ ~ArtifactVisible /\ ~ShouldFailMissingArtifact
  /\ recorded' = [recorded EXCEPT ![cur][key] = "miss"]
  /\ CountPending
  /\ NextRun
  /\ UNCHANGED <<workflowRuns, results, commitRows, github, faults>>

MissingArtifactPends ==
  /\ At("artifacts") /\ ~ArtifactVisible /\ ~ShouldFailMissingArtifact
  /\ CountPending
  /\ NextRun
  /\ UNCHANGED <<github, db, faults>>

RecordMiss ==
  /\ At("miss")
  /\ recorded' = [recorded EXCEPT ![cur][key] = "miss"]
  /\ NextRun
  /\ UNCHANGED <<tallies, workflowRuns, results, commitRows, github, faults>>

\* Download, unzip and parse: one GitHub call and synchronous code after it.
DownloadReport ==
  /\ At("download") /\ artifact[cur][key] = "report"
  /\ GoTo(IF NumCases > 0 THEN "insert" ELSE "commits")
  /\ row' = 1
  /\ UNCHANGED <<tallies, github, db, faults>>

\* No entry with content: the run stays open.
DownloadEmpty ==
  /\ At("download") /\ artifact[cur][key] = "empty"
  /\ CountPending
  /\ NextRun
  /\ UNCHANGED <<github, db, faults>>

\* The adapter throws, or the artifact expired since it was listed.
DownloadFails ==
  /\ At("download") /\ artifact[cur][key] \in {"broken", "expired"}
  /\ CountFailed
  /\ NextRun
  /\ UNCHANGED <<github, db, faults>>

\* insertTestResults: one INSERT per case, each with a fresh id.
MoreResults == row < NumCases

InsertResult ==
  /\ At("insert")
  /\ results' = [results EXCEPT ![cur][key][row] = @ + 1]
  /\ GoTo(IF MoreResults THEN "insert" ELSE "commits")
  /\ row' = IF MoreResults THEN row + 1 ELSE 1
  /\ UNCHANGED <<tallies, workflowRuns, recorded, commitRows, github, faults>>

\* hasCommitChanges: one row of the commit is enough.
HasCommitChanges == commitRows[Commit] # {}

CommitKnown ==
  /\ At("commits") /\ HasCommitChanges
  /\ GoTo("record")
  /\ UNCHANGED <<row, tallies, github, db, faults>>

\* getCommitFiles lists the files of the commit, or none.
CommitFromApi ==
  /\ At("commits") /\ ~HasCommitChanges
  /\ GoTo("apiRows") \/ GoTo("record")
  /\ row' = 1
  /\ UNCHANGED <<tallies, github, db, faults>>

\* collectCommitChanges in a clone that may not have the commit.
CommitFromGit ==
  /\ At("git")
  /\ \/ GoTo("record")
     \/ ~HasCommitChanges /\ GoTo("gitRows")
  /\ row' = 1
  /\ UNCHANGED <<tallies, github, db, faults>>

\* insertCommitChanges: one INSERT per file, ON CONFLICT DO NOTHING (mutated:
\* the loop stops one short).
OneFileTooFew  == row + 1 < NumFiles
MoreFiles     == row < NumFiles

InsertCommitFile ==
  /\ pc \in {"apiRows", "gitRows"}
  /\ commitRows' = [commitRows EXCEPT ![Commit] = @ \cup {row}]
  /\ GoTo(IF MoreFiles THEN pc ELSE "record")
  /\ row' = IF MoreFiles THEN row + 1 ELSE 1
  /\ UNCHANGED <<tallies, workflowRuns, results, recorded, github, faults>>

RecordArtifact ==
  /\ At("record")
  /\ recorded' = [recorded EXCEPT ![cur][key] = "collected"]
  /\ GoTo("export")
  /\ UNCHANGED <<row, tallies, workflowRuns, results, commitRows, github, faults>>

\* exportRunParquet swallows its errors; only then is the run counted.
Export ==
  /\ At("export")
  /\ collected' = collected \cup {cur}
  /\ NextRun
  /\ UNCHANGED <<pending, failed, github, db, faults>>

FinishCollect ==
  /\ At("loop") /\ listing = NoRuns
  /\ Abandon
  /\ UNCHANGED <<tallies, github, db, faults>>

-----------------------------------------------------------------------------
(* Faults.  A GitHub call that throws, a statement that throws, a process  *)
(* that dies: what each leaves behind is what the enclosing try leaves.    *)

ApiFault ==
  /\ apiFaults < MaxApiFaults
  /\ apiFaults' = apiFaults + 1
  /\ \/ At("artifacts") /\ CountFailed /\ NextRun
     \/ At("download") /\ CountFailed /\ NextRun
     \/ At("commits") /\ ~HasCommitChanges /\ GoTo("git") /\ UNCHANGED <<row, tallies>>
  /\ UNCHANGED <<github, db, interrupts>>

Interrupted == interrupts < MaxInterrupts /\ interrupts' = interrupts + 1
                 /\ UNCHANGED <<github, db, apiFaults>>

\* Caught per run: the loop goes on with the next run.
StatementFails ==
  /\ pc \in {"miss", "insert", "commits", "git", "gitRows", "record"}
  /\ CountFailed /\ NextRun
  /\ Interrupted

\* Inside the inner try: treated as if GitHub had not answered.
ApiRowFails ==
  /\ At("apiRows")
  /\ GoTo("git") /\ row' = 1 /\ UNCHANGED tallies
  /\ Interrupted

\* Killed anywhere, or a statement outside the try (hasCollectedArtifact,
\* insertWorkflowRun) threw: the whole collect is gone, its tallies with it.
Die ==
  /\ ~At("idle")
  /\ Abandon
  /\ collected' = {} /\ pending' = {} /\ failed' = [r \in Runs |-> 0]
  /\ Interrupted

-----------------------------------------------------------------------------
GitHub ==
  \/ \E r \in Runs : CreateRun(r) \/ CompleteRun(r) \/ RerunRun(r)
  \/ \E r \in Runs, k \in Keys : ShowArtifact(r, k) \/ ExpireArtifact(r, k)
  \/ AgeOut

\* What the process does of its own accord once it is started.
Advance ==
  \/ \E r \in Runs : SkipRun(r) \/ BeginRun(r)
  \/ FindArtifact \/ MissingArtifactFails \/ MissingArtifactPends \/ RecordMiss
  \/ DownloadReport \/ DownloadEmpty \/ DownloadFails \/ InsertResult
  \/ CommitKnown \/ CommitFromApi \/ CommitFromGit \/ InsertCommitFile
  \/ RecordArtifact \/ Export \/ FinishCollect

Fault == ApiFault \/ StatementFails \/ ApiRowFails \/ Die

Next == GitHub \/ (\E k \in Keys : StartCollect(k)) \/ Advance \/ Fault

Spec == Init /\ [][Next]_vars

(* A started collect runs on, and collects are scheduled for ever under     *)
(* every configured key (cron or nightly `flaker apply').                  *)
Fairness == WF_vars(Advance) /\ \A k \in Keys : SF_vars(StartCollect(k))
FairSpec == Spec /\ Fairness

-----------------------------------------------------------------------------
(* Properties.                                                             *)

Ledger == INSTANCE IngestLedger
            WITH known <- workflowRuns, rows <- results, ledger <- recorded

\* The store, seen without the process, is the ledger of IngestLedger: an entry
\* is closed once, "collected" only with every case of the report stored, and a
\* closed entry or a workflow_runs row is never written again, whatever fails
\* in between (ci.ts:216-350).
ImplementsLedger == Ledger!LedgerSpec

Whole(r, k) == \A c \in Cases : results[r][k][c] > 0
Mute(r, k)  == \A c \in Cases : results[r][k][c] = 0
Once(r, k)  == \A c \in Cases : results[r][k][c] = 1

\* collected_artifacts is the promise that a run need not be read again: what
\* it names is stored whole, under a workflow_runs row.
RecordedIsWhole ==
  \A r \in Runs, k \in Keys :
    recorded[r][k] = "collected" => Whole(r, k) /\ workflowRuns[r] # "absent"

\* As long as no statement failed and no process died, re-collecting is
\* idempotent: however often GitHub fails and collects are repeated, a recorded
\* report is stored exactly once and an open one, unless it is in hand, not at
\* all.
OnceUnlessInterrupted ==
  interrupts = 0 =>
    \A r \in Runs, k \in Keys :
      \/ Mute(r, k) /\ recorded[r][k] # "collected"
      \/ Once(r, k) /\ recorded[r][k] = "collected"
      \/ ~Closed(r, k) /\ pc \in InRun /\ <<cur, key>> = <<r, k>>

\* hasCommitChanges takes any row of a commit for all of them; without a failed
\* statement or a dead process it is right to, since a commit is then stored
\* whole or not at all (ci.ts:321-339, commit-changes.ts:15-22).
CommitWholeUnlessInterrupted ==
  interrupts = 0 /\ pc \notin {"apiRows", "gitRows"} =>
    \A s \in Commits : commitRows[s] \in {{}, Files}

\* A run is written off for want of an artifact only if some attempt of it did
\* complete without success: the listing it is judged by may be older than its
\* artifact listing, never wrong about that (ci.ts:170-174, 258-268).
MissOnlyWhenFailed ==
  \A r \in Runs, k \in Keys : recorded[r][k] = "miss" => r \in hasFailed

\* Each run is told to the user under one heading: collected, pending or failed
\* (ci.ts:361-369).  A run may be listed twice under failed, when its miss could
\* not be recorded.
OneHeading ==
  /\ collected \cap pending = {}
  /\ \A r \in collected \cup pending : failed[r] = 0

\* What a collect reports is true: every run stands under one heading, what it calls
\* pending it has left open for the next one, and what it counts as collected is on
\* record (ci.ts:270-272, 340-351).
SummaryIsTrue ==
  /\ OneHeading
  /\ \A r \in Runs :
       /\ r \in pending => ~Closed(r, key)
       /\ r \in collected => recorded[r][key] = "collected"

\* A readable artifact of a watched run is in the end collected, unless GitHub
\* drops it (expired, or the run leaves the window or the page) or the run was
\* written off as a failure before its artifact showed up (ci.ts:270-272: a run
\* without an artifact yet is left pending, so the next collect looks again).
CollectedInTheEnd ==
  \A r \in Watched, k \in Keys :
    artifact[r][k] = "report" ~>
      \/ recorded[r][k] = "collected"
      \/ recorded[r][k] = "miss" /\ r \in hasFailed
      \/ artifact[r][k] = "expired"
      \/ r \notin Listed

=============================================================================
