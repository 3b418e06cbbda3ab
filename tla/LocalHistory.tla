------------------------------ MODULE LocalHistory ------------------------------
(***************************************************************************)
(* The history of local runs on several machines: recordLocalRun           *)
(* (commands/exec/record-local-run.ts) writes a run into the store of its  *)
(* machine and mirrors it as parquet files, and `flaker import parquet`    *)
(* (storage/duckdb.ts, importFromParquetDir) reads the files of a machine  *)
(* into the store of another.                                              *)
(*                                                                         *)
(* Run ids are the milliseconds of a clock, result ids come from a         *)
(* sequence of each store.  DuckDB locks the file: one process per store.  *)
(* Every statement commits by itself, and a process may be killed between  *)
(* any two.  The sequence of sampling_runs is left out: every caller of    *)
(* recordSamplingRun brings an id.  Rows of commits and artifacts have no  *)
(* ids of their own and are left out as well.                              *)
(***************************************************************************)
EXTENDS Integers, FiniteSets

CONSTANTS
  Machines,
  MaxClock,     \* bound: the last instant of every clock
  MaxCases,     \* bound: results of one run
  Sizes,        \* bound: pairs of numbers of results and of sampled tests
  MaxRuns,      \* bound: no run starts when as many are recorded
  MaxProcesses, \* bound: machines at work at the same time
  MaxDeaths     \* bound: processes that are killed

ASSUME HistoryAssumption ==
  /\ MaxClock \in Nat /\ MaxCases \in Nat /\ MaxRuns \in Nat /\ MaxProcesses \in Nat /\ MaxDeaths \in Nat
  /\ Sizes \subseteq (0 .. MaxCases) \X (0 .. MaxCases)

VARIABLES
  store,        \* the tables of each machine
  seq,          \* test_results_id_seq: what nextval returns, NoSequence when dropped
  dir,          \* the parquet files beside each store
  proc,         \* the process that has the store open
  deaths,
  made,         \* history variable: the ids of the runs each machine has recorded
  imported,     \* history variable: the files each machine has read
  interrupted   \* history variable: the last import did not reach its end

vars == <<store, seq, dir, proc, deaths, made, imported, interrupted>>
ghosts == <<made, imported, interrupted>>

Instants   == 1 .. MaxClock
NoSequence == 0

\* Rows.  A result and a sampled test know where they come from: the run `run' of
\* the machine `at', and their place n in it.
RunRows      == [id : Instants, at : Machines]
ResultRows   == [id : Nat \ {0}, run : Instants, at : Machines, n : 1 .. MaxCases]
SamplingRows == [id : Instants, at : Machines, cases : 0 .. MaxCases]
TestRows     == [run : Instants, at : Machines, n : 1 .. MaxCases]

Tables == {"runs", "results", "samplings", "tests"}
Stores == [runs : SUBSET RunRows, results : SUBSET ResultRows,
           samplings : SUBSET SamplingRows, tests : SUBSET TestRows]
NoRows == [runs |-> {}, results |-> {}, samplings |-> {}, tests |-> {}]

\* A parquet file: rows of one table, of the run it is named for.
RowsOf(table) == CASE table = "runs" -> RunRows       [] table = "results" -> ResultRows
                   [] table = "samplings" -> SamplingRows [] table = "tests" -> TestRows
FilesOf(table) == [table : {table}, run : Instants, at : Machines, rows : SUBSET RowsOf(table)]
Files == FilesOf("runs") \cup FilesOf("results") \cup FilesOf("samplings") \cup FilesOf("tests")

Procs == [pc : {"idle", "run", "results", "tests", "export", "import", "create"},
          id : Instants \cup {0}, cases : 0 .. MaxCases, tests : 0 .. MaxCases,
          done : 0 .. MaxCases + 4, next : Nat, files : SUBSET Files]
Idle == [pc |-> "idle", id |-> 0, cases |-> 0, tests |-> 0, done |-> 0, next |-> 0, files |-> {}]

\* Type invariant: tables, files and processes hold rows of their kinds, and a
\* sequence is a number.
TypeOK ==
  /\ store \in [Machines -> Stores]
  /\ seq \in [Machines -> Nat]
  /\ dir \in [Machines -> SUBSET Files]
  /\ proc \in [Machines -> Procs]
  /\ deaths \in 0 .. MaxDeaths
  /\ made \in [Machines -> SUBSET Instants]
  /\ imported \in [Machines -> SUBSET Files]
  /\ interrupted \in [Machines -> BOOLEAN]

Init ==
  /\ store = [m \in Machines |-> NoRows]
  /\ seq = [m \in Machines |-> NoSequence]
  /\ dir = [m \in Machines |-> {}]
  /\ proc = [m \in Machines |-> Idle]
  /\ deaths = 0
  /\ made = [m \in Machines |-> {}]
  /\ imported = [m \in Machines |-> {}]
  /\ interrupted = [m \in Machines |-> FALSE]

-----------------------------------------------------------------------------
At(m, pc)      == proc[m].pc = pc
Become(m, p)   == proc' = [proc EXCEPT ![m] = p]
Go(m, pc)      == Become(m, [proc[m] EXCEPT !.pc = pc, !.done = 0])
OneMore(m)     == Become(m, [proc[m] EXCEPT !.done = @ + 1])

\* Every open creates the sequence if there is none, and starts it at 1.
Opened(m) == IF seq[m] = NoSequence THEN 1 ELSE seq[m]

\* The lock of the store is free.
Launch(m) == At(m, "idle") /\ Cardinality({o \in Machines : ~At(o, "idle")}) < MaxProcesses

\* The tests were run, the process takes Date.now() for an id.  A run takes longer than
\* a millisecond, so the id is new on its machine; clocks of two machines need not agree.
StartLocalRun(m) ==
  /\ Launch(m) /\ Cardinality({r \in Machines \X Instants : r[2] \in made[r[1]]}) < MaxRuns
  /\ \E now \in Instants, size \in Sizes :
       /\ \A id \in made[m] : id < now
       /\ Become(m, [Idle EXCEPT !.pc = "run", !.id = now, !.cases = size[1], !.tests = size[2]])
  /\ seq' = [seq EXCEPT ![m] = Opened(m)]
  /\ UNCHANGED <<store, dir, deaths, ghosts>>

\* ON CONFLICT (id) DO NOTHING
InsertWorkflowRun(m) ==
  /\ At(m, "run") /\ Go(m, "results")
  /\ store' = IF \E r \in store[m].runs : r.id = proc[m].id THEN store
              ELSE [store EXCEPT ![m].runs = @ \cup {[id |-> proc[m].id, at |-> m]}]
  /\ made' = [made EXCEPT ![m] = @ \cup {proc[m].id}]
  /\ UNCHANGED <<seq, dir, deaths, imported, interrupted>>

NextVal(m) == seq' = [seq EXCEPT ![m] = @ + 1]

\* The loop over the results.
MoreCases(m) == proc[m].done < proc[m].cases

InsertTestResult(m) ==
  /\ At(m, "results") /\ MoreCases(m)
  /\ ~ \E r \in store[m].results : r.id = seq[m]
  /\ store' = [store EXCEPT ![m].results = @ \cup
       {[id |-> seq[m], run |-> proc[m].id, at |-> m, n |-> proc[m].done + 1]}]
  /\ NextVal(m) /\ OneMore(m)
  /\ UNCHANGED <<dir, deaths, ghosts>>

\* The id is taken: the insert fails, and the recording with it.
RefuseTestResult(m) ==
  /\ At(m, "results") /\ MoreCases(m)
  /\ \E r \in store[m].results : r.id = seq[m]
  /\ NextVal(m) /\ Become(m, Idle)
  /\ UNCHANGED <<store, dir, deaths, ghosts>>

\* When the sampling run is recorded: after all results (mutated: at once).
AnyTime(m)        == TRUE
ResultsStored(m)  == proc[m].done = proc[m].cases

RecordSamplingRun(m) ==
  /\ At(m, "results") /\ ResultsStored(m)
  /\ IF \E s \in store[m].samplings : s.id = proc[m].id
       THEN Become(m, Idle) /\ UNCHANGED store
       ELSE /\ Go(m, "tests")
            /\ store' = [store EXCEPT ![m].samplings = @ \cup
                 {[id |-> proc[m].id, at |-> m, cases |-> proc[m].cases]}]
  /\ UNCHANGED <<seq, dir, deaths, ghosts>>

RecordSamplingRunTest(m) ==
  /\ At(m, "tests") /\ proc[m].done < proc[m].tests
  /\ store' = [store EXCEPT ![m].tests = @ \cup
       {[run |-> proc[m].id, at |-> m, n |-> proc[m].done + 1]}]
  /\ OneMore(m)
  /\ UNCHANGED <<seq, dir, deaths, ghosts>>

StartExport(m) ==
  /\ At(m, "tests") /\ proc[m].done = proc[m].tests
  /\ Go(m, "export")
  /\ UNCHANGED <<store, seq, dir, deaths, ghosts>>

-----------------------------------------------------------------------------
(* exportRunToParquet: one COPY for each table.                            *)

ExportOrder == <<"runs", "results", "samplings", "tests">>

Selected(m, table, run) ==
  IF table \in {"runs", "samplings"} THEN {r \in store[m][table] : r.id = run}
                                     ELSE {r \in store[m][table] : r.run = run}

ExportFile(m) ==
  /\ At(m, "export") /\ proc[m].done < 4
  /\ LET table == ExportOrder[proc[m].done + 1] IN
     dir' = [dir EXCEPT ![m] = @ \cup
       {[table |-> table, run |-> proc[m].id, at |-> m, rows |-> Selected(m, table, proc[m].id)]}]
  /\ OneMore(m)
  /\ UNCHANGED <<store, seq, deaths, ghosts>>

\* All files are written, or one failed: that is only a warning.
EndExport(m) ==
  /\ At(m, "export") /\ Become(m, Idle)
  /\ UNCHANGED <<store, seq, dir, deaths, ghosts>>

-----------------------------------------------------------------------------
(* importFromParquetDir                                                    *)

\* The directory is read once (a copy of it, when it is another machine's).
StartImport(m, o) ==
  /\ Launch(m)
  /\ Become(m, [Idle EXCEPT !.pc = "import", !.files = dir[o]])
  /\ seq' = [seq EXCEPT ![m] = Opened(m)]
  /\ UNCHANGED <<store, dir, deaths, ghosts>>

\* priorityOrder
Priority(table) == CASE table = "runs" -> 0 [] table = "samplings" -> 1
                     [] table = "results" -> 4 [] table = "tests" -> 5

Key(table, row) == IF table = "tests" THEN <<row.run, row.n>> ELSE <<row.id>>

\* INSERT OR IGNORE of rows: those whose key is not in the table (mutated: those of
\* runs that are not known).
OfNewRuns(m, f) ==
  {row \in f.rows : f.table = "results" => \A r \in store[m].runs : r.id # row.run}
Fresh(m, f) ==
  {row \in f.rows : \A old \in store[m][f.table] : Key(f.table, old) # Key(f.table, row)}

NextFile(m, f) ==
  /\ At(m, "import") /\ f \in proc[m].files
  /\ \A g \in proc[m].files : Priority(f.table) <= Priority(g.table)

\* One statement.  Foreign keys could fail it: see ReferencesHold.
ImportFile(m, f) ==
  /\ NextFile(m, f)
  /\ store' = [store EXCEPT ![m][f.table] = @ \cup Fresh(m, f)]
  /\ Become(m, [proc[m] EXCEPT !.files = @ \ {f}])
  /\ imported' = [imported EXCEPT ![m] = @ \cup {f}]
  /\ UNCHANGED <<seq, dir, deaths, made, interrupted>>

\* syncSequenceWithTable reads the maximum, ... (mutated: of the rows of this machine)
Ids(m)            == {r.id : r \in store[m].results}
OwnIds(m)         == {r.id : r \in {s \in store[m].results : s.at = m}}
IsNextOfOwn(m, n) == n - 1 \in OwnIds(m) \cup {0} /\ \A i \in OwnIds(m) : i < n
IsNext(m, n)      == n - 1 \in Ids(m) \cup {0} /\ \A i \in Ids(m) : i < n

\* ... drops the sequence, ...
DropSequence(m) ==
  /\ At(m, "import") /\ proc[m].files = {}
  /\ \E n \in {1} \cup {i + 1 : i \in Ids(m)} :
       IsNext(m, n) /\ Become(m, [proc[m] EXCEPT !.pc = "create", !.next = n])
  /\ seq' = [seq EXCEPT ![m] = NoSequence]
  /\ UNCHANGED <<store, dir, deaths, ghosts>>

\* ... and creates it again.
CreateSequence(m) ==
  /\ At(m, "create")
  /\ seq' = [seq EXCEPT ![m] = proc[m].next]
  /\ Become(m, Idle)
  /\ interrupted' = [interrupted EXCEPT ![m] = FALSE]
  /\ UNCHANGED <<store, dir, deaths, made, imported>>

Die(m) ==
  /\ ~At(m, "idle") /\ deaths < MaxDeaths
  /\ deaths' = deaths + 1
  /\ interrupted' = [interrupted EXCEPT ![m] = @ \/ At(m, "import") \/ At(m, "create")]
  /\ Become(m, Idle)
  /\ UNCHANGED <<store, seq, dir, made, imported>>

LocalRun(m) ==
  \/ StartLocalRun(m) \/ InsertWorkflowRun(m)
  \/ InsertTestResult(m) \/ RefuseTestResult(m)
  \/ RecordSamplingRun(m) \/ RecordSamplingRunTest(m)
  \/ StartExport(m) \/ ExportFile(m) \/ EndExport(m)

Import(m) ==
  \/ \E o \in Machines : StartImport(m, o)
  \/ \E f \in proc[m].files : ImportFile(m, f)
  \/ DropSequence(m) \/ CreateSequence(m)

Next == \E m \in Machines : LocalRun(m) \/ Import(m) \/ Die(m)

Spec == Init /\ [][Next]_vars

-----------------------------------------------------------------------------
(* Properties.                                                             *)

Importing(m) == At(m, "import") \/ At(m, "create")

\* "syncs sequences after import so later inserts do not collide"
\* (export-import.test.ts:186): unless the last import was cut short, the next result
\* id is ahead of every id in the table, so recording a run is never refused.
IdsAhead ==
  \A m \in Machines : ~Importing(m) /\ ~interrupted[m] =>
    \A r \in store[m].results : r.id < Opened(m)

\* No import fails on a foreign key, whatever an export that died has left in the
\* directory: the files come in an order in which every row finds its parent.
ReferencesHold ==
  \A m \in Machines : \A f \in proc[m].files : NextFile(m, f) =>
    \A row \in Fresh(m, f) :
      /\ f.table = "results" => \E r \in store[m].runs : r.id = row.run
      /\ f.table = "tests" => \E s \in store[m].samplings : s.id = row.run

\* No insert, of an import or of a recording after it, is refused by the store.
StoreAcceptsRows == IdsAhead /\ ReferencesHold

\* What was run of a sample can be compared with what was selected: a sampling run is
\* on record, in the store or in a file, only with all results of its run.
SampledRunIsWhole ==
  \A m \in Machines :
    /\ \A s \in store[m].samplings : s.at = m =>
         \A n \in 1 .. s.cases : \E r \in store[m].results : r.at = m /\ r.run = s.id /\ r.n = n
    /\ \A f \in dir[m] : f.table = "samplings" => \A s \in f.rows : s.at = m =>
         \A n \in 1 .. s.cases :
           \E g \in dir[m] : g.table = "results" /\ \E r \in g.rows : r.at = m /\ r.run = s.id /\ r.n = n

\* "round-trips data through Parquet export/import" (export-import.test.ts:101): a
\* machine that records no runs of its own and reads the files of one other has every
\* row of every file it has read, however often it reads them and whatever dies.
MirrorIsFaithful ==
  \A m, o \in Machines :
    made[m] = {} /\ (\A f \in imported[m] : f.at = o) =>
      \A f \in imported[m] : f.rows \subseteq store[m][f.table]
=============================================================================
