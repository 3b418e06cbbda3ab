-------------------------------- MODULE StoreProofs --------------------------------
(***************************************************************************)
(* Proofs about what enters the metric store and what leaves it: first of  *)
(* LocalHistory, then of Prune.                                            *)
(*                                                                         *)
(* LocalHistory, for any number of machines that record and import side by *)
(* side: stores and directories only grow; what a process has already done *)
(* is in its store; and a row has one key in all of them, so that a row    *)
(* which is refused for its key is there already.                          *)
(*                                                                         *)
(* Prune, for every number of rows, every retention and every window:      *)
(* PruneInv says what is left to do after each transaction.  The targets   *)
(* selected in the first are still exactly the old rows when the second    *)
(* deletes the parents, because nobody writes in between.                  *)
(***************************************************************************)
EXTENDS LocalHistory, Prune, TLAPS

Recording == {"run", "results", "tests", "export"}

\* The run and the sampling run with an id are among the rows.
HasRun(known, id)      == \E r \in known : r.id = id
HasSampling(known, id) == \E s \in known : s.id = id

\* A result of the n-th test of the run of a machine.
IsResult(r, m, run, n) == r.at = m /\ r.run = run /\ r.n = n

\* Every sampled test of s has a result.
Complete(known, m, s) == \A n \in 1 .. s.cases : \E r \in known : IsResult(r, m, s.id, n)
CompleteFiles(files, m, s) ==
  \A n \in 1 .. s.cases :
    \E g \in files : g.table = "results" /\ \E r \in g.rows : IsResult(r, m, s.id, n)

\* Ids are numbers: the sequence is there while it is used, and ahead of the table.
SeqInv(m) ==
  /\ proc[m].pc \in Recording => proc[m].id \in Instants /\ seq[m] # NoSequence
  /\ proc[m].pc = "create" => \A r \in store[m].results : r.id < proc[m].next
  /\ ~Importing(m) /\ ~interrupted[m] => \A r \in store[m].results : r.id < Opened(m)

\* In a table a key has one row.
KeysInv(m) ==
  \A t \in Tables : \A r1, r2 \in store[m][t] : Key(t, r1) = Key(t, r2) => r1 = r2

\* A sampled test has its sampling run, and one of this machine has its results.
StoreInv(m) ==
  /\ \A row \in store[m].tests : HasSampling(store[m].samplings, row.run)
  /\ \A s \in store[m].samplings : s.at = m => Complete(store[m].results, m, s)

\* How far the recording is.
RunInv(m) ==
  /\ proc[m].pc \in {"results", "tests", "export"} =>
       HasRun(store[m].runs, proc[m].id) /\ made[m] # {}
  /\ proc[m].pc = "results" =>
       \A n \in 1 .. proc[m].done : \E r \in store[m].results : IsResult(r, m, proc[m].id, n)
  /\ proc[m].pc \in {"tests", "export"} =>
       /\ HasSampling(store[m].samplings, proc[m].id)
       /\ \A s \in store[m].samplings : s.id = proc[m].id => s.at = m
       /\ \A row \in store[m].tests : row.run = proc[m].id => row.at = m

\* Which files of the run are written.
ExportInv(m) ==
  proc[m].pc = "export" =>
    /\ proc[m].done >= 1 =>
         \E g \in dir[m] : g.table = "runs" /\ HasRun(g.rows, proc[m].id)
    /\ proc[m].done >= 2 =>
         \A s \in store[m].samplings : s.id = proc[m].id => CompleteFiles(dir[m], m, s)
    /\ proc[m].done >= 3 =>
         \E g \in dir[m] : g.table = "samplings" /\ HasSampling(g.rows, proc[m].id)

\* Rows of a file are rows of the machine that wrote it, and sampling runs are its own.
Genuine(f) ==
  /\ f.rows \subseteq store[f.at][f.table]
  /\ f.table = "samplings" => \A s \in f.rows : s.at = f.at

\* The row that each row of a file refers to is among the rows, or in another file.
Referred(f, known, samplings, files) ==
  \A row \in f.rows :
    /\ f.table = "results" =>
         HasRun(known, row.run) \/ \E g \in files : g.table = "runs" /\ HasRun(g.rows, row.run)
    /\ f.table = "tests" =>
         \/ HasSampling(samplings, row.run)
         \/ \E g \in files : g.table = "samplings" /\ HasSampling(g.rows, row.run)

\* The directory is closed under references, and its sampling runs are whole.
DirInv(m) ==
  \A f \in dir[m] :
    /\ f.at = m /\ Genuine(f) /\ Referred(f, {}, {}, dir[m])
    /\ f.table = "samplings" => \A s \in f.rows : CompleteFiles(dir[m], m, s)

\* What is left to import.
ImportInv(m) ==
  /\ proc[m].pc # "import" => proc[m].files = {}
  /\ \A f \in proc[m].files :
       Genuine(f) /\ Referred(f, store[m].runs, store[m].samplings, proc[m].files)

\* Of a file that was imported every key is in the store.
Arrived(m, f) ==
  \A row \in f.rows : \E old \in store[m][f.table] : Key(f.table, old) = Key(f.table, row)

\* What was imported has arrived; and where the rows of a machine come
\* from that records nothing.
MirrorInv(m) ==
  /\ \A f \in imported[m] : Genuine(f) /\ Arrived(m, f)
  /\ made[m] = {} =>
       \A t \in Tables : \A row \in store[m][t] :
         \E f \in imported[m] : f.table = t /\ row \in f.rows

HistoryInv(m) ==
  /\ SeqInv(m) /\ KeysInv(m) /\ StoreInv(m) /\ RunInv(m) /\ ExportInv(m)
  /\ DirInv(m) /\ ImportInv(m) /\ MirrorInv(m)

\* The inductive invariant.
Inv == TypeOK /\ \A m \in Machines : HistoryInv(m)
-----------------------------------------------------------------------------
(* Lemmas about stores and processes.                                      *)

LEMMA StoreRows ==
  ASSUME NEW s \in Stores, NEW t \in Tables
  PROVE  s[t] \subseteq RowsOf(t)
  BY DEF Stores, Tables, RowsOf

\* Rows are added to one table of one machine.
LEMMA AddRows ==
  ASSUME NEW m \in Machines, NEW t \in Tables, NEW X \in SUBSET RowsOf(t),
         store \in [Machines -> Stores],
         store' = [store EXCEPT ![m][t] = @ \cup X]
  PROVE  /\ store' \in [Machines -> Stores]
         /\ \A o \in Machines \ {m} : store'[o] = store[o]
         /\ store'[m][t] = store[m][t] \cup X
         /\ \A u \in Tables \ {t} : store'[m][u] = store[m][u]
  <1>1. store[m][t] \cup X \subseteq RowsOf(t)
    BY StoreRows
  <1>2. [store[m] EXCEPT ![t] = @ \cup X] \in Stores
    BY <1>1 DEF Stores, Tables, RowsOf
  <1> QED  BY <1>2 DEF Stores, Tables

LEMMA FileFields ==
  ASSUME NEW f \in Files
  PROVE  f.table \in Tables /\ f.at \in Machines /\ f.run \in Instants /\ f.rows \subseteq RowsOf(f.table)
  BY DEF Files, FilesOf, Tables, RowsOf

LEMMA IdleProc == HistoryAssumption => Idle \in Procs
  BY DEF Idle, Procs, HistoryAssumption

LEMMA GoProc ==
  ASSUME HistoryAssumption, NEW p \in Procs, NEW step \in {"results", "tests", "export"}
  PROVE  [p EXCEPT !.pc = step, !.done = 0] \in Procs
  <1>1. 0 \in 0 .. MaxCases + 4
    BY DEF HistoryAssumption
  <1> QED  BY <1>1 DEF Procs

LEMMA MoreProc ==
  ASSUME HistoryAssumption, NEW p \in Procs,
         p.pc \in {"results", "tests"} => p.done < MaxCases,
         p.pc = "export" => p.done < 4,
         p.pc \in Recording \ {"run"}
  PROVE  /\ p.done \in Nat /\ (p.pc # "export" => p.done + 1 \in 1 .. MaxCases)
         /\ [p EXCEPT !.done = @ + 1] \in Procs
  <1>1. p.done \in 0 .. MaxCases + 4
    BY DEF Procs
  <1>2. p.done + 1 \in 0 .. MaxCases + 4
    BY <1>1 DEF HistoryAssumption, Recording
  <1> QED  BY <1>1, <1>2 DEF Procs, HistoryAssumption, Recording

LEMMA NextProc ==
  ASSUME NEW p \in Procs, NEW n \in Nat
  PROVE  [p EXCEPT !.pc = "create", !.next = n] \in Procs
  BY DEF Procs

\* What becomes of a process.
LEMMA Going ==
  ASSUME proc \in [Machines -> Procs], NEW m \in Machines, NEW step, Go(m, step)
  PROVE  /\ proc'[m].pc = step /\ proc'[m].done = 0
         /\ proc'[m].id = proc[m].id /\ proc'[m].cases = proc[m].cases /\ proc'[m].tests = proc[m].tests
         /\ proc'[m].next = proc[m].next /\ proc'[m].files = proc[m].files
  BY DEF Go, Become, Procs

\* A process that goes on keeps what it is doing, one further.
LEMMA GoingOn ==
  ASSUME proc \in [Machines -> Procs], NEW m \in Machines, OneMore(m)
  PROVE  /\ proc'[m].pc = proc[m].pc /\ proc'[m].done = proc[m].done + 1
         /\ proc'[m].id = proc[m].id /\ proc'[m].cases = proc[m].cases /\ proc'[m].tests = proc[m].tests
         /\ proc'[m].next = proc[m].next /\ proc'[m].files = proc[m].files
  BY DEF OneMore, Become, Procs

\* A process that ends, however, has nothing in hand.
LEMMA Stopping ==
  ASSUME proc \in [Machines -> Procs], NEW m \in Machines, Become(m, Idle)
  PROVE  proc'[m].pc = "idle" /\ proc'[m].done = 0 /\ proc'[m].files = {}
  BY DEF Become, Idle

-----------------------------------------------------------------------------
(* Types.                                                                  *)

LEMMA TypeInv == HistoryAssumption /\ Inv /\ [Next]_vars => TypeOK'
  <1> SUFFICES ASSUME HistoryAssumption, Inv, [Next]_vars PROVE TypeOK'
    OBVIOUS
  <1> USE DEF HistoryAssumption, Inv, TypeOK, ghosts, Become, At
  <1>id. \A m \in Machines : proc[m].pc \in Recording => proc[m].id \in Instants /\ seq[m] \in Nat \ {0}
    BY DEF HistoryInv, SeqInv, NoSequence
  <1>opened. \A m \in Machines : Opened(m) \in Nat
    BY DEF Opened
  <1>1. ASSUME NEW m \in Machines, StartLocalRun(m) PROVE TypeOK'
    <2>1. PICK now \in Instants, size \in Sizes :
            Become(m, [Idle EXCEPT !.pc = "run", !.id = now, !.cases = size[1], !.tests = size[2]])
      BY <1>1 DEF StartLocalRun
    <2>2. size[1] \in 0 .. MaxCases /\ size[2] \in 0 .. MaxCases
      OBVIOUS
    <2>3. [Idle EXCEPT !.pc = "run", !.id = now, !.cases = size[1], !.tests = size[2]] \in Procs
      BY <2>2, IdleProc DEF Procs
    <2> QED  BY <1>1, <1>opened, <2>1, <2>3 DEF StartLocalRun
  <1>2. ASSUME NEW m \in Machines, InsertWorkflowRun(m) PROVE TypeOK'
    <2>1. proc[m].id \in Instants
      BY <1>id, <1>2 DEF InsertWorkflowRun, Recording
    <2>2. [proc[m] EXCEPT !.pc = "results", !.done = 0] \in Procs
      BY GoProc
    <2>3. {[id |-> proc[m].id, at |-> m]} \in SUBSET RowsOf("runs")
      BY <2>1 DEF RowsOf, RunRows
    <2>4. store' \in [Machines -> Stores]
      BY <1>2, <2>3, AddRows DEF InsertWorkflowRun, Tables
    <2> QED  BY <1>2, <2>1, <2>2, <2>4 DEF InsertWorkflowRun, Go
  <1>3. ASSUME NEW m \in Machines, InsertTestResult(m) PROVE TypeOK'
    <2>1. proc[m].id \in Instants /\ seq[m] \in Nat \ {0} /\ proc[m].done + 1 \in 1 .. MaxCases
      BY <1>id, <1>3 DEF InsertTestResult, Recording, MoreCases, Procs
    <2>2. [proc[m] EXCEPT !.done = @ + 1] \in Procs
      <3>1. proc[m] \in Procs /\ proc[m].pc = "results" /\ proc[m].done < MaxCases
        BY <1>3 DEF InsertTestResult, MoreCases, Procs
      <3> QED  BY <3>1, MoreProc DEF Recording
    <2>3. {[id |-> seq[m], run |-> proc[m].id, at |-> m, n |-> proc[m].done + 1]} \in SUBSET RowsOf("results")
      BY <2>1 DEF RowsOf, ResultRows
    <2>4. store' \in [Machines -> Stores]
      BY <1>3, <2>3, AddRows DEF InsertTestResult, Tables
    <2> QED  BY <1>3, <2>2, <2>4 DEF InsertTestResult, NextVal, OneMore
  <1>4. ASSUME NEW m \in Machines, RefuseTestResult(m) PROVE TypeOK'
    BY <1>4, IdleProc DEF RefuseTestResult, NextVal
  <1>5. ASSUME NEW m \in Machines, RecordSamplingRun(m) PROVE TypeOK'
    <2>1. proc[m].id \in Instants /\ proc[m].cases \in 0 .. MaxCases
      BY <1>id, <1>5 DEF RecordSamplingRun, Recording, Procs
    <2>2. [proc[m] EXCEPT !.pc = "tests", !.done = 0] \in Procs
      BY GoProc
    <2>3. {[id |-> proc[m].id, at |-> m, cases |-> proc[m].cases]} \in SUBSET RowsOf("samplings")
      BY <2>1 DEF RowsOf, SamplingRows
    <2>4. store' \in [Machines -> Stores]
      BY <1>5, <2>3, AddRows DEF RecordSamplingRun, Tables
    <2> QED  BY <1>5, <2>2, <2>4, IdleProc DEF RecordSamplingRun, Go
  <1>6. ASSUME NEW m \in Machines, RecordSamplingRunTest(m) PROVE TypeOK'
    <2>1. proc[m].id \in Instants /\ proc[m].done + 1 \in 1 .. MaxCases
      BY <1>id, <1>6 DEF RecordSamplingRunTest, Recording, Procs
    <2>2. [proc[m] EXCEPT !.done = @ + 1] \in Procs
      <3>1. proc[m] \in Procs /\ proc[m].pc = "tests" /\ proc[m].done < MaxCases
        BY <1>6 DEF RecordSamplingRunTest, Procs
      <3> QED  BY <3>1, MoreProc DEF Recording
    <2>3. {[run |-> proc[m].id, at |-> m, n |-> proc[m].done + 1]} \in SUBSET RowsOf("tests")
      BY <2>1 DEF RowsOf, TestRows
    <2>4. store' \in [Machines -> Stores]
      BY <1>6, <2>3, AddRows DEF RecordSamplingRunTest, Tables
    <2> QED  BY <1>6, <2>2, <2>4 DEF RecordSamplingRunTest, OneMore
  <1>7. ASSUME NEW m \in Machines, StartExport(m) PROVE TypeOK'
    BY <1>7, GoProc DEF StartExport, Go
  <1>8. ASSUME NEW m \in Machines, ExportFile(m) PROVE TypeOK'
    <2> DEFINE table == ExportOrder[proc[m].done + 1]
               file  == [table |-> table, run |-> proc[m].id, at |-> m, rows |-> Selected(m, table, proc[m].id)]
    <2>1. proc[m].id \in Instants
      BY <1>id, <1>8 DEF ExportFile, Recording
    <2>more. proc[m].done \in 0 .. 3 /\ [proc[m] EXCEPT !.done = @ + 1] \in Procs
      BY <1>8, MoreProc DEF ExportFile, Recording
    <2>2. table \in Tables
      BY <2>more DEF ExportOrder, Tables
    <2>3. Selected(m, table, proc[m].id) \subseteq RowsOf(table)
      BY <2>2, StoreRows DEF Selected
    <2>4. file \in Files
      <3> HIDE DEF table
      <3>1. file \in FilesOf(table)
        BY <2>1, <2>3 DEF FilesOf
      <3> QED  BY <2>2, <3>1 DEF Files, Tables
    <2> QED  BY <1>8, <2>4, <2>more DEF ExportFile, OneMore
  <1>9. ASSUME NEW m \in Machines, EndExport(m) PROVE TypeOK'
    BY <1>9, IdleProc DEF EndExport
  <1>10. ASSUME NEW m \in Machines, NEW o \in Machines, StartImport(m, o) PROVE TypeOK'
    <2>1. [Idle EXCEPT !.pc = "import", !.files = dir[o]] \in Procs
      BY IdleProc DEF Procs
    <2> QED  BY <1>10, <1>opened, <2>1 DEF StartImport
  <1>11. ASSUME NEW m \in Machines, NEW f \in proc[m].files, ImportFile(m, f) PROVE TypeOK'
    <2>1. f \in Files
      BY DEF Procs
    <2>2. [proc[m] EXCEPT !.files = @ \ {f}] \in Procs
      BY DEF Procs
    <2>3. Fresh(m, f) \in SUBSET RowsOf(f.table) /\ f.table \in Tables
      BY <2>1, FileFields DEF Fresh
    <2>4. store' \in [Machines -> Stores]
      BY <1>11, <2>3, AddRows DEF ImportFile
    <2> QED  BY <1>11, <2>1, <2>2, <2>4 DEF ImportFile
  <1>12. ASSUME NEW m \in Machines, DropSequence(m) PROVE TypeOK'
    <2>1. PICK n \in {1} \cup {i + 1 : i \in Ids(m)} :
            Become(m, [proc[m] EXCEPT !.pc = "create", !.next = n])
      BY <1>12 DEF DropSequence
    <2>2. n \in Nat
      BY <2>1 DEF Ids, Stores, ResultRows
    <2>3. [proc[m] EXCEPT !.pc = "create", !.next = n] \in Procs
      BY <2>2, NextProc
    <2> QED  BY <1>12, <2>1, <2>3 DEF DropSequence, NoSequence
  <1>13. ASSUME NEW m \in Machines, CreateSequence(m) PROVE TypeOK'
    <2>1. proc[m].next \in Nat
      BY DEF Procs
    <2> QED  BY <1>13, <2>1, IdleProc DEF CreateSequence
  <1>14. ASSUME NEW m \in Machines, Die(m) PROVE TypeOK'
    BY <1>14, IdleProc DEF Die
  <1>15. CASE UNCHANGED vars
    BY <1>15 DEF vars
  <1> QED
    BY <1>1, <1>2, <1>3, <1>4, <1>5, <1>6, <1>7, <1>8, <1>9, <1>10, <1>11, <1>12, <1>13, <1>14, <1>15
    DEF Next, LocalRun, Import

-----------------------------------------------------------------------------
(* What a step of a machine does to the others, and to what is recorded.   *)

\* A step of m leaves the other machines alone.
Elsewhere(m) ==
  \A o \in Machines \ {m} :
    /\ store'[o] = store[o] /\ seq'[o] = seq[o] /\ dir'[o] = dir[o] /\ proc'[o] = proc[o]
    /\ made'[o] = made[o] /\ imported'[o] = imported[o] /\ interrupted'[o] = interrupted[o]

\* X is added to table t of m, and nothing else is changed in any store.
Adds(m, t, X) ==
  /\ \A o \in Machines \ {m} : store'[o] = store[o]
  /\ store'[m][t] = store[m][t] \cup X
  /\ \A u \in Tables \ {t} : store'[m][u] = store[m][u]

LEMMA RowsAdd ==
  ASSUME Inv, NEW m \in Machines, NEW t \in Tables, NEW X \in SUBSET RowsOf(t),
         store' = [store EXCEPT ![m][t] = @ \cup X]
  PROVE  Adds(m, t, X)
  <1>1. store \in [Machines -> Stores]
    BY DEF Inv, TypeOK
  <1>2. /\ \A o \in Machines \ {m} : store'[o] = store[o]
        /\ store'[m][t] = store[m][t] \cup X
        /\ \A u \in Tables \ {t} : store'[m][u] = store[m][u]
    BY <1>1, AddRows, Zenon
  <1> QED  BY <1>2 DEF Adds

\* Nothing is forgotten.
Grows ==
  \A o \in Machines :
    /\ \A t \in Tables : store[o][t] \subseteq store'[o][t]
    /\ dir[o] \subseteq dir'[o] /\ imported[o] \subseteq imported'[o] /\ made[o] \subseteq made'[o]

\* The statements of a recording or an import, by the rows they add to one table.
LEMMA RunAdds ==
  ASSUME Inv, NEW m \in Machines, InsertWorkflowRun(m)
  PROVE  \E X : /\ Adds(m, "runs", X) /\ \A r \in X : r = [id |-> proc[m].id, at |-> m]
                /\ X = {} <=> HasRun(store[m].runs, proc[m].id)
  <1>1. proc[m].id \in Instants
    BY DEF Inv, HistoryInv, SeqInv, InsertWorkflowRun, At, Recording
  <1>2. CASE HasRun(store[m].runs, proc[m].id)
    <2>1. store' = store
      BY <1>2 DEF InsertWorkflowRun, HasRun
    <2> QED  BY <1>2, <2>1 DEF Adds, Tables
  <1>3. CASE ~HasRun(store[m].runs, proc[m].id)
    <2> DEFINE X == {[id |-> proc[m].id, at |-> m]}
    <2>1. X \in SUBSET RowsOf("runs")
      BY <1>1 DEF RowsOf, RunRows
    <2>2. store' = [store EXCEPT ![m].runs = @ \cup X]
      BY <1>3 DEF InsertWorkflowRun, HasRun
    <2>3. Adds(m, "runs", X)
      BY <2>1, <2>2, RowsAdd DEF Tables
    <2> QED  BY <1>3, <2>3
  <1> QED  BY <1>2, <1>3

LEMMA ResultAdds ==
  ASSUME Inv, NEW m \in Machines, InsertTestResult(m)
  PROVE  Adds(m, "results", {[id |-> seq[m], run |-> proc[m].id, at |-> m, n |-> proc[m].done + 1]})
  <1>1. proc[m].id \in Instants /\ seq[m] \in Nat \ {0}
    BY DEF Inv, TypeOK, HistoryInv, SeqInv, InsertTestResult, At, Recording, NoSequence
  <1>2. proc[m].done + 1 \in 1 .. MaxCases
    BY HistoryAssumption DEF Inv, TypeOK, InsertTestResult, MoreCases, Procs, HistoryAssumption
  <1>3. {[id |-> seq[m], run |-> proc[m].id, at |-> m, n |-> proc[m].done + 1]} \in SUBSET RowsOf("results")
    BY <1>1, <1>2 DEF RowsOf, ResultRows
  <1> QED  BY <1>3, RowsAdd DEF InsertTestResult, Tables

LEMMA SamplingAdds ==
  ASSUME Inv, NEW m \in Machines, RecordSamplingRun(m), ~HasSampling(store[m].samplings, proc[m].id)
  PROVE  Adds(m, "samplings", {[id |-> proc[m].id, at |-> m, cases |-> proc[m].cases]})
  <1>1. proc[m].id \in Instants /\ proc[m].cases \in 0 .. MaxCases
    BY DEF Inv, TypeOK, HistoryInv, SeqInv, RecordSamplingRun, At, Recording, Procs
  <1>2. {[id |-> proc[m].id, at |-> m, cases |-> proc[m].cases]} \in SUBSET RowsOf("samplings")
    BY <1>1 DEF RowsOf, SamplingRows
  <1> QED  BY <1>2, RowsAdd DEF RecordSamplingRun, HasSampling, Tables

LEMMA TestAdds ==
  ASSUME Inv, NEW m \in Machines, RecordSamplingRunTest(m)
  PROVE  Adds(m, "tests", {[run |-> proc[m].id, at |-> m, n |-> proc[m].done + 1]})
  <1>1. proc[m].id \in Instants /\ proc[m].done + 1 \in 1 .. MaxCases
    BY HistoryAssumption
    DEF Inv, TypeOK, HistoryInv, SeqInv, RecordSamplingRunTest, At, Recording, Procs, HistoryAssumption
  <1>2. {[run |-> proc[m].id, at |-> m, n |-> proc[m].done + 1]} \in SUBSET RowsOf("tests")
    BY <1>1 DEF RowsOf, TestRows
  <1> QED  BY <1>2, RowsAdd DEF RecordSamplingRunTest, Tables

LEMMA FileAdds ==
  ASSUME Inv, NEW m \in Machines, NEW f \in proc[m].files, ImportFile(m, f)
  PROVE  f \in Files /\ f.table \in Tables /\ Adds(m, f.table, Fresh(m, f))
  <1>1. f \in Files
    BY DEF Inv, TypeOK, Procs
  <1>2. Fresh(m, f) \in SUBSET RowsOf(f.table) /\ f.table \in Tables
    BY <1>1, FileFields DEF Fresh
  <1>3. store' = [store EXCEPT ![m][f.table] = @ \cup Fresh(m, f)]
    BY DEF ImportFile
  <1> QED  BY <1>1, <1>2, <1>3, RowsAdd

\* The actions that change no row and no file.
Quiet(m) ==
  \/ StartLocalRun(m) \/ RefuseTestResult(m) \/ StartExport(m) \/ EndExport(m)
  \/ \E o \in Machines : StartImport(m, o)
  \/ DropSequence(m) \/ CreateSequence(m) \/ Die(m)

\* Steps of a process that touch no row and no file.
LEMMA QuietRows == \A m \in Machines : Quiet(m) => UNCHANGED <<store, dir, made, imported>>
  BY DEF Quiet, StartLocalRun, RefuseTestResult, StartExport, EndExport, StartImport, DropSequence,
         CreateSequence, Die, ghosts

\* A step of m.
Step(m) == LocalRun(m) \/ Import(m) \/ Die(m)

\* Every step of a machine is quiet, or adds rows to one table, or writes a file.
LEMMA StepCases ==
  ASSUME NEW m \in Machines, Step(m)
  PROVE  \/ Quiet(m) \/ InsertWorkflowRun(m) \/ InsertTestResult(m)
         \/ (RecordSamplingRun(m) /\ HasSampling(store[m].samplings, proc[m].id))
         \/ (RecordSamplingRun(m) /\ ~HasSampling(store[m].samplings, proc[m].id))
         \/ RecordSamplingRunTest(m) \/ ExportFile(m)
         \/ \E f \in proc[m].files : ImportFile(m, f)
  BY DEF Step, LocalRun, Import, Quiet

\* A step that adds rows to one table of m, and otherwise is about m alone.
LEMMA AddsLocal ==
  ASSUME NEW m \in Machines, NEW t \in Tables, NEW X, Adds(m, t, X), dir' = dir,
         \A o \in Machines \ {m} :
           /\ seq'[o] = seq[o] /\ proc'[o] = proc[o] /\ made'[o] = made[o]
           /\ imported'[o] = imported[o] /\ interrupted'[o] = interrupted[o],
         made[m] \subseteq made'[m] /\ imported[m] \subseteq imported'[m]
  PROVE  Elsewhere(m) /\ Grows
  <1>1. Elsewhere(m)
    BY DEF Elsewhere, Adds
  <1>2. Grows
    BY DEF Grows, Adds
  <1> QED  BY <1>1, <1>2

\* A step of one machine changes nothing of another, and no step takes a row or a file away.
LEMMA StepLocal ==
  ASSUME Inv, NEW m \in Machines, Step(m)
  PROVE  Elsewhere(m) /\ Grows
  <1> USE DEF Inv, TypeOK, Become, At
  <1>1. CASE Quiet(m)
    <2>1. Grows
      BY <1>1, QuietRows DEF Grows
    <2>2. \A o \in Machines \ {m} : proc'[o] = proc[o] /\ seq'[o] = seq[o] /\ interrupted'[o] = interrupted[o]
      BY <1>1 DEF Quiet, StartLocalRun, RefuseTestResult, StartExport, EndExport, StartImport,
                  DropSequence, CreateSequence, Die, Go, NextVal, ghosts
    <2> QED  BY <1>1, <2>1, <2>2, QuietRows DEF Elsewhere
  <1>2. CASE InsertWorkflowRun(m)
    <2>1. PICK X : Adds(m, "runs", X)
      BY <1>2, RunAdds
    <2>2. /\ dir' = dir /\ made[m] \subseteq made'[m] /\ imported' = imported
          /\ \A o \in Machines \ {m} :
               /\ seq'[o] = seq[o] /\ proc'[o] = proc[o] /\ made'[o] = made[o]
               /\ interrupted'[o] = interrupted[o]
      BY <1>2 DEF InsertWorkflowRun, Go
    <2> QED  BY <2>1, <2>2, AddsLocal DEF Tables
  <1>3. CASE InsertTestResult(m)
    <2>1. PICK X : Adds(m, "results", X)
      BY <1>3, ResultAdds
    <2>2. /\ dir' = dir /\ UNCHANGED ghosts
          /\ \A o \in Machines \ {m} : seq'[o] = seq[o] /\ proc'[o] = proc[o]
      BY <1>3 DEF InsertTestResult, NextVal, OneMore
    <2> QED  BY <2>1, <2>2, AddsLocal DEF Tables, ghosts
  <1>4. CASE RecordSamplingRun(m) /\ HasSampling(store[m].samplings, proc[m].id)
    <2>1. UNCHANGED <<store, dir, made, imported>>
      BY <1>4 DEF RecordSamplingRun, HasSampling, ghosts
    <2> QED  BY <1>4, <2>1 DEF RecordSamplingRun, HasSampling, Elsewhere, Grows, ghosts
  <1>5. CASE RecordSamplingRun(m) /\ ~HasSampling(store[m].samplings, proc[m].id)
    <2>1. Adds(m, "samplings", {[id |-> proc[m].id, at |-> m, cases |-> proc[m].cases]})
      BY <1>5, SamplingAdds
    <2> QED  BY <1>5, <2>1 DEF RecordSamplingRun, HasSampling, Adds, Go, Elsewhere, Grows, ghosts
  <1>6. CASE RecordSamplingRunTest(m)
    <2>1. PICK X : Adds(m, "tests", X)
      BY <1>6, TestAdds
    <2>2. /\ dir' = dir /\ UNCHANGED ghosts
          /\ \A o \in Machines \ {m} : seq'[o] = seq[o] /\ proc'[o] = proc[o]
      BY <1>6 DEF RecordSamplingRunTest, OneMore
    <2> QED  BY <2>1, <2>2, AddsLocal DEF Tables, ghosts
  <1>7. CASE ExportFile(m)
    BY <1>7 DEF ExportFile, OneMore, Elsewhere, Grows, ghosts
  <1>8. ASSUME NEW f \in proc[m].files, ImportFile(m, f) PROVE Elsewhere(m) /\ Grows
    BY <1>8, FileAdds DEF ImportFile, Adds, Elsewhere, Grows
  <1> QED  BY <1>1, <1>2, <1>3, <1>4, <1>5, <1>6, <1>7, <1>8, StepCases

-----------------------------------------------------------------------------
(* What grows keeps: files stay genuine, references and results are found. *)

\* What was true of growing tables and directories stays true.
LEMMA GenuineStays ==
  ASSUME Inv, Grows, NEW f \in Files, Genuine(f)
  PROVE  Genuine(f)'
  BY FileFields DEF Grows, Genuine

LEMMA ArrivedStays ==
  ASSUME Grows, NEW m \in Machines, NEW f \in Files, Arrived(m, f)
  PROVE  Arrived(m, f)'
  <1>1. store[m][f.table] \subseteq store'[m][f.table]
    BY FileFields DEF Grows
  <1>2. SUFFICES ASSUME NEW row \in f.rows
                 PROVE  \E old \in store'[m][f.table] : Key(f.table, old) = Key(f.table, row)
    BY DEF Arrived, Key
  <1> QED  BY <1>1, <1>2 DEF Arrived

LEMMA ReferredStays ==
  ASSUME NEW f, NEW known, NEW samplings, NEW files, NEW rows2, NEW samplings2, NEW files2,
         known \subseteq rows2, samplings \subseteq samplings2, files \subseteq files2,
         Referred(f, known, samplings, files)
  PROVE  Referred(f, rows2, samplings2, files2)
  BY DEF Referred, HasRun, HasSampling

LEMMA CompleteStays ==
  ASSUME NEW known, NEW rows2, known \subseteq rows2, NEW m, NEW s, Complete(known, m, s)
  PROVE  Complete(rows2, m, s)
  BY DEF Complete

LEMMA CompleteFilesStay ==
  ASSUME NEW files, NEW files2, files \subseteq files2, NEW m, NEW s, CompleteFiles(files, m, s)
  PROVE  CompleteFiles(files2, m, s)
  BY DEF CompleteFiles

\* The files of m that are known somewhere.
LEMMA FilesAreFiles ==
  ASSUME Inv, NEW m \in Machines
  PROVE  dir[m] \subseteq Files /\ imported[m] \subseteq Files /\ proc[m].files \subseteq Files
  BY DEF Inv, TypeOK, Procs

\* The invariant of the machines that do not move is kept: their rows and files are their own.
LEMMA OthersKept ==
  ASSUME Inv, NEW m \in Machines, Elsewhere(m), Grows, NEW o \in Machines \ {m}
  PROVE  HistoryInv(o)'
  <1> USE DEF Elsewhere
  <1>0. HistoryInv(o)
    BY DEF Inv
  <1>1. SeqInv(o)'
    BY <1>0 DEF HistoryInv, SeqInv, Importing, At, Opened
  <1>2. KeysInv(o)' /\ StoreInv(o)'
    BY <1>0 DEF HistoryInv, KeysInv, StoreInv
  <1>3. RunInv(o)' /\ ExportInv(o)'
    BY <1>0 DEF HistoryInv, RunInv, ExportInv
  <1>4. DirInv(o)'
    BY <1>0, GenuineStays, FilesAreFiles DEF HistoryInv, DirInv
  <1>5. ImportInv(o)'
    BY <1>0, GenuineStays, FilesAreFiles DEF HistoryInv, ImportInv
  <1>6. MirrorInv(o)'
    <2>1. \A f \in imported[o] : Genuine(f)' /\ Arrived(o, f)'
      BY <1>0, GenuineStays, ArrivedStays, FilesAreFiles DEF HistoryInv, MirrorInv
    <2> QED  BY <1>0, <2>1 DEF HistoryInv, MirrorInv
  <1> QED  BY <1>1, <1>2, <1>3, <1>4, <1>5, <1>6 DEF HistoryInv

-----------------------------------------------------------------------------
(* The machine that takes the step.                                        *)

\* The sequence stays ahead of the table, but for an import that was interrupted.
LEMMA SeqStep ==
  ASSUME Inv, TypeOK', NEW m \in Machines, Step(m)
  PROVE  SeqInv(m)'
  <1> USE DEF Inv, TypeOK, SeqInv, Become, At, Importing, Recording
  <1>0. SeqInv(m) /\ proc[m] \in Procs
    BY DEF HistoryInv
  <1>1. CASE StartLocalRun(m)
    <2>1. proc'[m].pc = "run" /\ proc'[m].id \in Instants /\ seq'[m] = Opened(m)
      BY <1>1 DEF StartLocalRun, Idle
    <2>2. proc[m].pc = "idle" /\ UNCHANGED <<store, interrupted>>
      BY <1>1 DEF StartLocalRun, Launch, ghosts
    <2> QED  BY <1>0, <2>1, <2>2 DEF Opened, NoSequence
  <1>2. CASE InsertWorkflowRun(m)
    <2>1. Adds(m, "runs", store'[m].runs) /\ UNCHANGED <<seq, interrupted>>
      BY <1>2, RunAdds DEF Adds, InsertWorkflowRun
    <2>2. proc[m].pc = "run" /\ proc'[m].pc = "results" /\ proc'[m].id = proc[m].id
      BY <1>2 DEF InsertWorkflowRun, Go, Procs
    <2> QED  BY <1>0, <2>1, <2>2 DEF Adds, Tables, Opened
  <1>3. CASE InsertTestResult(m)
    <2>1. store'[m].results = store[m].results \cup
            {[id |-> seq[m], run |-> proc[m].id, at |-> m, n |-> proc[m].done + 1]}
      BY <1>3, ResultAdds DEF Adds
    <2>2. /\ proc[m].pc = "results" /\ proc'[m].pc = "results" /\ proc'[m].id = proc[m].id
          /\ seq'[m] = seq[m] + 1 /\ UNCHANGED interrupted
      BY <1>3 DEF InsertTestResult, OneMore, NextVal, Procs, ghosts
    <2>3. \A r \in store[m].results : r.id \in Nat
      BY DEF Stores, ResultRows
    <2> QED  BY <1>0, <2>1, <2>2, <2>3 DEF Opened, NoSequence
  <1>4. CASE RefuseTestResult(m)
    <2>1. /\ proc[m].pc = "results" /\ proc'[m].pc = "idle"
          /\ seq'[m] = seq[m] + 1 /\ UNCHANGED <<store, interrupted>>
      BY <1>4 DEF RefuseTestResult, NextVal, Idle, ghosts
    <2>2. \A r \in store[m].results : r.id \in Nat
      BY DEF Stores, ResultRows
    <2> QED  BY <1>0, <2>1, <2>2 DEF Opened, NoSequence
  <1>5. CASE RecordSamplingRun(m)
    <2>0. proc[m].pc = "results" /\ UNCHANGED <<seq, interrupted>> /\ (Become(m, Idle) \/ Go(m, "tests"))
      BY <1>5 DEF RecordSamplingRun, ghosts
    <2>1. proc'[m].pc \in {"idle", "tests"} /\ (proc'[m].pc = "tests" => proc'[m].id = proc[m].id)
      BY <2>0, Going, Stopping
    <2>2. store'[m].results = store[m].results
      <3>1. CASE HasSampling(store[m].samplings, proc[m].id)
        BY <1>5, <3>1 DEF RecordSamplingRun, HasSampling
      <3>2. CASE ~HasSampling(store[m].samplings, proc[m].id)
        BY <1>5, <3>2, SamplingAdds DEF Adds, Tables
      <3> QED  BY <3>1, <3>2
    <2> QED  BY <1>0, <2>0, <2>1, <2>2 DEF Opened
  <1>6. CASE RecordSamplingRunTest(m)
    <2>1. /\ proc[m].pc = "tests" /\ proc'[m].pc = "tests" /\ proc'[m].id = proc[m].id
          /\ UNCHANGED <<seq, interrupted>>
      BY <1>6 DEF RecordSamplingRunTest, OneMore, Procs, ghosts
    <2>2. store'[m].results = store[m].results
      BY <1>6, TestAdds DEF Adds, Tables
    <2> QED  BY <1>0, <2>1, <2>2 DEF Opened
  <1>7. CASE StartExport(m) \/ ExportFile(m) \/ EndExport(m)
    <2>1. /\ proc[m].pc \in {"tests", "export"} /\ UNCHANGED <<store, seq, interrupted>>
          /\ Become(m, Idle) \/ Go(m, "export") \/ (proc[m].pc = "export" /\ OneMore(m))
      BY <1>7 DEF StartExport, ExportFile, EndExport, ghosts
    <2>2. proc'[m].pc \in {"idle", "export"} /\ (proc'[m].pc = "export" => proc'[m].id = proc[m].id)
      BY <2>1, Going, GoingOn, Stopping
    <2> QED  BY <1>0, <2>1, <2>2 DEF Opened
  <1>8. ASSUME NEW o \in Machines, StartImport(m, o) PROVE SeqInv(m)'
    BY <1>8 DEF StartImport, Idle
  <1>9. ASSUME NEW f \in proc[m].files, ImportFile(m, f) PROVE SeqInv(m)'
    <2>1. proc'[m].pc = "import"
      BY <1>0, <1>9 DEF ImportFile, NextFile, Procs
    <2> QED  BY <2>1
  <1>10. CASE DropSequence(m)
    <2>1. PICK n \in {1} \cup {i + 1 : i \in Ids(m)} :
            IsNext(m, n) /\ proc' = [proc EXCEPT ![m] = [proc[m] EXCEPT !.pc = "create", !.next = n]]
      BY <1>10 DEF DropSequence
    <2>2. proc'[m].pc = "create" /\ proc'[m].next = n /\ store' = store
      BY <1>0, <1>10, <2>1 DEF DropSequence, Procs
    <2> QED  BY <2>1, <2>2 DEF IsNext, Ids
  <1>11. CASE CreateSequence(m)
    <2>1. /\ proc[m].pc = "create" /\ proc'[m].pc = "idle" /\ seq'[m] = proc[m].next /\ store' = store
      BY <1>11 DEF CreateSequence, Idle
    <2>2. proc[m].next \in Nat /\ \A r \in store[m].results : r.id \in Nat \ {0}
      BY DEF Procs, Stores, ResultRows
    <2> QED  BY <1>0, <2>1, <2>2 DEF Opened, NoSequence
  <1>12. CASE Die(m)
    <2>1. /\ proc[m].pc # "idle" /\ proc'[m].pc = "idle" /\ UNCHANGED <<store, seq>>
          /\ interrupted'[m] <=> (interrupted[m] \/ proc[m].pc = "import" \/ proc[m].pc = "create")
      BY <1>12 DEF Die, Idle
    <2> QED  BY <1>0, <2>1 DEF Opened
  <1> QED
    BY <1>1, <1>2, <1>3, <1>4, <1>5, <1>6, <1>7, <1>8, <1>9, <1>10, <1>11, <1>12 DEF Step, LocalRun, Import

\* A file is imported after those that its rows refer to.
LEMMA ReferencesAreThere ==
  ASSUME Inv, NEW m \in Machines, NEW f \in proc[m].files, NextFile(m, f), NEW row \in f.rows
  PROVE  /\ f.table = "results" => HasRun(store[m].runs, row.run)
         /\ f.table = "tests" => HasSampling(store[m].samplings, row.run)
  <1>1. Referred(f, store[m].runs, store[m].samplings, proc[m].files)
    BY DEF Inv, HistoryInv, ImportInv
  <1>2. ASSUME NEW g \in proc[m].files PROVE /\ f.table = "results" => g.table # "runs"
                                             /\ f.table = "tests" => g.table # "samplings"
    <2>1. Priority(f.table) <= Priority(g.table)
      BY DEF NextFile
    <2> QED  BY <2>1 DEF Priority
  <1> QED  BY <1>1, <1>2 DEF Referred

\* Rows whose keys are new, and apart, keep keys unique.
LEMMA KeysAdd ==
  ASSUME NEW m \in Machines, NEW t \in Tables, NEW X, KeysInv(m), Adds(m, t, X),
         \A r1, r2 \in X : Key(t, r1) = Key(t, r2) => r1 = r2,
         \A r1 \in X, r2 \in store[m][t] : Key(t, r1) = Key(t, r2) => r1 = r2
  PROVE  KeysInv(m)'
  <1>1. SUFFICES ASSUME NEW u \in Tables, NEW r1 \in store'[m][u], NEW r2 \in store'[m][u],
                        Key(u, r1) = Key(u, r2)
                 PROVE  r1 = r2
    BY DEF KeysInv, Key
  <1>2. CASE u = t
    <2>1. r1 \in store[m][t] \cup X /\ r2 \in store[m][t] \cup X
      BY <1>2 DEF Adds
    <2>2. \A r3, r4 \in store[m][t] : Key(t, r3) = Key(t, r4) => r3 = r4
      BY DEF KeysInv
    <2> QED  BY <1>1, <1>2, <2>1, <2>2
  <1>3. CASE u # t
    BY <1>1, <1>3 DEF Adds, KeysInv
  <1> QED  BY <1>2, <1>3

\* INSERT OR IGNORE adds no key twice, and nextval no id that is taken.
LEMMA KeysStep ==
  ASSUME Inv, NEW m \in Machines, Step(m)
  PROVE  KeysInv(m)'
  <1>0. KeysInv(m) /\ RunInv(m) /\ StoreInv(m) /\ store[m] \in Stores
    BY DEF Inv, HistoryInv, TypeOK
  <1>1. CASE Quiet(m) \/ ExportFile(m)
             \/ (RecordSamplingRun(m) /\ HasSampling(store[m].samplings, proc[m].id))
    <2>1. store' = store
      BY <1>1, QuietRows DEF ExportFile, RecordSamplingRun, HasSampling
    <2> QED  BY <1>0, <2>1 DEF KeysInv
  <1>2. CASE InsertWorkflowRun(m)
    <2>1. PICK X : /\ Adds(m, "runs", X) /\ \A r \in X : r = [id |-> proc[m].id, at |-> m]
                   /\ X = {} <=> HasRun(store[m].runs, proc[m].id)
      BY <1>2, RunAdds
    <2>2. \A r1 \in X, r2 \in store[m]["runs"] : r1.id # r2.id
      BY <2>1 DEF HasRun
    <2> QED  BY <1>0, <2>1, <2>2, KeysAdd DEF Tables, Key
  <1>3. CASE InsertTestResult(m)
    <2> DEFINE row == [id |-> seq[m], run |-> proc[m].id, at |-> m, n |-> proc[m].done + 1]
    <2>1. Adds(m, "results", {row}) /\ \A r \in store[m]["results"] : r.id # row.id
      BY <1>3, ResultAdds DEF InsertTestResult
    <2> HIDE DEF row
    <2> QED  BY <1>0, <2>1, KeysAdd DEF Tables, Key
  <1>4. CASE RecordSamplingRun(m) /\ ~HasSampling(store[m].samplings, proc[m].id)
    <2> DEFINE row == [id |-> proc[m].id, at |-> m, cases |-> proc[m].cases]
    <2>1. Adds(m, "samplings", {row}) /\ \A s \in store[m]["samplings"] : s.id # row.id
      BY <1>4, SamplingAdds DEF HasSampling
    <2> HIDE DEF row
    <2> QED  BY <1>0, <2>1, KeysAdd DEF Tables, Key
  <1>5. CASE RecordSamplingRunTest(m)
    <2> DEFINE row == [run |-> proc[m].id, at |-> m, n |-> proc[m].done + 1]
    <2>1. Adds(m, "tests", {row})
      BY <1>5, TestAdds
    <2>2. ASSUME NEW r \in store[m]["tests"], Key("tests", row) = Key("tests", r) PROVE row = r
      <3>1. r.run = proc[m].id /\ r.n = proc[m].done + 1
        BY <2>2 DEF Key
      <3>2. r.at = m
        BY <1>0, <1>5, <3>1 DEF RunInv, RecordSamplingRunTest, At
      <3>3. r \in TestRows
        BY <1>0 DEF Stores
      <3> QED  BY <3>1, <3>2, <3>3 DEF TestRows
    <2> HIDE DEF row
    <2> QED  BY <1>0, <2>1, <2>2, KeysAdd DEF Tables
  <1>6. ASSUME NEW f \in proc[m].files, ImportFile(m, f) PROVE KeysInv(m)'
    <2>1. f \in Files /\ f.table \in Tables /\ f.at \in Machines /\ Adds(m, f.table, Fresh(m, f))
      BY <1>6, FileAdds, FileFields
    <2>2. f.rows \subseteq store[f.at][f.table]
      BY DEF Inv, HistoryInv, ImportInv, Genuine
    <2>3. \A r1, r2 \in f.rows : Key(f.table, r1) = Key(f.table, r2) => r1 = r2
      BY <2>1, <2>2 DEF Inv, HistoryInv, KeysInv
    <2>4. Fresh(m, f) \subseteq f.rows
          /\ \A r1 \in Fresh(m, f), r2 \in store[m][f.table] : Key(f.table, r1) # Key(f.table, r2)
      BY DEF Fresh
    <2> QED  BY <1>0, <2>1, <2>3, <2>4, KeysAdd
  <1> QED  BY <1>1, <1>2, <1>3, <1>4, <1>5, <1>6, StepCases

\* Rows that name a run or a sampling have it in the same store.
LEMMA StoreStep ==
  ASSUME Inv, NEW m \in Machines, Step(m)
  PROVE  StoreInv(m)'
  <1>0. RunInv(m) /\ StoreInv(m) /\ proc[m] \in Procs
    BY DEF Inv, HistoryInv, TypeOK
  <1>1. CASE Quiet(m) \/ ExportFile(m)
             \/ (RecordSamplingRun(m) /\ HasSampling(store[m].samplings, proc[m].id))
    <2>1. store' = store
      BY <1>1, QuietRows DEF ExportFile, RecordSamplingRun, HasSampling
    <2> QED  BY <1>0, <2>1 DEF StoreInv
  <1>2. CASE InsertWorkflowRun(m)
    BY <1>0, <1>2, RunAdds DEF Adds, Tables, StoreInv
  <1>3. CASE InsertTestResult(m)
    BY <1>0, <1>3, ResultAdds, CompleteStays DEF Adds, Tables, StoreInv
  <1>4. CASE RecordSamplingRun(m) /\ ~HasSampling(store[m].samplings, proc[m].id)
    <2> DEFINE row == [id |-> proc[m].id, at |-> m, cases |-> proc[m].cases]
    <2>1. Adds(m, "samplings", {row})
      BY <1>4, SamplingAdds
    <2>2. Complete(store[m].results, m, row)
      BY <1>0, <1>4 DEF RecordSamplingRun, ResultsStored, At, RunInv, Complete
    <2> HIDE DEF row
    <2> QED  BY <1>0, <2>1, <2>2 DEF Adds, Tables, StoreInv, HasSampling
  <1>5. CASE RecordSamplingRunTest(m)
    <2>1. HasSampling(store[m].samplings, proc[m].id)
      BY <1>0, <1>5 DEF RecordSamplingRunTest, At, RunInv
    <2> QED  BY <1>0, <1>5, <2>1, TestAdds DEF Adds, Tables, StoreInv
  <1>6. ASSUME NEW f \in proc[m].files, ImportFile(m, f) PROVE StoreInv(m)'
    <2>1. f.table \in Tables /\ Adds(m, f.table, Fresh(m, f)) /\ Fresh(m, f) \subseteq f.rows
      BY <1>6, FileAdds DEF Fresh
    <2>2. Genuine(f) /\ NextFile(m, f)
      BY <1>6 DEF Inv, HistoryInv, ImportInv, ImportFile
    <2>3. ASSUME NEW row \in store'[m].tests PROVE HasSampling(store'[m].samplings, row.run)
      <3>1. row \in store[m].tests \/ (f.table = "tests" /\ row \in f.rows)
        BY <2>1 DEF Adds, Tables
      <3>2. HasSampling(store[m].samplings, row.run)
        BY <1>0, <2>2, <3>1, ReferencesAreThere DEF StoreInv
      <3> QED  BY <2>1, <3>2 DEF Adds, Tables, HasSampling
    <2>4. ASSUME NEW s \in store'[m].samplings, s.at = m PROVE Complete(store'[m].results, m, s)
      <3>1. s \in store[m].samplings
        BY <2>1, <2>2, <2>4 DEF Adds, Tables, Genuine
      <3>2. Complete(store[m].results, m, s) /\ store[m].results \subseteq store'[m].results
        BY <1>0, <2>1, <2>4, <3>1 DEF StoreInv, Adds, Tables
      <3> QED  BY <3>2, CompleteStays
    <2> QED  BY <2>3, <2>4 DEF StoreInv
  <1> QED  BY <1>1, <1>2, <1>3, <1>4, <1>5, <1>6, StepCases

\* A step that leaves m without a recording that has begun to write.
LEMMA RestInv ==
  ASSUME NEW m \in Machines, proc'[m].pc \notin {"results", "tests", "export"}
  PROVE  RunInv(m)' /\ ExportInv(m)'
  BY DEF RunInv, ExportInv

\* A quiet step leaves no recording behind in the middle.
LEMMA QuietProc ==
  ASSUME Inv, NEW m \in Machines, Quiet(m)
  PROVE  \/ proc'[m].pc \notin {"results", "tests", "export"}
         \/ proc[m].pc = "tests" /\ Go(m, "export")
  <1> USE DEF Inv, TypeOK, At, Become
  <1>1. CASE StartLocalRun(m)
    BY <1>1 DEF StartLocalRun, Idle
  <1>2. CASE RefuseTestResult(m) \/ EndExport(m) \/ CreateSequence(m) \/ Die(m)
    <2>1. Become(m, Idle)
      BY <1>2 DEF RefuseTestResult, EndExport, CreateSequence, Die
    <2> QED  BY <2>1, Stopping
  <1>3. CASE StartExport(m)
    BY <1>3 DEF StartExport
  <1>4. ASSUME NEW o \in Machines, StartImport(m, o) PROVE proc'[m].pc = "import"
    BY <1>4 DEF StartImport, Idle
  <1>5. CASE DropSequence(m)
    BY <1>5 DEF DropSequence, Procs
  <1> QED  BY <1>1, <1>2, <1>3, <1>4, <1>5 DEF Quiet

\* The run in hand is on record with the rows inserted so far.
LEMMA RunStep ==
  ASSUME Inv, NEW m \in Machines, Step(m)
  PROVE  RunInv(m)'
  <1>0. RunInv(m) /\ StoreInv(m) /\ proc \in [Machines -> Procs] /\ made \in [Machines -> SUBSET Instants]
    BY DEF Inv, HistoryInv, TypeOK
  <1> USE DEF At
  <1>1. CASE Quiet(m)
    <2>1. CASE proc[m].pc = "tests" /\ Go(m, "export")
      <3>1. proc'[m].pc = "export" /\ proc'[m].id = proc[m].id /\ UNCHANGED <<store, made>>
        BY <1>0, <1>1, <2>1, Going, QuietRows
      <3> QED  BY <1>0, <2>1, <3>1 DEF RunInv
    <2> QED  BY <1>1, <2>1, QuietProc, RestInv
  <1>2. CASE InsertWorkflowRun(m)
    <2>1. proc'[m].pc = "results" /\ proc'[m].id = proc[m].id /\ proc'[m].done = 0
      BY <1>0, <1>2, Going DEF InsertWorkflowRun
    <2>2. HasRun(store'[m].runs, proc[m].id)
      <3>1. PICK X : /\ Adds(m, "runs", X) /\ \A r \in X : r = [id |-> proc[m].id, at |-> m]
                     /\ X = {} <=> HasRun(store[m].runs, proc[m].id)
        BY <1>2, RunAdds
      <3> QED  BY <3>1 DEF Adds, HasRun
    <2>3. made'[m] # {}
      BY <1>0, <1>2 DEF InsertWorkflowRun
    <2> QED  BY <2>1, <2>2, <2>3 DEF RunInv
  <1>3. CASE InsertTestResult(m)
    <2> DEFINE row == [id |-> seq[m], run |-> proc[m].id, at |-> m, n |-> proc[m].done + 1]
    <2>1. store'[m].results = store[m].results \cup {row} /\ store'[m].runs = store[m].runs
      BY <1>3, ResultAdds DEF Adds, Tables
    <2>2. /\ proc[m].pc = "results" /\ proc'[m].pc = "results" /\ proc'[m].id = proc[m].id
          /\ proc'[m].done = proc[m].done + 1 /\ UNCHANGED made /\ proc[m].done \in Nat
      BY <1>0, <1>3, GoingOn, HistoryAssumption DEF InsertTestResult, ghosts, Procs, HistoryAssumption
    <2>3. ASSUME NEW n \in 1 .. proc[m].done + 1
          PROVE  \E r \in store'[m].results : IsResult(r, m, proc[m].id, n)
      <3>1. CASE n = proc[m].done + 1
        <4>1. IsResult(row, m, proc[m].id, n)
          BY <3>1 DEF IsResult
        <4> HIDE DEF row
        <4> QED  BY <2>1, <4>1
      <3>2. CASE n \in 1 .. proc[m].done
        BY <1>0, <2>1, <2>2, <3>2 DEF RunInv
      <3> QED  BY <2>2, <3>1, <3>2
    <2> QED  BY <1>0, <2>1, <2>2, <2>3 DEF RunInv
  <1>4. CASE RecordSamplingRun(m) /\ HasSampling(store[m].samplings, proc[m].id)
    <2>1. Become(m, Idle)
      BY <1>4 DEF RecordSamplingRun, HasSampling
    <2> QED  BY <1>0, <2>1, Stopping, RestInv
  <1>5. CASE RecordSamplingRun(m) /\ ~HasSampling(store[m].samplings, proc[m].id)
    <2> DEFINE row == [id |-> proc[m].id, at |-> m, cases |-> proc[m].cases]
    <2>1. /\ store'[m].samplings = store[m].samplings \cup {row}
          /\ store'[m].runs = store[m].runs /\ store'[m].tests = store[m].tests
      BY <1>5, SamplingAdds DEF Adds, Tables
    <2>2. proc[m].pc = "results" /\ Go(m, "tests") /\ UNCHANGED made
      BY <1>5 DEF RecordSamplingRun, HasSampling, ghosts
    <2>3. proc'[m].pc = "tests" /\ proc'[m].id = proc[m].id
      BY <1>0, <2>2, Going
    <2>4. HasSampling(store'[m].samplings, proc[m].id)
      BY <2>1 DEF HasSampling
    <2>5. \A s \in store'[m].samplings : s.id = proc[m].id => s.at = m
      BY <1>5, <2>1 DEF HasSampling
    <2>6. \A r \in store'[m].tests : r.run # proc[m].id
      BY <1>0, <1>5, <2>1 DEF StoreInv
    <2> QED  BY <1>0, <2>1, <2>2, <2>3, <2>4, <2>5, <2>6 DEF RunInv
  <1>6. CASE RecordSamplingRunTest(m)
    <2>1. /\ proc[m].pc = "tests" /\ proc'[m].pc = "tests" /\ proc'[m].id = proc[m].id /\ UNCHANGED made
      BY <1>0, <1>6, GoingOn DEF RecordSamplingRunTest, ghosts
    <2> QED  BY <1>0, <1>6, <2>1, TestAdds DEF Adds, Tables, RunInv
  <1>7. CASE ExportFile(m)
    <2>1. /\ proc[m].pc = "export" /\ proc'[m].pc = "export" /\ proc'[m].id = proc[m].id
          /\ UNCHANGED <<store, made>>
      BY <1>0, <1>7, GoingOn DEF ExportFile, ghosts
    <2> QED  BY <1>0, <2>1 DEF RunInv
  <1>8. ASSUME NEW f \in proc[m].files, ImportFile(m, f) PROVE RunInv(m)'
    <2>1. proc'[m].pc = "import"
      BY <1>0, <1>8 DEF ImportFile, NextFile, Become, Procs
    <2> QED  BY <2>1, RestInv
  <1> QED  BY <1>1, <1>2, <1>3, <1>4, <1>5, <1>6, <1>7, <1>8, StepCases

\* The file that an export writes next.
NewFile(m, table) ==
  [table |-> table, run |-> proc[m].id, at |-> m, rows |-> Selected(m, table, proc[m].id)]

\* The four files of an export are written in the order of their tables.
LEMMA FileWritten ==
  ASSUME Inv, NEW m \in Machines, ExportFile(m)
  PROVE  /\ proc[m].pc = "export" /\ proc'[m].pc = "export" /\ proc'[m].id = proc[m].id
         /\ proc'[m].done = proc[m].done + 1 /\ UNCHANGED store
         /\ \/ proc[m].done = 0 /\ dir'[m] = dir[m] \cup {NewFile(m, "runs")}
            \/ proc[m].done = 1 /\ dir'[m] = dir[m] \cup {NewFile(m, "results")}
            \/ proc[m].done = 2 /\ dir'[m] = dir[m] \cup {NewFile(m, "samplings")}
            \/ proc[m].done = 3 /\ dir'[m] = dir[m] \cup {NewFile(m, "tests")}
  <1>1. proc \in [Machines -> Procs] /\ dir \in [Machines -> SUBSET Files]
    BY DEF Inv, TypeOK
  <1>2. proc[m].done \in 0 .. 3
    BY <1>1, HistoryAssumption DEF ExportFile, Procs, HistoryAssumption
  <1>3. dir'[m] = dir[m] \cup {NewFile(m, ExportOrder[proc[m].done + 1])}
    BY <1>1 DEF ExportFile, NewFile
  <1>4. \/ proc[m].done = 0 /\ ExportOrder[proc[m].done + 1] = "runs"
        \/ proc[m].done = 1 /\ ExportOrder[proc[m].done + 1] = "results"
        \/ proc[m].done = 2 /\ ExportOrder[proc[m].done + 1] = "samplings"
        \/ proc[m].done = 3 /\ ExportOrder[proc[m].done + 1] = "tests"
    BY <1>2 DEF ExportOrder
  <1>5. /\ proc[m].pc = "export" /\ proc'[m].pc = "export" /\ proc'[m].id = proc[m].id
        /\ proc'[m].done = proc[m].done + 1 /\ UNCHANGED store
    BY <1>1, GoingOn DEF ExportFile, At
  <1> QED  BY <1>3, <1>4, <1>5

\* The file of the results holds those of the run.
LEMMA ResultsFile ==
  ASSUME Inv, NEW m \in Machines, proc[m].pc = "export",
         NEW s \in store[m].samplings, s.id = proc[m].id,
         NEW files, NewFile(m, "results") \in files
  PROVE  CompleteFiles(files, m, s)
  <1>1. Complete(store[m].results, m, s)
    BY DEF Inv, HistoryInv, RunInv, StoreInv
  <1>2. SUFFICES ASSUME NEW n \in 1 .. s.cases
                 PROVE  \E r \in NewFile(m, "results").rows : IsResult(r, m, s.id, n)
    BY DEF CompleteFiles, NewFile
  <1>3. PICK r \in store[m].results : IsResult(r, m, s.id, n)
    BY <1>1, <1>2 DEF Complete
  <1>4. r \in Selected(m, "results", proc[m].id)
    BY <1>3 DEF Selected, IsResult
  <1> QED  BY <1>3, <1>4 DEF NewFile

\* The files of the run in hand that were written are there, and its sampling is whole in them.
LEMMA ExportStep ==
  ASSUME Inv, NEW m \in Machines, Step(m)
  PROVE  ExportInv(m)'
  <1>0. ExportInv(m) /\ RunInv(m) /\ proc \in [Machines -> Procs]
    BY DEF Inv, HistoryInv, TypeOK
  <1>1. CASE Quiet(m)
    <2>1. CASE Go(m, "export")
      <3>1. proc'[m].done = 0
        BY <1>0, <2>1, Going
      <3> QED  BY <3>1 DEF ExportInv
    <2> QED  BY <1>1, <2>1, QuietProc, RestInv
  <1>2. CASE \/ InsertWorkflowRun(m) \/ InsertTestResult(m) \/ RecordSamplingRun(m)
             \/ RecordSamplingRunTest(m)
    <2>1. Become(m, Idle) \/ Go(m, "results") \/ Go(m, "tests") \/ (proc[m].pc # "export" /\ OneMore(m))
      BY <1>2 DEF InsertWorkflowRun, InsertTestResult, RecordSamplingRun, RecordSamplingRunTest, At
    <2>2. proc'[m].pc # "export"
      BY <1>0, <2>1, Going, GoingOn, Stopping
    <2> QED  BY <2>2 DEF ExportInv
  <1>3. CASE ExportFile(m)
    <2>1. /\ proc[m].pc = "export" /\ proc'[m].id = proc[m].id
          /\ proc'[m].done = proc[m].done + 1 /\ UNCHANGED store /\ dir[m] \subseteq dir'[m]
      BY <1>3, FileWritten
    <2>2. \E g \in dir'[m] : g.table = "runs" /\ HasRun(g.rows, proc[m].id)
      <3>1. CASE proc[m].done = 0
        <4>1. NewFile(m, "runs") \in dir'[m]
          BY <1>3, <3>1, FileWritten
        <4>2. HasRun(Selected(m, "runs", proc[m].id), proc[m].id)
          BY <1>0, <2>1 DEF RunInv, HasRun, Selected
        <4> QED  BY <4>1, <4>2 DEF NewFile
      <3>2. CASE proc[m].done \in 1 .. 3
        BY <1>0, <2>1, <3>2 DEF ExportInv
      <3> QED  BY <1>3, <3>1, <3>2, FileWritten
    <2>3. ASSUME proc[m].done >= 1, NEW s \in store[m].samplings, s.id = proc[m].id
          PROVE  CompleteFiles(dir'[m], m, s)
      <3>1. CASE proc[m].done = 1
        BY <1>3, <2>1, <2>3, <3>1, FileWritten, ResultsFile
      <3>2. CASE proc[m].done \in 2 .. 3
        BY <1>0, <2>1, <2>3, <3>2, CompleteFilesStay DEF ExportInv
      <3> QED  BY <1>3, <2>3, <3>1, <3>2, FileWritten
    <2>4. ASSUME proc[m].done >= 2
          PROVE  \E g \in dir'[m] : g.table = "samplings" /\ HasSampling(g.rows, proc[m].id)
      <3>1. CASE proc[m].done = 2
        <4>1. NewFile(m, "samplings") \in dir'[m]
          BY <1>3, <3>1, FileWritten
        <4>2. HasSampling(Selected(m, "samplings", proc[m].id), proc[m].id)
          BY <1>0, <2>1 DEF RunInv, HasSampling, Selected
        <4> QED  BY <4>1, <4>2 DEF NewFile
      <3>2. CASE proc[m].done = 3
        BY <1>0, <2>1, <3>2 DEF ExportInv
      <3> QED  BY <1>3, <2>4, <3>1, <3>2, FileWritten
    <2>5. proc[m].done \in 0 .. 3
      BY <1>3, FileWritten
    <2> QED  BY <2>1, <2>2, <2>3, <2>4, <2>5 DEF ExportInv
  <1>4. ASSUME NEW f \in proc[m].files, ImportFile(m, f) PROVE ExportInv(m)'
    <2>1. proc'[m].pc = "import"
      BY <1>0, <1>4 DEF ImportFile, NextFile, Become, At, Procs
    <2> QED  BY <2>1, RestInv
  <1> QED  BY <1>1, <1>2, <1>3, <1>4, StepCases

\* A file holds rows that its machine has recorded, and those that they refer to are in files too.
LEMMA DirStep ==
  ASSUME Inv, NEW m \in Machines, Step(m)
  PROVE  DirInv(m)'
  <1>0. /\ DirInv(m) /\ RunInv(m) /\ ExportInv(m) /\ Grows /\ dir[m] \subseteq Files
    BY StepLocal DEF Inv, HistoryInv, TypeOK
  <1>1. \A f \in dir[m] : Genuine(f)'
    BY <1>0, GenuineStays DEF DirInv
  <1>2. ASSUME dir' = dir PROVE DirInv(m)'
    BY <1>0, <1>1, <1>2 DEF DirInv
  <1>3. CASE ExportFile(m)
    <2>1. ASSUME NEW table \in Tables, dir'[m] = dir[m] \cup {NewFile(m, table)},
                 table = "results" => proc[m].done = 1,
                 table = "samplings" => proc[m].done = 2,
                 table = "tests" => proc[m].done = 3
          PROVE  DirInv(m)'
      <3>0. PICK g : g = NewFile(m, table)
        OBVIOUS
      <3>1. proc[m].pc = "export" /\ store' = store
        BY <1>3, FileWritten
      <3>2. g.at = m /\ g.table = table /\ g.rows = Selected(m, table, proc[m].id)
        BY <3>0 DEF NewFile
      <3>3. g.rows \subseteq store[m][table]
        BY <3>2 DEF Selected
      <3>4. Genuine(g)'
        <4>1. ASSUME table = "samplings", NEW s \in g.rows PROVE s.at = m
          <5>1. s \in store[m].samplings /\ s.id = proc[m].id
            BY <3>2, <4>1 DEF Selected
          <5> QED  BY <1>0, <3>1, <5>1 DEF RunInv
        <4> QED  BY <3>1, <3>2, <3>3, <4>1 DEF Genuine
      <3>5. Referred(g, {}, {}, dir[m])
        <4>1. ASSUME table \in {"results", "tests"}, NEW row \in g.rows PROVE row.run = proc[m].id
          BY <3>2, <4>1 DEF Selected
        <4> QED  BY <1>0, <2>1, <3>1, <3>2, <4>1 DEF ExportInv, Referred
      <3>6. ASSUME table = "samplings", NEW s \in g.rows PROVE CompleteFiles(dir[m], m, s)
        <4>1. s \in store[m].samplings /\ s.id = proc[m].id
          BY <3>2, <3>6 DEF Selected
        <4> QED  BY <1>0, <2>1, <3>1, <3>6, <4>1 DEF ExportInv
      <3>7. dir'[m] = dir[m] \cup {g} /\ dir[m] \subseteq dir'[m]
        BY <2>1, <3>0
      <3>8. ASSUME NEW f \in dir'[m]
            PROVE  /\ f.at = m /\ Genuine(f)' /\ Referred(f, {}, {}, dir'[m])
                   /\ f.table = "samplings" => \A s \in f.rows : CompleteFiles(dir'[m], m, s)
        <4>1. CASE f \in dir[m]
          <5>1. f.at = m /\ Referred(f, {}, {}, dir[m])
                /\ (f.table = "samplings" => \A s \in f.rows : CompleteFiles(dir[m], m, s))
            BY <1>0, <4>1 DEF DirInv
          <5> QED  BY <1>1, <3>7, <4>1, <5>1, ReferredStays, CompleteFilesStay
        <4>2. CASE f = g
          BY <3>2, <3>4, <3>5, <3>6, <3>7, <4>2, ReferredStays, CompleteFilesStay
        <4> QED  BY <3>7, <3>8, <4>1, <4>2
      <3> QED  BY <3>8 DEF DirInv
    <2> QED  BY <1>3, <2>1, FileWritten DEF Tables
  <1>4. CASE \/ Quiet(m) \/ InsertWorkflowRun(m) \/ InsertTestResult(m) \/ RecordSamplingRun(m)
             \/ RecordSamplingRunTest(m) \/ \E f \in proc[m].files : ImportFile(m, f)
    BY <1>2, <1>4, QuietRows
    DEF InsertWorkflowRun, InsertTestResult, RecordSamplingRun, RecordSamplingRunTest, ImportFile
  <1> QED  BY <1>3, <1>4, StepCases

\* What is left to import finds what it refers to in the store or in what is left.
LEMMA ImportStep ==
  ASSUME Inv, NEW m \in Machines, Step(m)
  PROVE  ImportInv(m)'
  <1>0. /\ ImportInv(m) /\ Grows /\ proc \in [Machines -> Procs] /\ dir \in [Machines -> SUBSET Files]
        /\ proc[m].files \subseteq Files
    BY StepLocal, FilesAreFiles DEF Inv, HistoryInv, TypeOK
  <1> USE DEF At
  <1>1. ASSUME NEW o \in Machines, StartImport(m, o) PROVE ImportInv(m)'
    <2>1. proc'[m].pc = "import" /\ proc'[m].files = dir[o]
      BY <1>0, <1>1 DEF StartImport, Become, Idle
    <2>2. \A f \in dir[o] : f \in Files /\ Genuine(f) /\ Referred(f, {}, {}, dir[o])
      BY <1>0 DEF Inv, HistoryInv, DirInv
    <2>3. ASSUME NEW f \in dir[o]
          PROVE  Genuine(f)' /\ Referred(f, store'[m].runs, store'[m].samplings, dir[o])
      BY <1>0, <2>2, GenuineStays, ReferredStays
    <2> QED  BY <2>1, <2>3 DEF ImportInv
  <1>2. ASSUME NEW f \in proc[m].files, ImportFile(m, f) PROVE ImportInv(m)'
    <2>1. f.table \in Tables /\ Adds(m, f.table, Fresh(m, f))
      BY <1>2, FileAdds
    <2>2. proc'[m].pc = "import" /\ proc'[m].files = proc[m].files \ {f}
      BY <1>0, <1>2 DEF ImportFile, NextFile, Become, Procs
    <2>3. /\ \A id : f.table = "runs" /\ HasRun(f.rows, id) => HasRun(store'[m].runs, id)
          /\ \A id : f.table = "samplings" /\ HasSampling(f.rows, id) => HasSampling(store'[m].samplings, id)
      BY <2>1 DEF Adds, Fresh, Key, HasRun, HasSampling
    <2>4. store[m].runs \subseteq store'[m].runs /\ store[m].samplings \subseteq store'[m].samplings
      BY <1>0 DEF Grows, Tables
    <2>5. ASSUME NEW g \in proc[m].files \ {f}
          PROVE  Genuine(g)' /\ Referred(g, store'[m].runs, store'[m].samplings, proc[m].files \ {f})
      <3>1. g \in Files /\ Genuine(g) /\ Referred(g, store[m].runs, store[m].samplings, proc[m].files)
        BY <1>0 DEF ImportInv
      <3>2. Referred(g, store'[m].runs, store'[m].samplings, proc[m].files \ {f})
        BY <2>3, <2>4, <3>1 DEF Referred, HasRun, HasSampling
      <3> QED  BY <1>0, <3>1, <3>2, GenuineStays
    <2> QED  BY <2>2, <2>5 DEF ImportInv
  <1>3. CASE DropSequence(m)
    BY <1>0, <1>3 DEF DropSequence, Become, Procs, ImportInv
  <1>4. CASE StartLocalRun(m)
    BY <1>0, <1>4 DEF StartLocalRun, Become, Idle, ImportInv
  <1>5. CASE \/ InsertWorkflowRun(m) \/ InsertTestResult(m) \/ RefuseTestResult(m) \/ RecordSamplingRun(m)
             \/ RecordSamplingRunTest(m) \/ StartExport(m) \/ ExportFile(m) \/ EndExport(m)
             \/ CreateSequence(m) \/ Die(m)
    <2>1. \/ Become(m, Idle) \/ (proc[m].pc # "import" /\ OneMore(m))
          \/ (proc[m].pc # "import" /\ (Go(m, "results") \/ Go(m, "tests") \/ Go(m, "export")))
      BY <1>5 DEF InsertWorkflowRun, InsertTestResult, RefuseTestResult, RecordSamplingRun,
                  RecordSamplingRunTest, StartExport, ExportFile, EndExport, CreateSequence, Die
    <2>2. proc'[m].files = {}
      BY <1>0, <2>1, Going, GoingOn, Stopping DEF ImportInv
    <2> QED  BY <2>2 DEF ImportInv
  <1> QED  BY <1>1, <1>2, <1>3, <1>4, <1>5 DEF Step, LocalRun, Import

\* A machine that only reads has every row of every file it has read.
LEMMA MirrorStep ==
  ASSUME Inv, NEW m \in Machines, Step(m)
  PROVE  MirrorInv(m)'
  <1>0. MirrorInv(m) /\ RunInv(m) /\ ImportInv(m) /\ Grows /\ imported[m] \subseteq Files
    BY StepLocal DEF Inv, HistoryInv, TypeOK
  <1>1. ASSUME NEW f \in imported[m] PROVE Genuine(f)' /\ Arrived(m, f)'
    BY <1>0, GenuineStays, ArrivedStays DEF MirrorInv
  <1>2. ASSUME UNCHANGED <<store, imported, made>> PROVE MirrorInv(m)'
    BY <1>0, <1>1, <1>2 DEF MirrorInv
  <1>3. ASSUME imported' = imported, made'[m] # {} PROVE MirrorInv(m)'
    BY <1>1, <1>3 DEF MirrorInv
  <1>4. CASE Quiet(m) \/ ExportFile(m)
             \/ (RecordSamplingRun(m) /\ HasSampling(store[m].samplings, proc[m].id))
    BY <1>2, <1>4, QuietRows DEF ExportFile, RecordSamplingRun, HasSampling, ghosts
  <1>5. CASE InsertWorkflowRun(m)
    BY <1>3, <1>5 DEF InsertWorkflowRun, Inv, TypeOK
  <1>6. CASE InsertTestResult(m) \/ RecordSamplingRun(m) \/ RecordSamplingRunTest(m)
    <2>1. imported' = imported /\ made' = made /\ proc[m].pc \in {"results", "tests"}
      BY <1>6 DEF InsertTestResult, RecordSamplingRun, RecordSamplingRunTest, At, ghosts
    <2> QED  BY <1>0, <1>3, <2>1 DEF RunInv
  <1>7. ASSUME NEW f \in proc[m].files, ImportFile(m, f) PROVE MirrorInv(m)'
    <2>1. f \in Files /\ f.table \in Tables /\ Adds(m, f.table, Fresh(m, f))
      BY <1>7, FileAdds
    <2>2. imported'[m] = imported[m] \cup {f} /\ made' = made
      BY <1>7 DEF ImportFile, Inv, TypeOK
    <2>3. Genuine(f)'
      BY <1>0, <2>1, GenuineStays DEF ImportInv
    <2>4. \A t \in Tables : \A row \in store'[m][t] :
            row \in store[m][t] \/ (f.table = t /\ row \in f.rows)
      BY <2>1 DEF Adds, Fresh
    <2>5. Arrived(m, f)'
      <3>1. SUFFICES ASSUME NEW row \in f.rows
                     PROVE  \E old \in store'[m][f.table] : Key(f.table, old) = Key(f.table, row)
        BY DEF Arrived, Key
      <3>2. CASE row \in Fresh(m, f)
        BY <2>1, <3>2 DEF Adds
      <3>3. CASE row \notin Fresh(m, f)
        BY <2>1, <3>1, <3>3 DEF Adds, Fresh
      <3> QED  BY <3>2, <3>3
    <2>6. \A g \in imported'[m] : Genuine(g)' /\ Arrived(m, g)'
      BY <1>1, <2>2, <2>3, <2>5
    <2>7. ASSUME made'[m] = {}
          PROVE  \A t \in Tables : \A row \in store'[m][t] :
                   \E g \in imported'[m] : g.table = t /\ row \in g.rows
      BY <1>0, <2>2, <2>4, <2>7 DEF MirrorInv
    <2> QED  BY <2>6, <2>7 DEF MirrorInv
  <1> QED  BY <1>4, <1>5, <1>6, <1>7, StepCases

-----------------------------------------------------------------------------
(* The theorems.                                                           *)

LEMMA InvInit == Init => Inv
  <1> SUFFICES ASSUME Init PROVE Inv
    OBVIOUS
  <1>1. TypeOK
    BY IdleProc, HistoryAssumption DEF Init, TypeOK, Stores, NoRows, NoSequence, HistoryAssumption
  <1>2. ASSUME NEW m \in Machines PROVE HistoryInv(m)
    <2>1. /\ proc[m].pc = "idle" /\ proc[m].files = {} /\ dir[m] = {} /\ imported[m] = {}
          /\ \A t \in Tables : store[m][t] = {}
      BY DEF Init, Idle, NoRows, Tables
    <2> QED
      BY <2>1 DEF HistoryInv, SeqInv, KeysInv, StoreInv, RunInv, ExportInv, DirInv, ImportInv, MirrorInv,
                  Arrived, Recording, Tables
  <1> QED  BY <1>1, <1>2 DEF Inv

LEMMA InvStep == Inv /\ [Next]_vars => Inv'
  <1> SUFFICES ASSUME Inv, [Next]_vars PROVE Inv'
    OBVIOUS
  <1>1. TypeOK'
    BY TypeInv, HistoryAssumption
  <1>2. ASSUME NEW m \in Machines, Step(m) PROVE \A o \in Machines : HistoryInv(o)'
    <2>1. HistoryInv(m)'
      BY <1>1, <1>2, SeqStep, KeysStep, StoreStep, RunStep, ExportStep, DirStep, ImportStep, MirrorStep
      DEF HistoryInv
    <2> QED  BY <1>2, <2>1, StepLocal, OthersKept
  <1>3. CASE UNCHANGED vars
    BY <1>3 DEF vars, Inv, TypeOK, HistoryInv, SeqInv, KeysInv, StoreInv, RunInv, ExportInv, DirInv, ImportInv,
                MirrorInv, Genuine, Arrived, Importing, At, Opened
  <1> QED  BY <1>1, <1>2, <1>3 DEF Next, Step, Inv

LEMMA InvHolds == Spec => []Inv
  BY InvInit, InvStep, PTL DEF Spec

\* Tables, files and processes hold rows of their kinds, and a sequence is a number
\* (schema.ts, exportRunToParquet).
THEOREM TypeCorrect == Spec => []TypeOK
  <1>1. Inv => TypeOK
    BY DEF Inv
  <1> QED  BY <1>1, InvHolds, PTL

\* No insert is refused: the ids of the sequence are ahead of the table unless an import was
\* cut short, and a file is imported after those its rows refer to (importFromParquetDir,
\* syncSequenceWithTable).
THEOREM RowsAccepted == Spec => []StoreAcceptsRows
  <1>1. ASSUME Inv PROVE IdsAhead
    BY <1>1 DEF Inv, HistoryInv, SeqInv, IdsAhead
  <1>2. ASSUME Inv PROVE ReferencesHold
    <2>1. SUFFICES ASSUME NEW m \in Machines, NEW f \in proc[m].files, NextFile(m, f),
                          NEW row \in Fresh(m, f)
                   PROVE  /\ f.table = "results" => \E r \in store[m].runs : r.id = row.run
                          /\ f.table = "tests" => \E s \in store[m].samplings : s.id = row.run
      BY DEF ReferencesHold
    <2>2. row \in f.rows
      BY DEF Fresh
    <2> QED  BY <1>2, <2>1, <2>2, ReferencesAreThere DEF HasRun, HasSampling
  <1>3. Inv => StoreAcceptsRows
    BY <1>1, <1>2 DEF StoreAcceptsRows
  <1> QED  BY <1>3, InvHolds, PTL

\* A sampling run is on record, in a store or in a file, only with all results of its run
\* (recordLocalRun, exportRunToParquet).
THEOREM SampledWhole == Spec => []SampledRunIsWhole
  <1>1. ASSUME Inv, NEW m \in Machines
        PROVE  /\ \A s \in store[m].samplings : s.at = m => Complete(store[m].results, m, s)
               /\ \A f \in dir[m] : f.table = "samplings" => \A s \in f.rows : CompleteFiles(dir[m], m, s)
    BY <1>1 DEF Inv, HistoryInv, StoreInv, DirInv
  <1>2. Inv => SampledRunIsWhole
    BY <1>1 DEF SampledRunIsWhole, Complete, CompleteFiles, IsResult
  <1> QED  BY <1>2, InvHolds, PTL

\* A machine that records nothing and reads the files of one other has every row of them
\* (exportRunToParquet, importFromParquetDir).
THEOREM MirrorFaithful == Spec => []MirrorIsFaithful
  <1>1. ASSUME Inv PROVE MirrorIsFaithful
    <2>1. SUFFICES ASSUME NEW m \in Machines, NEW o \in Machines, made[m] = {},
                          \A f \in imported[m] : f.at = o,
                          NEW f \in imported[m], NEW row \in f.rows
                   PROVE  row \in store[m][f.table]
      BY DEF MirrorIsFaithful
    <2>2. f.table \in Tables /\ f.at \in Machines
      BY <1>1, FilesAreFiles, FileFields
    <2>3. row \in store[o][f.table]
      BY <1>1, <2>1 DEF Inv, HistoryInv, MirrorInv, Genuine
    <2>4. PICK old \in store[m][f.table] : Key(f.table, old) = Key(f.table, row)
      BY <1>1 DEF Inv, HistoryInv, MirrorInv, Arrived
    <2>5. old \in store[o][f.table]
      <3>1. PICK g \in imported[m] : g.table = f.table /\ old \in g.rows
        BY <1>1, <2>1, <2>2 DEF Inv, HistoryInv, MirrorInv
      <3> QED  BY <1>1, <2>1, <3>1 DEF Inv, HistoryInv, MirrorInv, Genuine
    <2> QED  BY <1>1, <2>2, <2>3, <2>4, <2>5 DEF Inv, HistoryInv, KeysInv
  <1> QED  BY <1>1, InvHolds, PTL

-----------------------------------------------------------------------------
(* Prune.                                                                  *)

CommitsOf(r)   == UNION {Named(t, r[t]) : t \in NamesCommits}
Young          == [t \in ParentTables |-> rows[t] \ Old(t, cutoff)]

PruneInv ==
  /\ pc # "idle" => cutoff <= today - MinimumRetentionDays
  /\ pc = "selected" =>
       /\ \A t \in ParentTables : targets.ids[t] = Old(t, cutoff)
       /\ targets.commits = PrunedCommits(cutoff)
       /\ \A s \in Selectors : targets.calibrations[s] = PrunedCalibrations(s, cutoff)
  /\ pc = "childless" =>
       /\ \A t \in FKParents : targets.ids[t] = Old(t, cutoff)
       /\ \A t \in ParentTables \ FKParents : Old(t, cutoff) = {}
       /\ \A t \in ParentTables : whole[t] \cap Old(t, cutoff) = {}
       /\ changes \subseteq CommitsOf(Young)
  /\ pc = "deleted" => \A t \in ParentTables : Old(t, cutoff) = {}

PruneProcessInv == PruneTypeOK /\ NoOrphans /\ PruneInv

LEMMA Tabled == FKParents \subseteq ParentTables /\ NamesCommits \subseteq ParentTables
  BY DEF FKParents, NamesCommits, ParentTables

LEMMA Retention == LongestLookBack \in Nat /\ MinimumRetentionDays = LongestLookBack + FlakyDays
                     /\ MinimumRetentionDays \in Nat
  BY PruneAssumption DEF LongestLookBack, MinimumRetentionDays

LEMMA Membership ==
  ASSUME NEW r, NEW c
  PROVE  c \in CommitsOf(r) <=> \E t \in NamesCommits : \E i \in r[t] : c = CommitOf[t][i]
  BY DEF CommitsOf, Named

LEMMA OldRows ==
  ASSUME PruneTypeOK, NEW t \in ParentTables, NEW day
  PROVE  Old(t, day) \subseteq rows[t] /\ Old(t, day) \in SUBSET RowIds
  BY DEF PruneTypeOK, Old

\* What prune_commits selects: commits that old rows name, and only they.
LEMMA CommitsSelected ==
  ASSUME NEW day, NEW c
  PROVE  c \in PrunedCommits(day) <=>
           /\ \E t \in NamesCommits : \E i \in Old(t, day) : c = CommitOf[t][i]
           /\ ~ \E t \in NamesCommits : \E i \in rows[t] \ Old(t, day) : c = CommitOf[t][i]
<1> DEFINE A == UNION {Named(t, Old(t, day)) : t \in NamesCommits}
<1>1. \A t, X : c \in Named(t, X) <=> \E i \in X : c = CommitOf[t][i]
  BY DEF Named
<1>2. c \in A <=> \E t \in NamesCommits : c \in Named(t, Old(t, day))
  OBVIOUS
<1>3. c \in KeptCommits(day) <=> \E t \in NamesCommits : c \in Named(t, rows[t] \ Old(t, day))
  BY DEF KeptCommits
<1>4. PrunedCommits(day) = A \ KeptCommits(day)
  BY DEF PrunedCommits
<1> HIDE DEF A
<1>5. c \in A <=> \E t \in NamesCommits : \E i \in Old(t, day) : c = CommitOf[t][i]
  BY <1>1, <1>2
<1>6. c \in KeptCommits(day) <=>
        \E t \in NamesCommits : \E i \in rows[t] \ Old(t, day) : c = CommitOf[t][i]
  BY <1>1, <1>3
<1> QED BY <1>4, <1>5, <1>6

LEMMA PruneInitInv == PruneInit => PruneProcessInv
<1> SUFFICES ASSUME PruneInit PROVE PruneProcessInv
  OBVIOUS
<1>1. PruneTypeOK
  <2>1. today \in Days /\ interrupts \in 0 .. MaxInterrupts /\ cutoff \in Int /\ cutoff <= today
    BY PruneAssumption DEF PruneInit, Days
  <2>2. 0 \in Days
    BY PruneAssumption DEF Days
  <2>3. targets \in [ids : [ParentTables -> SUBSET RowIds], commits : SUBSET Commits,
                     calibrations : [Selectors -> SUBSET Days]]
    BY DEF PruneInit, NoTargets
  <2> QED BY <2>1, <2>2, <2>3 DEF PruneInit, PruneTypeOK
<1>2. NoOrphans
  BY DEF PruneInit, NoOrphans
<1>3. PruneInv
  BY DEF PruneInit, PruneInv
<1> QED BY <1>1, <1>2, <1>3 DEF PruneProcessInv

-----------------------------------------------------------------------------
LEMMA LeaveType ==
  ASSUME PruneTypeOK, Leave, UNCHANGED today
  PROVE  /\ pc' \in {"idle", "selected", "childless", "deleted"} /\ dryRun' \in BOOLEAN
         /\ cutoff' \in Int /\ cutoff' <= today'
         /\ targets' \in [ids : [ParentTables -> SUBSET RowIds], commits : SUBSET Commits,
                          calibrations : [Selectors -> SUBSET Days]]
<1>1. today \in Nat
  BY PruneAssumption DEF PruneTypeOK, Days
<1>2. cutoff' = 0 /\ cutoff' <= today'
  BY <1>1 DEF Leave
<1>3. targets' = NoTargets /\ pc' = "idle" /\ dryRun' = FALSE
  BY DEF Leave
<1>4. NoTargets \in [ids : [ParentTables -> SUBSET RowIds], commits : SUBSET Commits,
                     calibrations : [Selectors -> SUBSET Days]]
  BY DEF NoTargets
<1> HIDE DEF NoTargets
<1>5. dryRun' \in BOOLEAN /\ pc' \in {"idle", "selected", "childless", "deleted"}
  BY <1>3
<1> QED BY <1>2, <1>3, <1>4, <1>5

LEMMA PruneTypeStep == PruneTypeOK /\ [PruneNext]_pruneVars => PruneTypeOK'
<1> SUFFICES ASSUME PruneTypeOK, [PruneNext]_pruneVars PROVE PruneTypeOK'
  OBVIOUS
<1> USE DEF PruneTypeOK
<1>1. today \in Nat /\ 0 \in Days
  BY PruneAssumption DEF Days
<1>3. CASE Tick
  BY <1>3, PruneAssumption DEF Tick, Days, history, prune
<1>4. ASSUME NEW t \in ParentTables, NEW i \in RowIds, Record(t, i) PROVE PruneTypeOK'
  <2>1. \A day \in 0 .. today : day \in Days
    BY PruneAssumption DEF Days
  <2>2. born' \in [ParentTables -> [RowIds -> Days]]
    <3>1. PICK day \in IF t = "workflow_runs" THEN 0 .. today ELSE {today} :
            born' = [born EXCEPT ![t][i] = day]
      BY <1>4 DEF Record
    <3>2. day \in 0 .. today
      BY <1>1
    <3> QED BY <2>1, <3>1, <3>2
  <2>3. rows' \in [ParentTables -> SUBSET RowIds] /\ whole' \in [ParentTables -> SUBSET RowIds]
    BY <1>4 DEF Record
  <2> QED BY <1>4, <2>2, <2>3 DEF Record, prune
<1>5. ASSUME NEW i \in RowIds, RecordChildren(i) PROVE PruneTypeOK'
  BY <1>5 DEF RecordChildren, prune, ParentTables
<1>6. ASSUME NEW i \in RowIds, RecordChanges(i) PROVE PruneTypeOK'
  BY <1>6, PruneAssumption DEF RecordChanges, prune, NamesCommits
<1>7. ASSUME NEW s \in Selectors, CalibrateGate(s) PROVE PruneTypeOK'
  BY <1>7 DEF CalibrateGate, prune
<1>8. ASSUME NEW retention \in Retentions, NEW dry \in BOOLEAN, SelectRows(retention, dry)
      PROVE  PruneTypeOK'
  <2>1. Cutoff(retention) \in Int /\ Cutoff(retention) <= today
    BY <1>1, PruneAssumption DEF Cutoff
  <2>2. PrunedCommits(Cutoff(retention)) \in SUBSET Commits
    BY PruneAssumption, Tabled DEF PrunedCommits, KeptCommits, Named, Old
  <2>3. [t \in ParentTables |-> Old(t, Cutoff(retention))] \in [ParentTables -> SUBSET RowIds]
    BY OldRows
  <2>4. [s \in Selectors |-> PrunedCalibrations(s, Cutoff(retention))] \in [Selectors -> SUBSET Days]
    BY DEF PrunedCalibrations
  <2>5. targets' \in [ids : [ParentTables -> SUBSET RowIds], commits : SUBSET Commits,
                      calibrations : [Selectors -> SUBSET Days]]
    BY <1>8, <2>2, <2>3, <2>4 DEF SelectRows
  <2> QED BY <1>8, <2>1, <2>5 DEF SelectRows, history
<1>9. CASE CommitChildren
  BY <1>9 DEF CommitChildren
<1>10. CASE CommitFKParents
  BY <1>10 DEF CommitFKParents
<1>11. CASE EndDryRun \/ Checkpoint
  <2>1. UNCHANGED <<today, history, interrupts>> /\ Leave
    BY <1>11 DEF EndDryRun, Checkpoint
  <2> QED BY <2>1, LeaveType DEF history
<1>12. CASE Interrupt
  <2>1. UNCHANGED <<today, history>> /\ Leave /\ interrupts' \in 0 .. MaxInterrupts
    BY <1>12, PruneAssumption DEF Interrupt
  <2> QED BY <2>1, LeaveType DEF history
<1>13. CASE UNCHANGED pruneVars
  BY <1>13 DEF pruneVars, history, prune
<1> QED BY <1>3, <1>4, <1>5, <1>6, <1>7, <1>8, <1>9, <1>10, <1>11, <1>12, <1>13
        DEF PruneNext, Writers, PruneStep

\* The variables are always of their types, and the cutoff never ahead of today.
THEOREM PruneTypeCorrect == PruneSpec => []PruneTypeOK
<1>1. PruneInit => PruneTypeOK
  BY PruneInitInv DEF PruneProcessInv
<1> QED BY <1>1, PruneTypeStep, PTL DEF PruneSpec
-----------------------------------------------------------------------------
(* References.                                                             *)

NamedChanges == changes \subseteq CommitsOf(rows)

LEMMA OrphansApart == NoOrphans <=> NamedChanges /\ \A t \in ParentTables : whole[t] \subseteq rows[t]
  BY DEF NoOrphans, NamedChanges, CommitsOf

\* Adding rows loses no name; deleting old rows keeps the names of the others.
LEMMA MoreRows ==
  ASSUME NEW r, NEW q, \A t \in NamesCommits : r[t] \subseteq q[t]
  PROVE  CommitsOf(r) \subseteq CommitsOf(q)
  BY Membership

\* Changes that survive the selection of old commits have a young row.
LEMMA YoungNames ==
  ASSUME PruneTypeOK, NamedChanges, targets.commits = PrunedCommits(cutoff)
  PROVE  changes \ targets.commits \subseteq CommitsOf(Young)
<1> SUFFICES ASSUME NEW c \in changes \ targets.commits PROVE c \in CommitsOf(Young)
  OBVIOUS
<1>1. c \in CommitsOf(rows) /\ c \notin PrunedCommits(cutoff)
  BY DEF NamedChanges
<1>2. PICK t \in NamesCommits : \E i \in rows[t] : c = CommitOf[t][i]
  BY <1>1, Membership
<1>3. PICK i \in rows[t] : c = CommitOf[t][i]
  BY <1>2
<1>4. CASE i \in Old(t, cutoff)
  <2>1. PICK u \in NamesCommits : \E j \in rows[u] \ Old(u, cutoff) : c = CommitOf[u][j]
    BY <1>1, <1>3, <1>4, CommitsSelected
  <2>2. Young[u] = rows[u] \ Old(u, cutoff)
    BY Tabled DEF Young
  <2> QED BY <2>1, <2>2, Membership
<1>5. CASE i \notin Old(t, cutoff)
  <2>1. Young[t] = rows[t] \ Old(t, cutoff)
    BY Tabled DEF Young
  <2> QED BY <1>3, <1>5, <2>1, Membership
<1> QED BY <1>4, <1>5

LEMMA OrphanStep == PruneProcessInv /\ [PruneNext]_pruneVars => NoOrphans'
<1> SUFFICES ASSUME PruneProcessInv, [PruneNext]_pruneVars PROVE NoOrphans'
  OBVIOUS
<1>1. NamedChanges /\ \A t \in ParentTables : whole[t] \subseteq rows[t]
  BY OrphansApart DEF PruneProcessInv
<1>2. SUFFICES NamedChanges' /\ \A t \in ParentTables : whole'[t] \subseteq rows'[t]
  BY DEF NoOrphans, NamedChanges, CommitsOf
<1> USE DEF PruneProcessInv, PruneTypeOK, NamedChanges
<1>3. ASSUME NEW t \in ParentTables, NEW i \in RowIds, Record(t, i)
      PROVE  NamedChanges' /\ \A u \in ParentTables : whole'[u] \subseteq rows'[u]
  <2>1. \A u \in ParentTables : rows[u] \subseteq rows'[u] /\ whole'[u] \subseteq rows'[u]
    BY <1>1, <1>3 DEF Record
  <2>2. CommitsOf(rows) \subseteq CommitsOf(rows')
    BY <2>1, MoreRows, Tabled
  <2> QED BY <1>1, <1>3, <2>1, <2>2 DEF Record
<1>4. ASSUME NEW i \in RowIds, RecordChildren(i)
      PROVE  NamedChanges' /\ \A u \in ParentTables : whole'[u] \subseteq rows'[u]
  BY <1>1, <1>4 DEF RecordChildren
<1>5. ASSUME NEW i \in RowIds, RecordChanges(i)
      PROVE  NamedChanges' /\ \A u \in ParentTables : whole'[u] \subseteq rows'[u]
  <2>1. CommitOf["workflow_runs"][i] \in CommitsOf(rows)
    BY <1>5, Membership DEF RecordChanges, NamesCommits
  <2> QED BY <1>1, <1>5, <2>1 DEF RecordChanges
<1>6. CASE CommitChildren
  <2>1. PruneInv /\ pc = "selected"
    BY <1>6 DEF CommitChildren
  <2>2. changes' \subseteq CommitsOf(Young)
    BY <1>1, <1>6, <2>1, YoungNames DEF CommitChildren, PruneInv
  <2>3. \A t \in NamesCommits : Young[t] \subseteq rows'[t]
    BY <1>6, <2>1, Tabled DEF CommitChildren, Young, PruneInv
  <2>4. CommitsOf(Young) \subseteq CommitsOf(rows')
    BY <2>3, MoreRows
  <2>5. \A t \in ParentTables : whole'[t] \subseteq rows'[t]
    BY <1>1, <1>6 DEF CommitChildren
  <2> QED BY <2>2, <2>4, <2>5
<1>7. CASE CommitFKParents
  <2>1. PruneInv /\ pc = "childless"
    BY <1>7 DEF CommitFKParents
  <2>2. changes' \subseteq CommitsOf(Young)
    BY <1>7, <2>1 DEF CommitFKParents, PruneInv
  <2>3. \A t \in ParentTables : rows'[t] = Young[t]
    BY <1>7, <2>1 DEF CommitFKParents, Young, PruneInv
  <2>4. CommitsOf(Young) \subseteq CommitsOf(rows')
    BY <2>3, MoreRows, Tabled
  <2>5. \A t \in ParentTables : whole'[t] \subseteq rows'[t]
    BY <1>1, <1>7, <2>1, <2>3 DEF CommitFKParents, Young, PruneInv
  <2> QED BY <2>2, <2>4, <2>5
<1>8. CASE UNCHANGED <<rows, whole, changes>>
  BY <1>1, <1>8
<1> QED BY <1>3, <1>4, <1>5, <1>6, <1>7, <1>8
        DEF PruneNext, Writers, PruneStep, Tick, CalibrateGate, SelectRows, EndDryRun, Checkpoint,
            Interrupt, pruneVars, history

LEMMA PruneInvStep == PruneProcessInv /\ [PruneNext]_pruneVars => PruneInv'
<1> SUFFICES ASSUME PruneProcessInv, [PruneNext]_pruneVars PROVE PruneInv'
  OBVIOUS
<1> USE DEF PruneProcessInv
<1>1. CASE Writers
  BY <1>1 DEF Writers, Record, RecordChildren, RecordChanges, CalibrateGate, prune, PruneInv
<1>2. CASE Tick
  <2>1. today \in Int /\ cutoff \in Int /\ MinimumRetentionDays \in Int
    BY Retention DEF PruneTypeOK, Days
  <2>2. pc' # "idle" => cutoff' <= today' - MinimumRetentionDays
    BY <1>2, <2>1 DEF Tick, prune, PruneInv
  <2> QED BY <1>2, <2>2
          DEF Tick, prune, history, PruneInv, Old, PrunedCommits, KeptCommits, PrunedCalibrations,
              Young, CommitsOf, Named, MinimumRetentionDays, LongestLookBack
<1>3. ASSUME NEW retention \in Retentions, NEW dry \in BOOLEAN, SelectRows(retention, dry)
      PROVE  PruneInv'
  <2>1. cutoff' <= today - MinimumRetentionDays
    BY <1>3, Retention, PruneAssumption DEF SelectRows, Cutoff, PruneTypeOK, Days
  <2>2. pc' = "selected" /\ today' = today /\ UNCHANGED history
    BY <1>3 DEF SelectRows
  <2>3. \A t \in ParentTables : targets'.ids[t] = Old(t, cutoff')
    BY <1>3 DEF SelectRows
  <2>4. targets'.commits = PrunedCommits(cutoff')
    BY <1>3 DEF SelectRows
  <2>5. \A s \in Selectors : targets'.calibrations[s] = PrunedCalibrations(s, cutoff')
    BY <1>3 DEF SelectRows
  <2> QED BY <2>1, <2>2, <2>3, <2>4, <2>5
          DEF PruneInv, history, Old, PrunedCommits, KeptCommits, PrunedCalibrations, Named,
              MinimumRetentionDays, LongestLookBack
<1>4. CASE CommitChildren
  <2>1. pc = "selected" /\ pc' = "childless" /\ UNCHANGED <<today, born, cutoff, targets>>
    BY <1>4 DEF CommitChildren
  <2>2. cutoff' <= today' - MinimumRetentionDays
    BY <2>1 DEF PruneInv
  <2>3. \A t \in ParentTables : targets.ids[t] = Old(t, cutoff)
    BY <2>1 DEF PruneInv
  <2>4. \A t \in FKParents : rows'[t] = rows[t]
    BY <1>4, Tabled DEF CommitChildren
  <2>5. \A t \in ParentTables \ FKParents : rows'[t] = rows[t] \ Old(t, cutoff)
    BY <1>4, <2>3 DEF CommitChildren
  <2>6. \A t \in ParentTables : whole'[t] = whole[t] \ Old(t, cutoff)
    BY <1>4, <2>3 DEF CommitChildren
  <2>7. \A t \in FKParents : Old(t, cutoff)' = Old(t, cutoff)
    BY <2>1, <2>4 DEF Old
  <2>8. \A t \in ParentTables \ FKParents : Old(t, cutoff)' = {}
    BY <2>1, <2>5 DEF Old
  <2>9. changes' \subseteq CommitsOf(Young)
    BY <1>4, <2>1, YoungNames, OrphansApart DEF CommitChildren, PruneInv
  <2>10. \A t \in ParentTables : Young'[t] = Young[t]
    BY <2>4, <2>5, <2>7, <2>8, Tabled DEF Young
  <2>11. CommitsOf(Young) \subseteq CommitsOf(Young')
    BY <2>10, MoreRows, Tabled
  <2>12. \A t \in FKParents : targets'.ids[t] = Old(t, cutoff)'
    BY <2>1, <2>3, <2>7, Tabled
  <2>13. \A t \in ParentTables : whole'[t] \cap Old(t, cutoff)' = {}
    BY <2>6, <2>7, <2>8
  <2>14. changes' \subseteq CommitsOf(Young)'
    BY <2>9, <2>11 DEF CommitsOf, Named
  <2> QED BY <2>1, <2>2, <2>8, <2>12, <2>13, <2>14 DEF PruneInv, MinimumRetentionDays, LongestLookBack
<1>5. CASE CommitFKParents
  <2>1. pc = "childless" /\ pc' = "deleted" /\ UNCHANGED <<today, born, cutoff, targets>>
    BY <1>5 DEF CommitFKParents
  <2>2. \A t \in ParentTables : rows'[t] = rows[t] \ Old(t, cutoff)
    BY <1>5, <2>1 DEF CommitFKParents, PruneInv
  <2>3. \A t \in ParentTables : Old(t, cutoff)' = {}
    BY <2>1, <2>2 DEF Old
  <2> QED BY <2>1, <2>3 DEF PruneInv, MinimumRetentionDays, LongestLookBack
<1>6. CASE EndDryRun \/ Checkpoint \/ Interrupt
  BY <1>6 DEF EndDryRun, Checkpoint, Interrupt, Leave, PruneInv
<1>7. CASE UNCHANGED pruneVars
  BY <1>7 DEF pruneVars, history, prune, PruneInv, Old, PrunedCommits, KeptCommits, PrunedCalibrations,
          Young, CommitsOf, Named, MinimumRetentionDays, LongestLookBack
<1> QED BY <1>1, <1>2, <1>3, <1>4, <1>5, <1>6, <1>7 DEF PruneNext, PruneStep

LEMMA PruneInvCorrect == PruneSpec => []PruneProcessInv
<1>1. PruneProcessInv /\ [PruneNext]_pruneVars => PruneProcessInv'
  BY PruneTypeStep, OrphanStep, PruneInvStep DEF PruneProcessInv
<1> QED BY <1>1, PruneInitInv, PTL DEF PruneSpec

\* No prune, interrupted or not, leaves a child without its parent or changes
\* of a commit nothing names.
THEOREM OrphanFree == PruneSpec => []NoOrphans
<1>1. PruneProcessInv => NoOrphans
  BY DEF PruneProcessInv
<1> QED BY <1>1, PruneInvCorrect, PTL

\* Past its second transaction a prune has left nothing old.
THEOREM NothingOld == PruneSpec => []NothingOldIsLeft
<1>1. PruneProcessInv => NothingOldIsLeft
  <2> SUFFICES ASSUME PruneProcessInv, pc = "deleted", NEW t \in ParentTables
               PROVE  Old(t, cutoff) = {} /\ \A i \in whole[t] : born[t][i] >= cutoff
    BY DEF NothingOldIsLeft
  <2>1. Old(t, cutoff) = {}
    BY DEF PruneProcessInv, PruneInv
  <2>2. whole[t] \subseteq rows[t] /\ rows[t] \subseteq RowIds
    BY DEF PruneProcessInv, NoOrphans, PruneTypeOK
  <2>3. ASSUME NEW i \in whole[t] PROVE born[t][i] >= cutoff
    <3>1. born[t][i] \in Int /\ cutoff \in Int
      BY <2>2 DEF PruneProcessInv, PruneTypeOK, Days
    <3> QED BY <2>1, <2>2, <3>1 DEF Old
  <2> QED BY <2>1, <2>3
<1> QED BY <1>1, PruneInvCorrect, PTL

\* No default window loses data.
THEOREM ReadableKept == PruneSpec => ReadableIsKept
<1> DEFINE Kept == pc # "idle" =>
                     \A t \in ParentTables : \A i \in rows[t] :
                       Readable(born[t][i]) =>
                         /\ i \in rows'[t]
                         /\ i \in whole[t] => i \in whole'[t]
                         /\ t \in NamesCommits /\ CommitOf[t][i] \in changes
                              => CommitOf[t][i] \in changes'
<1>1. PruneProcessInv /\ [PruneNext]_pruneVars => [Kept]_pruneVars
  <2> SUFFICES ASSUME PruneProcessInv, [PruneNext]_pruneVars, pc # "idle",
                      NEW t \in ParentTables, NEW i \in rows[t], Readable(born[t][i])
               PROVE  /\ i \in rows'[t]
                      /\ i \in whole[t] => i \in whole'[t]
                      /\ t \in NamesCommits /\ CommitOf[t][i] \in changes
                           => CommitOf[t][i] \in changes'
    OBVIOUS
  <2> USE DEF PruneProcessInv
  <2>1. i \notin Old(t, cutoff)
    <3>1. PICK d \in today - LongestLookBack .. today : born[t][i] \in d - FlakyDays .. d
      BY DEF Readable
    <3>2. today \in Int /\ cutoff \in Int /\ born[t][i] \in Int /\ FlakyDays \in Int
      BY PruneAssumption DEF PruneTypeOK, Days
    <3>3. cutoff <= today - (LongestLookBack + FlakyDays)
      BY Retention DEF PruneInv
    <3>4. born[t][i] >= cutoff
      BY <3>1, <3>2, <3>3, Retention
    <3> QED BY <3>2, <3>4 DEF Old
  <2>2. CASE CommitChildren
    <3>1. pc = "selected"
      BY <2>2 DEF CommitChildren
    <3>2. i \notin targets.ids[t] /\ targets.commits = PrunedCommits(cutoff)
      BY <2>1, <3>1 DEF PruneInv
    <3>3. i \in rows'[t] /\ (i \in whole[t] => i \in whole'[t])
      BY <2>2, <3>2 DEF CommitChildren
    <3>4. t \in NamesCommits => CommitOf[t][i] \notin targets.commits
      BY <2>1, <3>2, CommitsSelected
    <3> QED BY <2>2, <3>3, <3>4 DEF CommitChildren
  <2>3. CASE CommitFKParents
    <3>1. t \in FKParents => i \notin targets.ids[t]
      BY <2>1, <2>3 DEF CommitFKParents, PruneInv
    <3> QED BY <2>3, <3>1 DEF CommitFKParents
  <2>4. CASE UNCHANGED <<rows, whole, changes>>
    BY <2>4
  <2> QED BY <2>2, <2>3, <2>4
          DEF PruneNext, Writers, PruneStep, Tick, Record, RecordChildren, RecordChanges, CalibrateGate,
              SelectRows, EndDryRun, Checkpoint, Interrupt, pruneVars, history
<1> QED BY <1>1, PruneInvCorrect, PTL DEF PruneSpec, ReadableIsKept

\* The latest calibration of a selector is never lost.
THEOREM LatestKept == PruneSpec => LatestIsKept
<1> DEFINE Kept == \A s \in Selectors : \A d \in calibrations[s] :
                     (\A e \in calibrations[s] : e <= d) => d \in calibrations'[s]
<1>1. PruneProcessInv /\ [PruneNext]_pruneVars => [Kept]_pruneVars
  <2> SUFFICES ASSUME PruneProcessInv, [PruneNext]_pruneVars, NEW s \in Selectors, NEW d \in calibrations[s],
                      \A e \in calibrations[s] : e <= d
               PROVE  d \in calibrations'[s]
    OBVIOUS
  <2>1. CASE CommitChildren
    <3>1. targets.calibrations[s] = PrunedCalibrations(s, cutoff)
      BY <2>1 DEF CommitChildren, PruneProcessInv, PruneInv
    <3>2. \A e \in calibrations[s] : e \in Int
      BY DEF PruneProcessInv, PruneTypeOK, Days
    <3>3. d \notin PrunedCalibrations(s, cutoff)
      BY <3>2 DEF PrunedCalibrations
    <3> QED BY <2>1, <3>1, <3>3 DEF CommitChildren
  <2>2. ASSUME NEW u \in Selectors, CalibrateGate(u) PROVE d \in calibrations'[s]
    BY <2>2 DEF CalibrateGate, PruneProcessInv, PruneTypeOK
  <2>3. CASE UNCHANGED calibrations
    BY <2>3
  <2> QED BY <2>1, <2>2, <2>3
          DEF PruneNext, Writers, PruneStep, Tick, Record, RecordChildren, RecordChanges, SelectRows,
              EndDryRun, Checkpoint, CommitFKParents, Interrupt, pruneVars, history
<1> QED BY <1>1, PruneInvCorrect, PTL DEF PruneSpec, LatestIsKept
=============================================================================
