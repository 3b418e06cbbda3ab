------------------------------ MODULE ReportingProofs ------------------------------
(***************************************************************************)
(* Proofs about DailyBatch, and then about StoreAnalysis, which share only *)
(* a few lemmas: each theorem is of one of the two.                        *)
(***************************************************************************)
EXTENDS DailyBatch, StoreAnalysis, FiniteSetTheorems, WellFoundedInduction, TLAPS

-----------------------------------------------------------------------------
(* Induction over numbers, and what a recursive function computes.         *)

\* Induction over the natural numbers, for a set of them.
LEMMA Induction ==
  ASSUME NEW S, 0 \in S, \A n \in Nat : n \in S => n + 1 \in S
  PROVE  Nat \subseteq S
  <1> DEFINE others == Nat \ S
             T      == {1 .. n : n \in others}
             R      == StrictSubsetOrdering(Nat)
  <1> SUFFICES ASSUME others # {} PROVE FALSE
    OBVIOUS
  <1>1. T \subseteq FiniteSubsetsOf(Nat) /\ T # {}
    <2>1. ASSUME NEW n \in others PROVE 1 .. n \in FiniteSubsetsOf(Nat)
      <3>1. n \in Int /\ 1 .. n \subseteq Nat
        OBVIOUS
      <3> QED  BY <3>1, FS_Interval DEF FiniteSubsetsOf
    <2> QED  BY <2>1
  <1>2. PICK t \in T : \A u \in T : ~(<<u, t>> \in R)
    <2> HIDE DEF T, R
    <2> QED  BY <1>1, FS_StrictSubsetOrderingWellFounded, WFMin DEF R
  <1>3. PICK n \in others : t = 1 .. n
    OBVIOUS
  <1>4. n # 0 /\ n - 1 \in others
    <2>1. n - 1 \in Nat => (n - 1 \in S => (n - 1) + 1 \in S)
      OBVIOUS
    <2> QED  BY <2>1
  <1>5. <<1 .. n - 1, 1 .. n>> \in R
    <2>1. 1 .. n - 1 \subseteq 1 .. n /\ n \in 1 .. n /\ n \notin 1 .. n - 1
      BY <1>4
    <2>2. 1 .. n \subseteq Nat
      OBVIOUS
    <2> QED  BY <2>1, <2>2 DEF StrictSubsetOrdering
  <1> QED  BY <1>2, <1>3, <1>4, <1>5

-----------------------------------------------------------------------------
(* The rows at some positions of a list.                                   *)

IsUpTo(rows, positions, f, last) ==
  f = [n \in 0 .. last |->
         IF n = 0 THEN <<>>
         ELSE IF n \in positions THEN Append(f[n - 1], rows[n]) ELSE f[n - 1]]

LEMMA UpToExists ==
  ASSUME NEW rows, NEW positions, NEW last \in Nat
  PROVE  \E f : IsUpTo(rows, positions, f, last)
  <1> DEFINE S == {k \in Nat : \E f : IsUpTo(rows, positions, f, k)}
  <1>1. 0 \in S
    <2> DEFINE f0 == [n \in 0 .. 0 |-> <<>>]
    <2>1. \A n \in 0 .. 0 : n = 0
      OBVIOUS
    <2>2. IsUpTo(rows, positions, f0, 0)
      BY <2>1 DEF IsUpTo
    <2> QED  BY <2>2
  <1>2. ASSUME NEW k \in Nat, k \in S PROVE k + 1 \in S
    <2>1. PICK f : IsUpTo(rows, positions, f, k)
      BY <1>2
    <2>2. \A n \in 0 .. k : f[n] = IF n = 0 THEN <<>>
                                   ELSE IF n \in positions THEN Append(f[n - 1], rows[n]) ELSE f[n - 1]
      BY <2>1 DEF IsUpTo
    <2> DEFINE h == [n \in 0 .. k + 1 |->
                       IF n = k + 1 THEN IF n \in positions THEN Append(f[k], rows[n]) ELSE f[k] ELSE f[n]]
    <2>3. ASSUME NEW n \in 0 .. k + 1
          PROVE  h[n] = IF n = 0 THEN <<>>
                        ELSE IF n \in positions THEN Append(h[n - 1], rows[n]) ELSE h[n - 1]
      <3>1. CASE n = 0
        BY <2>2, <3>1
      <3>2. CASE n = k + 1
        <4>1. k \in 0 .. k + 1 /\ k # k + 1 /\ n - 1 = k /\ n # 0
          BY <3>2
        <4>2. h[k] = f[k]
          BY <4>1
        <4> QED  BY <3>2, <4>1, <4>2
      <3>3. CASE n \in 1 .. k
        <4>1. h[n] = f[n] /\ h[n - 1] = f[n - 1]
          BY <3>3
        <4> QED  BY <2>2, <3>3, <4>1
      <3> QED  BY <3>1, <3>2, <3>3
    <2>4. IsUpTo(rows, positions, h, k + 1)
      <3> HIDE DEF h
      <3>1. h = [n \in 0 .. k + 1 |-> h[n]]
        BY DEF h
      <3> QED  BY <2>3, <3>1 DEF IsUpTo
    <2> HIDE DEF h
    <2> QED  BY <2>4
  <1>3. Nat \subseteq S
    <2> HIDE DEF S
    <2> QED  BY <1>1, <1>2, Induction
  <1> QED  BY <1>3

\* The rows of f are those at the positions up to n, in their order.
PickedUpTo(T, rows, positions, list, n) ==
  /\ list \in Seq(T)
  /\ \A p \in positions : p <= n => \E i \in DOMAIN list : list[i] = rows[p]
  /\ \A i \in DOMAIN list : \E p \in positions : p <= n /\ list[i] = rows[p]
  /\ \A i, j \in DOMAIN list : i < j =>
       \E p, q \in positions : p < q /\ list[i] = rows[p] /\ list[j] = rows[q]

LEMMA PickedNext ==
  ASSUME NEW T, NEW rows \in Seq(T), NEW positions \in SUBSET DOMAIN rows, NEW list,
         NEW n \in 1 .. Len(rows), PickedUpTo(T, rows, positions, list, n - 1)
  PROVE  PickedUpTo(T, rows, positions, IF n \in positions THEN Append(list, rows[n]) ELSE list, n)
  <1>1. /\ list \in Seq(T)
        /\ \A p \in positions : p <= n - 1 => \E i \in DOMAIN list : list[i] = rows[p]
        /\ \A i \in DOMAIN list : \E p \in positions : p <= n - 1 /\ list[i] = rows[p]
        /\ \A i, j \in DOMAIN list : i < j =>
             \E p, q \in positions : p < q /\ list[i] = rows[p] /\ list[j] = rows[q]
    BY DEF PickedUpTo
  <1>2. \A p \in positions : p \in Nat
    OBVIOUS
  <1>3. CASE n \notin positions
    <2>1. \A p \in positions : p <= n <=> p <= n - 1
      BY <1>2, <1>3
    <2> QED  BY <1>1, <1>3, <2>1 DEF PickedUpTo
  <1>4. CASE n \in positions
    <2> DEFINE more == Append(list, rows[n])
               l    == Len(list)
    <2>1. l \in Nat /\ DOMAIN list = 1 .. l /\ rows[n] \in T
      BY <1>1
    <2>2. more \in Seq(T) /\ DOMAIN more = 1 .. l + 1 /\ more[l + 1] = rows[n]
            /\ \A i \in 1 .. l : more[i] = list[i]
      BY <1>1, <2>1
    <2> HIDE DEF more, l
    <2>3. ASSUME NEW p \in positions, p <= n PROVE \E i \in DOMAIN more : more[i] = rows[p]
      <3>1. CASE p = n
        BY <2>1, <2>2, <3>1
      <3>2. CASE p # n
        <4>1. p <= n - 1
          BY <1>2, <2>3, <3>2
        <4>2. PICK i \in DOMAIN list : list[i] = rows[p]
          BY <1>1, <4>1
        <4> QED  BY <2>1, <2>2, <4>2
      <3> QED  BY <3>1, <3>2
    <2>4. ASSUME NEW i \in DOMAIN more PROVE \E p \in positions : p <= n /\ more[i] = rows[p]
      <3>1. CASE i = l + 1
        BY <1>4, <2>2, <3>1
      <3>2. CASE i # l + 1
        <4>1. i \in 1 .. l
          BY <2>1, <2>2, <3>2
        <4>2. PICK p \in positions : p <= n - 1 /\ list[i] = rows[p]
          BY <1>1, <2>1, <4>1
        <4> QED  BY <1>2, <2>2, <4>1, <4>2
      <3> QED  BY <3>1, <3>2
    <2>5. ASSUME NEW i \in DOMAIN more, NEW j \in DOMAIN more, i < j
          PROVE  \E p, q \in positions : p < q /\ more[i] = rows[p] /\ more[j] = rows[q]
      <3>1. i \in 1 .. l
        BY <2>1, <2>2, <2>5
      <3>2. CASE j = l + 1
        <4>1. PICK p \in positions : p <= n - 1 /\ list[i] = rows[p]
          BY <1>1, <2>1, <3>1
        <4>2. p < n
          BY <1>2, <4>1
        <4> QED  BY <1>4, <2>2, <3>1, <3>2, <4>1, <4>2
      <3>3. CASE j # l + 1
        <4>1. j \in 1 .. l
          BY <2>1, <2>2, <3>3
        <4>2. PICK p \in positions, q \in positions : p < q /\ list[i] = rows[p] /\ list[j] = rows[q]
          BY <1>1, <2>1, <2>5, <3>1, <4>1
        <4> QED  BY <2>2, <3>1, <4>1, <4>2
      <3> QED  BY <3>2, <3>3
    <2>6. PickedUpTo(T, rows, positions, more, n)
      BY <2>2, <2>3, <2>4, <2>5 DEF PickedUpTo
    <2> QED  BY <1>4, <2>6 DEF more
  <1> QED  BY <1>3, <1>4

\* What RowsAt returns has the rows at those positions, and no others, in their order.
LEMMA RowsAtPicks ==
  ASSUME NEW T, NEW rows \in Seq(T), NEW positions \in SUBSET DOMAIN rows
  PROVE  PickedUpTo(T, rows, positions, TR!RowsAt(rows, positions), Len(rows))
  <1> DEFINE last == Len(rows)
             c == CHOOSE f : IsUpTo(rows, positions, f, last)
  <1>1. last \in Nat /\ DOMAIN rows = 1 .. last
    OBVIOUS
  <1>2. IsUpTo(rows, positions, c, last)
    <2> HIDE DEF last
    <2>1. \E f : IsUpTo(rows, positions, f, last)
      BY <1>1, UpToExists
    <2> QED  BY <2>1
  <1>3. TR!RowsAt(rows, positions) = c[last]
    BY DEF TR!RowsAt, IsUpTo
  <1>4. \A n \in 0 .. last : c[n] = IF n = 0 THEN <<>>
                                    ELSE IF n \in positions THEN Append(c[n - 1], rows[n]) ELSE c[n - 1]
    <2> HIDE DEF c, last
    <2> QED  BY <1>2 DEF IsUpTo
  <1> HIDE DEF c, last
  <1> DEFINE S == {n \in Nat : n <= last => PickedUpTo(T, rows, positions, c[n], n)}
  <1>5. 0 \in S
    <2>1. c[0] = <<>>
      BY <1>1, <1>4
    <2>2. \A p \in positions : ~(p <= 0)
      BY <1>1
    <2>3. <<>> \in Seq(T) /\ DOMAIN <<>> = {}
      OBVIOUS
    <2>4. PickedUpTo(T, rows, positions, c[0], 0)
      BY <2>1, <2>2, <2>3 DEF PickedUpTo
    <2> QED  BY <2>4
  <1>6. ASSUME NEW n \in Nat, n \in S PROVE n + 1 \in S
    <2> SUFFICES ASSUME n + 1 <= last PROVE PickedUpTo(T, rows, positions, c[n + 1], n + 1)
      OBVIOUS
    <2>1. n + 1 \in 1 .. Len(rows) /\ (n + 1) - 1 = n /\ n + 1 # 0 /\ n + 1 \in 0 .. last
      BY <1>1 DEF last
    <2>2. PickedUpTo(T, rows, positions, c[n], n)
      BY <1>1, <1>6
    <2>3. c[n + 1] = IF n + 1 \in positions THEN Append(c[n], rows[n + 1]) ELSE c[n]
      BY <1>4, <2>1
    <2>4. PickedUpTo(T, rows, positions, c[n], (n + 1) - 1)
      BY <2>1, <2>2
    <2>5. PickedUpTo(T, rows, positions,
                     IF n + 1 \in positions THEN Append(c[n], rows[n + 1]) ELSE c[n], n + 1)
      BY <2>1, <2>4, PickedNext
    <2> QED  BY <2>3, <2>5
  <1>7. Nat \subseteq S
    <2> HIDE DEF S
    <2> QED  BY <1>5, <1>6, Induction
  <1> QED  BY <1>1, <1>3, <1>7 DEF last

\* The three things that are used of it.
LEMMA RowsAtFacts ==
  ASSUME NEW T, NEW rows \in Seq(T), NEW positions \in SUBSET DOMAIN rows
  PROVE  /\ TR!RowsAt(rows, positions) \in Seq(T)
         /\ \A p \in positions : \E i \in DOMAIN TR!RowsAt(rows, positions) :
              TR!RowsAt(rows, positions)[i] = rows[p]
         /\ \A i \in DOMAIN TR!RowsAt(rows, positions) : \E p \in positions :
              TR!RowsAt(rows, positions)[i] = rows[p]
         /\ IsInjective(rows) => IsInjective(TR!RowsAt(rows, positions))
  <1> DEFINE list == TR!RowsAt(rows, positions)
  <1>1. PickedUpTo(T, rows, positions, list, Len(rows))
    BY RowsAtPicks
  <1> HIDE DEF list
  <1>2. \A p \in positions : p <= Len(rows) /\ p \in Nat /\ p \in DOMAIN rows
    OBVIOUS
  <1>3. \A p \in positions : \E i \in DOMAIN list : list[i] = rows[p]
    BY <1>1, <1>2 DEF PickedUpTo
  <1>4. \A i \in DOMAIN list : \E p \in positions : list[i] = rows[p]
    BY <1>1 DEF PickedUpTo
  <1>5. list \in Seq(T)
    BY <1>1 DEF PickedUpTo
  <1>6. ASSUME IsInjective(rows), NEW i \in DOMAIN list, NEW j \in DOMAIN list, list[i] = list[j], i # j
        PROVE  FALSE
    <2>1. i \in Nat /\ j \in Nat
      BY <1>5
    <2>2. ASSUME NEW k \in DOMAIN list, NEW l \in DOMAIN list, k < l PROVE list[k] # list[l]
      <3>1. PICK p \in positions, q \in positions : p < q /\ list[k] = rows[p] /\ list[l] = rows[q]
        BY <1>1, <2>2 DEF PickedUpTo
      <3>2. p # q
        BY <1>2, <3>1
      <3> QED  BY <1>2, <1>6, <3>1, <3>2 DEF IsInjective
    <2> QED  BY <1>6, <2>1, <2>2
  <1>7. IsInjective(rows) => IsInjective(list)
    BY <1>6 DEF IsInjective
  <1> QED  BY <1>3, <1>4, <1>5, <1>7 DEF list

-----------------------------------------------------------------------------
(* The batch, and the reports its jobs leave.                              *)

\* Every row of a report is of another test of the project.
IsReport(report) ==
  /\ report \in Seq([test : DOMAIN project.fileOf, attempts : Tries])
  /\ \A i, j \in DOMAIN report : report[i].test = report[j].test => i = j

NightInv(night) == \A task \in DOMAIN night : \A report \in night[task] : IsReport(report)

BatchInv == BatchTypeOK /\ NightInv(base) /\ NightInv(head)

LEMMA ProjectFacts ==
  ASSUME project \in Projects
  PROVE  /\ Tasks \in Seq(Range(Tasks))
         /\ \A id \in Ids(Tasks) :
              project.testsOf[id] \in Seq(DOMAIN project.fileOf) /\ IsInjective(project.testsOf[id])
         /\ DOMAIN project.fileOf \subseteq DOMAIN project.idOf
  BY BatchAssumption DEF BatchAssumption, Tasks

LEMMA ReportsAreReports ==
  ASSUME project \in Projects, NEW task \in Ids(Tasks), NEW report \in Reports(task)
  PROVE  IsReport(report)
  <1> DEFINE tests == project.testsOf[task]
             some(present) == TR!RowsAt(tests, {i \in DOMAIN tests : tests[i] \in present})
  <1>1. tests \in Seq(DOMAIN project.fileOf) /\ IsInjective(tests)
    BY ProjectFacts
  <1>a. PICK present \in SUBSET Range(tests) :
          report \in {[i \in DOMAIN some(present) |->
                         [test |-> some(present)[i], attempts |-> tries[some(present)[i]]]]
                      : tries \in [present -> Tries]}
    BY DEF Reports
  <1>2. PICK tries \in [present -> Tries] :
          report = [i \in DOMAIN some(present) |->
                      [test |-> some(present)[i], attempts |-> tries[some(present)[i]]]]
    BY <1>a
  <1> DEFINE list == some(present)
             picked == {i \in DOMAIN tests : tests[i] \in present}
  <1>3. picked \in SUBSET DOMAIN tests
    OBVIOUS
  <1>4. /\ list \in Seq(DOMAIN project.fileOf) /\ IsInjective(list)
        /\ \A i \in DOMAIN list : \E p \in picked : list[i] = tests[p]
    <2> HIDE DEF tests
    <2> QED  BY <1>1, <1>3, RowsAtFacts
  <1>5. \A i \in DOMAIN list : list[i] \in present
    <2> HIDE DEF list
    <2> QED  BY <1>4
  <1>6. report = [i \in DOMAIN list |-> [test |-> list[i], attempts |-> tries[list[i]]]]
    BY <1>2
  <1> HIDE DEF list, tests, picked, some
  <1>7. DOMAIN list = 1 .. Len(list) /\ Len(list) \in Nat
    BY <1>4
  <1>8. \A i \in DOMAIN list : report[i] \in [test : DOMAIN project.fileOf, attempts : Tries]
    BY <1>4, <1>5, <1>6
  <1>9. report \in Seq([test : DOMAIN project.fileOf, attempts : Tries])
    BY <1>6, <1>7, <1>8
  <1>10. \A i, j \in DOMAIN report : report[i].test = report[j].test => i = j
    BY <1>4, <1>6 DEF IsInjective
  <1> QED  BY <1>9, <1>10 DEF IsReport

LEMMA PlanOfTasks ==
  ASSUME NEW only
  PROVE  BatchPlan(Tasks, only) \subseteq Ids(Tasks)
  BY DEF BatchPlan, Ids

LEMMA InitBatch == BatchInit => BatchInv
  BY BatchAssumption DEF BatchAssumption, BatchInit, BatchInv, BatchTypeOK, NightInv, Nobody

LEMMA LeaveKeeps ==
  ASSUME BatchInv, NEW task, NEW reports, Leave(task, reports), \A report \in reports : IsReport(report)
  PROVE  BatchInv'
  <1>1. /\ task \in waiting /\ waiting' = waiting \ {task}
        /\ head' = [t \in DOMAIN head \cup {task} |-> IF t = task THEN reports ELSE head[t]]
        /\ UNCHANGED <<project, manifest, now, phase, base>>
    BY DEF Leave
  <1>2. DOMAIN head' = DOMAIN head \cup {task}
    BY <1>1
  <1>3. \A t \in DOMAIN head' : head'[t] = IF t = task THEN reports ELSE head[t]
    BY <1>1
  <1>4. Tasks' = Tasks /\ \A report : IsReport(report)' <=> IsReport(report)
    BY <1>1 DEF Tasks, IsReport
  <1>5. BatchTypeOK'
    BY <1>1, <1>2, <1>4 DEF BatchInv, BatchTypeOK
  <1>6. NightInv(base)' /\ NightInv(head)'
    BY <1>1, <1>2, <1>3, <1>4 DEF BatchInv, NightInv, IsReport
  <1> QED  BY <1>5, <1>6 DEF BatchInv

LEMMA StartKeeps ==
  ASSUME BatchInv, NEW from, NEW to \in {"first", "second"}, StartBatch(from, to)
  PROVE  BatchInv'
  <1>1. /\ waiting' \subseteq Ids(Tasks) /\ phase' = to /\ base' = head /\ head' = Nobody
        /\ UNCHANGED <<project, manifest, now>>
    BY PlanOfTasks DEF StartBatch
  <1>2. Tasks' = Tasks /\ \A report : IsReport(report)' <=> IsReport(report)
    BY <1>1 DEF Tasks, IsReport
  <1>3. BatchTypeOK'
    BY <1>1, <1>2 DEF BatchInv, BatchTypeOK, Nobody
  <1>4. NightInv(base)' /\ NightInv(head)'
    BY <1>1, <1>2 DEF BatchInv, NightInv, IsReport, Nobody
  <1> QED  BY <1>3, <1>4 DEF BatchInv

LEMMA StepBatch == BatchInv /\ [BatchNext]_batchVars => BatchInv'
  <1> SUFFICES ASSUME BatchInv, [BatchNext]_batchVars PROVE BatchInv'
    OBVIOUS
  <1>1. ASSUME UNCHANGED <<project, base, head>>, now' \in 0 .. BatchAt, manifest' \in Manifests,
               UNCHANGED phase, waiting' \subseteq waiting
        PROVE  BatchInv'
    <2>1. Tasks' = Tasks /\ BatchTypeOK'
      BY <1>1 DEF BatchInv, BatchTypeOK, Tasks
    <2>2. NightInv(base)' /\ NightInv(head)'
      BY <1>1 DEF BatchInv, NightInv, IsReport
    <2> QED  BY <2>1, <2>2 DEF BatchInv
  <1>2. CASE HalfDay
    <2>1. now \in 0 .. BatchAt /\ now < BatchAt /\ BatchAt \in Nat
      BY <1>2, BatchAssumption DEF BatchAssumption, HalfDay, BatchInv, BatchTypeOK
    <2> QED  BY <1>1, <1>2, <2>1 DEF HalfDay, BatchInv, BatchTypeOK
  <1>3. CASE EditManifest
    BY <1>1, <1>3 DEF EditManifest, BatchInv, BatchTypeOK
  <1>4. CASE FirstNight
    BY <1>4, StartKeeps DEF FirstNight
  <1>5. CASE SecondNight
    BY <1>5, StartKeeps DEF SecondNight
  <1>6. ASSUME NEW task \in waiting, RunTask(task) \/ RunnerDies(task) \/ JobDies(task)
        PROVE  BatchInv'
    <2>1. task \in Ids(Tasks) /\ project \in Projects
      BY <1>6 DEF BatchInv, BatchTypeOK
    <2>2. CASE RunTask(task)
      <3>1. PICK report \in Reports(task) : Leave(task, {report})
        BY <2>2 DEF RunTask
      <3>2. IsReport(report)
        BY <2>1, ReportsAreReports
      <3> QED  BY <3>1, <3>2, LeaveKeeps
    <2>3. CASE RunnerDies(task)
      BY <2>3, LeaveKeeps DEF RunnerDies
    <2>4. CASE JobDies(task)
      BY <1>1, <2>4 DEF JobDies, BatchInv, BatchTypeOK
    <2> QED  BY <1>6, <2>2, <2>3, <2>4
  <1>7. CASE UNCHANGED batchVars
    BY <1>1, <1>7 DEF batchVars, BatchInv, BatchTypeOK
  <1> QED  BY <1>2, <1>3, <1>4, <1>5, <1>6, <1>7 DEF BatchNext

LEMMA BatchInvHolds == BatchSpec => []BatchInv
  BY InitBatch, StepBatch, PTL DEF BatchSpec

\* The phases of a batch come in order and only planned tasks run; what a night has are
\* reports of the project's tests, each test once (StartBatch, Leave).
THEOREM BatchTypeCorrect == BatchSpec => []BatchTypeOK
  <1>1. BatchInv => BatchTypeOK
    BY DEF BatchInv
  <1> QED  BY <1>1, BatchInvHolds, PTL

-----------------------------------------------------------------------------
(* The two reviews of the manifest.                                        *)

\* What a review has on an entry.
CodesOf(refused, k) == {p[2] : p \in {q \in refused : q[1] = k}}

\* The four codes of both reviews.
LEMMA EntryCodes ==
  ASSUME NEW m, NEW k, NEW unknownTask \in BOOLEAN, NEW existing, NEW c
  PROVE  c \in QR!EntryErrors(m, k, unknownTask, existing) <=>
           \/ c = "duplicate-id" /\ QR!IsRepeated(m, k)
           \/ c = "unknown-task" /\ unknownTask
           \/ c = "missing-spec" /\ m[k].spec \notin existing
           \/ c = "invalid-pattern" /\ ~m[k].patternOk
  BY DEF QR!EntryErrors

LEMMA ManifestCodes ==
  ASSUME NEW m, NEW known, NEW existing, NEW at, NEW k \in DOMAIN m, NEW c
  PROVE  c \in CodesOf(QR!ManifestErrors(m, known, existing, at), k) <=>
           \/ c \in QR!EntryErrors(m, k, known # {} /\ m[k].task \notin known, existing)
           \/ c = "incomplete" /\ ~m[k].complete
           \/ c = "invalid-introduced-at" /\ m[k].introduced.form = "bad"
           \/ c = "invalid-expires-at" /\ m[k].expires.form = "bad"
           \/ c = "expired" /\ QR!Lapsed(m[k].expires, at)
  <1> DEFINE own(j) == {d \in {"incomplete", "invalid-introduced-at", "invalid-expires-at", "expired"} :
               CASE d = "incomplete"            -> ~m[j].complete
                 [] d = "invalid-introduced-at" -> m[j].introduced.form = "bad"
                 [] d = "invalid-expires-at"    -> m[j].expires.form = "bad"
                 [] d = "expired"               -> QR!Lapsed(m[j].expires, at)}
             codes(j) == QR!EntryErrors(m, j, known # {} /\ m[j].task \notin known, existing) \cup own(j)
  <1>1. QR!ManifestErrors(m, known, existing, at) = UNION {{j} \X codes(j) : j \in DOMAIN m}
    BY DEF QR!ManifestErrors
  <1>2. c \in own(k) <=>
           \/ c = "incomplete" /\ ~m[k].complete
           \/ c = "invalid-introduced-at" /\ m[k].introduced.form = "bad"
           \/ c = "invalid-expires-at" /\ m[k].expires.form = "bad"
           \/ c = "expired" /\ QR!Lapsed(m[k].expires, at)
    OBVIOUS
  <1> HIDE DEF own, codes
  <1>3. c \in CodesOf(UNION {{j} \X codes(j) : j \in DOMAIN m}, k) <=> c \in codes(k)
    <2>1. \A q \in UNION {{j} \X codes(j) : j \in DOMAIN m} :
            q[1] \in DOMAIN m /\ q[2] \in codes(q[1])
      OBVIOUS
    <2>2. \A d \in codes(k) : <<k, d>> \in UNION {{j} \X codes(j) : j \in DOMAIN m}
      OBVIOUS
    <2>3. \A d \in codes(k) : <<k, d>>[1] = k /\ <<k, d>>[2] = d
      OBVIOUS
    <2> QED  BY <2>1, <2>2, <2>3 DEF CodesOf
  <1> QED  BY <1>1, <1>2, <1>3 DEF codes

LEMMA SummaryCodes ==
  ASSUME NEW m, NEW tasks, NEW existing, NEW at, NEW k \in DOMAIN m, NEW c
  PROVE  c \in CodesOf(QR!SummaryErrors(m, tasks, existing, at), k) <=>
           \/ c \in QR!EntryErrors(m, k, m[k].task \notin Ids(tasks), existing)
           \/ /\ c = "task-does-not-own-spec"
              /\ m[k].spec \in existing /\ m[k].task \in Ids(tasks)
              /\ ~QR!Owns(tasks, m[k].task, m[k].spec)
           \/ c = "invalid-introduced-at" /\ m[k].introduced.form # "day"
           \/ c = "invalid-expires-at" /\ m[k].expires.form # "day"
           \/ /\ c = "invalid-expiry-range"
              /\ m[k].introduced.form = "day" /\ m[k].expires.form = "day"
              /\ m[k].introduced.at > m[k].expires.at
           \/ c = "expired" /\ QR!Expiry(m[k].expires, at) = "expired"
  <1> DEFINE known == {tasks[i].id : i \in DOMAIN tasks}
             own(j) == {d \in {"task-does-not-own-spec", "invalid-introduced-at", "invalid-expires-at",
                               "invalid-expiry-range", "expired"} :
                  LET e == m[j]
                  IN CASE d = "task-does-not-own-spec" ->
                            e.spec \in existing /\ e.task \in known /\ ~QR!Owns(tasks, e.task, e.spec)
                       [] d = "invalid-introduced-at"  -> e.introduced.form # "day"
                       [] d = "invalid-expires-at"     -> e.expires.form # "day"
                       [] d = "invalid-expiry-range"   ->
                            /\ e.introduced.form = "day"
                            /\ e.expires.form = "day"
                            /\ e.introduced.at > e.expires.at
                       [] d = "expired"                -> QR!Expiry(e.expires, at) = "expired"}
             codes(j) == QR!EntryErrors(m, j, m[j].task \notin known, existing) \cup own(j)
  <1>1. QR!SummaryErrors(m, tasks, existing, at) = UNION {{j} \X codes(j) : j \in DOMAIN m}
    BY DEF QR!SummaryErrors
  <1>2. c \in own(k) <=>
           \/ /\ c = "task-does-not-own-spec"
              /\ m[k].spec \in existing /\ m[k].task \in known
              /\ ~QR!Owns(tasks, m[k].task, m[k].spec)
           \/ c = "invalid-introduced-at" /\ m[k].introduced.form # "day"
           \/ c = "invalid-expires-at" /\ m[k].expires.form # "day"
           \/ /\ c = "invalid-expiry-range"
              /\ m[k].introduced.form = "day" /\ m[k].expires.form = "day"
              /\ m[k].introduced.at > m[k].expires.at
           \/ c = "expired" /\ QR!Expiry(m[k].expires, at) = "expired"
    <2> HIDE DEF known
    <2> QED  OBVIOUS
  <1>3. known = Ids(tasks)
    BY DEF Ids
  <1> HIDE DEF own, codes, known
  <1>4. c \in CodesOf(UNION {{j} \X codes(j) : j \in DOMAIN m}, k) <=> c \in codes(k)
    <2>1. \A q \in UNION {{j} \X codes(j) : j \in DOMAIN m} :
            q[1] \in DOMAIN m /\ q[2] \in codes(q[1])
      OBVIOUS
    <2>2. \A d \in codes(k) : <<k, d>> \in UNION {{j} \X codes(j) : j \in DOMAIN m}
      OBVIOUS
    <2>3. \A d \in codes(k) : <<k, d>>[1] = k /\ <<k, d>>[2] = d
      OBVIOUS
    <2> QED  BY <2>1, <2>2, <2>3 DEF CodesOf
  <1> QED  BY <1>1, <1>2, <1>3, <1>4 DEF codes

\* A day that is past in one of the reviews is past in the other, but for the day itself.
LEMMA Lapse ==
  ASSUME NEW date, date.at \in Int, date.form = "day", date.at % 2 = 0, NEW at \in Nat
  PROVE  /\ QR!Lapsed(date, at) <=>
              QR!Expiry(date, at) = "expired" \/ (date.at < at /\ at < date.at + 2)
         /\ ~(QR!Expiry(date, at) = "expired" /\ date.at < at /\ at < date.at + 2)
         /\ QR!NearExpiry(date, at) <=>
              QR!Expiry(date, at) = "expires-soon" /\ ~(date.at < at /\ at < date.at + 2)
  <1> DEFINE a == date.at
  <1>1. /\ QR!Lapsed(date, at) <=> a < at
        /\ QR!NearExpiry(date, at) <=> ~(a < at) /\ (a - at + 1) \div 2 <= 7
        /\ QR!Expiry(date, at) = IF a \div 2 - at \div 2 < 0 THEN "expired"
                                 ELSE IF a \div 2 - at \div 2 <= 7 THEN "expires-soon" ELSE "active"
    BY DEF QR!Lapsed, QR!NearExpiry, QR!Expiry, QR!DaysUntil, QR!SoonDays
  <1>2. a \in Int /\ a % 2 = 0
    OBVIOUS
  <1> HIDE DEF a
  <1>3. PICK day \in Int : a = 2 * day
    BY <1>2, a = 2 * (a \div 2)
  <1>4. PICK h \in Nat : at = 2 * h \/ at = 2 * h + 1
    BY at \div 2 \in Nat, at = 2 * (at \div 2) \/ at = 2 * (at \div 2) + 1
  <1>5. a \div 2 = day /\ at \div 2 = h
    BY <1>3, <1>4
  <1>6. /\ a < at <=> day - h < 0 \/ (a < at /\ at < a + 2)
        /\ ~(day - h < 0 /\ a < at /\ at < a + 2)
    BY <1>3, <1>4
  <1>7. ~(a < at) => (a - at + 1) \div 2 = day - h
    <2>1. CASE at = 2 * h
      <3>1. a - at + 1 = 2 * (day - h) + 1
        BY <1>3, <2>1
      <3> QED  BY <3>1
    <2>2. CASE at = 2 * h + 1
      <3>1. a - at + 1 = 2 * (day - h)
        BY <1>3, <2>2
      <3> QED  BY <3>1
    <2> QED  BY <1>4, <2>1, <2>2
  <1>8. QR!Expiry(date, at) = "expired" <=> day - h < 0
    BY <1>1, <1>5
  <1>9. QR!Expiry(date, at) = "expires-soon" <=> ~(day - h < 0) /\ day - h <= 7
    BY <1>1, <1>5
  <1>10. QR!NearExpiry(date, at) <=> ~(a < at) /\ day - h <= 7
    BY <1>1, <1>7
  <1> QED  BY <1>1, <1>6, <1>8, <1>9, <1>10 DEF a

\* What the reviews have on an entry, side by side.
EntriesAgree(k) ==
  LET e       == manifest[k]
      first   == CodesOf(QR!ManifestErrors(manifest, Ids(Tasks), project.existing, now), k)
      other   == CodesOf(QR!SummaryErrors(manifest, Tasks, project.existing, now), k)
      untold  == IF Ids(Tasks) = {} THEN {"unknown-task"} ELSE {}
      lastDay == e.expires.form = "day" /\ e.expires.at < now /\ now < e.expires.at + 2
  IN /\ e.expires.form = "day" =>
          (k \in QR!ManifestWarnings(manifest, now) <=> k \in QR!SummaryWarnings(manifest, now) /\ ~lastDay)
     /\ IF e.introduced.form = "instant" \/ e.expires.form = "instant"
        THEN first \ {"expired"} \subseteq other
        ELSE first = (other \ ({"task-does-not-own-spec", "invalid-expiry-range"} \cup untold))
                      \cup (IF lastDay THEN {"expired"} ELSE {})

LEMMA EntryReviewed ==
  ASSUME BatchTypeOK, NEW k \in DOMAIN manifest, QR!Parses(manifest)
  PROVE  EntriesAgree(k)
  <1> DEFINE e       == manifest[k]
             known   == Ids(Tasks)
             first   == CodesOf(QR!ManifestErrors(manifest, known, project.existing, now), k)
             other   == CodesOf(QR!SummaryErrors(manifest, Tasks, project.existing, now), k)
             untold  == IF known = {} THEN {"unknown-task"} ELSE {}
             lastDay == e.expires.form = "day" /\ e.expires.at < now /\ now < e.expires.at + 2
  <1>1. now \in Nat /\ manifest \in Manifests
    BY BatchAssumption DEF BatchAssumption, BatchTypeOK
  <1>2. \A date \in {e.introduced, e.expires} :
          /\ date.at \in Int /\ date.form \in {"day", "instant", "bad"}
          /\ date.form = "day" => date.at % 2 = 0
    BY <1>1, BatchAssumption DEF BatchAssumption
  <1>3. e.complete
    BY DEF QR!Parses
  <1>4. \A c : c \in first <=>
           \/ c = "duplicate-id" /\ QR!IsRepeated(manifest, k)
           \/ c = "unknown-task" /\ known # {} /\ e.task \notin known
           \/ c = "missing-spec" /\ e.spec \notin project.existing
           \/ c = "invalid-pattern" /\ ~e.patternOk
           \/ c = "invalid-introduced-at" /\ e.introduced.form = "bad"
           \/ c = "invalid-expires-at" /\ e.expires.form = "bad"
           \/ c = "expired" /\ QR!Lapsed(e.expires, now)
    <2> DEFINE shared == QR!EntryErrors(manifest, k, known # {} /\ e.task \notin known, project.existing)
    <2>1. \A c : c \in shared <=>
            \/ c = "duplicate-id" /\ QR!IsRepeated(manifest, k)
            \/ c = "unknown-task" /\ known # {} /\ e.task \notin known
            \/ c = "missing-spec" /\ e.spec \notin project.existing
            \/ c = "invalid-pattern" /\ ~e.patternOk
      <3>1. (known # {} /\ e.task \notin known) \in BOOLEAN
        OBVIOUS
      <3> HIDE DEF known
      <3> QED  BY <3>1, EntryCodes
    <2>2. \A c : c \in first <=>
            \/ c \in shared
            \/ c = "incomplete" /\ ~e.complete
            \/ c = "invalid-introduced-at" /\ e.introduced.form = "bad"
            \/ c = "invalid-expires-at" /\ e.expires.form = "bad"
            \/ c = "expired" /\ QR!Lapsed(e.expires, now)
      <3> HIDE DEF known
      <3> QED  BY ManifestCodes
    <2> HIDE DEF shared, first, known
    <2> QED  BY <1>3, <2>1, <2>2
  <1>5. \A c : c \in other <=>
           \/ c = "duplicate-id" /\ QR!IsRepeated(manifest, k)
           \/ c = "unknown-task" /\ e.task \notin known
           \/ c = "missing-spec" /\ e.spec \notin project.existing
           \/ c = "invalid-pattern" /\ ~e.patternOk
           \/ /\ c = "task-does-not-own-spec"
              /\ e.spec \in project.existing /\ e.task \in known /\ ~QR!Owns(Tasks, e.task, e.spec)
           \/ c = "invalid-introduced-at" /\ e.introduced.form # "day"
           \/ c = "invalid-expires-at" /\ e.expires.form # "day"
           \/ /\ c = "invalid-expiry-range"
              /\ e.introduced.form = "day" /\ e.expires.form = "day" /\ e.introduced.at > e.expires.at
           \/ c = "expired" /\ QR!Expiry(e.expires, now) = "expired"
    <2> DEFINE shared == QR!EntryErrors(manifest, k, e.task \notin known, project.existing)
    <2>1. \A c : c \in shared <=>
            \/ c = "duplicate-id" /\ QR!IsRepeated(manifest, k)
            \/ c = "unknown-task" /\ e.task \notin known
            \/ c = "missing-spec" /\ e.spec \notin project.existing
            \/ c = "invalid-pattern" /\ ~e.patternOk
      <3>1. (e.task \notin known) \in BOOLEAN
        OBVIOUS
      <3> HIDE DEF known
      <3> QED  BY <3>1, EntryCodes
    <2>2. \A c : c \in other <=>
            \/ c \in shared
            \/ /\ c = "task-does-not-own-spec"
               /\ e.spec \in project.existing /\ e.task \in known /\ ~QR!Owns(Tasks, e.task, e.spec)
            \/ c = "invalid-introduced-at" /\ e.introduced.form # "day"
            \/ c = "invalid-expires-at" /\ e.expires.form # "day"
            \/ /\ c = "invalid-expiry-range"
               /\ e.introduced.form = "day" /\ e.expires.form = "day" /\ e.introduced.at > e.expires.at
            \/ c = "expired" /\ QR!Expiry(e.expires, now) = "expired"
      BY SummaryCodes
    <2> HIDE DEF shared, other, known
    <2> QED  BY <2>1, <2>2
  <1>6. k \in QR!ManifestWarnings(manifest, now) <=> QR!NearExpiry(e.expires, now)
    BY DEF QR!ManifestWarnings
  <1>7. k \in QR!SummaryWarnings(manifest, now) <=> QR!Expiry(e.expires, now) = "expires-soon"
    BY DEF QR!SummaryWarnings
  <1>8. e.expires.form = "day" =>
          /\ QR!Lapsed(e.expires, now) <=> QR!Expiry(e.expires, now) = "expired" \/ lastDay
          /\ ~(QR!Expiry(e.expires, now) = "expired" /\ lastDay)
          /\ QR!NearExpiry(e.expires, now) <=> QR!Expiry(e.expires, now) = "expires-soon" /\ ~lastDay
    BY <1>1, <1>2, Lapse
  <1>9. e.expires.form = "bad" =>
          ~QR!Lapsed(e.expires, now) /\ QR!Expiry(e.expires, now) # "expired" /\ ~lastDay
    BY DEF QR!Lapsed, QR!Expiry
  <1> HIDE DEF first, other, lastDay, known
  <1>10. e.expires.form = "day" =>
           (k \in QR!ManifestWarnings(manifest, now) <=> k \in QR!SummaryWarnings(manifest, now) /\ ~lastDay)
    BY <1>6, <1>7, <1>8
  <1>11. first \ {"expired"} \subseteq other
    BY <1>4, <1>5
  <1>12. ASSUME e.introduced.form # "instant", e.expires.form # "instant"
         PROVE  first = (other \ ({"task-does-not-own-spec", "invalid-expiry-range"} \cup untold))
                          \cup (IF lastDay THEN {"expired"} ELSE {})
    <2>1. e.introduced.form \in {"day", "bad"} /\ e.expires.form \in {"day", "bad"}
      BY <1>2, <1>12
    <2>2. QR!Lapsed(e.expires, now) <=> QR!Expiry(e.expires, now) = "expired" \/ lastDay
      BY <1>8, <1>9, <2>1
    <2>3. \A c : c \in untold <=> c = "unknown-task" /\ known = {}
      OBVIOUS
    <2> HIDE DEF untold
    <2>4. ASSUME NEW c
          PROVE  c \in first <=>
                   \/ c \in other /\ c \notin {"task-does-not-own-spec", "invalid-expiry-range"} /\ c \notin untold
                   \/ lastDay /\ c = "expired"
      BY <1>4, <1>5, <2>1, <2>2, <2>3
    <2> QED  BY <2>4
  <1> QED  BY <1>10, <1>11, <1>12 DEF EntriesAgree, first, other, lastDay, known

\* The two reviews agree on every manifest, on every day, for every flaker.star
\* (validateQuarantineManifest, buildFlakerQuarantineSummary).
THEOREM ReviewsDoAgree == BatchSpec => []ReviewsAgree
  <1>1. ASSUME BatchTypeOK PROVE ReviewsAgree
    <2>1. ASSUME ~QR!Parses(manifest)
          PROVE  \E p \in QR!ManifestErrors(manifest, Ids(Tasks), project.existing, now) : p[2] = "incomplete"
      <3>1. PICK k \in DOMAIN manifest : ~manifest[k].complete
        BY <2>1 DEF QR!Parses
      <3>2. "incomplete" \in CodesOf(QR!ManifestErrors(manifest, Ids(Tasks), project.existing, now), k)
        BY <3>1, ManifestCodes
      <3> QED  BY <3>2 DEF CodesOf
    <2>2. ASSUME QR!Parses(manifest), NEW k \in DOMAIN manifest PROVE EntriesAgree(k)
      BY <1>1, <2>2, EntryReviewed
    <2> QED  BY <2>1, <2>2 DEF ReviewsAgree, EntriesAgree, CodesOf
  <1> QED  BY <1>1, BatchTypeCorrect, PTL

-----------------------------------------------------------------------------
(* The plan of a batch.                                                    *)

OneRound(tasks, s) == s \cup NeedsOf(tasks, s)

IsQueue(tasks, ids, f, last) ==
  f = [k \in 0 .. last |-> IF k = 0 THEN ids ELSE OneRound(tasks, f[k - 1])]

LEMMA QueueExists ==
  ASSUME NEW tasks, NEW ids, NEW last \in Nat
  PROVE  \E f : IsQueue(tasks, ids, f, last)
  <1> DEFINE S == {k \in Nat : \E f : IsQueue(tasks, ids, f, k)}
  <1>1. 0 \in S
    <2> DEFINE f0 == [k \in 0 .. 0 |-> ids]
    <2>1. \A k \in 0 .. 0 : k = 0
      OBVIOUS
    <2>2. IsQueue(tasks, ids, f0, 0)
      BY <2>1 DEF IsQueue
    <2> QED  BY <2>2
  <1>2. ASSUME NEW n \in Nat, n \in S PROVE n + 1 \in S
    <2>1. PICK f : IsQueue(tasks, ids, f, n)
      BY <1>2
    <2>2. \A k \in 0 .. n : f[k] = IF k = 0 THEN ids ELSE OneRound(tasks, f[k - 1])
      BY <2>1 DEF IsQueue
    <2> DEFINE h == [k \in 0 .. n + 1 |-> IF k = n + 1 THEN OneRound(tasks, f[n]) ELSE f[k]]
    <2>3. ASSUME NEW k \in 0 .. n + 1
          PROVE  h[k] = IF k = 0 THEN ids ELSE OneRound(tasks, h[k - 1])
      <3>1. CASE k = 0
        BY <2>2, <3>1
      <3>2. CASE k = n + 1
        <4>1. n \in 0 .. n + 1 /\ n # n + 1 /\ k - 1 = n /\ k # 0
          BY <3>2
        <4>2. h[n] = f[n]
          BY <4>1
        <4> QED  BY <3>2, <4>1, <4>2
      <3>3. CASE k \in 1 .. n
        <4>1. h[k] = f[k] /\ h[k - 1] = f[k - 1]
          BY <3>3
        <4> QED  BY <2>2, <3>3, <4>1
      <3> QED  BY <3>1, <3>2, <3>3
    <2>4. IsQueue(tasks, ids, h, n + 1)
      <3> HIDE DEF h
      <3>1. h = [k \in 0 .. n + 1 |-> h[k]]
        BY DEF h
      <3> QED  BY <2>3, <3>1 DEF IsQueue
    <2> HIDE DEF h
    <2> QED  BY <2>4
  <1>3. Nat \subseteq S
    <2> HIDE DEF S
    <2> QED  BY <1>1, <1>2, Induction
  <1> QED  BY <1>3

LEMMA NeedsGrow ==
  ASSUME NEW tasks
  PROVE  /\ \A s : NeedsOf(tasks, s) \subseteq Ids(tasks)
         /\ NeedsOf(tasks, {}) = {}
         /\ \A s : \A id \in s : \A need \in TaskById(tasks, id).needs :
              need \in Ids(tasks) => need \in NeedsOf(tasks, s)
  BY DEF NeedsOf

\* There are no more ids than tasks.
LEMMA IdsAreFew ==
  ASSUME NEW tasks, tasks \in Seq(Range(tasks))
  PROVE  /\ IsFiniteSet(Ids(tasks)) /\ Cardinality(Ids(tasks)) \in Nat
         /\ Cardinality(Ids(tasks)) <= Len(tasks) /\ Len(tasks) \in Nat
  <1> DEFINE S == 1 .. Len(tasks)
             f == [i \in S |-> tasks[i].id]
  <1>1. Len(tasks) \in Nat /\ DOMAIN tasks = S
    OBVIOUS
  <1>2. IsFiniteSet(S) /\ Cardinality(S) = Len(tasks)
    BY <1>1, FS_Interval
  <1>4. f \in Surjection(S, Ids(tasks))
    BY <1>1 DEF Ids, Surjection
  <1> HIDE DEF S, f
  <1> QED  BY <1>1, <1>2, <1>4, FS_Surjection, FS_CardinalityType

\* As many rounds as there are tasks find everything that the tasks need.
LEMMA NeedsClosed ==
  ASSUME NEW tasks, tasks \in Seq(Range(tasks)), NEW ids \in SUBSET Ids(tasks)
  PROVE  /\ ids \subseteq WithNeeds(tasks, ids)
         /\ WithNeeds(tasks, ids) \subseteq Ids(tasks)
         /\ NeedsOf(tasks, WithNeeds(tasks, ids)) \subseteq WithNeeds(tasks, ids)
  <1> DEFINE last == Len(tasks)
             c == CHOOSE f : IsQueue(tasks, ids, f, last)
  <1>1. /\ last \in Nat /\ Cardinality(Ids(tasks)) <= last
        /\ IsFiniteSet(Ids(tasks)) /\ Cardinality(Ids(tasks)) \in Nat
    BY IdsAreFew
  <1>2. IsQueue(tasks, ids, c, last)
    <2> HIDE DEF last
    <2>1. \E f : IsQueue(tasks, ids, f, last)
      BY <1>1, QueueExists
    <2> QED  BY <2>1
  <1>3. WithNeeds(tasks, ids) = c[last]
    BY DEF WithNeeds, IsQueue, OneRound
  <1>4. \A k \in 0 .. last : c[k] = IF k = 0 THEN ids ELSE OneRound(tasks, c[k - 1])
    <2> HIDE DEF c, last
    <2> QED  BY <1>2 DEF IsQueue
  <1> HIDE DEF c, last
  <1>5. ASSUME NEW s \in SUBSET Ids(tasks)
        PROVE  IsFiniteSet(s) /\ Cardinality(s) \in Nat /\ Cardinality(s) <= last
    BY <1>1, FS_Subset, FS_CardinalityType
  <1> DEFINE Closed(s) == NeedsOf(tasks, s) \subseteq s
             Reach(s, n) ==
               /\ ids \subseteq s /\ s \subseteq Ids(tasks)
               /\ Closed(s) \/ Cardinality(s) >= n + 1
             S == {n \in Nat : n <= last => Reach(c[n], n)}
  <1>6. 0 \in S
    <2>1. c[0] = ids
      BY <1>1, <1>4
    <2>2. Closed(ids) \/ Cardinality(ids) >= 0 + 1
      <3>1. CASE ids = {}
        BY <3>1, NeedsGrow
      <3>2. CASE ids # {}
        <4>1. Cardinality(ids) # 0 /\ Cardinality(ids) \in Nat
          BY <1>5, <3>2, FS_EmptySet
        <4> QED  BY <4>1
      <3> QED  BY <3>1, <3>2
    <2> QED  BY <2>1, <2>2
  <1>7. ASSUME NEW n \in Nat, n \in S PROVE n + 1 \in S
    <2> SUFFICES ASSUME n + 1 <= last PROVE Reach(c[n + 1], n + 1)
      OBVIOUS
    <2> DEFINE s == c[n]
               t == c[n + 1]
    <2>1. Reach(s, n)
      BY <1>1, <1>7
    <2>2. t = s \cup NeedsOf(tasks, s)
      <3>1. n + 1 \in 0 .. last /\ (n + 1) - 1 = n /\ n + 1 # 0
        BY <1>1
      <3>2. t = OneRound(tasks, s)
        BY <1>4, <3>1
      <3> HIDE DEF s, t
      <3> QED  BY <3>2 DEF OneRound
    <2> HIDE DEF s, t
    <2>3. ids \subseteq t /\ t \subseteq Ids(tasks)
      BY <2>1, <2>2, NeedsGrow
    <2>4. Closed(t) \/ Cardinality(t) >= (n + 1) + 1
      <3>1. CASE Closed(s)
        <4>1. t = s
          BY <2>2, <3>1
        <4> QED  BY <3>1, <4>1
      <3>2. CASE ~Closed(s)
        <4>1. s \subseteq t /\ s # t /\ IsFiniteSet(t)
          BY <1>5, <2>2, <2>3, <3>2
        <4>2. Cardinality(s) >= n + 1 /\ Cardinality(s) \in Nat /\ Cardinality(t) \in Nat
          BY <1>5, <2>1, <2>3, <3>2
        <4>3. Cardinality(s) < Cardinality(t)
          <5>1. Cardinality(s) <= Cardinality(t) /\ (Cardinality(t) = Cardinality(s) => t = s)
            BY <4>1, FS_Subset
          <5> QED  BY <4>1, <4>2, <5>1
        <4> QED  BY <4>2, <4>3
      <3> QED  BY <3>1, <3>2
    <2> QED  BY <2>3, <2>4 DEF t
  <1>8. Nat \subseteq S
    <2> HIDE DEF S
    <2> QED  BY <1>6, <1>7, Induction
  <1> DEFINE all == c[last]
  <1>9. Reach(all, last)
    BY <1>1, <1>8
  <1> HIDE DEF all
  <1>10. Closed(all)
    <2>1. Cardinality(all) \in Nat /\ Cardinality(all) <= last
      BY <1>5, <1>9
    <2> QED  BY <1>1, <1>9, <2>1
  <1>11. WithNeeds(tasks, ids) = all
    BY <1>3 DEF all
  <1> QED  BY <1>9, <1>10, <1>11

\* When no id is repeated, the task of an id is the one that has it.
LEMMA TaskOfId ==
  ASSUME NEW tasks, tasks \in Seq(Range(tasks)), Repeated(tasks) = {}, NEW i \in DOMAIN tasks
  PROVE  TaskById(tasks, tasks[i].id) = tasks[i]
  <1> DEFINE id == tasks[i].id
             IsIt(k) == k \in DOMAIN tasks /\ tasks[k].id = id /\ \A j \in DOMAIN tasks : tasks[j].id = id => j <= k
  <1>1. DOMAIN tasks = 1 .. Len(tasks) /\ Len(tasks) \in Nat
    OBVIOUS
  <1>2. ASSUME NEW k \in DOMAIN tasks, NEW j \in DOMAIN tasks, tasks[j].id = tasks[k].id, j < k
        PROVE  FALSE
    <2>1. j \in 1 .. (k - 1)
      BY <1>1, <1>2
    <2>2. tasks[k].id \in Repeated(tasks)
      BY <1>2, <2>1 DEF Repeated
    <2> QED  BY <2>2
  <1>3. ASSUME NEW k \in DOMAIN tasks, NEW j \in DOMAIN tasks, tasks[j].id = tasks[k].id
        PROVE  j = k
    <2>1. j \in Int /\ k \in Int
      BY <1>1
    <2> QED  BY <1>2, <1>3, <2>1
  <1>4. IsIt(i) /\ \A k : IsIt(k) => k = i
    BY <1>1, <1>3
  <1>5. TaskById(tasks, id) =
          tasks[CHOOSE k \in DOMAIN tasks :
                  tasks[k].id = id /\ \A j \in DOMAIN tasks : tasks[j].id = id => j <= k]
    BY DEF TaskById
  <1>6. (CHOOSE k \in DOMAIN tasks :
           tasks[k].id = id /\ \A j \in DOMAIN tasks : tasks[j].id = id => j <= k) = i
    BY <1>4
  <1> QED  BY <1>5, <1>6

\* What the plan relies on, when the check of flaker.star finds nothing.
LEMMA NoErrors ==
  ASSUME NEW config, NEW existing, ConfigErrors(config, existing) = {}
  PROVE  /\ Repeated(config.tasks) = {}
         /\ \A i \in DOMAIN config.tasks : config.tasks[i].needs \subseteq Ids(config.tasks)
         /\ \A i \in DOMAIN config.tasks : \A s \in config.tasks[i].specs :
              OwnershipErrors(config.tasks, s) = {}
  <1> DEFINE tasks == config.tasks
             specs == UNION {tasks[i].specs : i \in DOMAIN tasks}
  <1>1. /\ {<<"duplicate-task-id", id>> : id \in Repeated(tasks)} = {}
        /\ {<<"unknown-task-dependency", tasks[i].id>> :
              i \in {k \in DOMAIN tasks : ~(tasks[k].needs \subseteq Ids(tasks))}} = {}
        /\ UNION {{<<code, s>> : code \in OwnershipErrors(tasks, s)} : s \in specs} = {}
    <2> HIDE DEF specs
    <2> QED  BY DEF ConfigErrors, specs
  <1>2. \A id \in Repeated(tasks) :
          <<"duplicate-task-id", id>> \in {<<"duplicate-task-id", d>> : d \in Repeated(tasks)}
    OBVIOUS
  <1>3. ASSUME NEW i \in DOMAIN tasks PROVE tasks[i].needs \subseteq Ids(tasks)
    <2> DEFINE lacking == {k \in DOMAIN tasks : ~(tasks[k].needs \subseteq Ids(tasks))}
    <2>1. \A k \in lacking :
            <<"unknown-task-dependency", tasks[k].id>> \in {<<"unknown-task-dependency", tasks[l].id>> : l \in lacking}
      OBVIOUS
    <2>2. lacking = {}
      BY <1>1, <2>1
    <2> QED  BY <2>2
  <1>4. ASSUME NEW s \in specs PROVE OwnershipErrors(tasks, s) = {}
    <2>1. {<<code, s>> : code \in OwnershipErrors(tasks, s)} \subseteq {}
      <3> HIDE DEF specs
      <3> QED  BY <1>1, <1>4
    <2>2. \A code \in OwnershipErrors(tasks, s) : <<code, s>> \in {<<d, s>> : d \in OwnershipErrors(tasks, s)}
      OBVIOUS
    <2> QED  BY <2>1, <2>2
  <1>5. Repeated(tasks) = {}
    BY <1>1, <1>2
  <1> QED  BY <1>3, <1>4, <1>5

\* Tasks that share a spec are filtered, each in its own way.
LEMMA OwnersDiffer ==
  ASSUME NEW tasks, tasks \in Seq(Range(tasks)), NEW s, OwnershipErrors(tasks, s) = {},
         NEW i \in Owners(tasks, s), NEW j \in Owners(tasks, s), i # j
  PROVE  IsFiltered(tasks[i]) /\ tasks[i].filter # tasks[j].filter
  <1> DEFINE owners  == Owners(tasks, s)
             filters == {tasks[k].filter : k \in owners}
  <1>1. owners \subseteq 1 .. Len(tasks) /\ Len(tasks) \in Nat
    BY DEF Owners
  <1>2. IsFiniteSet(owners) /\ Cardinality(owners) \in Nat
    <2>1. IsFiniteSet(1 .. Len(tasks))
      BY <1>1, FS_Interval
    <2> HIDE DEF owners
    <2> QED  BY <1>1, <2>1, FS_Subset, FS_CardinalityType
  <1>3. Cardinality(owners) >= 2
    <2>1. Cardinality({i, j}) = 2 /\ IsFiniteSet({i, j})
      <3>1. Cardinality({i}) = 1 /\ IsFiniteSet({i}) /\ {i, j} = {i} \cup {j} /\ j \notin {i}
        BY FS_Singleton
      <3>2. Cardinality({i} \cup {j}) = Cardinality({i}) + 1 /\ IsFiniteSet({i} \cup {j})
        BY <3>1, FS_AddElement
      <3> QED  BY <3>1, <3>2
    <2>2. {i, j} \in SUBSET owners
      OBVIOUS
    <2>3. Cardinality({i, j}) <= Cardinality(owners)
      <3> HIDE DEF owners
      <3> QED  BY <1>2, <2>2, FS_Subset
    <2> QED  BY <1>2, <2>1, <2>3
  <1>4. /\ \A k \in owners : IsFiltered(tasks[k])
        /\ Cardinality(filters) = Cardinality(owners)
    <2>1. OwnershipErrors(tasks, s) =
            IF Cardinality(owners) < 2 THEN {}
            ELSE IF \E k \in owners : ~IsFiltered(tasks[k]) THEN {"duplicate-spec-ownership"}
            ELSE IF Cardinality(filters) # Cardinality(owners) THEN {"duplicate-spec-selector"} ELSE {}
      BY DEF OwnershipErrors
    <2>2. ~(Cardinality(owners) < 2)
      BY <1>2, <1>3
    <2> HIDE DEF owners, filters
    <2> QED  BY <2>1, <2>2
  <1>5. tasks[i].filter # tasks[j].filter
    <2> DEFINE f == [k \in owners |-> tasks[k].filter]
    <2>1. f \in Surjection(owners, filters)
      BY DEF Surjection
    <2> HIDE DEF f, owners, filters
    <2>2. f \in Injection(owners, filters)
      BY <1>2, <1>4, <2>1, FS_SurjSameCardinalityImpliesInj
    <2>3. i \in owners /\ j \in owners
      BY DEF owners
    <2>4. f[i] # f[j]
      BY <2>2, <2>3 DEF Injection, IsInjective
    <2> QED  BY <2>3, <2>4 DEF f
  <1> QED  BY <1>4, <1>5

\* The tasks of a plan are those of the file that the batch is to run.
LEMMA Planned ==
  ASSUME NEW tasks, tasks \in Seq(Range(tasks)), Repeated(tasks) = {}, NEW only, NEW task
  PROVE  task \in {TaskById(tasks, id) : id \in BatchPlan(tasks, only)} <=>
           \E i \in DOMAIN tasks : task = tasks[i] /\ ShouldIncludeTask(tasks[i], only)
  <1>1. \A i \in DOMAIN tasks : TaskById(tasks, tasks[i].id) = tasks[i]
    BY TaskOfId
  <1>2. \A id : id \in BatchPlan(tasks, only) <=>
          \E i \in DOMAIN tasks : id = tasks[i].id /\ ShouldIncludeTask(tasks[i], only)
    BY DEF BatchPlan
  <1> QED  BY <1>1, <1>2

\* A changed file selects the tasks that have it, and all that these need.
LEMMA Selects ==
  ASSUME NEW tasks, tasks \in Seq(Range(tasks)), NEW changed
  PROVE  /\ \A i \in DOMAIN tasks :
              changed \cap tasks[i].specs # {} => tasks[i].id \in Selection(tasks, changed).selected
         /\ NeedsOf(tasks, Selection(tasks, changed).selected) \subseteq Selection(tasks, changed).selected
  <1> DEFINE matched == {tasks[i].id : i \in {k \in DOMAIN tasks : Reasons(tasks[k], changed) # {}}}
  <1>1. matched \in SUBSET Ids(tasks)
    BY DEF Ids
  <1>2. Selection(tasks, changed).selected = WithNeeds(tasks, matched)
    BY DEF Selection
  <1>3. \A i \in DOMAIN tasks : changed \cap tasks[i].specs # {} => tasks[i].id \in matched
    BY DEF Reasons
  <1> HIDE DEF matched
  <1> QED  BY <1>1, <1>2, <1>3, NeedsClosed

\* A batch planned from a flaker.star without errors runs no task without what it needs, and
\* nothing twice (buildFlakerConfigSummary, buildFlakerSelection, buildFlakerBatchPlan).
THEOREM PlanSound == BatchSpec => []PlanIsSound
  <1>1. ASSUME BatchTypeOK, phase = "desk", ConfigErrors(project.config, project.existing) = {}
        PROVE  /\ \A s \in project.existing :
                    \/ <<"unmanaged-spec", s>> \in ConfigWarnings(project.config, project.existing)
                    \/ \E id \in Selection(Tasks, {s}).selected : s \in TaskById(Tasks, id).specs
               /\ \A change \in Changes :
                    LET plan == {TaskById(Tasks, id) : id \in BatchPlan(Tasks, Selection(Tasks, change).selected)}
                    IN \A task \in plan :
                         /\ \A id \in task.needs :
                              TaskById(Tasks, id) \in plan \/ TaskById(Tasks, id).trigger \notin {"none", "auto"}
                         /\ \A other \in plan \ {task} :
                              task.specs \cap other.specs # {} => IsFiltered(task) /\ task.filter # other.filter
    <2>1. Tasks \in Seq(Range(Tasks)) /\ Tasks = project.config.tasks
      BY <1>1, ProjectFacts DEF BatchTypeOK, Tasks
    <2>2. /\ Repeated(Tasks) = {}
          /\ \A i \in DOMAIN Tasks : Tasks[i].needs \subseteq Ids(Tasks)
          /\ \A i \in DOMAIN Tasks : \A s \in Tasks[i].specs : OwnershipErrors(Tasks, s) = {}
      BY <1>1, <2>1, NoErrors
    <2>3. \A i \in DOMAIN Tasks : TaskById(Tasks, Tasks[i].id) = Tasks[i]
      BY <2>1, <2>2, TaskOfId
    <2>4. ASSUME NEW s \in project.existing
          PROVE  \/ <<"unmanaged-spec", s>> \in ConfigWarnings(project.config, project.existing)
                 \/ \E id \in Selection(Tasks, {s}).selected : s \in TaskById(Tasks, id).specs
      <3>1. CASE s \in UNION {Tasks[i].specs : i \in DOMAIN Tasks}
        <4>1. PICK i \in DOMAIN Tasks : s \in Tasks[i].specs
          BY <3>1
        <4>2. Tasks[i].id \in Selection(Tasks, {s}).selected
          BY <2>1, <4>1, Selects
        <4> QED  BY <2>3, <4>1, <4>2
      <3>2. CASE s \notin UNION {Tasks[i].specs : i \in DOMAIN Tasks}
        BY <2>1, <3>2 DEF ConfigWarnings
      <3> QED  BY <3>1, <3>2
    <2>5. ASSUME NEW change \in Changes
          PROVE  LET plan == {TaskById(Tasks, id) : id \in BatchPlan(Tasks, Selection(Tasks, change).selected)}
                 IN \A task \in plan :
                      /\ \A id \in task.needs :
                           TaskById(Tasks, id) \in plan \/ TaskById(Tasks, id).trigger \notin {"none", "auto"}
                      /\ \A other \in plan \ {task} :
                           task.specs \cap other.specs # {} => IsFiltered(task) /\ task.filter # other.filter
      <3> DEFINE selected == Selection(Tasks, change).selected
                 plan     == {TaskById(Tasks, id) : id \in BatchPlan(Tasks, selected)}
      <3>1. NeedsOf(Tasks, selected) \subseteq selected
        BY <2>1, Selects
      <3> HIDE DEF selected
      <3>2. ASSUME NEW task
            PROVE  task \in plan <=>
                     \E i \in DOMAIN Tasks : task = Tasks[i] /\ ShouldIncludeTask(Tasks[i], selected)
        <4>1. Tasks \in Seq(Range(Tasks)) /\ Repeated(Tasks) = {}
          BY <2>1, <2>2
        <4> QED  BY <4>1, Planned
      <3> HIDE DEF plan
      <3>3. ASSUME NEW task \in plan, NEW id \in task.needs, TaskById(Tasks, id).trigger \in {"none", "auto"}
            PROVE  TaskById(Tasks, id) \in plan
        <4>1. PICK i \in DOMAIN Tasks : task = Tasks[i] /\ ShouldIncludeTask(Tasks[i], selected)
          BY <3>2
        <4>2. id \in Ids(Tasks) /\ Tasks[i].id \in selected
          BY <2>2, <3>3, <4>1 DEF ShouldIncludeTask
        <4>3. PICK j \in DOMAIN Tasks : Tasks[j].id = id
          BY <4>2 DEF Ids
        <4>4. id \in NeedsOf(Tasks, selected)
          BY <2>3, <3>3, <4>1, <4>2, NeedsGrow
        <4>5. TaskById(Tasks, id) = Tasks[j]
          BY <2>3, <4>3
        <4>6. ShouldIncludeTask(Tasks[j], selected)
          BY <3>1, <3>3, <4>3, <4>4, <4>5 DEF ShouldIncludeTask
        <4> QED  BY <3>2, <4>5, <4>6
      <3>4. ASSUME NEW task \in plan, NEW other \in plan \ {task}, task.specs \cap other.specs # {}
            PROVE  IsFiltered(task) /\ task.filter # other.filter
        <4>1. PICK i \in DOMAIN Tasks : task = Tasks[i]
          BY <3>2
        <4>2. PICK j \in DOMAIN Tasks : other = Tasks[j]
          BY <3>2
        <4>3. PICK s : s \in Tasks[i].specs /\ s \in Tasks[j].specs
          BY <3>4, <4>1, <4>2
        <4>4. i # j /\ i \in Owners(Tasks, s) /\ j \in Owners(Tasks, s) /\ OwnershipErrors(Tasks, s) = {}
          BY <2>2, <3>4, <4>1, <4>2, <4>3 DEF Owners
        <4> QED  BY <2>1, <4>1, <4>2, <4>4, OwnersDiffer
      <3>5. \A task \in plan :
              /\ \A id \in task.needs :
                   TaskById(Tasks, id) \in plan \/ TaskById(Tasks, id).trigger \notin {"none", "auto"}
              /\ \A other \in plan \ {task} :
                   task.specs \cap other.specs # {} => IsFiltered(task) /\ task.filter # other.filter
        BY <3>3, <3>4
      <3> QED  BY <3>5 DEF plan, selected
    <2> QED  BY <2>4, <2>5
  <1>2. BatchTypeOK => PlanIsSound
    BY <1>1 DEF PlanIsSound
  <1> QED  BY <1>2, BatchTypeCorrect, PTL

-----------------------------------------------------------------------------
(* A failure on its way through the reports.                               *)

LastTry(tries) == tries[Len(tries)]

\* The test failed in the end.
Fails(tries) == tries # <<>> /\ LastTry(tries) \in {"failed", "timedout"}

LEMMA RowFacts ==
  ASSUME NEW report, IsReport(report)
  PROVE  /\ DOMAIN report = 1 .. Len(report) /\ Len(report) \in Nat /\ IsFiniteSet(DOMAIN report)
         /\ \A i \in DOMAIN report : report[i].attempts \in Tries /\ report[i].test \in DOMAIN project.fileOf
         /\ \A i, j \in DOMAIN report : report[i].test = report[j].test => i = j
  <1> DEFINE T == [test : DOMAIN project.fileOf, attempts : Tries]
  <1>1. report \in Seq(T) /\ \A i, j \in DOMAIN report : report[i].test = report[j].test => i = j
    BY DEF IsReport
  <1>2. \A t \in T : t.attempts \in Tries /\ t.test \in DOMAIN project.fileOf
    OBVIOUS
  <1> HIDE DEF T
  <1>3. DOMAIN report = 1 .. Len(report) /\ Len(report) \in Nat /\ \A i \in DOMAIN report : report[i] \in T
    BY <1>1
  <1>4. IsFiniteSet(DOMAIN report)
    BY <1>3, FS_Interval
  <1> QED  BY <1>1, <1>2, <1>3, <1>4

PwOutcome(tries) == PW!Outcome(PW!RawStatus(tries), tries)

LEMMA TriesFacts ==
  ASSUME NEW tries \in Tries
  PROVE  /\ tries \in Seq(TryStatuses)
         /\ \A i \in DOMAIN tries : tries[i] = "passed" => i = Len(tries)
         /\ tries # <<>> => LastTry(tries) \in TryStatuses /\ Len(tries) \in DOMAIN tries
  <1>1. tries \in Seq(TryStatuses)
    BY BatchAssumption DEF BatchAssumption
  <1>2. \A i \in 1 .. Len(tries) - 1 : tries[i] # "passed"
    BY BatchAssumption DEF BatchAssumption
  <1>3. DOMAIN tries = 1 .. Len(tries) /\ Len(tries) \in Nat
    BY <1>1
  <1>4. \A i \in DOMAIN tries : tries[i] = "passed" => i = Len(tries)
    BY <1>2, <1>3
  <1>5. tries # <<>> => Len(tries) \in DOMAIN tries
    BY <1>1, <1>3
  <1> QED  BY <1>1, <1>4, <1>5 DEF LastTry

\* What each pipeline makes of the tries of such a test.
LEMMA FailingTries ==
  ASSUME NEW tries \in Tries, Fails(tries)
  PROVE  /\ PwOutcome(tries) \in {"failed", "timedout", "interrupted"}
         /\ tries # <<"timedout">> => PwOutcome(tries) = "failed" \/ PW!Retries(tries) > 0
         /\ TR!StatusOf(tries) = "failed"
  <1> DEFINE tried == {tries[i] : i \in DOMAIN tries}
             last  == LastTry(tries)
  <1>1. /\ tries \in Seq(TryStatuses) /\ tries # <<>> /\ Len(tries) \in Nat \ {0} /\ Len(tries) \in DOMAIN tries
        /\ last \in {"failed", "timedout"} /\ last = tries[Len(tries)]
        /\ \A i \in DOMAIN tries : tries[i] = "passed" => i = Len(tries)
    BY TriesFacts DEF Fails, LastTry
  <1>2. last \in tried /\ "passed" \notin tried
    BY <1>1
  <1>3. PW!RawStatus(tries) = "unexpected"
    <2> HIDE DEF tried, last
    <2>1. PW!RawStatus(tries) =
            IF tried \ {"interrupted", "skipped"} = {} THEN "skipped"
            ELSE IF tried \ {"interrupted", "skipped"} = {"passed"} THEN "expected"
            ELSE IF "passed" \in tried \ {"interrupted", "skipped"} THEN "flaky" ELSE "unexpected"
      BY DEF PW!RawStatus, tried
    <2>2. last \in tried \ {"interrupted", "skipped"} /\ last # "passed"
      BY <1>1, <1>2
    <2> QED  BY <1>2, <2>1, <2>2
  <1>4. PwOutcome(tries) =
          IF "timedout" \in tried THEN "timedout" ELSE IF "interrupted" \in tried THEN "interrupted" ELSE last
    <2> HIDE DEF tried, last
    <2>1. PW!Outcome("unexpected", tries) =
            IF "timedout" \in tried THEN "timedout" ELSE IF "interrupted" \in tried THEN "interrupted" ELSE last
      BY <1>1 DEF PW!Outcome, tried, last, LastTry
    <2> QED  BY <1>1, <1>3, <2>1 DEF PwOutcome
  <1>5. PwOutcome(tries) \in {"failed", "timedout", "interrupted"}
    <2> HIDE DEF tried, last
    <2> QED  BY <1>1, <1>4
  <1>6. ASSUME tries # <<"timedout">> PROVE PwOutcome(tries) = "failed" \/ PW!Retries(tries) > 0
    <2>1. CASE Len(tries) > 1
      BY <1>1, <2>1 DEF PW!Retries
    <2>2. CASE Len(tries) = 1
      <3>1. tries = <<last>> /\ tried = {last}
        BY <1>1, <2>2
      <3>2. last = "failed"
        BY <1>1, <1>6, <3>1
      <3> HIDE DEF tried, last
      <3> QED  BY <1>4, <3>1, <3>2
    <2>3. Len(tries) > 1 \/ Len(tries) = 1
      <3> DEFINE n == Len(tries)
      <3>1. n \in Nat /\ n # 0
        BY <1>1
      <3> HIDE DEF n
      <3>2. n > 1 \/ n = 1
        BY <3>1
      <3> QED  BY <3>2 DEF n
    <2> QED  BY <2>1, <2>2, <2>3
  <1>7. TR!StatusOf(tries) = "failed"
    BY <1>1 DEF TR!StatusOf
  <1> QED  BY <1>5, <1>6, <1>7

\* The counts of a summary.
With(report, o) == {i \in DOMAIN report : o \in {PwOutcome(report[i].attempts), "total"}}

LEMMA TotalsOf ==
  ASSUME NEW report, IsReport(report), NEW fileOf, NEW o \in PW!Outcomes \cup {"total"}
  PROVE  /\ PW!Totals(PW!Rows(report, fileOf))[o] = Cardinality(With(report, o))
         /\ IsFiniteSet(With(report, o)) /\ Cardinality(With(report, o)) \in Nat
         /\ With(report, o) # {} => Cardinality(With(report, o)) > 0
  <1> DEFINE rows  == PW!Rows(report, fileOf)
             these == With(report, o)
  <1>1. DOMAIN rows = DOMAIN report /\ \A i \in DOMAIN report : rows[i].outcome = PwOutcome(report[i].attempts)
    BY DEF PW!Rows, PwOutcome
  <1>2. PW!Totals(rows)[o] = Cardinality({i \in DOMAIN rows : o \in {rows[i].outcome, "total"}})
    <2> HIDE DEF rows
    <2> QED  BY DEF PW!Totals, PW!Count, PW!Cardinality, Cardinality
  <1>3. {i \in DOMAIN rows : o \in {rows[i].outcome, "total"}} = these
    <2> HIDE DEF rows
    <2> QED  BY <1>1 DEF With
  <1>4. IsFiniteSet(these) /\ Cardinality(these) \in Nat
    <2>2. IsFiniteSet(DOMAIN report)
      BY RowFacts
    <2>3. these \in SUBSET DOMAIN report
      BY DEF With
    <2> HIDE DEF these
    <2> QED  BY <2>2, <2>3, FS_Subset, FS_CardinalityType
  <1>5. these # {} => Cardinality(these) > 0
    <2> HIDE DEF these
    <2> QED  BY <1>4, FS_EmptySet
  <1> HIDE DEF rows, these
  <1>6. PW!Totals(rows)[o] = Cardinality(these)
    BY <1>2, <1>3
  <1> QED  BY <1>4, <1>5, <1>6 DEF rows, these

\* A report in which a test failed in the end has it as such everywhere.
LEMMA FailureInSummary ==
  ASSUME NEW report, IsReport(report), NEW fileOf, NEW i \in DOMAIN report, Fails(report[i].attempts)
  PROVE  /\ FailedOf(PW!PlaywrightSummary(report, fileOf).totals) > 0
         /\ report[i].attempts # <<"timedout">> => i \in PW!Markdown(PW!PlaywrightSummary(report, fileOf)).unstable
  <1> DEFINE tries == report[i].attempts
             rows  == PW!Rows(report, fileOf)
             these(o) == With(report, o)
  <1>a. tries \in Tries
    BY RowFacts
  <1>2. /\ PwOutcome(tries) \in {"failed", "timedout", "interrupted"}
        /\ tries # <<"timedout">> => PwOutcome(tries) = "failed" \/ PW!Retries(tries) > 0
    BY <1>a, FailingTries
  <1>3. ASSUME NEW o \in {"failed", "timedout", "interrupted"}
        PROVE  /\ PW!Totals(rows)[o] \in Nat
               /\ o = PwOutcome(tries) => PW!Totals(rows)[o] > 0
    <2>1. o \in PW!Outcomes \cup {"total"}
      BY DEF PW!Outcomes
    <2>2. /\ PW!Totals(rows)[o] = Cardinality(these(o)) /\ Cardinality(these(o)) \in Nat
          /\ these(o) # {} => Cardinality(these(o)) > 0
      BY <2>1, TotalsOf
    <2>3. o = PwOutcome(tries) => i \in these(o)
      BY DEF With
    <2> HIDE DEF these, rows
    <2> QED  BY <2>2, <2>3
  <1>4. PW!PlaywrightSummary(report, fileOf).totals = PW!Totals(rows) /\ PW!PlaywrightSummary(report, fileOf).tests = rows
    BY DEF PW!PlaywrightSummary
  <1>5. FailedOf(PW!Totals(rows)) > 0
    <2>1. /\ PW!Totals(rows)["failed"] \in Nat /\ PW!Totals(rows)["timedout"] \in Nat
          /\ PW!Totals(rows)["interrupted"] \in Nat
      BY <1>3
    <2>2. \/ PW!Totals(rows)["failed"] > 0 \/ PW!Totals(rows)["timedout"] > 0
          \/ PW!Totals(rows)["interrupted"] > 0
      BY <1>2, <1>3
    <2> HIDE DEF rows
    <2> QED  BY <2>1, <2>2 DEF FailedOf
  <1>6. DOMAIN rows = DOMAIN report /\ rows[i].outcome = PwOutcome(tries) /\ rows[i].retries = PW!Retries(tries)
    BY DEF PW!Rows, PwOutcome
  <1> HIDE DEF rows, tries
  <1>7. tries # <<"timedout">> => i \in PW!Markdown(PW!PlaywrightSummary(report, fileOf)).unstable
    BY <1>2, <1>4, <1>6 DEF PW!Markdown
  <1> QED  BY <1>4, <1>5, <1>7 DEF tries

\* What `flaker report' reads of a report.
LEMMA ParsedFacts ==
  ASSUME NEW report, IsReport(report), NEW idOf, NEW fileOf, NEW tests \in TR!Parsed(report, idOf, fileOf)
  PROVE  /\ tests \in Seq(Range(tests)) /\ DOMAIN tests = DOMAIN report /\ Len(tests) = Len(report)
         /\ \A i \in DOMAIN report : /\ report[i].attempts # <<>>
                                     /\ tests[i].id = idOf[report[i].test]
                                     /\ tests[i].status = TR!StatusOf(report[i].attempts)
  <1>2. DOMAIN report = 1 .. Len(report) /\ Len(report) \in Nat
    BY RowFacts
  <1> DEFINE row(i) == [id      |-> idOf[report[i].test],
                        suite   |-> fileOf[report[i].test],
                        status  |-> TR!StatusOf(report[i].attempts),
                        retries |-> Len(report[i].attempts) - 1]
  <1>3. tests = [i \in DOMAIN report |-> row(i)] /\ \A i \in DOMAIN report : report[i].attempts # <<>>
    BY DEF TR!Parsed
  <1>4. \A i \in DOMAIN report : tests[i].id = idOf[report[i].test] /\ tests[i].status = TR!StatusOf(report[i].attempts)
    BY <1>3
  <1>5. tests \in Seq(Range(tests)) /\ Len(tests) = Len(report)
    <2> HIDE DEF row
    <2> QED  BY <1>2, <1>3 DEF Range
  <1> QED  BY <1>2, <1>3, <1>4, <1>5

LEMMA FailureInReport ==
  ASSUME NEW report, IsReport(report), NEW idOf, NEW fileOf, NEW tests \in TR!Parsed(report, idOf, fileOf),
         NEW i \in DOMAIN report, Fails(report[i].attempts)
  PROVE  LET s  == TR!Summarize(tests)
             id == idOf[report[i].test]
         IN /\ s.unstable \in Seq(Range(tests))
            /\ \E j \in DOMAIN s.unstable : s.unstable[j].id = id /\ s.unstable[j].status = "failed"
            /\ \E r \in Range(TR!PrComment(s).failures) : r.id = id
            /\ \E r \in TR!SummaryPage(s).rows : r.id = id /\ r.status = "failed"
  <1> DEFINE s    == TR!Summarize(tests)
             id   == idOf[report[i].test]
             rows == s.unstable
             at   == {k \in DOMAIN tests : tests[k].id \in TR!UnstableIds(tests)}
             fail == {k \in DOMAIN rows : rows[k].status = "failed"}
             kept == TR!WithStatus(rows, "failed")
  <1>1. tests \in Seq(Range(tests)) /\ i \in DOMAIN tests /\ tests[i].id = id /\ tests[i].status = "failed"
    <2>2. report[i].attempts \in Tries
      BY RowFacts
    <2>3. TR!StatusOf(report[i].attempts) = "failed"
      BY <2>2, FailingTries
    <2> HIDE DEF s
    <2> QED  BY <2>3, ParsedFacts
  <1>2. rows = TR!RowsAt(tests, at)
    BY DEF TR!Summarize
  <1>3. i \in at
    BY <1>1 DEF TR!UnstableIds
  <1>4. rows \in Seq(Range(tests)) /\ \E j \in DOMAIN rows : rows[j] = tests[i]
    <2>1. at \in SUBSET DOMAIN tests
      OBVIOUS
    <2> HIDE DEF at, s
    <2> QED  BY <1>1, <1>2, <1>3, <2>1, RowsAtFacts
  <1>5. PICK j \in DOMAIN rows : rows[j].id = id /\ rows[j].status = "failed"
    BY <1>1, <1>4
  <1>6. \E r \in Range(kept) : r.id = id
    <2>1. kept = TR!RowsAt(rows, fail)
      BY DEF TR!WithStatus
    <2>2. fail \in SUBSET DOMAIN rows /\ j \in fail
      BY <1>5
    <2> HIDE DEF fail, kept, s
    <2>3. \E k \in DOMAIN TR!RowsAt(rows, fail) : TR!RowsAt(rows, fail)[k] = rows[j]
      BY <1>4, <2>2, RowsAtFacts
    <2> QED  BY <1>5, <2>1, <2>3 DEF Range
  <1>7. TR!PrComment(s).failures = kept
    BY DEF TR!PrComment
  <1>8. \E r \in TR!SummaryPage(s).rows : r.id = id /\ r.status = "failed"
    <2>1. TR!SummaryPage(s).rows = {[id |-> r.id, status |-> r.status, retries |-> r.retries] :
                                      r \in {rows[k] : k \in DOMAIN rows}}
      BY DEF TR!SummaryPage
    <2> HIDE DEF s
    <2>2. [id |-> rows[j].id, status |-> rows[j].status, retries |-> rows[j].retries] \in TR!SummaryPage(s).rows
      BY <1>5, <2>1
    <2> QED  BY <1>5, <2>2
  <1> QED  BY <1>4, <1>5, <1>6, <1>7, <1>8

\* What the page of an aggregate has of the summaries it was made of.
LEMMA AggregateHas ==
  ASSUME NEW sums, NEW others, NEW a \in TR!AggregateDir(sums, others), NEW k \in DOMAIN sums,
         NEW T, sums[k].unstable \in Seq(T), NEW j \in DOMAIN sums[k].unstable,
         sums[k].unstable[j].status = "failed"
  PROVE  LET merged == TR!AggregatePage(a)
             id     == sums[k].unstable[j].id
         IN /\ id \in DOMAIN merged.rows
            /\ k \in merged.rows[id].shards
            /\ "failed" \in merged.rows[id].statuses
            /\ merged.shards[k].unstable > 0
  <1> DEFINE rows(n) == {sums[n].unstable[i] : i \in DOMAIN sums[n].unstable}
             all     == UNION {rows(n) : n \in DOMAIN sums}
             list    == [id \in {r.id : r \in all} |->
                           [shards   |-> {n \in DOMAIN sums : \E r \in rows(n) : r.id = id},
                            statuses |-> {TR!UnstableStatus(r) : r \in {q \in all : q.id = id}}]]
             row     == sums[k].unstable[j]
  <1>1. a.unstable = list /\ a.shards = sums
    <2>1. a = TR!Aggregate(sums)
      BY DEF TR!AggregateDir
    <2>2. TR!Aggregate(sums).unstable = list /\ TR!Aggregate(sums).shards = sums
      BY DEF TR!Aggregate
    <2> HIDE DEF list
    <2> QED  BY <2>1, <2>2
  <1>2. row \in rows(k) /\ row \in all
    OBVIOUS
  <1>3. TR!UnstableStatus(row) = "failed"
    BY DEF TR!UnstableStatus
  <1>4. row.id \in DOMAIN list /\ k \in list[row.id].shards /\ "failed" \in list[row.id].statuses
    <2> HIDE DEF rows, all, row
    <2>1. row.id \in {r.id : r \in all}
      BY <1>2
    <2>2. row \in {q \in all : q.id = row.id}
      BY <1>2
    <2>3. "failed" \in {TR!UnstableStatus(r) : r \in {q \in all : q.id = row.id}}
      BY <1>3, <2>2
    <2> QED  BY <1>2, <2>1, <2>3
  <1>5. TR!AggregatePage(a).shards[k].unstable > 0
    <2>1. TR!AggregatePage(a).shards[k].unstable = Len(sums[k].unstable)
      <3> HIDE DEF list
      <3> QED  BY <1>1 DEF TR!AggregatePage
    <2>2. Len(sums[k].unstable) > 0
      <3> DEFINE l == sums[k].unstable
      <3>1. l \in Seq(T) /\ j \in DOMAIN l
        OBVIOUS
      <3> HIDE DEF l
      <3>2. Len(l) > 0
        BY <3>1
      <3> QED  BY <3>2 DEF l
    <2> QED  BY <2>1, <2>2
  <1>6. TR!AggregatePage(a).rows = list
    <2> HIDE DEF list
    <2> QED  BY <1>1 DEF TR!AggregatePage
  <1> HIDE DEF list
  <1> QED  BY <1>4, <1>5, <1>6

LEMMA NightReports ==
  ASSUME NEW night, NightInv(night), NEW task \in Reported(night)
  PROVE  task \in DOMAIN night /\ night[task] # {} /\ IsReport(ReportOf(night, task))
  BY DEF Reported, ReportOf, NightInv

LEMMA FailureIsKept ==
  ASSUME BatchInv, NEW task \in Reported(head), NEW i \in DOMAIN ReportOf(head, task),
         Fails(ReportOf(head, task)[i].attempts)
  PROVE  FailureShown(task, i)
  <1> DEFINE report == ReportOf(head, task)
             id     == project.idOf[report[i].test]
  <1>1. task \in DOMAIN head /\ head[task] # {} /\ IsReport(report)
    BY NightReports DEF BatchInv
  <1>2. /\ FailedOf(SummaryOf(head, task).totals) > 0
        /\ report[i].attempts # <<"timedout">> => i \in PW!Markdown(SummaryOf(head, task)).unstable
    <2> HIDE DEF report
    <2>1. /\ FailedOf(PW!PlaywrightSummary(report, project.fileOf).totals) > 0
          /\ report[i].attempts # <<"timedout">> =>
               i \in PW!Markdown(PW!PlaywrightSummary(report, project.fileOf)).unstable
      <3>1. i \in DOMAIN report /\ Fails(report[i].attempts)
        BY DEF report
      <3> QED  BY <1>1, <3>1, FailureInSummary
    <2> QED  BY <2>1 DEF SummaryOf, report
  <1>3. BatchSummary[task].status = "failed"
    <2>1. BatchRow(task).status = "failed"
      BY <1>1, <1>2 DEF BatchRow
    <2> QED  BY <1>1, <2>1 DEF BatchSummary
  <1>4. BatchPage.rows[task].status = "failed" /\ BatchPage.failed > 0
    <2> DEFINE failed == {t \in DOMAIN head : BatchSummary[t].status = "failed"}
    <2>1. failed \subseteq Ids(Tasks) /\ task \in failed
      BY <1>1, <1>3 DEF BatchInv, BatchTypeOK
    <2>2. IsFiniteSet(Ids(Tasks))
      BY ProjectFacts, IdsAreFew DEF BatchInv, BatchTypeOK
    <2>3. BatchPage.rows = BatchSummary /\ BatchPage.failed = Cardinality(failed)
      BY DEF BatchPage
    <2> HIDE DEF failed
    <2>4. Cardinality(failed) \in Nat /\ Cardinality(failed) # 0
      BY <2>1, <2>2, FS_Subset, FS_EmptySet, FS_CardinalityType
    <2> QED  BY <1>3, <2>3, <2>4
  <1>5. ASSUME NEW s \in Summarized(head, task)
        PROVE  \E T : /\ s.unstable \in Seq(T)
                      /\ \E j \in DOMAIN s.unstable : s.unstable[j].id = id /\ s.unstable[j].status = "failed"
                      /\ \E r \in Range(TR!PrComment(s).failures) : r.id = id
                      /\ \E r \in TR!SummaryPage(s).rows : r.id = id /\ r.status = "failed"
    <2>1. PICK tests \in TR!Parsed(report, project.idOf, project.fileOf) : s = TR!Summarize(tests)
      BY DEF Summarized
    <2>2. i \in DOMAIN report /\ Fails(report[i].attempts)
      OBVIOUS
    <2> HIDE DEF report
    <2>3. /\ TR!Summarize(tests).unstable \in Seq(Range(tests))
          /\ \E j \in DOMAIN TR!Summarize(tests).unstable :
               TR!Summarize(tests).unstable[j].id = id /\ TR!Summarize(tests).unstable[j].status = "failed"
          /\ \E r \in Range(TR!PrComment(TR!Summarize(tests)).failures) : r.id = id
          /\ \E r \in TR!SummaryPage(TR!Summarize(tests)).rows : r.id = id /\ r.status = "failed"
      BY <1>1, <2>2, FailureInReport
    <2> QED  BY <2>1, <2>3
  <1>6. ASSUME task \in Shards, NEW a \in Aggregated
        PROVE  LET merged == TR!AggregatePage(a) IN
               /\ id \in DOMAIN merged.rows
               /\ task \in merged.rows[id].shards
               /\ "failed" \in merged.rows[id].statuses
               /\ merged.shards[task].unstable > 0
    <2> DEFINE sums == [t \in Shards |-> CHOOSE s \in Summarized(head, t) : TRUE]
    <2>1. a \in TR!AggregateDir(sums, project.others)
      BY DEF Aggregated
    <2>2. task \in DOMAIN sums /\ sums[task] \in Summarized(head, task)
      BY <1>6 DEF Shards
    <2> HIDE DEF sums
    <2>3. PICK T : /\ sums[task].unstable \in Seq(T)
                   /\ \E j \in DOMAIN sums[task].unstable :
                        sums[task].unstable[j].id = id /\ sums[task].unstable[j].status = "failed"
      BY <1>5, <2>2
    <2>4. PICK j \in DOMAIN sums[task].unstable :
            sums[task].unstable[j].id = id /\ sums[task].unstable[j].status = "failed"
      BY <2>3
    <2> HIDE DEF id
    <2> QED  BY <2>1, <2>2, <2>3, <2>4, AggregateHas
  <1>7. \A s \in Summarized(head, task) :
          /\ \E r \in Range(TR!PrComment(s).failures) : r.id = id
          /\ \E r \in TR!SummaryPage(s).rows : r.id = id /\ r.status = "failed"
    BY <1>5
  <1> QED  BY <1>2, <1>4, <1>6, <1>7 DEF FailureShown

\* Whatever the tries of the other tests and whatever is beside the artifacts, a failed test
\* stays visible in every page (buildFlakerBatchSummary, formatPrComment, runReportAggregate).
THEOREM NoFailureLost == BatchSpec => []NoFailureIsLost
  <1>1. ASSUME BatchInv PROVE NoFailureIsLost
    <2>1. ASSUME NEW task \in Reported(head), NEW i \in DOMAIN ReportOf(head, task),
                 Fails(ReportOf(head, task)[i].attempts)
          PROVE  FailureShown(task, i)
      BY <1>1, <2>1, FailureIsKept
    <2> QED  BY <2>1 DEF NoFailureIsLost, Fails, LastTry
  <1> QED  BY <1>1, BatchInvHolds, PTL

-----------------------------------------------------------------------------
(* The two pipelines side by side.                                         *)

\* Nothing about these tries is disputed between the pipelines.
Clear(tries) ==
  /\ tries # <<>>
  /\ "interrupted" \notin Range(tries)
  /\ "timedout" \in Range(tries) => LastTry(tries) # "skipped"

\* An outcome of reporting/ and a status of `flaker report' that say the same.
SameVerdict(outcome, status) ==
  \/ outcome = "none" /\ status = ""
  \/ outcome \in {"passed", "flaky", "skipped"} /\ status = outcome
  \/ outcome \in {"failed", "timedout"} /\ status = "failed"

LEMMA SameVerdictOnTries ==
  ASSUME NEW tries \in Tries, Clear(tries)
  PROVE  /\ SameVerdict(PwOutcome(tries), TR!StatusOf(tries))
         /\ PwOutcome(tries) # "none" /\ TR!StatusOf(tries) \in TR!Statuses
  <1> DEFINE tried   == {tries[i] : i \in DOMAIN tries}
             counted == tried \ {"interrupted", "skipped"}
             last    == LastTry(tries)
             n       == Len(tries)
             raw     == PW!RawStatus(tries)
             out     == PwOutcome(tries)
  <1>1. /\ tries \in Seq(TryStatuses) /\ tries # <<>> /\ n \in Nat /\ n \in DOMAIN tries /\ last = tries[n]
        /\ DOMAIN tries = 1 .. n /\ \A i \in DOMAIN tries : tries[i] \in TryStatuses
        /\ \A i \in DOMAIN tries : tries[i] = "passed" => i = n
    BY TriesFacts DEF Clear, LastTry
  <1>2. /\ last \in tried /\ last \in {"passed", "failed", "timedout", "skipped"}
        /\ tried \subseteq {"passed", "failed", "timedout", "skipped"}
        /\ "timedout" \in tried => last # "skipped"
        /\ "passed" \in tried => last = "passed"
    BY <1>1 DEF Clear, Range, TryStatuses
  <1>3. raw = IF counted = {} THEN "skipped"
              ELSE IF counted = {"passed"} THEN "expected"
              ELSE IF "passed" \in counted THEN "flaky" ELSE "unexpected"
    BY DEF PW!RawStatus
  <1>4. out = IF raw \in {"skipped", "flaky"} THEN raw
              ELSE IF "timedout" \in tried THEN "timedout"
              ELSE IF "interrupted" \in tried THEN "interrupted"
              ELSE IF tries = <<>> THEN "unknown"
              ELSE IF last = "passed" /\ Cardinality(tried) > 1 THEN "flaky"
              ELSE last
    <2> HIDE DEF counted, raw
    <2> QED  BY DEF PwOutcome, PW!Outcome, PW!Cardinality, Cardinality, LastTry, raw
  <1>5. TR!StatusOf(tries) = IF last = "passed" THEN IF n > 1 THEN "flaky" ELSE "passed"
                             ELSE IF last = "skipped" THEN "skipped" ELSE "failed"
    BY <1>1 DEF TR!StatusOf
  <1>6. n = 1 => tried = {last}
    BY <1>1
  <1>7. last = "passed" /\ n > 1 => \E x \in tried : x # "passed"
    <2>1. n > 1 => 1 \in DOMAIN tries /\ 1 # n
      BY <1>1
    <2> QED  BY <1>1, <2>1
  <1>8. n \in Nat /\ n >= 1
    BY <1>1
  <1>9. IsFiniteSet(tried) /\ \A x \in tried : tried # {x} => Cardinality(tried) > 1
    <2>1. IsFiniteSet(tried)
      <3> DEFINE all == {"passed", "failed", "timedout", "skipped"}
      <3>1. IsFiniteSet({"passed"} \cup {"failed"} \cup {"timedout"} \cup {"skipped"})
        BY FS_Singleton, FS_Union
      <3>2. all = {"passed"} \cup {"failed"} \cup {"timedout"} \cup {"skipped"}
        OBVIOUS
      <3>3. tried \in SUBSET all
        BY <1>2
      <3> HIDE DEF tried, all
      <3> QED  BY <3>1, <3>2, <3>3, FS_Subset
    <2> HIDE DEF tried
    <2>2. ASSUME NEW x \in tried, tried # {x} PROVE Cardinality(tried) > 1
      <3>1. {x} \in SUBSET tried /\ Cardinality({x}) = 1 /\ Cardinality(tried) \in Nat
        BY <2>1, FS_Singleton, FS_CardinalityType
      <3>2. Cardinality({x}) <= Cardinality(tried) /\ (Cardinality(tried) = Cardinality({x}) => {x} = tried)
        BY <2>1, <3>1, FS_Subset
      <3> QED  BY <2>2, <3>1, <3>2
    <2> QED  BY <2>1, <2>2
  <1> HIDE DEF last, n, raw, out
  <1>10. CASE last = "passed" /\ n = 1
    <2>1. tried = {"passed"}
      BY <1>6, <1>10
    <2>2. raw = "expected"
      <3> HIDE DEF tried
      <3> QED  BY <1>3, <2>1
    <2>3. Cardinality(tried) = 1
      BY <2>1, FS_Singleton
    <2>4. out = "passed" /\ TR!StatusOf(tries) = "passed"
      <3> HIDE DEF tried
      <3> QED  BY <1>1, <1>4, <1>5, <1>10, <2>1, <2>2, <2>3
    <2> QED  BY <2>4 DEF SameVerdict, TR!Statuses, out
  <1>11. CASE last = "passed" /\ n > 1
    <2>1. Cardinality(tried) > 1
      <3> HIDE DEF tried
      <3>1. tried # {"passed"}
        BY <1>7, <1>11
      <3> QED  BY <1>2, <1>9, <1>11, <3>1
    <2>2. counted # {} /\ "passed" \in counted
      <3> HIDE DEF tried
      <3> QED  BY <1>2, <1>11
    <2>3. raw = "expected" => counted = {"passed"}
      <3> HIDE DEF counted
      <3> QED  BY <1>3
    <2>4. raw \in {"expected", "flaky"}
      <3> HIDE DEF counted
      <3> QED  BY <1>3, <2>2
    <2>5. out = "flaky" /\ TR!StatusOf(tries) = "flaky"
      <3> HIDE DEF tried
      <3> QED  BY <1>1, <1>2, <1>4, <1>5, <1>11, <2>1, <2>3, <2>4
    <2> QED  BY <2>5 DEF SameVerdict, TR!Statuses, out
  <1>12. CASE last # "passed"
    <2> HIDE DEF tried
    <2>1. raw = "skipped" => last = "skipped"
      BY <1>2, <1>3
    <2>2. raw \in {"skipped", "unexpected"}
      BY <1>2, <1>3, <1>12
    <2>3. out = IF last = "skipped" THEN "skipped"
                ELSE IF "timedout" \in tried THEN "timedout" ELSE last
      <3> HIDE DEF counted
      <3> QED  BY <1>1, <1>2, <1>4, <1>12, <2>1, <2>2
    <2>4. TR!StatusOf(tries) = IF last = "skipped" THEN "skipped" ELSE "failed"
      BY <1>5, <1>12
    <2> QED  BY <1>2, <1>12, <2>3, <2>4 DEF SameVerdict, TR!Statuses, out
  <1>13. n = 1 \/ n > 1
    BY <1>8
  <1> QED  BY <1>10, <1>11, <1>12, <1>13

\* The tests of a report, and what each pipeline has of a test, if the report has it.
TestsIn(report) == {report[i].test : i \in DOMAIN report}
RowOf(report, x) == CHOOSE i \in DOMAIN report : report[i].test = x
OutcomeOf(report, x) == IF x \in TestsIn(report) THEN PwOutcome(report[RowOf(report, x)].attempts) ELSE "none"
StatusOfTest(report, x) == IF x \in TestsIn(report) THEN TR!StatusOf(report[RowOf(report, x)].attempts) ELSE ""

LEMMA RowOfTest ==
  ASSUME NEW report, IsReport(report), NEW i \in DOMAIN report
  PROVE  RowOf(report, report[i].test) = i /\ report[i].test \in TestsIn(report)
  BY RowFacts DEF RowOf, TestsIn

\* The last of one row is that row.
LEMMA LastOfOne ==
  ASSUME NEW k \in Nat
  PROVE  (CHOOSE i \in {k} : \A j \in {k} : j <= i) = k
  OBVIOUS

LEMMA OutcomeInIs ==
  ASSUME NEW report, IsReport(report), NEW fileOf, NEW x
  PROVE  PW!OutcomeIn(PW!PlaywrightSummary(report, fileOf), x) = OutcomeOf(report, x)
  <1> DEFINE rows  == PW!Rows(report, fileOf)
             found == {i \in DOMAIN rows : rows[i].id = x}
  <1>1. /\ DOMAIN rows = DOMAIN report
        /\ \A i \in DOMAIN report : rows[i].id = report[i].test /\ rows[i].outcome = PwOutcome(report[i].attempts)
    BY DEF PW!Rows, PwOutcome
  <1>2. PW!OutcomeIn(PW!PlaywrightSummary(report, fileOf), x) =
          IF found = {} THEN "none" ELSE rows[CHOOSE i \in found : \A j \in found : j <= i].outcome
    BY DEF PW!OutcomeIn, PW!PlaywrightSummary
  <1> HIDE DEF rows
  <1>3. CASE x \notin TestsIn(report)
    <2>1. found = {}
      BY <1>1, <1>3 DEF TestsIn
    <2> QED  BY <1>2, <1>3, <2>1 DEF OutcomeOf
  <1>4. CASE x \in TestsIn(report)
    <2>1. PICK k \in DOMAIN report : report[k].test = x
      BY <1>4 DEF TestsIn
    <2>2. found = {k} /\ k \in Nat /\ RowOf(report, x) = k
      BY <1>1, <2>1, RowFacts, RowOfTest
    <2>3. (CHOOSE i \in found : \A j \in found : j <= i) = k
      BY <2>2, LastOfOne
    <2> HIDE DEF found
    <2> QED  BY <1>1, <1>2, <1>4, <2>1, <2>2, <2>3 DEF OutcomeOf
  <1> QED  BY <1>3, <1>4

LEMMA StatusInIs ==
  ASSUME NEW report, IsReport(report), NEW idOf, IsInjective(idOf), DOMAIN project.fileOf \subseteq DOMAIN idOf,
         NEW fileOf, NEW tests \in TR!Parsed(report, idOf, fileOf), NEW x \in DOMAIN idOf
  PROVE  TR!StatusIn(TR!Summarize(tests), idOf[x]) = StatusOfTest(report, x)
  <1> DEFINE found == {i \in DOMAIN tests : tests[i].id = idOf[x]}
  <1>1. /\ DOMAIN tests = DOMAIN report
        /\ \A i \in DOMAIN report : tests[i].id = idOf[report[i].test] /\ tests[i].status = TR!StatusOf(report[i].attempts)
    BY ParsedFacts
  <1>2. TR!StatusIn(TR!Summarize(tests), idOf[x]) =
          IF found = {} THEN "" ELSE tests[CHOOSE i \in found : \A j \in found : j <= i].status
    BY DEF TR!StatusIn, TR!Summarize
  <1>3. \A i \in DOMAIN report : report[i].test \in DOMAIN idOf
    BY RowFacts
  <1>4. \A i \in DOMAIN report : tests[i].id = idOf[x] <=> report[i].test = x
    BY <1>1, <1>3 DEF IsInjective
  <1>5. CASE x \notin TestsIn(report)
    <2>1. found = {}
      BY <1>1, <1>4, <1>5 DEF TestsIn
    <2> QED  BY <1>2, <1>5, <2>1 DEF StatusOfTest
  <1>6. CASE x \in TestsIn(report)
    <2>1. PICK k \in DOMAIN report : report[k].test = x
      BY <1>6 DEF TestsIn
    <2>2. found = {k} /\ k \in Nat /\ RowOf(report, x) = k
      BY <1>1, <1>4, <2>1, RowFacts, RowOfTest
    <2>3. (CHOOSE i \in found : \A j \in found : j <= i) = k
      BY <2>2, LastOfOne
    <2> HIDE DEF found
    <2> QED  BY <1>1, <1>2, <1>6, <2>1, <2>2, <2>3 DEF StatusOfTest
  <1> QED  BY <1>5, <1>6

\* The two pipelines say the same of a test.
LEMMA SameVerdictOnTest ==
  ASSUME NEW report, IsReport(report), ~Disputed(report), \A i \in DOMAIN report : report[i].attempts # <<>>, NEW x
  PROVE  /\ SameVerdict(OutcomeOf(report, x), StatusOfTest(report, x))
         /\ OutcomeOf(report, x) = "none" <=> x \notin TestsIn(report)
  <1>1. CASE x \notin TestsIn(report)
    BY <1>1 DEF OutcomeOf, StatusOfTest, SameVerdict
  <1>2. CASE x \in TestsIn(report)
    <2>1. PICK k \in DOMAIN report : report[k].test = x
      BY <1>2 DEF TestsIn
    <2>2. RowOf(report, x) = k
      BY <2>1, RowOfTest
    <2> DEFINE tries == report[k].attempts
    <2>3. tries \in Tries /\ Clear(tries)
      BY <2>1, RowFacts DEF Clear, Disputed, LastTry
    <2>4. SameVerdict(PwOutcome(tries), TR!StatusOf(tries)) /\ PwOutcome(tries) # "none"
      BY <2>3, SameVerdictOnTries
    <2> HIDE DEF tries
    <2>5. OutcomeOf(report, x) = PwOutcome(tries) /\ StatusOfTest(report, x) = TR!StatusOf(tries)
      BY <1>2, <2>2 DEF OutcomeOf, StatusOfTest, tries
    <2> QED  BY <1>2, <2>4, <2>5
  <1> QED  BY <1>1, <1>2

\* A bucket has a test when its two statuses say so.
LEMMA BucketsAre ==
  ASSUME NEW t1, NEW t2
  PROVE  /\ "new_failures" \in TR!Buckets(t1, t2) <=> t2 = "failed" /\ t1 # "failed"
         /\ "new_flaky" \in TR!Buckets(t1, t2) <=> t2 = "flaky" /\ t1 \notin {"flaky", "failed"}
         /\ "persistent_flaky" \in TR!Buckets(t1, t2) <=> t2 = "flaky" /\ t1 = "flaky"
         /\ "resolved_failures" \in TR!Buckets(t1, t2) <=> t1 = "failed" /\ t2 \notin {"failed", ""}
         /\ "resolved_flaky" \in TR!Buckets(t1, t2) <=> t1 = "flaky" /\ t2 \notin {"flaky", ""}
  BY DEF TR!Buckets, TR!AllBuckets

LEMMA SeverityIs ==
  ASSUME NEW o, NEW t, SameVerdict(o, t)
  PROVE  /\ PW!Severity(o) = IF t = "flaky" THEN 1 ELSE IF t = "failed" THEN 2 ELSE 0
         /\ o = "none" <=> t = ""
  <1>1. CASE o = "none" /\ t = ""
    BY <1>1 DEF PW!Severity
  <1>2. CASE o \in {"passed", "flaky", "skipped"} /\ t = o
    BY <1>2 DEF PW!Severity
  <1>3. CASE o \in {"failed", "timedout"} /\ t = "failed"
    BY <1>3 DEF PW!Severity
  <1> QED  BY <1>1, <1>2, <1>3 DEF SameVerdict

\* The kind of a difference and its buckets, for each pair of outcomes.
LEMMA KindsMatch ==
  ASSUME NEW o1, NEW o2, NEW t1, NEW t2, SameVerdict(o1, t1), SameVerdict(o2, t2)
  PROVE  LET kind == PW!DiffKind(o1, o2)
             of   == TR!Buckets(t1, t2)
         IN /\ kind \in PW!Regressions <=> "new_failures" \in of \/ "new_flaky" \in of
            /\ ~("new_failures" \in of /\ "new_flaky" \in of)
            /\ kind = "persistent_flaky" <=> "persistent_flaky" \in of
            /\ kind \in {"resolved", "improved", "worsened_failure"} <=> "resolved_failures" \in of \/ "resolved_flaky" \in of
  <1> DEFINE was  == PW!Severity(o1)
             is   == PW!Severity(o2)
             kind == PW!DiffKind(o1, o2)
             of   == TR!Buckets(t1, t2)
  <1>1. was = IF t1 = "flaky" THEN 1 ELSE IF t1 = "failed" THEN 2 ELSE 0
    BY SeverityIs
  <1>2. is = IF t2 = "flaky" THEN 1 ELSE IF t2 = "failed" THEN 2 ELSE 0
    BY SeverityIs
  <1>a. o2 = "none" <=> t2 = ""
    BY SeverityIs
  <1>3. kind = IF o1 # "none" /\ o2 = "none" THEN IF was > 0 THEN "removed_unstable" ELSE "none"
               ELSE IF is > was THEN IF is = 1 THEN "new_flaky"
                                     ELSE IF was = 1 THEN "worsened_failure" ELSE "new_failure"
               ELSE IF is < was THEN IF is = 0 THEN "resolved" ELSE "improved"
               ELSE IF is = 2 THEN "persistent_failure"
               ELSE IF is = 1 THEN "persistent_flaky" ELSE "none"
    BY DEF PW!DiffKind
  <1> HIDE DEF was, is, kind
  <1>4. was \in {0, 1, 2} /\ is \in {0, 1, 2}
    BY <1>1, <1>2
  <1>5. /\ "new_failures" \in of <=> is = 2 /\ was # 2
        /\ "new_flaky" \in of <=> is = 1 /\ was = 0
        /\ "persistent_flaky" \in of <=> is = 1 /\ was = 1
        /\ "resolved_failures" \in of <=> was = 2 /\ is # 2 /\ o2 # "none"
        /\ "resolved_flaky" \in of <=> was = 1 /\ is # 1 /\ o2 # "none"
    <2>1. /\ was = 1 <=> t1 = "flaky"
          /\ was = 2 <=> t1 = "failed"
          /\ was = 0 <=> t1 \notin {"flaky", "failed"}
      BY <1>1
    <2>2. /\ is = 1 <=> t2 = "flaky"
          /\ is = 2 <=> t2 = "failed"
      BY <1>2
    <2> QED  BY <1>a, <2>1, <2>2, BucketsAre
  <1> HIDE DEF of
  <1>6. /\ kind \in PW!Regressions <=> (is = 2 /\ was # 2) \/ (is = 1 /\ was = 0)
        /\ kind = "persistent_flaky" <=> is = 1 /\ was = 1
        /\ kind \in {"resolved", "improved", "worsened_failure"} <=>
             o2 # "none" /\ ((was = 2 /\ is # 2) \/ (was = 1 /\ is # 1))
    <2>0. (o1 = "none" => was = 0) /\ (o2 = "none" => is = 0)
      BY <1>1, <1>2, SeverityIs
    <2>1. CASE o2 = "none"
      <3>1. kind \in {"removed_unstable", "none"}
        <4>1. CASE o1 # "none"
          <5>1. kind = IF was > 0 THEN "removed_unstable" ELSE "none"
            BY <1>3, <2>1, <4>1
          <5> QED  BY <5>1
        <4>2. CASE o1 = "none"
          <5>1. kind = "none"
            BY <1>3, <2>0, <2>1, <4>2
          <5> QED  BY <5>1
        <4> QED  BY <4>1, <4>2
      <3> QED  BY <1>4, <2>0, <2>1, <3>1 DEF PW!Regressions
    <2>2. CASE o2 # "none"
      <3>1. kind = IF is > was THEN IF is = 1 THEN "new_flaky"
                                    ELSE IF was = 1 THEN "worsened_failure" ELSE "new_failure"
                   ELSE IF is < was THEN IF is = 0 THEN "resolved" ELSE "improved"
                   ELSE IF is = 2 THEN "persistent_failure"
                   ELSE IF is = 1 THEN "persistent_flaky" ELSE "none"
        BY <1>3, <1>4, <2>2
      <3>2. CASE was = 0
        BY <1>4, <2>2, <3>1, <3>2 DEF PW!Regressions
      <3>3. CASE was = 1
        BY <1>4, <2>2, <3>1, <3>3 DEF PW!Regressions
      <3>4. CASE was = 2
        BY <1>4, <2>2, <3>1, <3>4 DEF PW!Regressions
      <3> QED  BY <1>4, <3>2, <3>3, <3>4
    <2> QED  BY <2>1, <2>2
  <1>8. kind \in PW!Regressions <=> "new_failures" \in of \/ "new_flaky" \in of
    BY <1>5, <1>6
  <1>9. kind \in {"resolved", "improved", "worsened_failure"} <=> "resolved_failures" \in of \/ "resolved_flaky" \in of
    BY <1>5, <1>6
  <1>10. ~("new_failures" \in of /\ "new_flaky" \in of) /\ (kind = "persistent_flaky" <=> "persistent_flaky" \in of)
    BY <1>5, <1>6
  <1> QED  BY <1>8, <1>9, <1>10 DEF kind, of

-----------------------------------------------------------------------------
(* The rows of the two diffs.                                              *)

TestsOfBoth(was, is) == TestsIn(was) \cup TestsIn(is)
KindOf(was, is, x) == PW!DiffKind(OutcomeOf(was, x), OutcomeOf(is, x))
BucketsOf(was, is, x) == TR!Buckets(StatusOfTest(was, x), StatusOfTest(is, x))

PwSummary(report) == PW!PlaywrightSummary(report, project.fileOf)

LEMMA SummaryTests ==
  ASSUME NEW report, NEW fileOf
  PROVE  /\ {PW!PlaywrightSummary(report, fileOf).tests[i].id : i \in DOMAIN PW!PlaywrightSummary(report, fileOf).tests}
              = TestsIn(report)
         /\ DOMAIN PW!PlaywrightSummary(report, fileOf).tests = DOMAIN report
  <1> DEFINE rows == PW!Rows(report, fileOf)
  <1>1. DOMAIN rows = DOMAIN report /\ \A i \in DOMAIN report : rows[i].id = report[i].test
    BY DEF PW!Rows
  <1>2. PW!PlaywrightSummary(report, fileOf).tests = rows
    BY DEF PW!PlaywrightSummary
  <1> HIDE DEF rows
  <1> QED  BY <1>1, <1>2 DEF TestsIn

LEMMA PwDiffIs ==
  ASSUME NEW was, IsReport(was), NEW is, IsReport(is)
  PROVE  PW!PlaywrightDiff(PwSummary(was), PwSummary(is)) = [x \in TestsOfBoth(was, is) |-> KindOf(was, is, x)]
  <1> DEFINE b == PwSummary(was)
             h == PwSummary(is)
  <1>1. /\ {b.tests[i].id : i \in DOMAIN b.tests} = TestsIn(was)
        /\ {h.tests[i].id : i \in DOMAIN h.tests} = TestsIn(is)
    BY SummaryTests DEF PwSummary
  <1>2. \A x : PW!OutcomeIn(b, x) = OutcomeOf(was, x) /\ PW!OutcomeIn(h, x) = OutcomeOf(is, x)
    BY OutcomeInIs DEF PwSummary
  <1> HIDE DEF b, h
  <1>3. PW!PlaywrightDiff(b, h) =
          [x \in {b.tests[i].id : i \in DOMAIN b.tests} \cup {h.tests[i].id : i \in DOMAIN h.tests}
             |-> PW!DiffKind(PW!OutcomeIn(b, x), PW!OutcomeIn(h, x))]
    BY DEF PW!PlaywrightDiff
  <1>4. PW!PlaywrightDiff(b, h) = [x \in TestsOfBoth(was, is) |-> KindOf(was, is, x)]
    BY <1>1, <1>2, <1>3 DEF TestsOfBoth, KindOf
  <1> QED  BY <1>4 DEF b, h

\* The tests that one of the three tables names.
LEMMA PwTables ==
  ASSUME NEW was, IsReport(was), NEW is, IsReport(is)
  PROVE  LET page == PW!DiffPage(PwSummary(was), PwSummary(is))
             Has(rows, kinds) == /\ \A r \in rows : r.id \in TestsOfBoth(was, is) /\ r.kind = KindOf(was, is, r.id) /\ r.kind \in kinds
                                 /\ \A x \in TestsOfBoth(was, is) : KindOf(was, is, x) \in kinds => \E r \in rows : r.id = x
         IN /\ Has(page.regressions, PW!Regressions)
            /\ Has(page.improvements, PW!Improvements)
            /\ Has(page.persistent, PW!Persistent)
  <1> DEFINE b == PwSummary(was)
             h == PwSummary(is)
             diff == PW!PlaywrightDiff(b, h)
             rows(S) == {PW!DiffRow(b, h, diff, x) : x \in {y \in DOMAIN diff : diff[y] \in S}}
             page == PW!DiffPage(b, h)
  <1>1. DOMAIN diff = TestsOfBoth(was, is) /\ \A x \in TestsOfBoth(was, is) : diff[x] = KindOf(was, is, x)
    <2>1. diff = [x \in TestsOfBoth(was, is) |-> KindOf(was, is, x)]
      BY PwDiffIs
    <2> HIDE DEF diff
    <2> QED  BY <2>1
  <1>2. /\ page.regressions = rows(PW!Regressions)
        /\ page.improvements = rows(PW!Improvements)
        /\ page.persistent = rows(PW!Persistent)
    <2> HIDE DEF b, h
    <2> QED  BY DEF PW!DiffPage
  <1>3. \A x : PW!DiffRow(b, h, diff, x).id = x /\ PW!DiffRow(b, h, diff, x).kind = diff[x]
    <2> HIDE DEF b, h, diff
    <2> QED  BY DEF PW!DiffRow
  <1> HIDE DEF b, h, diff, page
  <1>4. ASSUME NEW S
        PROVE  /\ \A r \in rows(S) : r.id \in TestsOfBoth(was, is) /\ r.kind = KindOf(was, is, r.id) /\ r.kind \in S
               /\ \A x \in TestsOfBoth(was, is) : KindOf(was, is, x) \in S => \E r \in rows(S) : r.id = x
    <2>1. ASSUME NEW r \in rows(S)
          PROVE  r.id \in TestsOfBoth(was, is) /\ r.kind = KindOf(was, is, r.id) /\ r.kind \in S
      <3>1. PICK x \in {y \in DOMAIN diff : diff[y] \in S} : r = PW!DiffRow(b, h, diff, x)
        OBVIOUS
      <3> QED  BY <1>1, <1>3, <3>1
    <2>2. ASSUME NEW x \in TestsOfBoth(was, is), KindOf(was, is, x) \in S PROVE \E r \in rows(S) : r.id = x
      <3>1. x \in {y \in DOMAIN diff : diff[y] \in S}
        BY <1>1, <2>2
      <3>2. PW!DiffRow(b, h, diff, x) \in rows(S)
        BY <3>1
      <3> HIDE DEF rows
      <3> QED  BY <1>3, <3>2
    <2> QED  BY <2>1, <2>2
  <1> HIDE DEF rows
  <1> QED  BY <1>2, <1>4 DEF page, b, h

LEMMA TrDiffIs ==
  ASSUME NEW was, IsReport(was), NEW is, IsReport(is), NEW idOf, IsInjective(idOf),
         DOMAIN project.fileOf \subseteq DOMAIN idOf, NEW fileOf,
         NEW t1 \in TR!Parsed(was, idOf, fileOf), NEW t2 \in TR!Parsed(is, idOf, fileOf),
         NEW bucket \in TR!AllBuckets
  PROVE  LET old  == TR!Summarize(t1)
             new  == TR!Summarize(t2)
             rows == TR!ReportDiff(old, new)[bucket]
         IN /\ rows = {TR!DiffEntry(old, new, idOf[x]) :
                         x \in {y \in TestsOfBoth(was, is) : bucket \in BucketsOf(was, is, y)}}
            /\ \A id : TR!DiffEntry(old, new, id).id = id
            /\ TestsOfBoth(was, is) \subseteq DOMAIN idOf
  <1> DEFINE old  == TR!Summarize(t1)
             new  == TR!Summarize(t2)
             both == TestsOfBoth(was, is)
             ids  == {old.tests[i].id : i \in DOMAIN old.tests} \cup {new.tests[i].id : i \in DOMAIN new.tests}
             e(id) == TR!DiffEntry(old, new, id)
             rows == TR!ReportDiff(old, new)[bucket]
  <1>1. /\ old.tests = t1 /\ DOMAIN t1 = DOMAIN was /\ \A i \in DOMAIN was : t1[i].id = idOf[was[i].test]
        /\ new.tests = t2 /\ DOMAIN t2 = DOMAIN is /\ \A i \in DOMAIN is : t2[i].id = idOf[is[i].test]
    BY ParsedFacts DEF TR!Summarize
  <1>2. both \subseteq DOMAIN idOf
    <2>1. TestsIn(was) \subseteq DOMAIN project.fileOf /\ TestsIn(is) \subseteq DOMAIN project.fileOf
      BY RowFacts DEF TestsIn
    <2> QED  BY <2>1 DEF TestsOfBoth
  <1>3. \A x \in both : TR!StatusIn(old, idOf[x]) = StatusOfTest(was, x) /\ TR!StatusIn(new, idOf[x]) = StatusOfTest(is, x)
    <2>1. ASSUME NEW x \in both
          PROVE  TR!StatusIn(old, idOf[x]) = StatusOfTest(was, x) /\ TR!StatusIn(new, idOf[x]) = StatusOfTest(is, x)
      <3>1. x \in DOMAIN idOf
        BY <1>2
      <3> QED  BY <3>1, StatusInIs
    <2> QED  BY <2>1
  <1>4. ids = {idOf[x] : x \in both}
    <2> HIDE DEF old, new
    <2> QED  BY <1>1 DEF TestsOfBoth, TestsIn
  <1> HIDE DEF old, new, both, ids
  <1>5. \A id : e(id).id = id /\ e(id).base = TR!StatusIn(old, id) /\ e(id).head = TR!StatusIn(new, id)
    BY DEF TR!DiffEntry
  <1>6. rows = {f \in {e(id) : id \in ids} : bucket \in TR!Buckets(f.base, f.head)}
    BY DEF TR!ReportDiff, ids
  <1>7. rows = {e(idOf[x]) : x \in {y \in both : bucket \in BucketsOf(was, is, y)}}
    <2> HIDE DEF rows, e
    <2>1. \A f : f \in rows <=> \E id \in ids : f = e(id) /\ bucket \in TR!Buckets(f.base, f.head)
      BY <1>6
    <2>2. \A f : f \in rows <=> \E x \in both : f = e(idOf[x]) /\ bucket \in BucketsOf(was, is, x)
      BY <1>3, <1>4, <1>5, <2>1 DEF BucketsOf
    <2> QED  BY <2>2
  <1> QED  BY <1>2, <1>5, <1>7 DEF old, new, both

\* A set of rows that each come from another test has as many members as there are such tests.
LEMMA SameCount ==
  ASSUME NEW S, IsFiniteSet(S), NEW T, NEW f \in Surjection(S, T),
         \A x, y \in S : f[x] = f[y] => x = y
  PROVE  IsFiniteSet(T) /\ Cardinality(T) = Cardinality(S)
  <1>1. f \in Bijection(S, T)
    BY DEF Surjection, Bijection, Injection, IsInjective
  <1>2. ExistsBijection(S, T)
    BY <1>1 DEF ExistsBijection
  <1> QED  BY <1>2, FS_Bijection

LEMMA Instances ==
  \A S : PW!Cardinality(S) = Cardinality(S) /\ TR!Cardinality(S) = Cardinality(S)
  BY DEF PW!Cardinality, TR!Cardinality, Cardinality

\* A report has as many rows as tests.
LEMMA TestCount ==
  ASSUME NEW report, IsReport(report)
  PROVE  IsFiniteSet(TestsIn(report)) /\ Cardinality(TestsIn(report)) = Len(report) /\ Len(report) \in Nat
  <1> DEFINE f == [i \in DOMAIN report |-> report[i].test]
  <1>1. /\ DOMAIN report = 1 .. Len(report) /\ Len(report) \in Nat /\ IsFiniteSet(DOMAIN report)
        /\ \A i, j \in DOMAIN report : report[i].test = report[j].test => i = j
    BY RowFacts
  <1>2. f \in Surjection(DOMAIN report, TestsIn(report)) /\ \A i, j \in DOMAIN report : f[i] = f[j] => i = j
    BY <1>1 DEF Surjection, TestsIn
  <1> HIDE DEF f
  <1>3. IsFiniteSet(TestsIn(report)) /\ Cardinality(TestsIn(report)) = Cardinality(DOMAIN report)
    BY <1>1, <1>2, SameCount
  <1>4. Cardinality(DOMAIN report) = Len(report)
    <2>1. Cardinality(1 .. Len(report)) = IF 1 > Len(report) THEN 0 ELSE Len(report) - 1 + 1
      BY <1>1, FS_Interval
    <2> QED  BY <1>1, <2>1
  <1> QED  BY <1>1, <1>3, <1>4

\* Two reports of a project, as `flaker report' reads them.
Compared(was, is, t1, t2) ==
  /\ IsReport(was) /\ IsReport(is)
  /\ IsInjective(project.idOf) /\ DOMAIN project.fileOf \subseteq DOMAIN project.idOf
  /\ t1 \in TR!Parsed(was, project.idOf, project.fileOf)
  /\ t2 \in TR!Parsed(is, project.idOf, project.fileOf)

Bucketed(was, is, buckets) ==
  {x \in TestsOfBoth(was, is) : \E b \in buckets : b \in BucketsOf(was, is, x)}

LEMMA InBucketsAre ==
  ASSUME NEW was, NEW is, NEW t1, NEW t2, Compared(was, is, t1, t2), NEW buckets \in SUBSET TR!AllBuckets
  PROVE  TR!InBuckets(TR!ReportDiff(TR!Summarize(t1), TR!Summarize(t2)), buckets)
           = {project.idOf[x] : x \in Bucketed(was, is, buckets)}
  <1> DEFINE old  == TR!Summarize(t1)
             new  == TR!Summarize(t2)
             diff == TR!ReportDiff(old, new)
             e(id) == TR!DiffEntry(old, new, id)
             in(b) == {y \in TestsOfBoth(was, is) : b \in BucketsOf(was, is, y)}
  <1>1. /\ \A b \in buckets : diff[b] = {e(project.idOf[x]) : x \in in(b)}
        /\ \A id : e(id).id = id
    <2>1. IsReport(was) /\ IsReport(is)
      BY DEF Compared
    <2>2. IsInjective(project.idOf) /\ DOMAIN project.fileOf \subseteq DOMAIN project.idOf
      BY DEF Compared
    <2>3. t1 \in TR!Parsed(was, project.idOf, project.fileOf) /\ t2 \in TR!Parsed(is, project.idOf, project.fileOf)
      BY DEF Compared
    <2>4. ASSUME NEW b \in buckets PROVE diff[b] = {e(project.idOf[x]) : x \in in(b)}
      <3>1. b \in TR!AllBuckets
        OBVIOUS
      <3> QED  BY <2>1, <2>2, <2>3, <3>1, TrDiffIs
    <2>5. \A id : e(id).id = id
      BY DEF TR!DiffEntry
    <2> QED  BY <2>4, <2>5
  <1> HIDE DEF diff, e
  <1>2. TR!InBuckets(diff, buckets) = {f.id : f \in UNION {diff[b] : b \in buckets}}
    BY DEF TR!InBuckets
  <1>3. \A f : f \in UNION {diff[b] : b \in buckets} <=> \E b \in buckets : \E x \in in(b) : f = e(project.idOf[x])
    <2> HIDE DEF in
    <2> QED  BY <1>1
  <1>4. \A x : x \in Bucketed(was, is, buckets) <=> \E b \in buckets : x \in in(b)
    BY DEF Bucketed
  <1> HIDE DEF in
  <1>5. \A id : (\E f \in UNION {diff[b] : b \in buckets} : id = f.id) <=> \E x \in Bucketed(was, is, buckets) : id = project.idOf[x]
    BY <1>1, <1>3, <1>4
  <1>6. TR!InBuckets(diff, buckets) = {project.idOf[x] : x \in Bucketed(was, is, buckets)}
    BY <1>2, <1>5
  <1> QED  BY <1>6 DEF diff

LEMMA BucketCount ==
  ASSUME NEW was, NEW is, NEW t1, NEW t2, Compared(was, is, t1, t2), NEW bucket \in TR!AllBuckets
  PROVE  TR!DiffPage(TR!ReportDiff(TR!Summarize(t1), TR!Summarize(t2))).counts[bucket]
           = Cardinality(Bucketed(was, is, {bucket}))
  <1> DEFINE old  == TR!Summarize(t1)
             new  == TR!Summarize(t2)
             diff == TR!ReportDiff(old, new)
             e(id) == TR!DiffEntry(old, new, id)
             in   == {y \in TestsOfBoth(was, is) : bucket \in BucketsOf(was, is, y)}
             f    == [x \in in |-> e(project.idOf[x])]
  <1>1. IsReport(was) /\ IsReport(is)
    BY DEF Compared
  <1>2. IsInjective(project.idOf) /\ DOMAIN project.fileOf \subseteq DOMAIN project.idOf
    BY DEF Compared
  <1>3. t1 \in TR!Parsed(was, project.idOf, project.fileOf) /\ t2 \in TR!Parsed(is, project.idOf, project.fileOf)
    BY DEF Compared
  <1>4. /\ diff[bucket] = {e(project.idOf[x]) : x \in in}
        /\ \A id : e(id).id = id
        /\ in \subseteq DOMAIN project.idOf
    <2>1. /\ diff[bucket] = {e(project.idOf[x]) : x \in in}
          /\ \A id : e(id).id = id
          /\ TestsOfBoth(was, is) \subseteq DOMAIN project.idOf
      BY <1>1, <1>2, <1>3, TrDiffIs
    <2> HIDE DEF diff, e
    <2> QED  BY <2>1
  <1>5. in = Bucketed(was, is, {bucket})
    BY DEF Bucketed
  <1>6. IsFiniteSet(in)
    <2>1. IsFiniteSet(TestsOfBoth(was, is))
      BY <1>1, TestCount, FS_Union DEF TestsOfBoth
    <2>2. in \in SUBSET TestsOfBoth(was, is)
      OBVIOUS
    <2> HIDE DEF in
    <2> QED  BY <2>1, <2>2, FS_Subset
  <1>7. f \in Surjection(in, diff[bucket])
    <2> HIDE DEF in, diff, e
    <2> QED  BY <1>4 DEF Surjection
  <1>8. \A x, y \in in : f[x] = f[y] => x = y
    <2> HIDE DEF in, diff, e
    <2>1. ASSUME NEW x \in in, NEW y \in in, f[x] = f[y] PROVE x = y
      <3>1. project.idOf[x] = project.idOf[y]
        BY <1>4, <2>1
      <3> QED  BY <1>2, <1>4, <3>1 DEF IsInjective
    <2> QED  BY <2>1
  <1>9. Cardinality(diff[bucket]) = Cardinality(in)
    <2> HIDE DEF in, diff, f
    <2> QED  BY <1>6, <1>7, <1>8, SameCount
  <1>10. TR!DiffPage(diff).counts[bucket] = Cardinality(diff[bucket])
    <2> HIDE DEF diff
    <2> QED  BY Instances DEF TR!DiffPage
  <1> HIDE DEF in
  <1> QED  BY <1>5, <1>9, <1>10

\* The totals of the diff of reporting/.
LEMMA PwTotals ==
  ASSUME NEW was, IsReport(was), NEW is, IsReport(is)
  PROVE  LET totals == PW!DiffPage(PwSummary(was), PwSummary(is)).totals
         IN /\ totals.baseTotal = Len(was) /\ totals.headTotal = Len(is)
            /\ totals.added = Cardinality(TestsIn(is) \ TestsIn(was))
            /\ totals.removed = Cardinality(TestsIn(was) \ TestsIn(is))
            /\ totals.regressions = Cardinality({x \in TestsOfBoth(was, is) : KindOf(was, is, x) \in PW!Regressions})
  <1> DEFINE b == PwSummary(was)
             h == PwSummary(is)
             diff == PW!PlaywrightDiff(b, h)
             totals == PW!DiffPage(b, h).totals
  <1>1. diff = [x \in TestsOfBoth(was, is) |-> KindOf(was, is, x)]
    BY PwDiffIs
  <1>2. /\ {b.tests[i].id : i \in DOMAIN b.tests} = TestsIn(was)
        /\ {h.tests[i].id : i \in DOMAIN h.tests} = TestsIn(is)
    BY SummaryTests DEF PwSummary
  <1>3. Len(b.tests) = Len(was) /\ Len(h.tests) = Len(is)
    <2>1. ASSUME NEW report, IsReport(report) PROVE Len(PwSummary(report).tests) = Len(report)
      <3>1. DOMAIN PW!Rows(report, project.fileOf) = 1 .. Len(report) /\ Len(report) \in Nat
        BY <2>1, RowFacts DEF PW!Rows
      <3>2. PW!Rows(report, project.fileOf)
              = [i \in 1 .. Len(report) |-> PW!Rows(report, project.fileOf)[i]]
        BY <3>1 DEF PW!Rows
      <3>3. Len(PW!Rows(report, project.fileOf)) = Len(report)
        BY <3>1, <3>2
      <3>4. PwSummary(report).tests = PW!Rows(report, project.fileOf)
        BY DEF PwSummary, PW!PlaywrightSummary
      <3> QED  BY <3>3, <3>4
    <2> QED  BY <2>1
  <1> HIDE DEF b, h
  <1>4. PW!DiffPage(b, h).totals = PW!DiffTotals(b, h)
    BY DEF PW!DiffPage
  <1>5. /\ PW!DiffTotals(b, h).baseTotal = Len(b.tests) /\ PW!DiffTotals(b, h).headTotal = Len(h.tests)
        /\ PW!DiffTotals(b, h).added = Cardinality({h.tests[i].id : i \in DOMAIN h.tests} \ {b.tests[i].id : i \in DOMAIN b.tests})
        /\ PW!DiffTotals(b, h).removed = Cardinality({b.tests[i].id : i \in DOMAIN b.tests} \ {h.tests[i].id : i \in DOMAIN h.tests})
        /\ PW!DiffTotals(b, h).regressions = Cardinality({x \in DOMAIN diff : diff[x] \in PW!Regressions})
    BY Instances DEF PW!DiffTotals
  <1>6. {x \in DOMAIN diff : diff[x] \in PW!Regressions}
          = {x \in TestsOfBoth(was, is) : KindOf(was, is, x) \in PW!Regressions}
    <2> HIDE DEF diff
    <2>1. DOMAIN diff = TestsOfBoth(was, is) /\ \A x \in TestsOfBoth(was, is) : diff[x] = KindOf(was, is, x)
      BY <1>1
    <2> QED  BY <2>1
  <1> HIDE DEF diff
  <1>7. /\ totals.baseTotal = Len(was) /\ totals.headTotal = Len(is)
        /\ totals.added = Cardinality(TestsIn(is) \ TestsIn(was))
        /\ totals.removed = Cardinality(TestsIn(was) \ TestsIn(is))
        /\ totals.regressions = Cardinality({x \in TestsOfBoth(was, is) : KindOf(was, is, x) \in PW!Regressions})
    BY <1>2, <1>3, <1>4, <1>5, <1>6
  <1> QED  BY <1>7 DEF b, h

Having(tests, status) == {i \in DOMAIN tests : status \in {tests[i].status, "total"}}

\* Both summaries of a report count the same.
LEMMA CountsAgree ==
  ASSUME NEW report, IsReport(report), ~Disputed(report),
         NEW tests \in TR!Parsed(report, project.idOf, project.fileOf)
  PROVE  LET pw == PwSummary(report).totals
             tr == TR!Summarize(tests).totals
         IN /\ pw["total"] = tr["total"] /\ pw["flaky"] = tr["flaky"] /\ pw["skipped"] = tr["skipped"]
            /\ FailedOf(pw) = tr["failed"]
  <1> DEFINE pw == PwSummary(report).totals
             tr == TR!Summarize(tests).totals
  <1>1. \A o \in PW!Outcomes \cup {"total"} :
          /\ pw[o] = Cardinality(With(report, o))
          /\ IsFiniteSet(With(report, o)) /\ Cardinality(With(report, o)) \in Nat
    <2>1. pw = PW!Totals(PW!Rows(report, project.fileOf))
      BY DEF PwSummary, PW!PlaywrightSummary
    <2> HIDE DEF pw
    <2> QED  BY <2>1, TotalsOf
  <1>2. \A s \in TR!Statuses \cup {"total"} : tr[s] = Cardinality(Having(tests, s))
    <2>1. tr = TR!ReportTotals(tests)
      BY DEF TR!Summarize
    <2> HIDE DEF tr
    <2> QED  BY <2>1, Instances DEF TR!ReportTotals, TR!CountOf, Having
  <1>3. DOMAIN tests = DOMAIN report
    BY ParsedFacts
  <1>4. ASSUME NEW i \in DOMAIN report
        PROVE  /\ SameVerdict(PwOutcome(report[i].attempts), tests[i].status)
               /\ PwOutcome(report[i].attempts) # "none" /\ tests[i].status \in TR!Statuses
    <2> DEFINE tries == report[i].attempts
    <2>1. tests[i].status = TR!StatusOf(tries) /\ tries # <<>>
      BY ParsedFacts
    <2>2. tries \in Tries /\ Clear(tries)
      BY <2>1, RowFacts DEF Clear, Disputed, LastTry
    <2>3. /\ SameVerdict(PwOutcome(tries), TR!StatusOf(tries))
          /\ PwOutcome(tries) # "none" /\ TR!StatusOf(tries) \in TR!Statuses
      BY <2>2, SameVerdictOnTries
    <2> HIDE DEF tries
    <2> QED  BY <2>1, <2>3 DEF tries
  <1> DEFINE out(i) == PwOutcome(report[i].attempts)
  <1>5. ASSUME NEW i \in DOMAIN report
        PROVE  /\ out(i) = "flaky" <=> tests[i].status = "flaky"
               /\ out(i) = "skipped" <=> tests[i].status = "skipped"
               /\ out(i) \in {"failed", "timedout"} <=> tests[i].status = "failed"
               /\ out(i) # "interrupted" /\ out(i) # "total" /\ tests[i].status # "total"
    <2> HIDE DEF out
    <2>1. SameVerdict(out(i), tests[i].status) /\ out(i) # "none" /\ tests[i].status \in TR!Statuses
      BY <1>4 DEF out
    <2>2. CASE out(i) \in {"passed", "flaky", "skipped"} /\ tests[i].status = out(i)
      BY <2>2
    <2>3. CASE out(i) \in {"failed", "timedout"} /\ tests[i].status = "failed"
      BY <2>3
    <2> QED  BY <2>1, <2>2, <2>3 DEF SameVerdict
  <1>6. /\ With(report, "total") = Having(tests, "total")
        /\ With(report, "flaky") = Having(tests, "flaky")
        /\ With(report, "skipped") = Having(tests, "skipped")
        /\ With(report, "failed") \cup With(report, "timedout") = Having(tests, "failed")
        /\ With(report, "failed") \cap With(report, "timedout") = {}
        /\ With(report, "interrupted") = {}
    <2>1. \A i, o : i \in With(report, o) <=> i \in DOMAIN report /\ (o = out(i) \/ o = "total")
      BY DEF With
    <2>2. \A i, o : i \in Having(tests, o) <=> i \in DOMAIN report /\ (o = tests[i].status \/ o = "total")
      BY <1>3 DEF Having
    <2>3. /\ \A o : With(report, o) \subseteq DOMAIN report
          /\ \A o : Having(tests, o) \subseteq DOMAIN report
      BY <2>1, <2>2
    <2> HIDE DEF out
    <2>4. With(report, "total") = Having(tests, "total")
      BY <2>1, <2>2, <2>3
    <2>5. With(report, "flaky") = Having(tests, "flaky") /\ With(report, "skipped") = Having(tests, "skipped")
      <3>1. \A i : i \in With(report, "flaky") <=> i \in Having(tests, "flaky")
        BY <1>5, <2>1, <2>2
      <3>2. \A i : i \in With(report, "skipped") <=> i \in Having(tests, "skipped")
        BY <1>5, <2>1, <2>2
      <3> QED  BY <3>1, <3>2, <2>3
    <2>6. With(report, "failed") \cup With(report, "timedout") = Having(tests, "failed")
      BY <1>5, <2>1, <2>2, <2>3
    <2>7. With(report, "failed") \cap With(report, "timedout") = {} /\ With(report, "interrupted") = {}
      BY <1>5, <2>1, <2>3
    <2> QED  BY <2>4, <2>5, <2>6, <2>7
  <1> HIDE DEF pw, tr
  <1>7. pw["total"] = tr["total"] /\ pw["flaky"] = tr["flaky"] /\ pw["skipped"] = tr["skipped"]
    BY <1>1, <1>2, <1>6 DEF PW!Outcomes, TR!Statuses
  <1>8. FailedOf(pw) = tr["failed"]
    <2>1. /\ IsFiniteSet(With(report, "failed")) /\ IsFiniteSet(With(report, "timedout"))
          /\ pw["failed"] = Cardinality(With(report, "failed")) /\ pw["failed"] \in Nat
          /\ pw["timedout"] = Cardinality(With(report, "timedout")) /\ pw["timedout"] \in Nat
          /\ pw["interrupted"] = Cardinality({}) /\ tr["failed"] = Cardinality(Having(tests, "failed"))
      BY <1>1, <1>2, <1>6 DEF PW!Outcomes, TR!Statuses
    <2>2. Cardinality(Having(tests, "failed")) = pw["failed"] + pw["timedout"] - Cardinality({})
      <3>1. Cardinality(With(report, "failed") \cup With(report, "timedout"))
              = Cardinality(With(report, "failed")) + Cardinality(With(report, "timedout"))
                  - Cardinality(With(report, "failed") \cap With(report, "timedout"))
        BY <2>1, FS_Union
      <3> QED  BY <1>6, <2>1, <3>1
    <2>3. Cardinality({}) = 0
      BY FS_EmptySet
    <2> QED  BY <2>1, <2>2, <2>3 DEF FailedOf
  <1> QED  BY <1>7, <1>8 DEF pw, tr

LEMMA ReportsCompared ==
  ASSUME NEW was, NEW is, NEW t1, NEW t2, Compared(was, is, t1, t2), ~Disputed(was), ~Disputed(is)
  PROVE  DiffsAgree(PW!DiffPage(PwSummary(was), PwSummary(is)),
                    TR!DiffPage(TR!ReportDiff(TR!Summarize(t1), TR!Summarize(t2))))
  <1> DEFINE old  == TR!Summarize(t1)
             new  == TR!Summarize(t2)
             both == TestsOfBoth(was, is)
             pw   == PW!DiffPage(PwSummary(was), PwSummary(is))
             tr   == TR!DiffPage(TR!ReportDiff(old, new))
             Kind(x) == KindOf(was, is, x)
             Named(rows) == {project.idOf[r.id] : r \in rows}
             Of(rows, kinds) == {r \in rows : r.kind \in kinds}
             Places(bs) == {project.idOf[x] : x \in Bucketed(was, is, bs)}
  <1>1. IsReport(was) /\ IsReport(is)
    BY DEF Compared
  <1>2. t1 \in TR!Parsed(was, project.idOf, project.fileOf) /\ t2 \in TR!Parsed(is, project.idOf, project.fileOf)
    BY DEF Compared
  <1>3. ASSUME NEW x \in both
        PROVE  LET of == BucketsOf(was, is, x)
               IN /\ Kind(x) \in PW!Regressions <=> "new_failures" \in of \/ "new_flaky" \in of
                  /\ ~("new_failures" \in of /\ "new_flaky" \in of)
                  /\ Kind(x) = "persistent_flaky" <=> "persistent_flaky" \in of
                  /\ Kind(x) \in {"resolved", "improved", "worsened_failure"} <=>
                       "resolved_failures" \in of \/ "resolved_flaky" \in of
    <2>1. (\A i \in DOMAIN was : was[i].attempts # <<>>) /\ (\A i \in DOMAIN is : is[i].attempts # <<>>)
      BY <1>1, <1>2, ParsedFacts
    <2>2. SameVerdict(OutcomeOf(was, x), StatusOfTest(was, x)) /\ SameVerdict(OutcomeOf(is, x), StatusOfTest(is, x))
      BY <1>1, <2>1, SameVerdictOnTest
    <2> QED  BY <2>2, KindsMatch DEF KindOf, BucketsOf
  <1>4. /\ \A r \in pw.regressions : r.id \in both /\ r.kind = Kind(r.id) /\ r.kind \in PW!Regressions
        /\ \A x \in both : Kind(x) \in PW!Regressions => \E r \in pw.regressions : r.id = x
        /\ \A r \in pw.improvements : r.id \in both /\ r.kind = Kind(r.id) /\ r.kind \in PW!Improvements
        /\ \A x \in both : Kind(x) \in PW!Improvements => \E r \in pw.improvements : r.id = x
        /\ \A r \in pw.persistent : r.id \in both /\ r.kind = Kind(r.id) /\ r.kind \in PW!Persistent
        /\ \A x \in both : Kind(x) \in PW!Persistent => \E r \in pw.persistent : r.id = x
    BY <1>1, PwTables
  <1>5. tr.rows = TR!ReportDiff(old, new)
    BY DEF TR!DiffPage
  <1>6. \A bs \in SUBSET TR!AllBuckets : TR!InBuckets(tr.rows, bs) = Places(bs)
    BY <1>5, InBucketsAre
  <1>7. /\ {"new_failures", "new_flaky"} \in SUBSET TR!AllBuckets
        /\ {"persistent_flaky"} \in SUBSET TR!AllBuckets
        /\ {"resolved_failures", "resolved_flaky"} \in SUBSET TR!AllBuckets
        /\ "new_failures" \in TR!AllBuckets /\ "new_flaky" \in TR!AllBuckets
    BY DEF TR!AllBuckets
  <1>8. /\ tr.counts["new_failures"] = Cardinality(Bucketed(was, is, {"new_failures"}))
        /\ tr.counts["new_flaky"] = Cardinality(Bucketed(was, is, {"new_flaky"}))
    BY <1>7, BucketCount
  <1>9. /\ pw.totals.baseTotal = Len(was) /\ pw.totals.headTotal = Len(is)
        /\ pw.totals.added = Cardinality(TestsIn(is) \ TestsIn(was))
        /\ pw.totals.removed = Cardinality(TestsIn(was) \ TestsIn(is))
        /\ pw.totals.regressions = Cardinality({x \in both : Kind(x) \in PW!Regressions})
    BY <1>1, PwTotals
  <1> HIDE DEF pw, tr, both, Kind, old, new
  <1>10. \A bs : \A x : x \in Bucketed(was, is, bs) <=> x \in both /\ \E b \in bs : b \in BucketsOf(was, is, x)
    BY DEF Bucketed, both
  <1>11. Named(pw.regressions) = Places({"new_failures", "new_flaky"})
    <2>1. \A x : (\E r \in pw.regressions : x = r.id) <=> x \in Bucketed(was, is, {"new_failures", "new_flaky"})
      BY <1>3, <1>4, <1>10
    <2> QED  BY <2>1
  <1>12. pw.totals.regressions = tr.counts["new_failures"] + tr.counts["new_flaky"]
    <2> DEFINE a == Bucketed(was, is, {"new_failures"})
               b == Bucketed(was, is, {"new_flaky"})
               c == {x \in both : Kind(x) \in PW!Regressions}
    <2>1. c = a \cup b /\ a \cap b = {} /\ a \in SUBSET both /\ b \in SUBSET both
      BY <1>3, <1>10
    <2>2. IsFiniteSet(both)
      BY <1>1, TestCount, FS_Union DEF TestsOfBoth, both
    <2> HIDE DEF a, b, c
    <2>3. IsFiniteSet(a) /\ IsFiniteSet(b)
      BY <2>1, <2>2, FS_Subset
    <2>4. Cardinality(a \cup b) = Cardinality(a) + Cardinality(b) - Cardinality(a \cap b)
      BY <2>3, FS_Union
    <2>5. Cardinality(a \cap b) = 0 /\ Cardinality(a) \in Nat /\ Cardinality(b) \in Nat
      BY <2>1, <2>3, FS_EmptySet, FS_CardinalityType
    <2>6. Cardinality(c) = Cardinality(a) + Cardinality(b)
      BY <2>1, <2>4, <2>5
    <2> QED  BY <1>8, <1>9, <2>6 DEF a, b, c
  <1>13. Named(Of(pw.persistent, {"persistent_flaky"})) = Places({"persistent_flaky"})
    <2>1. \A x : (\E r \in Of(pw.persistent, {"persistent_flaky"}) : x = r.id) <=> x \in Bucketed(was, is, {"persistent_flaky"})
      BY <1>3, <1>4, <1>10 DEF PW!Persistent
    <2> QED  BY <2>1
  <1>14. Named(Of(pw.improvements, {"resolved", "improved"}) \cup Of(pw.regressions, {"worsened_failure"}))
           = Places({"resolved_failures", "resolved_flaky"})
    <2> DEFINE rows == Of(pw.improvements, {"resolved", "improved"}) \cup Of(pw.regressions, {"worsened_failure"})
    <2>1. \A x : (\E r \in rows : x = r.id) <=>
                   x \in both /\ Kind(x) \in {"resolved", "improved", "worsened_failure"}
      BY <1>4 DEF PW!Improvements, PW!Regressions
    <2> HIDE DEF rows, Of
    <2>2. \A x : (\E r \in rows : x = r.id) <=> x \in Bucketed(was, is, {"resolved_failures", "resolved_flaky"})
      BY <1>3, <1>10, <2>1
    <2>3. Named(rows) = Places({"resolved_failures", "resolved_flaky"})
      BY <2>2
    <2> QED  BY <2>3 DEF rows
  <1>15. pw.totals.baseTotal + pw.totals.added = pw.totals.headTotal + pw.totals.removed
    <2> DEFINE B == TestsIn(was)
               H == TestsIn(is)
    <2>1. IsFiniteSet(B) /\ IsFiniteSet(H) /\ Cardinality(B) = Len(was) /\ Cardinality(H) = Len(is)
            /\ Len(was) \in Nat /\ Len(is) \in Nat
      BY <1>1, TestCount
    <2> HIDE DEF B, H
    <2>2. Cardinality(H \ B) = Cardinality(H) - Cardinality(H \cap B)
      BY <2>1, FS_Difference
    <2>3. Cardinality(B \ H) = Cardinality(B) - Cardinality(B \cap H)
      BY <2>1, FS_Difference
    <2>4. H \cap B = B \cap H /\ Cardinality(B \cap H) \in Nat
      BY <2>1, FS_Intersection, FS_CardinalityType
    <2>5. /\ pw.totals.baseTotal = Cardinality(B) /\ pw.totals.headTotal = Cardinality(H)
          /\ pw.totals.added = Cardinality(H \ B) /\ pw.totals.removed = Cardinality(B \ H)
      BY <1>9, <2>1 DEF B, H
    <2>6. Cardinality(B) \in Nat /\ Cardinality(H) \in Nat
      BY <2>1
    <2> QED  BY <2>2, <2>3, <2>4, <2>5, <2>6
  <1>16. /\ TR!InBuckets(tr.rows, {"new_failures", "new_flaky"}) = Places({"new_failures", "new_flaky"})
         /\ TR!InBuckets(tr.rows, {"persistent_flaky"}) = Places({"persistent_flaky"})
         /\ TR!InBuckets(tr.rows, {"resolved_failures", "resolved_flaky"}) = Places({"resolved_failures", "resolved_flaky"})
    BY <1>6, <1>7
  <1> QED  BY <1>11, <1>12, <1>13, <1>14, <1>15, <1>16 DEF DiffsAgree, pw, tr, old, new

\* The batch reports and `flaker report' tell the same story of two nights of a task
\* (buildPlaywrightDiff, runReportDiff, buildFlakerBatchSummary, runReportSummarize).
THEOREM PipelinesDoAgree == BatchSpec => []PipelinesAgree
  <1>1. ASSUME BatchInv, NEW task \in Reported(base) \cap Reported(head), IsInjective(project.idOf),
               ~Disputed(ReportOf(base, task)), ~Disputed(ReportOf(head, task)),
               NEW old \in Summarized(base, task), NEW new \in Summarized(head, task)
        PROVE  /\ DiffsAgree(PW!DiffPage(SummaryOf(base, task), SummaryOf(head, task)),
                             TR!DiffPage(TR!ReportDiff(old, new)))
               /\ \A count \in {"total", "failed", "flaky", "skipped"} : BatchRow(task)[count] = new.totals[count]
    <2> DEFINE was == ReportOf(base, task)
               is  == ReportOf(head, task)
    <2>1. IsReport(was) /\ IsReport(is) /\ task \in DOMAIN head /\ head[task] # {}
      BY <1>1, NightReports DEF BatchInv
    <2>2. DOMAIN project.fileOf \subseteq DOMAIN project.idOf
      BY <1>1, ProjectFacts DEF BatchInv, BatchTypeOK
    <2>3. PICK t1 \in TR!Parsed(was, project.idOf, project.fileOf) : old = TR!Summarize(t1)
      BY DEF Summarized
    <2>4. PICK t2 \in TR!Parsed(is, project.idOf, project.fileOf) : new = TR!Summarize(t2)
      BY DEF Summarized
    <2>5. SummaryOf(base, task) = PwSummary(was) /\ SummaryOf(head, task) = PwSummary(is)
      BY DEF SummaryOf, PwSummary
    <2>a. ~Disputed(was) /\ ~Disputed(is)
      BY <1>1
    <2> HIDE DEF was, is
    <2>6. DiffsAgree(PW!DiffPage(PwSummary(was), PwSummary(is)), TR!DiffPage(TR!ReportDiff(old, new)))
      <3>1. Compared(was, is, t1, t2)
        BY <1>1, <2>1, <2>2 DEF Compared
      <3> QED  BY <2>3, <2>4, <2>a, <3>1, ReportsCompared
    <2>7. LET pw == PwSummary(is).totals
          IN /\ pw["total"] = new.totals["total"] /\ pw["flaky"] = new.totals["flaky"]
             /\ pw["skipped"] = new.totals["skipped"] /\ FailedOf(pw) = new.totals["failed"]
      BY <2>1, <2>4, <2>a, CountsAgree
    <2>8. LET pw == PwSummary(is).totals
          IN BatchRow(task) = [status  |-> IF FailedOf(pw) > 0 THEN "failed" ELSE "ok",
                               failed  |-> FailedOf(pw),
                               flaky   |-> pw["flaky"],
                               skipped |-> pw["skipped"],
                               total   |-> pw["total"]]
      BY <2>1, <2>5 DEF BatchRow
    <2>9. BatchRow(task)["total"] = new.totals["total"] /\ BatchRow(task)["failed"] = new.totals["failed"]
            /\ BatchRow(task)["flaky"] = new.totals["flaky"] /\ BatchRow(task)["skipped"] = new.totals["skipped"]
      BY <2>7, <2>8
    <2> QED  BY <2>5, <2>6, <2>9
  <1>2. BatchInv => PipelinesAgree
    BY <1>1 DEF PipelinesAgree
  <1> QED  BY <1>2, BatchInvHolds, PTL
-----------------------------------------------------------------------------
(* A store of analysed runs.                                               *)

\* The runs that a store can hold.
StoredRuns ==
  [commit : Commits, source : Sources, day : Nat, results : CiReports \cup LocalReports,
   sample : [selected : SUBSET Tests, heldOut : SUBSET Tests]]

IsHistory(h) == h \in Seq(StoredRuns)

StoreInv == TypeOK /\ IsHistory(history)

LEMMA HistoryFacts ==
  ASSUME NEW h, IsHistory(h)
  PROVE  /\ Len(h) \in Nat /\ DOMAIN h = 1 .. Len(h)
         /\ \A i \in DOMAIN h :
              /\ h[i].commit \in Commits /\ h[i].source \in Sources /\ h[i].day \in Nat
              /\ h[i].results \in CiReports \cup LocalReports
              /\ h[i].sample.selected \subseteq Tests /\ h[i].sample.heldOut \subseteq Tests
  <1> DEFINE T == StoredRuns
  <1>1. /\ h \in Seq(T)
        /\ \A r \in T : /\ r.commit \in Commits /\ r.source \in Sources /\ r.day \in Nat
                        /\ r.results \in CiReports \cup LocalReports
                        /\ r.sample.selected \subseteq Tests /\ r.sample.heldOut \subseteq Tests
    BY DEF IsHistory, StoredRuns
  <1> HIDE DEF T
  <1>2. Len(h) \in Nat /\ DOMAIN h = 1 .. Len(h) /\ \A i \in DOMAIN h : h[i] \in T
    BY <1>1
  <1> QED  BY <1>1, <1>2

\* A run that is stored keeps the history one.
LEMMA StoreKeeps ==
  ASSUME StoreInv, NEW run \in StoredRuns, Store(run), run.day <= today,
         run.sample.selected \cap run.sample.heldOut = {}
  PROVE  StoreInv'
  <1> DEFINE T == StoredRuns
             h == history
             n == Len(history)
  <1>1. /\ today' = today /\ history' = Append(h, run) /\ n < MaxRuns
        /\ h \in Seq(T) /\ run \in T /\ MaxRuns \in Nat
    BY StoreAnalysisAssumption DEF StoreInv, Store, IsHistory
  <1>2. /\ run.commit \in Commits /\ run.source \in Sources /\ run.day \in Nat
        /\ run.results \in CiReports \cup LocalReports
    BY DEF StoredRuns
  <1>3. n \in Nat /\ DOMAIN h = 1 .. n
    BY <1>1
  <1>4. /\ history' \in Seq(T) /\ Len(history') = n + 1 /\ DOMAIN history' = 1 .. n + 1
        /\ history'[n + 1] = run /\ \A i \in 1 .. n : history'[i] = h[i]
    <2> HIDE DEF T
    <2> QED  BY <1>1
  <1>5. /\ today \in 0 .. LastDay /\ n <= MaxRuns
        /\ \A i \in DOMAIN h :
             /\ h[i].commit \in Commits /\ h[i].source \in Sources /\ h[i].day \in 0 .. today
             /\ h[i].results \in CiReports \cup LocalReports
             /\ h[i].sample.selected \cap h[i].sample.heldOut = {}
    BY DEF StoreInv, TypeOK
  <1> HIDE DEF n, h
  <1>6. run.day \in 0 .. today
    BY <1>2, <1>5
  <1>7. today' \in 0 .. LastDay /\ Len(history') <= MaxRuns
    BY <1>1, <1>3, <1>4, <1>5
  <1>8. ASSUME NEW i \in DOMAIN history'
        PROVE  /\ history'[i].commit \in Commits /\ history'[i].source \in Sources
               /\ history'[i].day \in 0 .. today'
               /\ history'[i].results \in CiReports \cup LocalReports
               /\ history'[i].sample.selected \cap history'[i].sample.heldOut = {}
    <2>1. i = n + 1 \/ i \in 1 .. n
      BY <1>3, <1>4
    <2> QED  BY <1>1, <1>2, <1>3, <1>4, <1>5, <1>6, <2>1
  <1> QED  BY <1>4, <1>7, <1>8 DEF StoreInv, TypeOK, IsHistory

LEMMA StepStore == StoreInv /\ [Next]_vars => StoreInv'
  <1> SUFFICES ASSUME StoreInv, [Next]_vars PROVE StoreInv'
    OBVIOUS
  <1>0. today \in Nat
    BY StoreAnalysisAssumption DEF StoreInv, TypeOK
  <1>1. CASE NextDay
    <2>1. \A i \in DOMAIN history : history[i].day \in 0 .. today'
      BY <1>0, <1>1 DEF StoreInv, TypeOK, NextDay
    <2>2. today' \in 0 .. LastDay
      BY <1>1, StoreAnalysisAssumption DEF StoreInv, TypeOK, NextDay
    <2>3. history' = history
      BY <1>1 DEF NextDay
    <2> QED  BY <2>1, <2>2, <2>3 DEF StoreInv, TypeOK, IsHistory
  <1>2. CASE ImportCiRun
    <2>1. PICK c \in Commits, f \in CiReports, late \in 0 .. 1 :
            /\ late <= today
            /\ Store([commit |-> c, source |-> "ci", day |-> today - late, results |-> f, sample |-> NoSample])
      BY <1>2 DEF ImportCiRun
    <2> DEFINE run == [commit |-> c, source |-> "ci", day |-> today - late, results |-> f, sample |-> NoSample]
    <2>2. run \in StoredRuns
      <3>1. today - late \in Nat /\ "ci" \in Sources
        BY <1>0, <2>1 DEF Sources
      <3>2. NoSample \in [selected : SUBSET Tests, heldOut : SUBSET Tests]
        BY DEF NoSample
      <3> QED  BY <3>1, <3>2 DEF StoredRuns
    <2>3. run.day <= today /\ run.sample.selected \cap run.sample.heldOut = {}
      BY <1>0 DEF NoSample
    <2>4. Store(run)
      BY <2>1
    <2> HIDE DEF run
    <2> QED  BY <2>2, <2>3, <2>4, StoreKeeps
  <1>3. CASE RecordLocalRun
    <2>1. PICK c \in Commits, f \in LocalReports, held \in HoldBacks :
            /\ held \subseteq DOMAIN f
            /\ Store([commit |-> c, source |-> "local", day |-> today, results |-> f,
                      sample |-> [selected |-> DOMAIN f \ held, heldOut |-> held]])
      BY <1>3 DEF RecordLocalRun
    <2> DEFINE run == [commit |-> c, source |-> "local", day |-> today, results |-> f,
                       sample |-> [selected |-> DOMAIN f \ held, heldOut |-> held]]
    <2>2. run \in StoredRuns
      <3>1. "local" \in Sources /\ held \subseteq Tests /\ DOMAIN f \subseteq Tests
        BY StoreAnalysisAssumption DEF Sources
      <3>2. [selected |-> DOMAIN f \ held, heldOut |-> held] \in [selected : SUBSET Tests, heldOut : SUBSET Tests]
        BY <3>1
      <3> QED  BY <1>0, <3>1, <3>2 DEF StoredRuns
    <2>3. run.day <= today /\ run.sample.selected \cap run.sample.heldOut = {}
      BY <1>0
    <2>4. Store(run)
      BY <2>1
    <2> HIDE DEF run
    <2> QED  BY <2>2, <2>3, <2>4, StoreKeeps
  <1>4. CASE UNCHANGED vars
    BY <1>4 DEF vars, StoreInv, TypeOK, IsHistory
  <1> QED  BY <1>1, <1>2, <1>3, <1>4 DEF Next

LEMMA StoreInvHolds == Spec => []StoreInv
  <1>1. Init => StoreInv
    BY StoreAnalysisAssumption DEF Init, StoreInv, TypeOK, IsHistory
  <1> QED  BY <1>1, StepStore, PTL DEF Spec

\* Type invariant of the store: runs are of known commits and of days that have come, and what a
\* sample held out it did not select (recordLocalRun, insertWorkflowRun).
THEOREM StoreTypeCorrect == Spec => []TypeOK
  <1>1. StoreInv => TypeOK
    BY DEF StoreInv
  <1> QED  BY <1>1, StoreInvHolds, PTL

-----------------------------------------------------------------------------
(* Rows.                                                                   *)

LEMMA RowsOfFacts ==
  ASSUME NEW h, IsHistory(h), NEW i \in DOMAIN h
  PROVE  /\ IsFiniteSet(RowsOf(h, i))
         /\ \A r \in RowsOf(h, i) :
              /\ r.run = i /\ r.test \in DOMAIN h[i].results /\ r.test \in Tests
              /\ r.commit = h[i].commit /\ r.source = h[i].source /\ r.day = h[i].day
              /\ r.outcome = h[i].results[r.test] /\ r.outcome \in Outcomes
         /\ RowsOf(h, i) # {}
  <1> DEFINE e(t) == [run |-> i, test |-> t, commit |-> h[i].commit, source |-> h[i].source,
                      day |-> h[i].day, outcome |-> h[i].results[t]]
             D == DOMAIN h[i].results
             f == [t \in D |-> e(t)]
  <1>1. /\ D \subseteq Tests /\ D # {} /\ IsFiniteSet(Tests)
        /\ \A t \in D : h[i].results[t] \in Outcomes
    BY HistoryFacts, StoreAnalysisAssumption, TestFactsAssumption
  <1>2. RowsOf(h, i) = {e(t) : t \in D}
    BY DEF RowsOf
  <1>3. IsFiniteSet(D)
    BY <1>1, FS_Subset
  <1>4. f \in Surjection(D, RowsOf(h, i))
    <2> HIDE DEF D, e
    <2> QED  BY <1>2 DEF Surjection
  <1>5. IsFiniteSet(RowsOf(h, i))
    <2> HIDE DEF D, f
    <2> QED  BY <1>3, <1>4, FS_Surjection
  <1>6. \A t \in D : /\ e(t).run = i /\ e(t).test = t /\ e(t).commit = h[i].commit
                     /\ e(t).source = h[i].source /\ e(t).day = h[i].day
                     /\ e(t).outcome = h[i].results[t]
    OBVIOUS
  <1> HIDE DEF D, e
  <1>7. \A r \in RowsOf(h, i) :
              /\ r.run = i /\ r.test \in D /\ r.test \in Tests
              /\ r.commit = h[i].commit /\ r.source = h[i].source /\ r.day = h[i].day
              /\ r.outcome = h[i].results[r.test] /\ r.outcome \in Outcomes
    BY <1>1, <1>2, <1>6
  <1>8. RowsOf(h, i) # {}
    BY <1>1, <1>2
  <1> QED  BY <1>5, <1>7, <1>8 DEF D

LEMMA RowsFacts ==
  ASSUME NEW h, IsHistory(h)
  PROVE  /\ IsFiniteSet(Rows(h))
         /\ \A r \in Rows(h) :
              /\ r.run \in DOMAIN h /\ r \in RowsOf(h, r.run) /\ r.test \in Tests
              /\ r.commit \in Commits /\ r.source \in Sources /\ r.day \in Nat /\ r.outcome \in Outcomes
              /\ r.commit = h[r.run].commit /\ r.source = h[r.run].source /\ r.day = h[r.run].day
  <1> DEFINE S == {RowsOf(h, i) : i \in DOMAIN h}
             f == [i \in DOMAIN h |-> RowsOf(h, i)]
  <1>1. Len(h) \in Nat /\ DOMAIN h = 1 .. Len(h)
    BY HistoryFacts
  <1>2. IsFiniteSet(DOMAIN h)
    BY <1>1, FS_Interval
  <1>3. f \in Surjection(DOMAIN h, S)
    BY DEF Surjection
  <1>4. IsFiniteSet(S)
    <2> HIDE DEF f, S
    <2> QED  BY <1>2, <1>3, FS_Surjection
  <1>5. \A x \in S : IsFiniteSet(x)
    BY RowsOfFacts
  <1>6. IsFiniteSet(UNION S)
    <2> HIDE DEF S
    <2> QED  BY <1>4, <1>5, FS_UNION
  <1>7. ASSUME NEW r \in Rows(h)
        PROVE  /\ r.run \in DOMAIN h /\ r \in RowsOf(h, r.run) /\ r.test \in Tests
               /\ r.commit \in Commits /\ r.source \in Sources /\ r.day \in Nat /\ r.outcome \in Outcomes
               /\ r.commit = h[r.run].commit /\ r.source = h[r.run].source /\ r.day = h[r.run].day
    <2>1. PICK i \in DOMAIN h : r \in RowsOf(h, i)
      BY DEF Rows
    <2>2. /\ r.run = i /\ r.test \in Tests /\ r.outcome \in Outcomes
          /\ r.commit = h[i].commit /\ r.source = h[i].source /\ r.day = h[i].day
      BY <2>1, RowsOfFacts
    <2>3. h[i].commit \in Commits /\ h[i].source \in Sources /\ h[i].day \in Nat
      BY HistoryFacts
    <2> QED  BY <2>1, <2>2, <2>3
  <1> QED  BY <1>6, <1>7 DEF Rows, S

\* The rows of a window.
LEMMA RecentRows ==
  ASSUME NEW h, IsHistory(h), NEW days, NEW until
  PROVE  /\ Recent(h, days, until) = {r \in Rows(h) : InWindow(r.day, days, until)}
         /\ IsFiniteSet(Recent(h, days, until))
  <1>1. ASSUME NEW r PROVE r \in Recent(h, days, until) <=> r \in Rows(h) /\ InWindow(r.day, days, until)
    <2>1. ASSUME r \in Recent(h, days, until) PROVE r \in Rows(h) /\ InWindow(r.day, days, until)
      <3>1. PICK i \in DOMAIN h : InWindow(h[i].day, days, until) /\ r \in RowsOf(h, i)
        BY <2>1 DEF Recent, RunsIn
      <3>2. r.day = h[i].day
        BY <3>1, RowsOfFacts
      <3> QED  BY <3>1, <3>2 DEF Rows
    <2>2. ASSUME r \in Rows(h), InWindow(r.day, days, until) PROVE r \in Recent(h, days, until)
      <3>1. r.run \in DOMAIN h /\ r \in RowsOf(h, r.run) /\ r.day = h[r.run].day
        BY <2>2, RowsFacts
      <3> QED  BY <2>2, <3>1 DEF Recent, RunsIn
    <2> QED  BY <2>1, <2>2
  <1>2. Recent(h, days, until) = {r \in Rows(h) : InWindow(r.day, days, until)}
    BY <1>1
  <1>3. Recent(h, days, until) \in SUBSET Rows(h)
    BY <1>1
  <1> QED  BY <1>2, <1>3, RowsFacts, FS_Subset

LEMMA Counts ==
  ASSUME NEW S, IsFiniteSet(S)
  PROVE  /\ Count(S) \in Nat /\ (Count(S) = 0 <=> S = {}) /\ (Count(S) > 0 <=> S # {})
         /\ \A T \in SUBSET S : IsFiniteSet(T) /\ Count(T) \in Nat /\ Count(T) <= Count(S)
  <1>1. Count(S) \in Nat /\ (Count(S) = 0 <=> S = {})
    BY FS_CardinalityType, FS_EmptySet DEF Count
  <1>2. ASSUME NEW T \in SUBSET S PROVE IsFiniteSet(T) /\ Count(T) \in Nat /\ Count(T) <= Count(S)
    BY FS_Subset, FS_CardinalityType DEF Count
  <1> QED  BY <1>1, <1>2

-----------------------------------------------------------------------------
(* Commits that failed or passed, by a source.                             *)

\* The rows of a commit from a source.
From(h, c, source) ==
  {r \in Recent(h, WindowDays, today) : r.commit = c /\ r.source = source}

LEMMA SignalsAre ==
  ASSUME NEW h, IsHistory(h), NEW source \in Sources
  PROVE  LET signals == Signals(h, WindowDays, today) IN
         /\ \A c : c \in FailedIn(signals, source) <=> c \in Commits /\ \E r \in From(h, c, source) : Failure(r)
         /\ \A c : c \in PassedIn(signals, source) <=>
              c \in Commits /\ From(h, c, source) # {} /\ \A r \in From(h, c, source) : ~Failure(r)
         /\ \A c : c \in CommitsOf(SignalOf(signals, source)) <=> c \in Commits /\ From(h, c, source) # {}
  <1> DEFINE signals == Signals(h, WindowDays, today)
             recent == Recent(h, WindowDays, today)
             of(x)  == {r \in recent : r.commit = x[1] /\ r.source = x[2]}
             sig(x) == Signal(h, x[1], x[2], of(x), WindowDays, today)
             count(c) == Count({r \in From(h, c, source) : Failure(r)})
  <1>1. signals = {sig(x) : x \in {y \in Commits \X Sources : of(y) # {}}}
    BY DEF Signals
  <1>2. ASSUME NEW x PROVE sig(x).commit = x[1] /\ sig(x).source = x[2] /\ sig(x).failures = Count({r \in of(x) : Failure(r)})
    BY DEF Signal
  <1>3. ASSUME NEW c PROVE of(<<c, source>>) = From(h, c, source)
    BY DEF From
  <1> HIDE DEF signals, sig, of
  <1>4. ASSUME NEW s \in SignalOf(signals, source)
        PROVE  s.commit \in Commits /\ From(h, s.commit, source) # {} /\ s.failures = count(s.commit)
    <2>1. s \in signals /\ s.source = source
      BY DEF SignalOf
    <2>2. PICK x \in Commits \X Sources : of(x) # {} /\ s = sig(x)
      BY <1>1, <2>1
    <2>3. x[1] \in Commits /\ x = <<x[1], x[2]>>
      OBVIOUS
    <2>5. s.commit = x[1] /\ x[2] = source
      BY <1>2, <2>1, <2>2
    <2>4. of(x) = From(h, s.commit, source)
      BY <1>3, <2>3, <2>5
    <2> QED  BY <1>2, <2>2, <2>3, <2>4, <2>5
  <1>5. ASSUME NEW c \in Commits, From(h, c, source) # {}
        PROVE  \E s \in SignalOf(signals, source) : s.commit = c
    <2> DEFINE x == <<c, source>>
    <2>1. sig(x) \in signals
      BY <1>1, <1>3, <1>5
    <2>2. sig(x).commit = c /\ sig(x).source = source
      BY <1>2
    <2> QED  BY <2>1, <2>2 DEF SignalOf
  <1>6. ASSUME NEW c PROVE count(c) > 0 <=> \E r \in From(h, c, source) : Failure(r)
    <2> DEFINE S == {r \in From(h, c, source) : Failure(r)}
    <2>1. S \in SUBSET recent /\ IsFiniteSet(recent)
      BY RecentRows DEF From
    <2>2. IsFiniteSet(S)
      <3> HIDE DEF S, recent
      <3> QED  BY <2>1, FS_Subset
    <2>3. Count(S) > 0 <=> S # {}
      <3> HIDE DEF S
      <3> QED  BY <2>2, Counts
    <2> QED  BY <2>3
  <1>7. ASSUME NEW c PROVE count(c) = 0 <=> \A r \in From(h, c, source) : ~Failure(r)
    <2> DEFINE S == {r \in From(h, c, source) : Failure(r)}
    <2>1. S \in SUBSET recent /\ IsFiniteSet(recent)
      BY RecentRows DEF From
    <2>2. IsFiniteSet(S)
      <3> HIDE DEF S, recent
      <3> QED  BY <2>1, FS_Subset
    <2>3. Count(S) = 0 <=> S = {}
      <3> HIDE DEF S
      <3> QED  BY <2>2, Counts
    <2> QED  BY <2>3
  <1> HIDE DEF count, recent
  <1>8. ASSUME NEW c PROVE c \in FailedIn(signals, source) <=> c \in Commits /\ \E r \in From(h, c, source) : Failure(r)
    <2>1. c \in FailedIn(signals, source) <=> \E s \in SignalOf(signals, source) : s.failures > 0 /\ s.commit = c
      BY DEF FailedIn
    <2> QED  BY <1>4, <1>5, <1>6, <2>1
  <1>9. ASSUME NEW c PROVE c \in PassedIn(signals, source) <=>
              c \in Commits /\ From(h, c, source) # {} /\ \A r \in From(h, c, source) : ~Failure(r)
    <2>1. c \in PassedIn(signals, source) <=> \E s \in SignalOf(signals, source) : s.failures = 0 /\ s.commit = c
      BY DEF PassedIn
    <2> QED  BY <1>4, <1>5, <1>7, <2>1
  <1>10. ASSUME NEW c PROVE c \in CommitsOf(SignalOf(signals, source)) <=> c \in Commits /\ From(h, c, source) # {}
    <2>1. c \in CommitsOf(SignalOf(signals, source)) <=> \E s \in SignalOf(signals, source) : s.commit = c
      BY DEF CommitsOf
    <2> QED  BY <1>4, <1>5, <2>1
  <1> QED  BY <1>8, <1>9, <1>10 DEF signals

\* A run more adds rows to a window and takes none away.
LEMMA RowsStay ==
  ASSUME StoreInv, Next, today' = today
  PROVE  /\ IsHistory(history) /\ IsHistory(history')
         /\ \A c, source : From(history, c, source) \subseteq From(history', c, source)
  <1>1. IsHistory(history) /\ IsHistory(history')
    BY StepStore DEF StoreInv
  <1>2. Len(history) \in Nat /\ DOMAIN history = 1 .. Len(history)
    BY <1>1, HistoryFacts
  <1>3. \E run : history' = Append(history, run)
    <2>1. ~NextDay
      BY StoreAnalysisAssumption DEF NextDay, StoreInv, TypeOK
    <2> QED  BY <2>1 DEF Next, ImportCiRun, RecordLocalRun, Store
  <1>4. \A i \in DOMAIN history : i \in DOMAIN history' /\ history'[i] = history[i]
    <2>1. PICK run : history' = Append(history, run)
      BY <1>3
    <2>2. history \in Seq(StoredRuns)
      BY <1>1 DEF IsHistory
    <2> QED  BY <2>1, <2>2
  <1>5. \A i \in DOMAIN history : RowsOf(history, i) = RowsOf(history', i)
    BY <1>4 DEF RowsOf
  <1>6. Recent(history, WindowDays, today) \subseteq Recent(history', WindowDays, today)
    BY <1>4, <1>5 DEF Recent, RunsIn
  <1> QED  BY <1>1, <1>6 DEF From

\* A commit that passed locally and failed in CI is a miss: no later run of it, imported late or
\* passing, makes CI's failure pass, as long as the window has not moved (runSamplingKpi,
\* buildSamplingKpiFallback).
THEOREM MissesDoStay == Spec => MissesStay
  <1> DEFINE was == Matrix(Signals(history, WindowDays, today))
             is  == Matrix(Signals(history', WindowDays, today))
             Step == today' = today =>
                       Matrix(Signals(history, WindowDays, today)).falseNegative \subseteq
                         LET m == Matrix(Signals(history', WindowDays, today)) IN m.falseNegative \cup m.truePositive
  <1>1. ASSUME StoreInv, [Next]_vars PROVE [Step]_vars
    <2> SUFFICES ASSUME Next, today' = today, NEW c \in was.falseNegative
                 PROVE  c \in is.falseNegative \cup is.truePositive
      BY <1>1
    <2>1. /\ IsHistory(history) /\ IsHistory(history')
          /\ \A x, source : From(history, x, source) \subseteq From(history', x, source)
      BY <1>1, RowsStay
    <2>2. "ci" \in Sources /\ "local" \in Sources
      BY DEF Sources
    <2> DEFINE old == Signals(history, WindowDays, today)
               new == Signals(history', WindowDays, today)
    <2>3. c \in PassedIn(old, "local") /\ c \in FailedIn(old, "ci")
      BY DEF Matrix
    <2>4. /\ c \in Commits /\ From(history, c, "local") # {}
          /\ \E r \in From(history, c, "ci") : Failure(r)
      BY <2>1, <2>2, <2>3, SignalsAre
    <2>5. c \in FailedIn(new, "ci")
      <3>1. \E r \in From(history', c, "ci") : Failure(r)
        BY <2>1, <2>4
      <3> QED  BY <2>1, <2>2, <2>4, <3>1, SignalsAre
    <2>6. c \in PassedIn(new, "local") \cup FailedIn(new, "local")
      <3>1. From(history', c, "local") # {}
        BY <2>1, <2>4
      <3> QED  BY <2>1, <2>2, <2>4, <3>1, SignalsAre
    <2> QED  BY <2>5, <2>6 DEF Matrix
  <1> HIDE DEF Step
  <1>2. [][Step]_vars => MissesStay
    BY DEF Step, MissesStay
  <1>3. Spec => [][Step]_vars
    BY <1>1, StoreInvHolds, PTL DEF Spec
  <1> QED  BY <1>2, <1>3, PTL

-----------------------------------------------------------------------------
(* What was held out.                                                      *)

LEMMA RateAtMost ==
  ASSUME NEW num \in Nat, NEW den \in Nat, num <= den
  PROVE  Rate(num, den) \in Int /\ Rate(num, den) <= 1000 /\ (den # 0 => Rate(num, den) >= 0)
  <1>1. CASE den = 0
    BY <1>1 DEF Rate, Null
  <1>2. CASE den # 0
    <2> DEFINE x == 2 * (1000 * num) + den
               y == 2 * den
    <2>1. x \in Nat /\ y \in Nat /\ y > 0 /\ x <= 2000 * den + den
      BY <1>2
    <2>2. x < 1001 * y
      BY <1>2, <2>1
    <2>3. Rate(num, den) = x \div y
      BY <1>2 DEF Rate, Rounded
    <2> HIDE DEF x, y
    <2>4. x \div y \in Int /\ x \div y <= 1000 /\ x \div y >= 0
      BY <2>1, <2>2
    <2> QED  BY <2>3, <2>4
  <1> QED  BY <1>1, <1>2

LEMMA HeldOutFacts ==
  ASSUME NEW h, IsHistory(h), NEW c, NEW t \in HeldOutFailures(h, c, WindowDays, today)
  PROVE  t \in HeldOut(h, c, WindowDays, today) /\ \E r \in From(h, c, "ci") : Failure(r)
  BY DEF HeldOutFailures, From, Failure

\* A held-out failure is evidence from CI: its commit failed in CI by the other query, too, and is
\* no commit on which a local failure was a false alarm, or a local pass was right (runHoldoutKpi,
\* runSamplingKpi).
THEOREM HoldoutsEvident == Spec => []HoldoutsAreEvidence
  <1>1. ASSUME StoreInv PROVE HoldoutsAreEvidence
    <2> DEFINE signals == Signals(history, WindowDays, today)
               m == Matrix(signals)
               h == HoldoutReport(history, WindowDays, today)
               failing(c) == HeldOutFailures(history, c, WindowDays, today)
               out(c) == HeldOut(history, c, WindowDays, today)
               held == {x \in Commits \X Tests : x[2] \in out(x[1])}
               failed == {x \in held : x[2] \in failing(x[1])}
    <2>1. IsHistory(history) /\ "ci" \in Sources
      BY <1>1 DEF StoreInv, Sources
    <2>2. ASSUME NEW c \in Commits, failing(c) # {}
          PROVE  c \in FailedIn(signals, "ci") /\ c \notin PassedIn(signals, "ci")
      <3>1. \E r \in From(history, c, "ci") : Failure(r)
        BY <2>1, <2>2, HeldOutFacts
      <3> QED  BY <2>1, <3>1, SignalsAre
    <2>3. ASSUME NEW c \in Commits, failing(c) # {} PROVE c \notin m.falsePositive \cup m.trueNegative
      BY <2>2, <2>3 DEF Matrix
    <2>4. IsFiniteSet(held) /\ failed \in SUBSET held
      <3>1. IsFiniteSet(Commits \X Tests)
        BY TestFactsAssumption, FS_Product
      <3>2. held \in SUBSET (Commits \X Tests) /\ failed \in SUBSET held
        OBVIOUS
      <3> HIDE DEF held, failed
      <3> QED  BY <3>1, <3>2, FS_Subset
    <2>5. h.failures = Cardinality(failed) /\ h.fnRate = Rate(Cardinality(failed), Cardinality(held))
      BY DEF HoldoutReport
    <2>6. /\ Cardinality(failed) \in Nat /\ Cardinality(held) \in Nat /\ Cardinality(failed) <= Cardinality(held)
          /\ Cardinality(failed) > 0 => failed # {}
      <3> HIDE DEF failed, held
      <3>1. IsFiniteSet(failed) /\ Cardinality(failed) <= Cardinality(held)
        BY <2>4, FS_Subset
      <3> QED  BY <2>4, <3>1, FS_CardinalityType, FS_EmptySet
    <2>7. h.fnRate <= 1000
      BY <2>5, <2>6, RateAtMost
    <2>8. ASSUME h.failures > 0 PROVE FailedIn(signals, "ci") # {}
      <3>1. failed # {}
        BY <2>5, <2>6, <2>8
      <3>2. PICK x \in Commits \X Tests : x[2] \in failing(x[1])
        BY <3>1
      <3>3. x[1] \in Commits
        OBVIOUS
      <3> QED  BY <2>2, <3>2, <3>3
    <2> HIDE DEF failed, held, failing, out, m, signals, h
    <2>9. /\ \A c \in Commits : failing(c) # {} => c \notin m.falsePositive \cup m.trueNegative
          /\ h.fnRate <= 1000
          /\ h.failures > 0 => FailedIn(signals, "ci") # {}
      BY <2>3, <2>7, <2>8
    <2> QED  BY <2>9 DEF HoldoutsAreEvidence, failing, m, signals, h
  <1> QED  BY <1>1, StoreInvHolds, PTL

-----------------------------------------------------------------------------
(* Clusters.                                                               *)

\* Whatever meets a linked set of tests belongs to it.
Linked(pairs, S) == Neighbours(pairs, S) \subseteq S

NextFound(pairs, S) == S \cup Neighbours(pairs, S)

IsSearch(pairs, test, f, last) ==
  f = [n \in 0 .. last |-> IF n = 0 THEN {test} ELSE NextFound(pairs, f[n - 1])]

LEMMA SearchExists ==
  ASSUME NEW pairs, NEW test, NEW last \in Nat
  PROVE  \E f : IsSearch(pairs, test, f, last)
  <1> DEFINE S == {k \in Nat : \E f : IsSearch(pairs, test, f, k)}
  <1>1. 0 \in S
    <2> DEFINE f0 == [n \in 0 .. 0 |-> {test}]
    <2>1. \A n \in 0 .. 0 : n = 0
      OBVIOUS
    <2>2. IsSearch(pairs, test, f0, 0)
      BY <2>1 DEF IsSearch
    <2> QED  BY <2>2
  <1>2. ASSUME NEW k \in Nat, k \in S PROVE k + 1 \in S
    <2>1. PICK f : IsSearch(pairs, test, f, k)
      BY <1>2
    <2>2. \A n \in 0 .. k : f[n] = IF n = 0 THEN {test} ELSE NextFound(pairs, f[n - 1])
      BY <2>1 DEF IsSearch
    <2> DEFINE g == [n \in 0 .. k + 1 |-> IF n = k + 1 THEN NextFound(pairs, f[k]) ELSE f[n]]
    <2>3. ASSUME NEW n \in 0 .. k + 1
          PROVE  g[n] = IF n = 0 THEN {test} ELSE NextFound(pairs, g[n - 1])
      <3>1. CASE n = 0
        BY <2>2, <3>1
      <3>2. CASE n = k + 1
        <4>1. k \in 0 .. k + 1 /\ k # k + 1 /\ n - 1 = k /\ n # 0
          BY <3>2
        <4>2. g[k] = f[k]
          BY <4>1
        <4> QED  BY <3>2, <4>1, <4>2
      <3>3. CASE n \in 1 .. k
        <4>1. g[n] = f[n] /\ g[n - 1] = f[n - 1]
          BY <3>3
        <4> QED  BY <2>2, <3>3, <4>1
      <3> QED  BY <3>1, <3>2, <3>3
    <2>4. IsSearch(pairs, test, g, k + 1)
      <3> HIDE DEF g
      <3>1. g = [n \in 0 .. k + 1 |-> g[n]]
        BY DEF g
      <3> QED  BY <2>3, <3>1 DEF IsSearch
    <2> HIDE DEF g
    <2> QED  BY <2>4
  <1>3. Nat \subseteq S
    <2> HIDE DEF S
    <2> QED  BY <1>1, <1>2, Induction
  <1> QED  BY <1>3

\* The search from a test finds the least linked set of tests that has it: as many rounds as there
\* are tests are enough.
LEMMA SearchFinds ==
  ASSUME NEW pairs \in SUBSET SUBSET Tests, NEW test \in Tests
  PROVE  /\ test \in Visited(pairs, test) /\ Visited(pairs, test) \subseteq Tests
         /\ Linked(pairs, Visited(pairs, test))
         /\ \A D : test \in D /\ Linked(pairs, D) => Visited(pairs, test) \subseteq D
  <1> DEFINE last == Cardinality(Tests)
             c == CHOOSE f : IsSearch(pairs, test, f, last)
  <1>1. IsFiniteSet(Tests) /\ last \in Nat
    BY TestFactsAssumption, FS_CardinalityType
  <1>2. IsSearch(pairs, test, c, last)
    <2> HIDE DEF last
    <2>1. \E f : IsSearch(pairs, test, f, last)
      BY <1>1, SearchExists
    <2> QED  BY <2>1
  <1>3. Visited(pairs, test) = c[last]
    BY DEF Visited, IsSearch, NextFound
  <1>4. \A n \in 0 .. last : c[n] = IF n = 0 THEN {test} ELSE NextFound(pairs, c[n - 1])
    <2> HIDE DEF c, last
    <2> QED  BY <1>2 DEF IsSearch
  <1>5. ASSUME NEW s \in SUBSET Tests
        PROVE  IsFiniteSet(s) /\ Cardinality(s) \in Nat /\ Cardinality(s) <= last
    BY <1>1, FS_Subset, FS_CardinalityType
  <1> HIDE DEF c, last
  <1>6. ASSUME NEW s \in SUBSET Tests PROVE Neighbours(pairs, s) \subseteq Tests
    BY DEF Neighbours
  <1> DEFINE Least(s) == \A D : test \in D /\ Linked(pairs, D) => s \subseteq D
             Reach(s, n) ==
               /\ test \in s /\ s \subseteq Tests /\ Least(s)
               /\ Linked(pairs, s) \/ Cardinality(s) >= n + 1
             S == {n \in Nat : n <= last => Reach(c[n], n)}
  <1>7. 0 \in S
    <2>1. c[0] = {test}
      BY <1>1, <1>4
    <2>2. Cardinality({test}) >= 0 + 1
      <3>1. Cardinality({test}) = 1
        BY FS_Singleton
      <3> QED  BY <3>1
    <2>3. Least({test})
      OBVIOUS
    <2> QED  BY <2>1, <2>2, <2>3
  <1>8. ASSUME NEW n \in Nat, n \in S PROVE n + 1 \in S
    <2> SUFFICES ASSUME n + 1 <= last PROVE Reach(c[n + 1], n + 1)
      OBVIOUS
    <2> DEFINE s == c[n]
               t == c[n + 1]
    <2>1. Reach(s, n)
      BY <1>1, <1>8
    <2>2. t = s \cup Neighbours(pairs, s)
      <3>1. n + 1 \in 0 .. last /\ (n + 1) - 1 = n /\ n + 1 # 0
        BY <1>1
      <3>2. t = NextFound(pairs, s)
        BY <1>4, <3>1
      <3> HIDE DEF s, t
      <3> QED  BY <3>2 DEF NextFound
    <2> HIDE DEF s, t
    <2>3. test \in t /\ t \subseteq Tests
      BY <1>6, <2>1, <2>2
    <2>4. Least(t)
      <3>1. ASSUME NEW D, test \in D, Linked(pairs, D) PROVE t \subseteq D
        <4>1. s \subseteq D
          BY <2>1, <3>1
        <4>2. Neighbours(pairs, s) \subseteq Neighbours(pairs, D)
          BY <4>1 DEF Neighbours
        <4> QED  BY <2>2, <3>1, <4>1, <4>2 DEF Linked
      <3> QED  BY <3>1
    <2>5. Linked(pairs, t) \/ Cardinality(t) >= (n + 1) + 1
      <3>1. CASE Linked(pairs, s)
        <4>1. t = s
          BY <2>2, <3>1 DEF Linked
        <4> QED  BY <3>1, <4>1
      <3>2. CASE ~Linked(pairs, s)
        <4>1. s \subseteq t /\ s # t /\ IsFiniteSet(t)
          BY <1>5, <2>2, <2>3, <3>2 DEF Linked
        <4>2. Cardinality(s) >= n + 1 /\ Cardinality(s) \in Nat /\ Cardinality(t) \in Nat
          BY <1>5, <2>1, <2>3, <3>2
        <4>3. Cardinality(s) < Cardinality(t)
          <5>1. Cardinality(s) <= Cardinality(t) /\ (Cardinality(t) = Cardinality(s) => t = s)
            BY <4>1, FS_Subset
          <5> QED  BY <4>1, <4>2, <5>1
        <4> QED  BY <4>2, <4>3
      <3> QED  BY <3>1, <3>2
    <2> HIDE DEF Least
    <2> QED  BY <2>3, <2>4, <2>5 DEF t
  <1>9. Nat \subseteq S
    <2> HIDE DEF S
    <2> QED  BY <1>7, <1>8, Induction
  <1> DEFINE all == c[last]
  <1>10. Reach(all, last)
    BY <1>1, <1>9
  <1> HIDE DEF all
  <1>11. Linked(pairs, all)
    <2>1. Cardinality(all) \in Nat /\ Cardinality(all) <= last
      BY <1>5, <1>10
    <2> QED  BY <1>1, <1>10, <2>1
  <1>12. Visited(pairs, test) = all
    BY <1>3 DEF all
  <1> QED  BY <1>10, <1>11, <1>12

\* Two clusters that share a test are one: what a linked set leaves is linked, too.
LEMMA ClustersMeet ==
  ASSUME NEW pairs \in SUBSET SUBSET Tests, NEW t \in Tests, NEW x \in Visited(pairs, t)
  PROVE  x \in Tests /\ Visited(pairs, x) = Visited(pairs, t)
  <1>1. /\ x \in Tests /\ Linked(pairs, Visited(pairs, t)) /\ t \in Visited(pairs, t)
        /\ \A D : t \in D /\ Linked(pairs, D) => Visited(pairs, t) \subseteq D
    BY SearchFinds
  <1>2. /\ Linked(pairs, Visited(pairs, x)) /\ x \in Visited(pairs, x)
        /\ \A D : x \in D /\ Linked(pairs, D) => Visited(pairs, x) \subseteq D
    BY <1>1, SearchFinds
  <1>3. t \in Visited(pairs, x)
    <2> SUFFICES ASSUME t \notin Visited(pairs, x) PROVE FALSE
      OBVIOUS
    <2> DEFINE rest == Tests \ Visited(pairs, x)
    <2>1. Linked(pairs, rest)
      <3>1. ASSUME NEW p \in pairs, p \cap rest # {} PROVE p \subseteq rest
        <4>1. p \subseteq Tests
          OBVIOUS
        <4>2. p \cap Visited(pairs, x) = {}
          BY <1>2, <3>1 DEF Linked, Neighbours
        <4> QED  BY <4>1, <4>2
      <3> HIDE DEF rest
      <3> QED  BY <3>1 DEF Linked, Neighbours
    <2>2. t \in rest
      OBVIOUS
    <2>3. x \notin rest
      BY <1>2
    <2> HIDE DEF rest
    <2> QED  BY <1>1, <2>1, <2>2, <2>3
  <1> QED  BY <1>1, <1>2, <1>3

\* Tests that fail together, directly or through others, are in one cluster; a test is in no more
\* than one; and no cluster is two that have nothing to do with each other (buildFailureClusters).
THEOREM ClustersWhole == Spec => []ClustersAreWhole
  <1>1. ASSUME StoreInv PROVE ClustersAreWhole
    <2> DEFINE pairs    == TestCoFailures(history, WindowDays, today, 2, 80)
               clusters == Clusters(pairs)
    <2>1. pairs \in SUBSET SUBSET Tests /\ \A p \in pairs : p # {}
      <3>1. \A p \in pairs : p \in SUBSET Tests /\ Cardinality(p) = 2
        BY DEF TestCoFailures
      <3>2. {} \notin pairs
        BY <3>1, FS_EmptySet
      <3> HIDE DEF pairs
      <3> QED  BY <3>1, <3>2
    <2>2. clusters = {Visited(pairs, t) : t \in UNION pairs}
      BY DEF Clusters
    <2> HIDE DEF pairs, clusters
    <2>3. UNION pairs \subseteq Tests
      BY <2>1
    <2>4. ASSUME NEW p \in pairs PROVE \E c \in clusters : p \subseteq c
      <3>1. PICK t : t \in p
        BY <2>1
      <3>2. t \in UNION pairs /\ t \in Tests
        BY <2>3, <3>1
      <3>3. t \in Visited(pairs, t) /\ Linked(pairs, Visited(pairs, t))
        BY <2>1, <3>2, SearchFinds
      <3>4. p \subseteq Visited(pairs, t)
        BY <3>1, <3>3 DEF Linked, Neighbours
      <3> QED  BY <2>2, <3>2, <3>4
    <2>5. ASSUME NEW c \in clusters, NEW x \in c PROVE x \in Tests /\ c = Visited(pairs, x)
      <3>1. PICK t \in UNION pairs : c = Visited(pairs, t)
        BY <2>2
      <3> QED  BY <2>1, <2>3, <3>1, ClustersMeet
    <2>6. ASSUME NEW c \in clusters, NEW d \in clusters, c \cap d # {} PROVE c = d
      <3>1. PICK x : x \in c /\ x \in d
        BY <2>6
      <3> QED  BY <2>5, <3>1
    <2>7. ASSUME NEW c \in clusters, NEW part \in (SUBSET c) \ {{}, c}
          PROVE  \E p \in pairs : p \cap part # {} /\ ~(p \subseteq part)
      <3> SUFFICES ASSUME \A p \in pairs : p \cap part # {} => p \subseteq part PROVE FALSE
        OBVIOUS
      <3>1. PICK x : x \in part
        BY <2>7
      <3>2. x \in Tests /\ c = Visited(pairs, x)
        BY <2>5, <2>7, <3>1
      <3>3. Linked(pairs, part)
        BY DEF Linked, Neighbours
      <3>4. c \subseteq part
        BY <2>1, <3>1, <3>2, <3>3, SearchFinds
      <3> QED  BY <2>7, <3>4
    <2> QED  BY <2>4, <2>6, <2>7 DEF ClustersAreWhole, pairs, clusters
  <1> QED  BY <1>1, StoreInvHolds, PTL

-----------------------------------------------------------------------------
(* Windows side by side.                                                   *)

LEMMA CountOfTwo ==
  ASSUME NEW A, NEW B, IsFiniteSet(A), IsFiniteSet(B), A \cap B = {}
  PROVE  IsFiniteSet(A \cup B) /\ Cardinality(A \cup B) = Cardinality(A) + Cardinality(B)
  <1>1. /\ IsFiniteSet(A \cup B)
        /\ Cardinality(A \cup B) = Cardinality(A) + Cardinality(B) - Cardinality(A \cap B)
    BY FS_Union
  <1>2. Cardinality(A \cap B) = 0 /\ Cardinality(A) \in Nat /\ Cardinality(B) \in Nat
    BY FS_EmptySet, FS_CardinalityType
  <1> QED  BY <1>1, <1>2

LEMMA WindowsDoTile ==
  ASSUME StoreInv
  PROVE  WindowsTile
  <1> DEFINE h      == history
             w      == WindowDays
             runs(d, u) == RunsIn(h, d, u)
             rows(d, u) == Recent(h, d, u)
             act(d, u)  == Activity(h, d, u)
  <1>1. /\ IsHistory(h) /\ today \in Int /\ w \in Nat
        /\ Len(h) \in Nat /\ DOMAIN h = 1 .. Len(h) /\ IsFiniteSet(DOMAIN h)
    <2>1. IsHistory(h) /\ today \in Int /\ w \in Nat
      BY StoreAnalysisAssumption DEF StoreInv, TypeOK
    <2>2. Len(h) \in Nat /\ DOMAIN h = 1 .. Len(h)
      BY <2>1, HistoryFacts
    <2> QED  BY <2>1, <2>2, FS_Interval
  <1>2. \A day \in Nat :
          /\ InWindow(day, 2 * w, today) <=> InWindow(day, w, today) \/ InWindow(day, w, today - w)
          /\ ~(InWindow(day, w, today) /\ InWindow(day, w, today - w))
    BY <1>1 DEF InWindow
  <1>3. /\ runs(2 * w, today) = runs(w, today) \cup runs(w, today - w)
        /\ runs(w, today) \cap runs(w, today - w) = {}
        /\ \A u : runs(w, u) \subseteq DOMAIN h
    <2>1. \A i \in DOMAIN h : h[i].day \in Nat
      BY <1>1, HistoryFacts
    <2> HIDE DEF h, w
    <2> QED  BY <1>2, <2>1 DEF RunsIn
  <1>4. /\ rows(2 * w, today) = rows(w, today) \cup rows(w, today - w)
        /\ rows(w, today) \cap rows(w, today - w) = {}
        /\ \A u : IsFiniteSet(rows(w, u))
    <2>1. /\ \A d, u : rows(d, u) = {r \in Rows(h) : InWindow(r.day, d, u)}
          /\ \A u : IsFiniteSet(rows(w, u))
      BY <1>1, RecentRows
    <2>2. \A r \in Rows(h) : r.day \in Nat
      BY <1>1, RowsFacts
    <2> HIDE DEF h, w, rows
    <2> QED  BY <1>2, <2>1, <2>2
  <1> HIDE DEF h, w, runs, rows
  <1>5. ASSUME NEW u PROVE
          /\ act(w, u).runs = Cardinality(runs(w, u)) /\ act(w, u).results = Cardinality(rows(w, u))
          /\ act(w, u).ci = Cardinality({i \in runs(w, u) : h[i].source = "ci"})
          /\ act(w, u).local = Cardinality({i \in runs(w, u) : h[i].source = "local"})
          /\ act(w, u).passed = Cardinality({r \in rows(w, u) : r.outcome = "passed"})
          /\ act(w, u).failed = Cardinality({r \in rows(w, u) : Failure(r)})
    BY DEF Activity, Count, runs, rows
  <1>6. /\ act(2 * w, today).runs = Cardinality(runs(2 * w, today))
        /\ act(2 * w, today).results = Cardinality(rows(2 * w, today))
        /\ act(2 * w, today).ci = Cardinality({i \in runs(2 * w, today) : h[i].source = "ci"})
        /\ act(2 * w, today).local = Cardinality({i \in runs(2 * w, today) : h[i].source = "local"})
        /\ act(2 * w, today).passed = Cardinality({r \in rows(2 * w, today) : r.outcome = "passed"})
        /\ act(2 * w, today).failed = Cardinality({r \in rows(2 * w, today) : Failure(r)})
    BY DEF Activity, Count, runs, rows
  <1> HIDE DEF act
  <1> DEFINE r1 == runs(w, today)
             r2 == runs(w, today - w)
             s1 == rows(w, today)
             s2 == rows(w, today - w)
  <1>7. IsFiniteSet(r1) /\ IsFiniteSet(r2) /\ IsFiniteSet(s1) /\ IsFiniteSet(s2) /\ r1 \cap r2 = {} /\ s1 \cap s2 = {}
    <2>1. r1 \in SUBSET DOMAIN h /\ r2 \in SUBSET DOMAIN h
      BY <1>3
    <2> QED  BY <1>1, <1>3, <1>4, <2>1, FS_Subset
  <1>8. runs(2 * w, today) = r1 \cup r2 /\ rows(2 * w, today) = s1 \cup s2
    BY <1>3, <1>4
  <1>9. /\ act(w, today).runs = Cardinality(r1) /\ act(w, today - w).runs = Cardinality(r2)
        /\ act(w, today).results = Cardinality(s1) /\ act(w, today - w).results = Cardinality(s2)
    BY <1>5
  <1>10. /\ act(w, today).ci = Cardinality({i \in r1 : h[i].source = "ci"})
         /\ act(w, today - w).ci = Cardinality({i \in r2 : h[i].source = "ci"})
         /\ act(w, today).local = Cardinality({i \in r1 : h[i].source = "local"})
         /\ act(w, today - w).local = Cardinality({i \in r2 : h[i].source = "local"})
    BY <1>5
  <1>11. /\ act(w, today).passed = Cardinality({r \in s1 : r.outcome = "passed"})
         /\ act(w, today - w).passed = Cardinality({r \in s2 : r.outcome = "passed"})
         /\ act(w, today).failed = Cardinality({r \in s1 : Failure(r)})
         /\ act(w, today - w).failed = Cardinality({r \in s2 : Failure(r)})
    BY <1>5
  <1> HIDE DEF r1, r2, s1, s2
  <1>12. ASSUME NEW A, NEW B, NEW C, NEW a1, NEW b1, NEW c1, IsFiniteSet(A), IsFiniteSet(B), A \cap B = {},
                a1 \in SUBSET A, b1 \in SUBSET B, c1 = a1 \cup b1
         PROVE  Cardinality(c1) = Cardinality(a1) + Cardinality(b1)
    <2>1. IsFiniteSet(a1) /\ IsFiniteSet(b1) /\ a1 \cap b1 = {}
      BY <1>12, FS_Subset
    <2> QED  BY <1>12, <2>1, CountOfTwo
  <1>13. act(2 * w, today).runs = act(w, today).runs + act(w, today - w).runs
    BY <1>6, <1>7, <1>8, <1>9, CountOfTwo
  <1>14. act(2 * w, today).results = act(w, today).results + act(w, today - w).results
    BY <1>6, <1>7, <1>8, <1>9, CountOfTwo
  <1>15. act(2 * w, today).ci = act(w, today).ci + act(w, today - w).ci
    <2> DEFINE in(S) == {i \in S : h[i].source = "ci"}
    <2>1. in(r1) \in SUBSET r1 /\ in(r2) \in SUBSET r2 /\ in(r1 \cup r2) = in(r1) \cup in(r2)
      OBVIOUS
    <2>2. /\ act(2 * w, today).ci = Cardinality(in(r1 \cup r2))
          /\ act(w, today).ci = Cardinality(in(r1)) /\ act(w, today - w).ci = Cardinality(in(r2))
      BY <1>6, <1>8, <1>10
    <2> HIDE DEF in
    <2> QED  BY <1>7, <1>12, <2>1, <2>2
  <1>16. act(2 * w, today).local = act(w, today).local + act(w, today - w).local
    <2> DEFINE in(S) == {i \in S : h[i].source = "local"}
    <2>1. in(r1) \in SUBSET r1 /\ in(r2) \in SUBSET r2 /\ in(r1 \cup r2) = in(r1) \cup in(r2)
      OBVIOUS
    <2>2. /\ act(2 * w, today).local = Cardinality(in(r1 \cup r2))
          /\ act(w, today).local = Cardinality(in(r1)) /\ act(w, today - w).local = Cardinality(in(r2))
      BY <1>6, <1>8, <1>10
    <2> HIDE DEF in
    <2> QED  BY <1>7, <1>12, <2>1, <2>2
  <1>17. act(2 * w, today).passed = act(w, today).passed + act(w, today - w).passed
    <2> DEFINE in(S) == {r \in S : r.outcome = "passed"}
    <2>1. in(s1) \in SUBSET s1 /\ in(s2) \in SUBSET s2 /\ in(s1 \cup s2) = in(s1) \cup in(s2)
      OBVIOUS
    <2>2. /\ act(2 * w, today).passed = Cardinality(in(s1 \cup s2))
          /\ act(w, today).passed = Cardinality(in(s1)) /\ act(w, today - w).passed = Cardinality(in(s2))
      BY <1>6, <1>8, <1>11
    <2> HIDE DEF in
    <2> QED  BY <1>7, <1>12, <2>1, <2>2
  <1>18. act(2 * w, today).failed = act(w, today).failed + act(w, today - w).failed
    <2> DEFINE in(S) == {r \in S : Failure(r)}
    <2>1. in(s1) \in SUBSET s1 /\ in(s2) \in SUBSET s2 /\ in(s1 \cup s2) = in(s1) \cup in(s2)
      OBVIOUS
    <2>2. /\ act(2 * w, today).failed = Cardinality(in(s1 \cup s2))
          /\ act(w, today).failed = Cardinality(in(s1)) /\ act(w, today - w).failed = Cardinality(in(s2))
      BY <1>6, <1>8, <1>11
    <2> HIDE DEF in
    <2> QED  BY <1>7, <1>12, <2>1, <2>2
  <1>19. \A f \in {"runs", "ci", "local", "results", "passed", "failed"} :
           act(2 * w, today)[f] = act(w, today)[f] + act(w, today - w)[f]
    BY <1>13, <1>14, <1>15, <1>16, <1>17, <1>18
  <1> QED  BY <1>19 DEF WindowsTile, act, h, w

-----------------------------------------------------------------------------
(* The confusion matrix.                                                   *)

\* Every commit that both sources ran is in one field of the matrix.
LEMMA MatrixCounts ==
  ASSUME StoreInv
  PROVE  LET s == SamplingReport(history, WindowDays, today) IN
         /\ s.tp + s.fp + s.fn + s.tn = s.matched
         /\ s.matched + s.localOnly + s.ciOnly <= HistoryCommits(history, WindowDays, today)
  <1> DEFINE s     == SamplingReport(history, WindowDays, today)
             sig   == Signals(history, WindowDays, today)
             fl    == FailedIn(sig, "local")
             pl    == PassedIn(sig, "local")
             fc    == FailedIn(sig, "ci")
             pc    == PassedIn(sig, "ci")
             local == CommitsOf(SignalOf(sig, "local"))
             ci    == CommitsOf(SignalOf(sig, "ci"))
             seen  == CommitsOf(Recent(history, WindowDays, today))
  <1>1. IsHistory(history) /\ "local" \in Sources /\ "ci" \in Sources
    BY DEF StoreInv, Sources
  <1>2. /\ fl \cup pl = local /\ fl \cap pl = {} /\ fc \cup pc = ci /\ fc \cap pc = {}
        /\ local \subseteq seen /\ ci \subseteq seen /\ local \subseteq Commits /\ ci \subseteq Commits
    <2>1. /\ \A c : c \in fl <=> c \in Commits /\ \E r \in From(history, c, "local") : Failure(r)
          /\ \A c : c \in pl <=> c \in Commits /\ From(history, c, "local") # {}
                                 /\ \A r \in From(history, c, "local") : ~Failure(r)
          /\ \A c : c \in local <=> c \in Commits /\ From(history, c, "local") # {}
      BY <1>1, SignalsAre
    <2>2. /\ \A c : c \in fc <=> c \in Commits /\ \E r \in From(history, c, "ci") : Failure(r)
          /\ \A c : c \in pc <=> c \in Commits /\ From(history, c, "ci") # {}
                                 /\ \A r \in From(history, c, "ci") : ~Failure(r)
          /\ \A c : c \in ci <=> c \in Commits /\ From(history, c, "ci") # {}
      BY <1>1, SignalsAre
    <2>3. \A c, source : From(history, c, source) # {} => c \in seen
      BY DEF From, CommitsOf
    <2> HIDE DEF fl, pl, fc, pc, local, ci, seen
    <2> QED  BY <2>1, <2>2, <2>3
  <1>3. /\ s.matched = Cardinality(local \cap ci)
        /\ s.localOnly = Cardinality(local \ ci) /\ s.ciOnly = Cardinality(ci \ local)
        /\ s.tp = Cardinality(fl \cap fc) /\ s.fp = Cardinality(fl \cap pc)
        /\ s.fn = Cardinality(pl \cap fc) /\ s.tn = Cardinality(pl \cap pc)
    BY DEF SamplingReport, ConfusionReport, Matrix
  <1>4. HistoryCommits(history, WindowDays, today) = Cardinality(seen) /\ IsFiniteSet(seen)
    <2>1. seen \in SUBSET Commits
      <3>1. \A r \in Recent(history, WindowDays, today) : r.commit \in Commits
        BY <1>1, RecentRows, RowsFacts
      <3> QED  BY <3>1 DEF CommitsOf
    <2> HIDE DEF seen
    <2>2. IsFiniteSet(seen)
      BY <2>1, TestFactsAssumption, FS_Subset
    <2> QED  BY <2>2 DEF HistoryCommits, Count, seen
  <1> HIDE DEF s, fl, pl, fc, pc, local, ci, seen
  <1>5. IsFiniteSet(local) /\ IsFiniteSet(ci)
    BY <1>2, TestFactsAssumption, FS_Subset
  <1>6. ASSUME NEW A \in SUBSET local PROVE IsFiniteSet(A) /\ Cardinality(A) \in Nat
    BY <1>5, FS_Subset, FS_CardinalityType
  <1>7. IsFiniteSet(ci \ local) /\ Cardinality(ci \ local) \in Nat
    BY <1>5, FS_Subset, FS_CardinalityType
  <1>8. Cardinality(local \cap ci) = s.tp + s.fp + s.fn + s.tn
    <2> DEFINE tp == fl \cap fc
               fp == fl \cap pc
               fn == pl \cap fc
               tn == pl \cap pc
    <2>1. /\ tp \in SUBSET local /\ fp \in SUBSET local /\ fn \in SUBSET local /\ tn \in SUBSET local
          /\ tp \cap fp = {} /\ (tp \cup fp) \cap fn = {} /\ ((tp \cup fp) \cup fn) \cap tn = {}
          /\ ((tp \cup fp) \cup fn) \cup tn = local \cap ci
      BY <1>2
    <2>2. s.tp = Cardinality(tp) /\ s.fp = Cardinality(fp) /\ s.fn = Cardinality(fn) /\ s.tn = Cardinality(tn)
      BY <1>3
    <2> HIDE DEF tp, fp, fn, tn
    <2>3. Cardinality(tp \cup fp) = Cardinality(tp) + Cardinality(fp) /\ IsFiniteSet(tp \cup fp)
      BY <1>6, <2>1, CountOfTwo
    <2>4. /\ Cardinality((tp \cup fp) \cup fn) = Cardinality(tp \cup fp) + Cardinality(fn)
          /\ IsFiniteSet((tp \cup fp) \cup fn)
      BY <1>6, <2>1, <2>3, CountOfTwo
    <2>5. Cardinality(((tp \cup fp) \cup fn) \cup tn) = Cardinality((tp \cup fp) \cup fn) + Cardinality(tn)
      BY <1>6, <2>1, <2>4, CountOfTwo
    <2>6. Cardinality(tp) \in Nat /\ Cardinality(fp) \in Nat /\ Cardinality(fn) \in Nat /\ Cardinality(tn) \in Nat
      BY <1>6, <2>1
    <2> QED  BY <2>1, <2>2, <2>3, <2>4, <2>5, <2>6
  <1>9. s.matched + s.localOnly + s.ciOnly <= Cardinality(seen)
    <2> DEFINE both == local \cap ci
               lo   == local \ ci
               co   == ci \ local
    <2>1. /\ both \in SUBSET local /\ lo \in SUBSET local /\ both \cap lo = {} /\ (both \cup lo) \cap co = {}
          /\ (both \cup lo) \cup co \in SUBSET seen /\ IsFiniteSet(co) /\ Cardinality(co) \in Nat
      BY <1>2, <1>7
    <2>2. s.matched = Cardinality(both) /\ s.localOnly = Cardinality(lo) /\ s.ciOnly = Cardinality(co)
      BY <1>3
    <2> HIDE DEF both, lo, co
    <2>3. Cardinality(both \cup lo) = Cardinality(both) + Cardinality(lo) /\ IsFiniteSet(both \cup lo)
      BY <1>6, <2>1, CountOfTwo
    <2>4. Cardinality((both \cup lo) \cup co) = Cardinality(both \cup lo) + Cardinality(co)
      BY <2>1, <2>3, CountOfTwo
    <2>5. Cardinality((both \cup lo) \cup co) <= Cardinality(seen)
      BY <1>4, <2>1, FS_Subset
    <2>6. Cardinality(both) \in Nat /\ Cardinality(lo) \in Nat
      BY <1>6, <2>1
    <2> QED  BY <2>1, <2>2, <2>3, <2>4, <2>5, <2>6
  <1> QED  BY <1>3, <1>4, <1>8, <1>9 DEF s

-----------------------------------------------------------------------------
(* The rows of the flaky window.                                           *)

\* The results of a test in the window, and its row.
Results(t)  == {r \in Recent(history, WindowDays, today) : r.test = t}
EvidenceOf(t) == {r \in Evidence(Recent(history, WindowDays, today)) : r.test = t}
WindowRow(t) == FlakyRow(t, Results(t), EvidenceOf(t))
Tested == TestsOf(Recent(history, WindowDays, today))

\* A test has no more results than there are runs.
LEMMA ResultsAreFew ==
  ASSUME StoreInv, NEW t
  PROVE  IsFiniteSet(Results(t)) /\ Count(Results(t)) \in Nat /\ Count(Results(t)) <= MaxRuns
  <1> DEFINE S == Results(t)
             f == [r \in S |-> r.run]
             D == DOMAIN history
  <1>1. /\ IsHistory(history) /\ Len(history) \in Nat /\ D = 1 .. Len(history) /\ Len(history) <= MaxRuns
        /\ MaxRuns \in Nat
    <2>1. IsHistory(history) /\ Len(history) <= MaxRuns /\ MaxRuns \in Nat
      BY StoreAnalysisAssumption DEF StoreInv, TypeOK
    <2> QED  BY <2>1, HistoryFacts
  <1>2. IsFiniteSet(D) /\ Cardinality(D) = Len(history)
    <2> DEFINE n == Len(history)
    <2>1. n \in Nat /\ D = 1 .. n
      BY <1>1
    <2> HIDE DEF n, D
    <2>2. IsFiniteSet(1 .. n) /\ Cardinality(1 .. n) = IF 1 > n THEN 0 ELSE n - 1 + 1
      BY <2>1, FS_Interval
    <2>3. Cardinality(1 .. n) = n
      BY <2>1, <2>2
    <2> QED  BY <2>1, <2>2, <2>3 DEF n
  <1>3. \A r \in S : r.run \in D /\ r \in RowsOf(history, r.run) /\ r.test = t
    BY <1>1, RecentRows, RowsFacts DEF Results
  <1>4. ASSUME NEW r \in S, NEW q \in S, r.run = q.run PROVE r = q
    <2> DEFINE i == r.run
               e(u) == [run |-> i, test |-> u, commit |-> history[i].commit, source |-> history[i].source,
                        day |-> history[i].day, outcome |-> history[i].results[u]]
    <2>1. r \in RowsOf(history, i) /\ q \in RowsOf(history, i) /\ r.test = t /\ q.test = t
      BY <1>3, <1>4
    <2>2. RowsOf(history, i) = {e(u) : u \in DOMAIN history[i].results}
      BY DEF RowsOf
    <2>3. \A u : e(u).test = u
      OBVIOUS
    <2> HIDE DEF e
    <2> QED  BY <2>1, <2>2, <2>3
  <1>5. f \in Injection(S, D)
    <2>1. f \in [S -> D] /\ \A r, q \in S : f[r] = f[q] => r = q
      <3> HIDE DEF S, D
      <3> QED  BY <1>3, <1>4
    <2> QED  BY <2>1 DEF Injection, IsInjective
  <1> HIDE DEF f, S, D
  <1>6. IsFiniteSet(S) /\ Cardinality(S) <= Cardinality(D)
    BY <1>2, <1>5, FS_Injection
  <1>7. Cardinality(S) \in Nat
    BY <1>6, FS_CardinalityType
  <1> QED  BY <1>1, <1>2, <1>6, <1>7 DEF Count, S

LEMMA WindowRows ==
  ASSUME StoreInv
  PROVE  /\ FlakyWindow(history, WindowDays, today) = {WindowRow(t) : t \in Tested}
         /\ \A t : WindowRow(t).test = t
         /\ IsFiniteSet(Tested)
  <1>1. FlakyWindow(history, WindowDays, today) = {WindowRow(t) : t \in Tested}
    BY DEF FlakyWindow, FlakyRows, WindowRow, Results, EvidenceOf, Tested
  <1>2. \A t : WindowRow(t).test = t
    BY DEF WindowRow, FlakyRow
  <1>3. Tested \in SUBSET Tests
    <2>1. \A r \in Recent(history, WindowDays, today) : r.test \in Tests
      BY RecentRows, RowsFacts DEF StoreInv
    <2> QED  BY <2>1 DEF Tested, TestsOf
  <1> QED  BY <1>1, <1>2, <1>3, TestFactsAssumption, FS_Subset

\* What a row says of its test.
LEMMA RowSays ==
  ASSUME StoreInv, NEW t \in Tested
  PROVE  /\ WindowRow(t).runs \in Nat /\ WindowRow(t).runs > 0 /\ WindowRow(t).runs <= MaxRuns
         /\ WindowRow(t).failures \in Nat /\ WindowRow(t).failures <= WindowRow(t).runs
         /\ WindowRow(t).failures > 0 <=> \E r \in Results(t) : Failure(r)
         /\ WindowRow(t).isFlaky \in BOOLEAN
         /\ WindowRow(t).isFlaky => WindowRow(t).failures > 0
         /\ Count(EvidenceOf(t)) \in Nat /\ Count(EvidenceOf(t)) <= WindowRow(t).runs
         /\ WindowRow(t).isFlaky =>
              Count(EvidenceOf(t)) > 0 /\ 100 * Count(EvidenceOf(t)) >= DetectionPercent * WindowRow(t).runs
         /\ WindowRow(t).rate = Rounded(10000 * Count(EvidenceOf(t)), WindowRow(t).runs)
  <1> DEFINE w == WindowRow(t)
             S == Results(t)
             E == EvidenceOf(t)
             F == {r \in S : Failure(r)}
  <1>1. /\ w.runs = Count(S) /\ w.failures = Count(F)
        /\ w.rate = Rounded(10000 * Count(E), Count(S))
        /\ w.isFlaky = (E # {} /\ 100 * Count(E) >= DetectionPercent * Count(S))
    BY DEF WindowRow, FlakyRow
  <1>2. S # {} /\ IsFiniteSet(S) /\ Count(S) <= MaxRuns
    <2>1. S # {}
      BY DEF Tested, TestsOf, Results
    <2> QED  BY <2>1, ResultsAreFew
  <1>3. E \in SUBSET S /\ F \in SUBSET S
    BY DEF EvidenceOf, Evidence, Results
  <1>4. E \in SUBSET F
    BY DEF EvidenceOf, Evidence, Results, Failure, Failed
  <1>5. \A r : r \in F <=> r \in S /\ Failure(r)
    OBVIOUS
  <1> HIDE DEF w, S, E, F
  <1>6. /\ Count(S) \in Nat /\ Count(S) > 0
        /\ IsFiniteSet(F) /\ Count(F) \in Nat /\ Count(F) <= Count(S)
        /\ IsFiniteSet(E) /\ Count(E) \in Nat /\ Count(E) <= Count(S)
    BY <1>2, <1>3, Counts
  <1>7. (Count(F) > 0 <=> F # {}) /\ (Count(E) > 0 <=> E # {})
    BY <1>6, Counts
  <1>8. w.isFlaky \in BOOLEAN
    BY <1>1
  <1>9. w.isFlaky => E # {} /\ 100 * Count(E) >= DetectionPercent * Count(S)
    BY DEF w, WindowRow, FlakyRow, S, E
  <1>10. /\ w.failures > 0 <=> \E r \in S : Failure(r)
         /\ w.isFlaky => w.failures > 0
    BY <1>1, <1>4, <1>5, <1>7, <1>9
  <1>11. w.runs > 0 /\ w.runs <= MaxRuns /\ w.failures <= w.runs
    BY <1>1, <1>2, <1>6
  <1> QED  BY <1>1, <1>6, <1>7, <1>8, <1>9, <1>10, <1>11 DEF w, S, E

\* A rate that is rounded to nothing is less than half of a basis point.
LEMMA NoRate ==
  ASSUME NEW num \in Nat, NEW den \in Nat, den > 0, Rounded(10000 * num, den) = 0
  PROVE  20000 * num < den
  <1> DEFINE x == 2 * (10000 * num) + den
             y == 2 * den
  <1>1. x \in Nat /\ y \in Nat /\ y > 0
    OBVIOUS
  <1>2. x \div y = 0
    BY DEF Rounded
  <1> HIDE DEF x, y
  <1>3. x < y
    BY <1>1, <1>2
  <1> QED  BY <1>3 DEF x, y

\* The share of flaky results from which a test is flaky is not 0, or results are few enough for a
\* rate that is not to be rounded to 0.
Telling == DetectionPercent > 0 \/ MaxRuns <= 20000

\* No test is flaky and broken.
LEMMA FlakyOrBroken ==
  ASSUME StoreInv, Telling, NEW t \in Tested, WindowRow(t).isFlaky
  PROVE  ~IsBroken(WindowRow(t))
  <1> SUFFICES ASSUME IsBroken(WindowRow(t)) PROVE FALSE
    OBVIOUS
  <1> DEFINE n == WindowRow(t).runs
             e == Count(EvidenceOf(t))
  <1>1. n \in Nat /\ n > 0 /\ n <= MaxRuns /\ e \in Nat /\ e > 0 /\ 100 * e >= DetectionPercent * n
    BY RowSays
  <1>2. Rounded(10000 * e, n) = 0
    BY RowSays DEF IsBroken
  <1>3. DetectionPercent \in 0 .. 100 /\ MaxRuns \in Nat
    BY TestFactsAssumption, StoreAnalysisAssumption
  <1> HIDE DEF n, e
  <1>4. 20000 * e < n
    BY <1>1, <1>2, NoRate
  <1>5. CASE DetectionPercent > 0
    <2>1. DetectionPercent * n >= n
      BY <1>1, <1>3, <1>5
    <2> QED  BY <1>1, <1>3, <1>4, <2>1
  <1>6. CASE MaxRuns <= 20000
    BY <1>1, <1>3, <1>4, <1>6
  <1> QED  BY <1>5, <1>6 DEF Telling

-----------------------------------------------------------------------------
(* The lists of flaky and broken tests.                                    *)

\* The tests that failed, and what queryFlakyTests makes of them.
Failing == {t \in Tested : WindowRow(t).failures > 0}
Found(t) ==
  [row     |-> WindowRow(t),
   broken  |-> WindowRow(t).failures = WindowRow(t).runs /\ WindowRow(t).rate = 0,
   retries |-> Count({r \in Recent(history, WindowDays, today) :
                        r.test = WindowRow(t).test /\ r.outcome \in {"flaky", "retried"}})]

LEMMA FoundTests ==
  ASSUME StoreInv
  PROVE  /\ FlakyTests(history, WindowDays, today) = {Found(t) : t \in Failing}
         /\ \A t : Found(t).row = WindowRow(t) /\ Found(t).row.test = t
         /\ \A t : Found(t).broken <=> IsBroken(WindowRow(t))
         /\ \A t : Found(t).broken = IsBroken(WindowRow(t))
         /\ \A t \in Tested : IsBroken(WindowRow(t)) \/ WindowRow(t).isFlaky => t \in Failing
  <1> DEFINE e(w) == [row     |-> w,
                      broken  |-> w.failures = w.runs /\ w.rate = 0,
                      retries |-> Count({r \in Recent(history, WindowDays, today) :
                                           r.test = w.test /\ r.outcome \in {"flaky", "retried"}})]
  <1>1. FlakyTests(history, WindowDays, today) =
          {e(w) : w \in {x \in FlakyWindow(history, WindowDays, today) : x.failures > 0}}
    BY DEF FlakyTests
  <1>2. \A t : Found(t) = e(WindowRow(t))
    BY DEF Found
  <1>3. FlakyTests(history, WindowDays, today) = {Found(t) : t \in Failing}
    <2> HIDE DEF e
    <2> QED  BY <1>1, <1>2, WindowRows DEF Failing
  <1>4. \A t : Found(t).row = WindowRow(t) /\ Found(t).row.test = t
    BY WindowRows DEF Found
  <1>5. \A t : Found(t).broken <=> IsBroken(WindowRow(t))
    BY DEF Found, IsBroken
  <1>6. \A t : Found(t).broken = IsBroken(WindowRow(t))
    BY DEF Found, IsBroken
  <1>7. ASSUME NEW t \in Tested, IsBroken(WindowRow(t)) \/ WindowRow(t).isFlaky PROVE t \in Failing
    <2>1. CASE IsBroken(WindowRow(t))
      <3>1. WindowRow(t).failures = WindowRow(t).runs /\ WindowRow(t).runs > 0
        BY <2>1, RowSays DEF IsBroken
      <3> QED  BY <3>1 DEF Failing
    <2>2. CASE WindowRow(t).isFlaky
      BY <2>2, RowSays DEF Failing
    <2> QED  BY <1>7, <2>1, <2>2
  <1> QED  BY <1>3, <1>4, <1>5, <1>6, <1>7

\* The tests with enough runs that are broken, and those that are flaky.
BrokenTests == {t \in Tested : WindowRow(t).runs >= MinRuns /\ IsBroken(WindowRow(t))}
FlakyOnes   == {t \in Tested : WindowRow(t).runs >= MinRuns /\ WindowRow(t).isFlaky}

LEMMA HealthCounts ==
  ASSUME StoreInv
  PROVE  LET health == TestHealth(FlakyWindow(history, WindowDays, today)) IN
         health.broken = Cardinality(BrokenTests) /\ health.flaky = Cardinality(FlakyOnes)
  <1> DEFINE win    == FlakyWindow(history, WindowDays, today)
             rows   == {w \in win : w.runs >= MinRuns}
             broken == {w \in rows : IsBroken(w)}
             flaky  == {w \in rows : w.isFlaky}
             f      == [t \in Tested |-> WindowRow(t)]
  <1>1. /\ TestHealth(win).broken = Count(broken) /\ TestHealth(win).flaky = Count(flaky)
    BY DEF TestHealth
  <1>2. win = {WindowRow(t) : t \in Tested} /\ \A t : WindowRow(t).test = t
    BY WindowRows
  <1> HIDE DEF win
  <1>3. broken = {WindowRow(t) : t \in BrokenTests}
    BY <1>2 DEF BrokenTests
  <1>4. flaky = {WindowRow(t) : t \in FlakyOnes}
    BY <1>2 DEF FlakyOnes
  <1> HIDE DEF broken, flaky
  <1>5. ASSUME NEW D \in SUBSET Tested PROVE Count({WindowRow(t) : t \in D}) = Cardinality(D)
    <2> DEFINE g == [t \in D |-> WindowRow(t)]
               T == {WindowRow(t) : t \in D}
    <2>1. IsFiniteSet(D)
      BY WindowRows, FS_Subset
    <2>2. g \in Surjection(D, T)
      BY DEF Surjection
    <2>3. \A x, y \in D : g[x] = g[y] => x = y
      BY <1>2
    <2> HIDE DEF g, T
    <2>4. Cardinality(T) = Cardinality(D)
      BY <2>1, <2>2, <2>3, SameCount
    <2> QED  BY <2>4 DEF Count, T
  <1>6. BrokenTests \in SUBSET Tested /\ FlakyOnes \in SUBSET Tested
    BY DEF BrokenTests, FlakyOnes
  <1> QED  BY <1>1, <1>3, <1>4, <1>5, <1>6 DEF win

LEMMA JudgedCounts ==
  ASSUME StoreInv, Telling
  PROVE  LET judged == Judged(history, WindowDays, today)
             listed == {x \in ListFlaky(history, WindowDays, today) : x.runs >= MinRuns}
         IN /\ Count(judged) = Cardinality(BrokenTests) + Cardinality(FlakyOnes)
            /\ Count({f \in judged : f.broken}) = Cardinality(BrokenTests)
            /\ Count(listed) = Count(judged)
            /\ Cardinality(BrokenTests) \in Nat /\ Cardinality(FlakyOnes) \in Nat
  <1> DEFINE found  == FlakyTests(history, WindowDays, today)
             judged == Judged(history, WindowDays, today)
             broken == {f \in judged : f.broken}
             item(f) == [test |-> f.row.test, kind |-> IF f.row.isFlaky THEN "flaky" ELSE "broken", runs |-> f.row.runs]
             listed == {x \in ListFlaky(history, WindowDays, today) : x.runs >= MinRuns}
             both   == BrokenTests \cup FlakyOnes
  <1>1. /\ found = {Found(t) : t \in Failing}
        /\ \A t : Found(t).row = WindowRow(t) /\ Found(t).row.test = t
        /\ \A t : Found(t).broken <=> IsBroken(WindowRow(t))
        /\ \A t \in Tested : IsBroken(WindowRow(t)) \/ WindowRow(t).isFlaky => t \in Failing
        /\ Failing \subseteq Tested
    BY FoundTests DEF Failing
  <1>2. /\ judged = {f \in found : f.row.runs >= MinRuns /\ (f.row.isFlaky \/ f.broken)}
        /\ listed = {x \in {item(f) : f \in {y \in found : y.row.isFlaky \/ y.broken}} : x.runs >= MinRuns}
    BY DEF Judged, ListFlaky
  <1>3. \A f : item(f).test = f.row.test /\ item(f).runs = f.row.runs
    OBVIOUS
  <1> HIDE DEF found, judged, item
  <1>4. judged = {Found(t) : t \in both}
    BY <1>1, <1>2 DEF BrokenTests, FlakyOnes
  <1>5. broken = {Found(t) : t \in BrokenTests}
    BY <1>1, <1>2 DEF BrokenTests
  <1>6. listed = {item(Found(t)) : t \in both}
    <2>1. listed = {item(f) : f \in judged}
      <3> HIDE DEF listed
      <3> QED  BY <1>2, <1>3
    <2> QED  BY <1>4, <2>1
  <1> HIDE DEF broken, listed
  <1>7. ASSUME NEW D \in SUBSET Tested
        PROVE  Count({Found(t) : t \in D}) = Cardinality(D) /\ Count({item(Found(t)) : t \in D}) = Cardinality(D)
    <2> DEFINE g == [t \in D |-> Found(t)]
               T == {Found(t) : t \in D}
               k == [t \in D |-> item(Found(t))]
               U == {item(Found(t)) : t \in D}
    <2>1. IsFiniteSet(D)
      BY WindowRows, FS_Subset
    <2>2. g \in Surjection(D, T) /\ k \in Surjection(D, U)
      BY DEF Surjection
    <2>3. \A x, y \in D : g[x] = g[y] => x = y
      BY <1>1
    <2>4. \A x, y \in D : k[x] = k[y] => x = y
      BY <1>1, <1>3
    <2> HIDE DEF g, T, k, U
    <2>5. Cardinality(T) = Cardinality(D)
      BY <2>1, <2>2, <2>3, SameCount
    <2>6. Cardinality(U) = Cardinality(D)
      BY <2>1, <2>2, <2>4, SameCount
    <2> QED  BY <2>5, <2>6 DEF Count, T, U
  <1>8. /\ BrokenTests \in SUBSET Tested /\ FlakyOnes \in SUBSET Tested /\ both \in SUBSET Tested
    BY DEF BrokenTests, FlakyOnes
  <1>9. BrokenTests \cap FlakyOnes = {}
    BY FlakyOrBroken DEF BrokenTests, FlakyOnes
  <1>10. IsFiniteSet(BrokenTests) /\ IsFiniteSet(FlakyOnes)
    BY <1>8, WindowRows, FS_Subset
  <1>11. Cardinality(both) = Cardinality(BrokenTests) + Cardinality(FlakyOnes)
    BY <1>9, <1>10, CountOfTwo
  <1>12. Cardinality(BrokenTests) \in Nat /\ Cardinality(FlakyOnes) \in Nat
    BY <1>10, FS_CardinalityType
  <1>13. Count(judged) = Cardinality(both) /\ Count(listed) = Cardinality(both)
    BY <1>4, <1>6, <1>7, <1>8
  <1>14. Count(broken) = Cardinality(BrokenTests)
    BY <1>5, <1>7, <1>8
  <1> QED  BY <1>11, <1>12, <1>13, <1>14 DEF judged, broken, listed

\* The sets of tests that the reports name.
LEMMA NamedTests ==
  ASSUME StoreInv, Telling
  PROVE  LET table    == FlakyTable(history, WindowDays, today)
             insights == Insights(history, WindowDays, today)
         IN /\ table.flaky \cup table.broken \cup table.failing = Failing
            /\ table.flaky \cap table.broken = {}
            /\ {x.test : x \in Reason(history, WindowDays, today).classifications} = Failing
            /\ TestsOf(RecentFailures(history, WindowDays, today)) = Failing
            /\ {x.test : x \in FailureEvidence(history, WindowDays, today)} = Failing
            /\ insights.both \cup insights.ciOnly \cup insights.localOnly \subseteq Failing
  <1> DEFINE found == FlakyTests(history, WindowDays, today)
             recent == Recent(history, WindowDays, today)
             late  == {r \in Rows(history) : r.day > today - WindowDays}
  <1>1. /\ found = {Found(t) : t \in Failing}
        /\ \A t : Found(t).row = WindowRow(t) /\ Found(t).row.test = t
        /\ \A t : Found(t).broken <=> IsBroken(WindowRow(t))
        /\ Failing \subseteq Tested
    BY FoundTests DEF Failing
  <1>2. late = recent
    <2>1. /\ recent = {r \in Rows(history) : InWindow(r.day, WindowDays, today)}
          /\ \A r \in Rows(history) : r.run \in DOMAIN history /\ r.day = history[r.run].day
      BY RecentRows, RowsFacts DEF StoreInv
    <2>2. \A i \in DOMAIN history : history[i].day \in 0 .. today
      BY DEF StoreInv, TypeOK
    <2>3. today \in Nat /\ WindowDays \in Nat
      BY StoreAnalysisAssumption DEF StoreInv, TypeOK
    <2>4. \A r \in Rows(history) : InWindow(r.day, WindowDays, today) <=> r.day > today - WindowDays
      BY <2>1, <2>2, <2>3 DEF InWindow
    <2> HIDE DEF recent
    <2> QED  BY <2>1, <2>4
  <1>3. ASSUME NEW t PROVE t \in Failing <=> \E r \in recent : r.test = t /\ Failure(r)
    <2>1. t \in Tested <=> \E r \in recent : r.test = t
      BY DEF Tested, TestsOf
    <2>2. t \in Tested => (WindowRow(t).failures > 0 <=> \E r \in recent : r.test = t /\ Failure(r))
      BY RowSays DEF Results
    <2> HIDE DEF recent
    <2> QED  BY <2>1, <2>2 DEF Failing
  <1> HIDE DEF found, recent, late
  <1>4. /\ FlakyTable(history, WindowDays, today).broken = {f.row.test : f \in {x \in found : x.broken}}
        /\ FlakyTable(history, WindowDays, today).flaky = {f.row.test : f \in {x \in found : x.row.isFlaky}}
        /\ FlakyTable(history, WindowDays, today).failing =
             {f.row.test : f \in {x \in found : ~x.broken /\ ~x.row.isFlaky}}
    BY DEF FlakyTable, found
  <1> DEFINE table == FlakyTable(history, WindowDays, today)
  <1>5. /\ \A t : t \in table.broken <=> t \in Failing /\ IsBroken(WindowRow(t))
        /\ \A t : t \in table.flaky <=> t \in Failing /\ WindowRow(t).isFlaky
        /\ \A t : t \in table.failing <=> t \in Failing /\ ~IsBroken(WindowRow(t)) /\ ~WindowRow(t).isFlaky
    BY <1>1, <1>4
  <1> HIDE DEF table
  <1>6. table.flaky \cup table.broken \cup table.failing = Failing
    BY <1>5
  <1>7. table.flaky \cap table.broken = {}
    BY <1>1, <1>5, FlakyOrBroken
  <1>8. {x.test : x \in Reason(history, WindowDays, today).classifications} = Failing
    <2> DEFINE class(f) == Classification(history, f)
               e(f) == [test |-> f.row.test, class |-> class(f), recommendation |-> Recommendation(class(f), f.row),
                        priority |-> Priority(class(f), Recommendation(class(f), f.row))]
    <2>1. Reason(history, WindowDays, today).classifications = {e(f) : f \in found}
      BY DEF Reason, Classified, found
    <2>2. \A f : e(f).test = f.row.test
      OBVIOUS
    <2> HIDE DEF e
    <2> QED  BY <1>1, <2>1, <2>2
  <1>9. TestsOf(RecentFailures(history, WindowDays, today)) = Failing
    <2>1. RecentFailures(history, WindowDays, today) = {r \in late : Failure(r)}
      BY DEF RecentFailures, late
    <2> QED  BY <1>2, <1>3, <2>1 DEF TestsOf
  <1>10. {x.test : x \in FailureEvidence(history, WindowDays, today)} = Failing
    <2> DEFINE hist(f) == {r \in Rows(history) : r.test = f.row.test /\ r.day > today - WindowDays}
               e(f) == [test |-> f.row.test, history |-> hist(f), sources |-> {r.source : r \in hist(f)},
                        failures |-> f.row.failures,
                        passes |-> IF f.row.runs >= f.row.failures THEN f.row.runs - f.row.failures ELSE 0]
    <2>1. FailureEvidence(history, WindowDays, today) = {e(f) : f \in found}
      BY DEF FailureEvidence, found
    <2>2. \A f : e(f).test = f.row.test
      OBVIOUS
    <2> HIDE DEF e
    <2> QED  BY <1>1, <2>1, <2>2
  <1>11. LET insights == Insights(history, WindowDays, today)
         IN insights.both \cup insights.ciOnly \cup insights.localOnly \subseteq Failing
    <2> DEFINE insights == Insights(history, WindowDays, today)
    <2>1. /\ insights.both \subseteq FailedAt(late, "ci")
          /\ insights.ciOnly \subseteq FailedAt(late, "ci")
          /\ insights.localOnly \subseteq FailedAt(late, "local")
      BY DEF Insights, late
    <2>2. \A source : FailedAt(late, source) \subseteq Failing
      BY <1>2, <1>3 DEF FailedAt, TestsOf, Failure
    <2> HIDE DEF insights
    <2>3. insights.both \cup insights.ciOnly \cup insights.localOnly \subseteq Failing
      BY <2>1, <2>2
    <2> QED  BY <2>3 DEF insights
  <1> QED  BY <1>6, <1>7, <1>8, <1>9, <1>10, <1>11 DEF table

-----------------------------------------------------------------------------
(* The mean of co-failures, and the boosts they give.                      *)

OneMore(f, S, rest) == LET x == CHOOSE y \in S : TRUE IN f[x] + rest[S \ {x}]

\* The sums of f over the subsets with no more than a number of members.
IsSum(f, sums, n) ==
  sums = [S \in {T \in SUBSET DOMAIN f : Cardinality(T) <= n} |-> IF S = {} THEN 0 ELSE OneMore(f, S, sums)]

LEMMA Chosen ==
  ASSUME NEW S, IsFiniteSet(S), S # {}
  PROVE  LET x == CHOOSE y \in S : TRUE IN
         x \in S /\ IsFiniteSet(S \ {x}) /\ Cardinality(S \ {x}) = Cardinality(S) - 1 /\ Cardinality(S) \in Nat
  <1> DEFINE x == CHOOSE y \in S : TRUE
  <1>1. x \in S
    OBVIOUS
  <1> HIDE DEF x
  <1>2. IsFiniteSet(S \ {x}) /\ Cardinality(S \ {x}) = Cardinality(S) - 1 /\ Cardinality(S) \in Nat
    BY <1>1, FS_RemoveElement, FS_CardinalityType
  <1> QED  BY <1>1, <1>2 DEF x

LEMMA SumExists ==
  ASSUME NEW f, IsFiniteSet(DOMAIN f), NEW last \in Nat
  PROVE  \E sums : IsSum(f, sums, last)
  <1> DEFINE D(n) == {T \in SUBSET DOMAIN f : Cardinality(T) <= n}
             K == {n \in Nat : \E sums : IsSum(f, sums, n)}
  <1>0. ASSUME NEW n, NEW S \in D(n)
        PROVE  S \subseteq DOMAIN f /\ IsFiniteSet(S) /\ Cardinality(S) \in Nat /\ Cardinality(S) <= n
    BY FS_Subset, FS_CardinalityType
  <1>1. 0 \in K
    <2> DEFINE s0 == [S \in D(0) |-> 0]
    <2>1. ASSUME NEW S \in D(0) PROVE S = {}
      <3>1. IsFiniteSet(S) /\ Cardinality(S) \in Nat /\ Cardinality(S) <= 0
        BY <1>0
      <3>2. Cardinality(S) = 0
        BY <3>1
      <3> QED  BY <3>1, <3>2, FS_EmptySet
    <2>2. s0 = [S \in D(0) |-> IF S = {} THEN 0 ELSE OneMore(f, S, s0)]
      <3> HIDE DEF D
      <3> QED  BY <2>1
    <2> HIDE DEF s0
    <2>3. IsSum(f, s0, 0)
      BY <2>2 DEF IsSum
    <2> QED  BY <2>3
  <1>2. ASSUME NEW n \in Nat, n \in K PROVE n + 1 \in K
    <2>1. PICK s : IsSum(f, s, n)
      BY <1>2
    <2>2. \A S \in D(n) : s[S] = IF S = {} THEN 0 ELSE OneMore(f, S, s)
      BY <2>1 DEF IsSum
    <2> DEFINE g == [S \in D(n + 1) |-> IF S = {} THEN 0 ELSE OneMore(f, S, s)]
    <2>3. ASSUME NEW S \in D(n + 1), S # {}
          PROVE  OneMore(f, S, g) = OneMore(f, S, s)
      <3> DEFINE x == CHOOSE y \in S : TRUE
                 R == S \ {x}
      <3>1. IsFiniteSet(S) /\ S \subseteq DOMAIN f /\ Cardinality(S) <= n + 1
        BY <1>0
      <3>2. Cardinality(R) = Cardinality(S) - 1 /\ Cardinality(S) \in Nat
        BY <2>3, <3>1, Chosen
      <3>3. Cardinality(R) <= n /\ Cardinality(R) <= n + 1
        BY <3>1, <3>2
      <3>4. R \in D(n) /\ R \in D(n + 1)
        BY <3>1, <3>3
      <3>5. g[R] = s[R]
        <4> HIDE DEF R, D
        <4> QED  BY <2>2, <3>4
      <3> HIDE DEF g, D
      <3> QED  BY <3>5 DEF OneMore
    <2>4. g = [S \in D(n + 1) |-> IF S = {} THEN 0 ELSE OneMore(f, S, g)]
      <3>1. ASSUME NEW S \in D(n + 1)
            PROVE  g[S] = IF S = {} THEN 0 ELSE OneMore(f, S, g)
        <4>1. g[S] = IF S = {} THEN 0 ELSE OneMore(f, S, s)
          OBVIOUS
        <4> HIDE DEF g, D
        <4> QED  BY <2>3, <4>1
      <3>2. g = [S \in D(n + 1) |-> g[S]]
        OBVIOUS
      <3> HIDE DEF g, D
      <3> QED  BY <3>1, <3>2
    <2> HIDE DEF g
    <2>5. IsSum(f, g, n + 1)
      BY <2>4 DEF IsSum
    <2> QED  BY <2>5
  <1>3. Nat \subseteq K
    <2> HIDE DEF K
    <2> QED  BY <1>1, <1>2, Induction
  <1> QED  BY <1>3

\* A sum of strengths is no more than a strength of 10000 for each.
LEMMA TotalAtMost ==
  ASSUME NEW f, IsFiniteSet(DOMAIN f), \A x \in DOMAIN f : f[x] \in Nat /\ f[x] <= 10000
  PROVE  Total(f) \in Nat /\ Total(f) <= 10000 * Cardinality(DOMAIN f)
  <1> DEFINE D == DOMAIN f
             last == Cardinality(D)
             sum == CHOOSE s : s = [S \in SUBSET D |-> IF S = {} THEN 0 ELSE OneMore(f, S, s)]
  <1>1. last \in Nat
    BY FS_CardinalityType
  <1>2. {T \in SUBSET D : Cardinality(T) <= last} = SUBSET D
    BY FS_Subset
  <1>3. \E s : s = [S \in SUBSET D |-> IF S = {} THEN 0 ELSE OneMore(f, S, s)]
    <2>1. PICK s : IsSum(f, s, last)
      BY <1>1, SumExists
    <2> DEFINE few == {T \in SUBSET D : Cardinality(T) <= last}
    <2>2. s = [S \in few |-> IF S = {} THEN 0 ELSE OneMore(f, S, s)]
      BY <2>1 DEF IsSum
    <2>3. few = SUBSET D
      BY <1>2
    <2> HIDE DEF few
    <2>4. s = [S \in SUBSET D |-> IF S = {} THEN 0 ELSE OneMore(f, S, s)]
      BY <2>2, <2>3
    <2> QED  BY <2>4
  <1>4. sum = [S \in SUBSET D |-> IF S = {} THEN 0 ELSE OneMore(f, S, sum)]
    BY <1>3
  <1>5. Total(f) = sum[D]
    BY DEF Total, OneMore
  <1> HIDE DEF sum
  <1>6. \A S \in SUBSET D : sum[S] = IF S = {} THEN 0 ELSE OneMore(f, S, sum)
    BY <1>4
  <1> DEFINE K == {n \in Nat : \A S \in SUBSET D : Cardinality(S) = n => sum[S] \in Nat /\ sum[S] <= 10000 * n}
  <1>7. \A S \in SUBSET D : IsFiniteSet(S) /\ Cardinality(S) \in Nat
    BY FS_Subset, FS_CardinalityType
  <1>8. 0 \in K
    <2>1. ASSUME NEW S \in SUBSET D, Cardinality(S) = 0 PROVE sum[S] = 0
      <3>1. S = {}
        BY <1>7, <2>1, FS_EmptySet
      <3> QED  BY <1>6, <3>1
    <2> QED  BY <2>1
  <1>9. ASSUME NEW n \in Nat, n \in K PROVE n + 1 \in K
    <2>1. ASSUME NEW S \in SUBSET D, Cardinality(S) = n + 1 PROVE sum[S] \in Nat /\ sum[S] <= 10000 * (n + 1)
      <3> DEFINE x == CHOOSE y \in S : TRUE
                 R == S \ {x}
      <3>1. S # {} /\ IsFiniteSet(S)
        BY <1>7, <2>1, FS_EmptySet
      <3>2. x \in S /\ Cardinality(R) = Cardinality(S) - 1
        BY <3>1, Chosen
      <3>3. Cardinality(R) = n /\ R \in SUBSET D
        BY <2>1, <3>2
      <3>4. sum[S] = f[x] + sum[R]
        <4>1. sum[S] = OneMore(f, S, sum)
          BY <1>6, <3>1
        <4> QED  BY <4>1 DEF OneMore
      <3> HIDE DEF x, R
      <3>5. sum[R] \in Nat /\ sum[R] <= 10000 * n
        BY <1>9, <3>3
      <3>6. f[x] \in Nat /\ f[x] <= 10000
        BY <3>2
      <3> QED  BY <3>4, <3>5, <3>6
    <2> QED  BY <2>1
  <1>10. Nat \subseteq K
    <2> HIDE DEF K
    <2> QED  BY <1>8, <1>9, Induction
  <1> HIDE DEF last
  <1>11. sum[D] \in Nat /\ sum[D] <= 10000 * last
    BY <1>1, <1>10 DEF last
  <1> QED  BY <1>5, <1>11 DEF last

LEMMA StrengthAtMost ==
  ASSUME StoreInv
  PROVE  Known(CoFailureStrength(history, WindowDays, today), 0) <= 100
  <1> DEFINE recent == Recent(history, WindowDays, today)
             p(x)   == CoFailureCounts(recent, x[1], x[2])
             all    == {p(x) : x \in Files \X Tests}
             pairs  == {q \in CoFailuresWindow(history, WindowDays, today) : q.changes >= ChangesNeeded}
             f      == [q \in pairs |-> Rounded(10000 * q.coFailures, q.changes)]
             g      == [x \in Files \X Tests |-> p(x)]
  <1>1. IsFiniteSet(all)
    <2>1. IsFiniteSet(Files \X Tests)
      BY TestFactsAssumption, FS_Product
    <2>2. g \in Surjection(Files \X Tests, all)
      BY DEF Surjection
    <2> HIDE DEF all, g
    <2> QED  BY <2>1, <2>2, FS_Surjection
  <1>2. pairs \in SUBSET all
    BY DEF CoFailuresWindow
  <1>3. IsFiniteSet(pairs)
    <2> HIDE DEF pairs, all
    <2> QED  BY <1>1, <1>2, FS_Subset
  <1>4. ASSUME NEW q \in pairs
        PROVE  f[q] \in Nat /\ f[q] <= 10000
    <2>1. PICK x \in Files \X Tests : q = p(x)
      BY <1>2
    <2> DEFINE of(S) == CommitsOf({r \in S : r.test = x[2] /\ x[1] \in ChangedFiles[r.commit]})
               failing == {r \in recent : Failure(r)}
               num == q.coFailures
               den == q.changes
    <2>2. num = Cardinality(of(failing)) /\ den = Cardinality(of(recent))
      BY <2>1 DEF CoFailureCounts
    <2>3. of(failing) \in SUBSET of(recent) /\ of(recent) \in SUBSET Commits
      <3>1. \A r \in recent : r.commit \in Commits
        BY RecentRows, RowsFacts DEF StoreInv
      <3> QED  BY <3>1 DEF CommitsOf
    <2>4. IsFiniteSet(of(recent)) /\ Cardinality(of(failing)) <= Cardinality(of(recent)) /\ IsFiniteSet(of(failing))
      <3> HIDE DEF of, failing, recent
      <3> QED  BY <2>3, TestFactsAssumption, FS_Subset
    <2>5. num \in Nat /\ den \in Nat /\ num <= den
      <3> HIDE DEF of, failing, recent, num, den
      <3> QED  BY <2>2, <2>4, FS_CardinalityType
    <2>6. den > 0
      <3>1. den >= ChangesNeeded /\ ChangesNeeded \in Nat \ {0}
        BY SamplingProfileAssumption
      <3> HIDE DEF den
      <3> QED  BY <2>5, <3>1
    <2>7. f[q] = (2 * (10000 * num) + den) \div (2 * den)
      BY DEF Rounded
    <2> HIDE DEF num, den, f
    <2> DEFINE a == 2 * (10000 * num) + den
               b == 2 * den
    <2>8. a \in Nat /\ b \in Nat /\ b > 0 /\ a < 10001 * b
      BY <2>5, <2>6
    <2> HIDE DEF a, b
    <2>9. a \div b \in Nat /\ a \div b <= 10000
      BY <2>8
    <2> QED  BY <2>7, <2>9 DEF a, b
  <1>5. CoFailureStrength(history, WindowDays, today) =
          IF pairs = {} THEN Null ELSE Rounded(Total(f), 100 * Cardinality(pairs))
    BY DEF CoFailureStrength
  <1>6. DOMAIN f = pairs
    OBVIOUS
  <1> HIDE DEF pairs, f
  <1>7. Total(f) \in Nat /\ Total(f) <= 10000 * Cardinality(pairs)
    BY <1>3, <1>4, <1>6, TotalAtMost
  <1>8. CASE pairs = {}
    BY <1>5, <1>8 DEF Known, Null
  <1>9. CASE pairs # {}
    <2> DEFINE n == Cardinality(pairs)
               a == 2 * Total(f) + 100 * n
               b == 2 * (100 * n)
    <2>1. n \in Nat /\ n > 0
      <3>1. n \in Nat /\ n # 0
        BY <1>3, <1>9, FS_CardinalityType, FS_EmptySet
      <3> HIDE DEF n
      <3> QED  BY <3>1
    <2>2. Rounded(Total(f), 100 * n) = a \div b
      BY DEF Rounded
    <2> HIDE DEF n
    <2>3. a \in Nat /\ b \in Nat /\ b > 0 /\ a < 101 * b
      BY <1>7, <2>1 DEF n
    <2> HIDE DEF a, b
    <2>4. a \div b <= 100 /\ 0 <= 100
      BY <2>3
    <2> QED  BY <1>5, <1>9, <2>2, <2>4 DEF Known, n
  <1> QED  BY <1>8, <1>9

LEMMA BoostsArePairs ==
  ASSUME StoreInv
  PROVE  DOMAIN CoFailureBoosts(Files, history, WindowDays, today)
           \subseteq {p.test : p \in CoFailuresWindow(history, WindowDays, today)}
  <1> DEFINE recent == Recent(history, WindowDays, today)
             late   == {r \in Rows(history) : r.day > today - WindowDays}
  <1>1. IsHistory(history)
    BY DEF StoreInv
  <1>2. \A r \in late : r \in recent /\ r.commit \in Commits
    <2>1. /\ recent = {r \in Rows(history) : InWindow(r.day, WindowDays, today)}
          /\ \A r \in Rows(history) : r.run \in DOMAIN history /\ r.day = history[r.run].day /\ r.commit \in Commits
      BY <1>1, RecentRows, RowsFacts
    <2>2. \A i \in DOMAIN history : history[i].day \in 0 .. today
      BY DEF StoreInv, TypeOK
    <2>3. today \in Nat /\ WindowDays \in Nat
      BY StoreAnalysisAssumption DEF StoreInv, TypeOK
    <2>4. \A r \in late : InWindow(r.day, WindowDays, today)
      BY <2>1, <2>2, <2>3 DEF InWindow
    <2> HIDE DEF recent
    <2> QED  BY <2>1, <2>4
  <1>3. ASSUME NEW t \in DOMAIN CoFailureBoosts(Files, history, WindowDays, today)
        PROVE  \E p \in CoFailuresWindow(history, WindowDays, today) : p.test = t
    <2> DEFINE of(x)   == {r \in late : r.test = x[2] /\ x[1] \in ChangedFiles[r.commit]}
               fail(x) == {r \in of(x) : Failure(r)}
               row(x)  == [file |-> x[1], test |-> x[2], coRuns |-> Count(of(x)),
                           rate |-> Rounded(10000 * Count(fail(x)), Count(of(x)))]
    <2>1. CoFailures(history, WindowDays, today) =
            {row(x) : x \in {y \in Files \X Tests : Count(of(y)) >= CoRunsNeeded /\ fail(y) # {}}}
      BY DEF CoFailures
    <2>2. \E c \in CoFailures(history, WindowDays, today) : c.test = t
      BY DEF CoFailureBoosts
    <2>3. \A x : row(x).test = x[2]
      OBVIOUS
    <2> HIDE DEF row
    <2>4. PICK x \in Files \X Tests : fail(x) # {} /\ x[2] = t
      BY <2>1, <2>2, <2>3
    <2>5. PICK r \in recent : r.test = t /\ x[1] \in ChangedFiles[r.commit] /\ Failure(r) /\ r.commit \in Commits
      BY <1>2, <2>4
    <2> DEFINE p == CoFailureCounts(recent, x[1], x[2])
               S == CommitsOf({q \in {u \in recent : Failure(u)} : q.test = x[2] /\ x[1] \in ChangedFiles[q.commit]})
    <2>6. p.test = t /\ p.coFailures = Cardinality(S)
      BY <2>4 DEF CoFailureCounts
    <2>7. S # {} /\ S \in SUBSET Commits
      <3>1. r.commit \in S
        BY <2>4, <2>5 DEF CommitsOf
      <3>2. \A q \in recent : q.commit \in Commits
        BY <1>1, RecentRows, RowsFacts
      <3> QED  BY <3>1, <3>2 DEF CommitsOf
    <2>8. Cardinality(S) > 0
      <3> HIDE DEF S
      <3>1. IsFiniteSet(S)
        BY <2>7, TestFactsAssumption, FS_Subset
      <3>2. Cardinality(S) \in Nat /\ Cardinality(S) # 0
        BY <2>7, <3>1, FS_CardinalityType, FS_EmptySet
      <3> QED  BY <3>2
    <2>9. p \in CoFailuresWindow(history, WindowDays, today)
      <3>1. p.coFailures > 0
        BY <2>6, <2>8
      <3> QED  BY <3>1 DEF CoFailuresWindow
    <2> HIDE DEF p
    <2> QED  BY <2>6, <2>9
  <1> QED  BY <1>3

-----------------------------------------------------------------------------
(* The reports together.                                                   *)

\* What the reports show, by the name they show it under.
Quantities(a, e, r, k, c) ==
  [score |-> e.score, label |-> HealthScoreLabel(e.score), broken |-> e.broken, flaky |-> e.flaky - e.broken,
   retryFlaky |-> e.trueFlaky, quarantined |-> Cardinality(Quarantined), resolved |-> e.resolved, new |-> e.new,
   allRuns |-> e.runs, allResults |-> e.results, allTests |-> e.unique,
   matched |-> e.sampling.matched,
   matrix |-> <<e.sampling.tp, e.sampling.fp, e.sampling.fn, e.sampling.tn>>,
   falseNegatives |-> e.sampling.fn, falsePositives |-> e.sampling.fp, actions |-> Recommendations(e),
   toQuarantine |-> r.toQuarantine, urgent |-> r.urgent,
   trend |-> k.trend, commits |-> k.commits, confidence |-> k.confidence, issues |-> KpiIssues(k),
   runs |-> a.runs, ci |-> a.ci, local |-> a.local, passed |-> a.passed, failed |-> a.failed,
   ready |-> PromotionDrift(k) = {}, unmet |-> Cardinality(PromotionDrift(k)), rows |-> PromotionDrift(k),
   warned |-> c.warned, coFailures |-> c.coFailures, percentage |-> c.percentage, steps |-> c.steps]

\* A page that shows nothing else.
Shows(page, quantities) == \A q \in DOMAIN page : page[q] = quantities[q]

LEMMA EvalShows ==
  ASSUME NEW a, NEW e, NEW r, NEW k, NEW c, e.quarantined = Cardinality(Quarantined)
  PROVE  /\ Shows(EvalText(e), Quantities(a, e, r, k, c))
         /\ Shows(EvalMarkdown(e), Quantities(a, e, r, k, c))
         /\ Shows(TaskSummary(e, r), Quantities(a, e, r, k, c))
  <1>1. Shows(EvalText(e), Quantities(a, e, r, k, c))
    BY DEF Shows, EvalText, Quantities
  <1>2. Shows(EvalMarkdown(e), Quantities(a, e, r, k, c))
    BY DEF Shows, EvalMarkdown, Quantities
  <1>3. Shows(TaskSummary(e, r), Quantities(a, e, r, k, c))
    BY DEF Shows, TaskSummary, Quantities
  <1> QED  BY <1>1, <1>2, <1>3

LEMMA KpiShows ==
  ASSUME NEW a, NEW e, NEW r, NEW k, NEW c,
         k.broken = e.broken, k.flaky = e.flaky - e.broken, k.matched = e.sampling.matched,
         k.matrix = <<e.sampling.tp, e.sampling.fp, e.sampling.fn, e.sampling.tn>>
  PROVE  /\ Shows(KpiText(k), Quantities(a, e, r, k, c))
         /\ Shows(StatusText(StatusSummary(a, k)), Quantities(a, e, r, k, c))
         /\ Shows(StatusMarkdown(StatusSummary(a, k)), Quantities(a, e, r, k, c))
  <1> DEFINE v == Quantities(a, e, r, k, c)
             s == StatusSummary(a, k)
  <1>1. Shows(KpiText(k), v)
    <2>1. ASSUME NEW q \in {"broken", "flaky", "trend", "commits", "confidence", "issues", "matched", "matrix"}
          PROVE  v[q] = IF q = "issues" THEN KpiIssues(k) ELSE k[q]
      BY DEF Quantities
    <2> HIDE DEF v
    <2> QED  BY <2>1 DEF Shows, KpiText
  <1>2. Shows(StatusFields(s), v)
    <2> DEFINE kept == {"runs", "ci", "local", "passed", "failed", "confidence", "matched", "broken", "flaky",
                        "trend", "quarantined"}
    <2>1. (DOMAIN s) \ {"drift"} = kept /\ s.drift = PromotionDrift(k)
      BY DEF StatusSummary
    <2>2. ASSUME NEW q \in kept PROVE s[q] = v[q]
      BY DEF StatusSummary, Quantities
    <2>3. /\ v["ready"] = (PromotionDrift(k) = {}) /\ v["unmet"] = Cardinality(PromotionDrift(k))
          /\ v["rows"] = PromotionDrift(k)
      BY DEF Quantities
    <2>4. "ready" \notin kept /\ "unmet" \notin kept /\ "rows" \notin kept
      OBVIOUS
    <2> HIDE DEF s, v, kept
    <2>5. DOMAIN StatusFields(s) = kept \cup {"ready", "unmet", "rows"}
      BY <2>1 DEF StatusFields
    <2>6. /\ \A q \in kept : StatusFields(s)[q] = s[q]
          /\ StatusFields(s)["ready"] = (s.drift = {}) /\ StatusFields(s)["unmet"] = Cardinality(s.drift)
          /\ StatusFields(s)["rows"] = s.drift
      BY <2>1, <2>4 DEF StatusFields
    <2> QED  BY <2>1, <2>2, <2>3, <2>5, <2>6 DEF Shows
  <1> QED  BY <1>1, <1>2 DEF StatusText, StatusMarkdown

LEMMA CalibrationShows ==
  ASSUME NEW a, NEW e, NEW r, NEW k, NEW x,
         CalibrationReport(x).commits = k.commits, CalibrationReport(x).confidence = k.confidence
  PROVE  Shows(CalibrationReport(x), Quantities(a, e, r, k, CalibrationReport(x)))
  <1> DEFINE c == CalibrationReport(x)
  <1>1. DOMAIN c = {"commits", "confidence", "warned", "coFailures", "percentage", "steps"}
    BY DEF CalibrationReport
  <1> HIDE DEF c
  <1>2. c.commits = k.commits /\ c.confidence = k.confidence
    BY DEF c
  <1>3. Shows(c, Quantities(a, e, r, k, c))
    BY <1>1, <1>2 DEF Shows, Quantities
  <1> QED  BY <1>3 DEF c

\* The dashboard, the evaluation and the calibration count the same things.
LEMMA SameThings ==
  ASSUME StoreInv, Telling
  PROVE  LET e == EvalReport(history, WindowDays, today)
             k == Kpi(history, WindowDays, today)
             c == CalibrationReport(CalibrateSampling(history, WindowDays, today))
         IN /\ e.quarantined = Cardinality(Quarantined)
            /\ k.broken = e.broken /\ k.flaky = e.flaky - e.broken /\ k.matched = e.sampling.matched
            /\ k.matrix = <<e.sampling.tp, e.sampling.fp, e.sampling.fn, e.sampling.tn>>
            /\ e.flaky = k.flaky + k.broken
            /\ e.flaky = Count({x \in ListFlaky(history, WindowDays, today) : x.runs >= MinRuns})
            /\ c.commits = k.commits /\ c.confidence = k.confidence
            /\ c.warned = ("too little data" \in KpiIssues(k)) /\ c.coFailures <= 100
            /\ k.commits = HistoryCommits(history, WindowDays, today)
            /\ e.sampling = SamplingReport(history, WindowDays, today)
  <1> DEFINE e == EvalReport(history, WindowDays, today)
             k == Kpi(history, WindowDays, today)
             x == CalibrateSampling(history, WindowDays, today)
             c == CalibrationReport(x)
             judged == Judged(history, WindowDays, today)
             listed == {y \in ListFlaky(history, WindowDays, today) : y.runs >= MinRuns}
             health == TestHealth(FlakyWindow(history, WindowDays, today))
             commits == HistoryCommits(history, WindowDays, today)
             s == SamplingReport(history, WindowDays, today)
  <1>1. /\ e.quarantined = Cardinality(Quarantined) /\ e.flaky = Count(judged)
        /\ e.broken = Count({f \in judged : f.broken}) /\ e.sampling = s
    BY DEF EvalReport
  <1>2. /\ k.broken = health.broken /\ k.flaky = health.flaky /\ k.matched = s.matched
        /\ k.matrix = <<s.tp, s.fp, s.fn, s.tn>> /\ k.commits = commits
        /\ k.confidence = DataConfidence(commits)
    BY DEF Kpi, Dashboard
  <1>3. /\ x.profile.commits = commits /\ x.profile.confidence = DataConfidence(commits)
        /\ x.profile.hasCoFailures = (Changed # {})
        /\ x.profile.coFailureStrength =
             IF Changed = {} THEN 50 ELSE Known(CoFailureStrength(history, WindowDays, today), 0)
    BY DEF CalibrateSampling, AnalyzeProject
  <1> HIDE DEF x
  <1>4. /\ c.commits = x.profile.commits /\ c.confidence = x.profile.confidence
        /\ c.warned = (x.profile.confidence < 2)
        /\ c.coFailures = IF x.profile.hasCoFailures THEN x.profile.coFailureStrength ELSE Null
    BY DEF CalibrationReport
  <1> HIDE DEF e, k, c, judged, listed, health, commits, s
  <1>5. ("too little data" \in KpiIssues(k)) = (k.confidence < 2)
    BY DEF KpiIssues
  <1>6. c.coFailures <= 100
    <2>1. CASE Changed = {}
      <3>1. c.coFailures = Null
        BY <1>3, <1>4, <2>1
      <3> QED  BY <3>1 DEF Null
    <2>2. CASE Changed # {}
      <3>1. c.coFailures = Known(CoFailureStrength(history, WindowDays, today), 0)
        BY <1>3, <1>4, <2>2
      <3> QED  BY <3>1, StrengthAtMost
    <2> QED  BY <2>1, <2>2
  <1>7. c.warned = ("too little data" \in KpiIssues(k))
    BY <1>2, <1>3, <1>4, <1>5
  <1>8. /\ health.broken = Cardinality(BrokenTests) /\ health.flaky = Cardinality(FlakyOnes)
        /\ Count(judged) = Cardinality(BrokenTests) + Cardinality(FlakyOnes)
        /\ Count({f \in judged : f.broken}) = Cardinality(BrokenTests)
        /\ Count(listed) = Count(judged)
        /\ Cardinality(BrokenTests) \in Nat /\ Cardinality(FlakyOnes) \in Nat
    BY HealthCounts, JudgedCounts DEF health, judged, listed
  <1>9. /\ e.flaky = k.flaky + k.broken /\ k.broken = e.broken /\ k.flaky = e.flaky - e.broken
        /\ e.flaky = Count(listed)
    BY <1>1, <1>2, <1>8
  <1>10. c.commits = k.commits /\ c.confidence = k.confidence
    BY <1>2, <1>3, <1>4
  <1>11. k.matched = e.sampling.matched /\ k.matrix = <<e.sampling.tp, e.sampling.fp, e.sampling.fn, e.sampling.tn>>
    BY <1>1, <1>2
  <1> QED  BY <1>1, <1>2, <1>6, <1>7, <1>9, <1>10, <1>11 DEF e, k, c, x, listed, commits, s

\* What any two reports both show, they show alike, and all the reports of a moment hang together
\* (runEval, testHealth, runStatusSummary, formatFlakyTable, buildContext, runReason, runInsights).
LEMMA ReportsHangTogether ==
  ASSUME StoreInv, Telling
  PROVE  AllAgree(Bundle(history, WindowDays, today))
  <1> DEFINE all    == Bundle(history, WindowDays, today)
             status == StatusSummary(all.data, all.kpi)
             table  == FlakyTable(history, WindowDays, today)
             listed == {x \in ListFlaky(history, WindowDays, today) : x.runs >= MinRuns}
             report == CalibrationReport(CalibrateSampling(history, WindowDays, today))
             boosts == CoFailureBoosts(Files, history, WindowDays, today)
             v      == Quantities(all.data, all.eval, all.reason, all.kpi, report)
             failing == table.flaky \cup table.broken \cup table.failing
  <1>1. /\ all.eval = EvalReport(history, WindowDays, today) /\ all.kpi = Kpi(history, WindowDays, today)
        /\ all.reason = Reason(history, WindowDays, today) /\ all.insights = Insights(history, WindowDays, today)
        /\ all.recent = RecentFailures(history, WindowDays, today)
        /\ all.evidence = FailureEvidence(history, WindowDays, today)
    BY DEF Bundle
  <1>2. /\ all.eval.quarantined = Cardinality(Quarantined)
        /\ all.kpi.broken = all.eval.broken /\ all.kpi.flaky = all.eval.flaky - all.eval.broken
        /\ all.kpi.matched = all.eval.sampling.matched
        /\ all.kpi.matrix = <<all.eval.sampling.tp, all.eval.sampling.fp, all.eval.sampling.fn, all.eval.sampling.tn>>
        /\ all.eval.flaky = all.kpi.flaky + all.kpi.broken
        /\ all.eval.flaky = Count(listed)
        /\ report.commits = all.kpi.commits /\ report.confidence = all.kpi.confidence
        /\ report.warned = ("too little data" \in KpiIssues(all.kpi)) /\ report.coFailures <= 100
        /\ all.kpi.commits = HistoryCommits(history, WindowDays, today)
        /\ all.eval.sampling = SamplingReport(history, WindowDays, today)
    BY <1>1, SameThings
  <1>3. status.flaky = all.kpi.flaky /\ status.broken = all.kpi.broken
    BY DEF StatusSummary
  <1>4. /\ failing = Failing /\ table.flaky \cap table.broken = {}
        /\ {x.test : x \in all.reason.classifications} = Failing
        /\ TestsOf(all.recent) = Failing /\ {x.test : x \in all.evidence} = Failing
        /\ all.insights.both \cup all.insights.ciOnly \cup all.insights.localOnly \subseteq Failing
    BY <1>1, NamedTests
  <1>5. /\ all.eval.sampling.tp + all.eval.sampling.fp + all.eval.sampling.fn + all.eval.sampling.tn
             = all.eval.sampling.matched
        /\ all.eval.sampling.matched + all.eval.sampling.localOnly + all.eval.sampling.ciOnly <= all.kpi.commits
    BY <1>2, MatrixCounts
  <1>6. DOMAIN boosts \subseteq {p.test : p \in CoFailuresWindow(history, WindowDays, today)}
    BY BoostsArePairs
  <1> HIDE DEF all, table, listed, boosts
  <1>7. /\ Shows(EvalText(all.eval), v) /\ Shows(EvalMarkdown(all.eval), v)
        /\ Shows(TaskSummary(all.eval, all.reason), v) /\ Shows(KpiText(all.kpi), v)
        /\ Shows(StatusText(status), v) /\ Shows(StatusMarkdown(status), v) /\ Shows(report, v)
    BY <1>2, EvalShows, KpiShows, CalibrationShows
  <1> HIDE DEF report, status, v
  <1>8. \A x, y \in {EvalText(all.eval), EvalMarkdown(all.eval), TaskSummary(all.eval, all.reason),
                     KpiText(all.kpi), StatusText(status), StatusMarkdown(status), report} :
          \A q \in DOMAIN x \cap DOMAIN y : x[q] = y[q]
    <2> DEFINE shown == {EvalText(all.eval), EvalMarkdown(all.eval), TaskSummary(all.eval, all.reason),
                         KpiText(all.kpi), StatusText(status), StatusMarkdown(status), report}
    <2>1. \A x \in shown : Shows(x, v)
      BY <1>7
    <2> HIDE DEF shown
    <2>2. \A x, y \in shown : \A q \in DOMAIN x \cap DOMAIN y : x[q] = y[q]
      BY <2>1 DEF Shows
    <2> QED  BY <2>2 DEF shown
  <1>9. Agree(all, status, table, listed, report, boosts)
    <2>1. all.eval.flaky = status.flaky + status.broken /\ all.eval.flaky = Count(listed)
      BY <1>2, <1>3
    <2>2. report.warned = ("too little data" \in KpiIssues(all.kpi)) /\ report.coFailures <= 100
      BY <1>2
    <2>3. /\ table.flaky \cap table.broken = {}
          /\ {x.test : x \in all.reason.classifications} = failing
          /\ TestsOf(all.recent) = {x.test : x \in all.evidence}
          /\ all.insights.both \cup all.insights.ciOnly \cup all.insights.localOnly \subseteq failing
      BY <1>4
    <2> QED  BY <2>1, <2>2, <2>3, <1>5, <1>6, <1>8, Zenon DEF Agree
  <1> QED  BY <1>9 DEF AllAgree, all, status, table, listed, report, boosts

\* Evaluation, dashboard, status, lists, reasoning, calibration and the bundle agree, and windows
\* tile - unless a test is flaky from no share of flaky results on and may have more than 20000
\* results: one flaky result of 20001 failures rounds to a rate of 0, and both verdicts hold.
THEOREM ReportsDoAgree ==
  ASSUME Telling
  PROVE  Spec => []ReportsAgree
  <1>1. StoreInv => ReportsAgree
    BY ReportsHangTogether, WindowsDoTile DEF ReportsAgree
  <1> QED  BY <1>1, StoreInvHolds, PTL
=============================================================================
