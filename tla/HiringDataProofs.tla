-------------------------- MODULE HiringDataProofs --------------------------
(***************************************************************************)
(* What uploads do to the tables and to the metrics, for any files, chunk  *)
(* size and limit, and what the metrics count, compare and agree on.       *)
(***************************************************************************)
EXTENDS HiringData, InductionTheorems

-----------------------------------------------------------------------------
(* The inserts.                                                            *)

\* An upload of departments or jobs only adds rows.
LEMMA InsertedKeeps ==
    ASSUME NEW table, DOMAIN table \subseteq Int, NEW file \in Seq(NamedRow)
    PROVE  /\ DOMAIN table \subseteq DOMAIN Inserted(table, file)
           /\ DOMAIN Inserted(table, file) \subseteq Int
           /\ \A k \in DOMAIN table : Inserted(table, file)[k] = table[k]
<1>1. DOMAIN Inserted(table, file) = KeysAfter(table, file, Fitting(file))
  BY DEF Inserted
<1>2. KeysAfter(table, file, Fitting(file)) \subseteq Int
  <2>1. \A i \in DOMAIN file : file[i] \in NamedRow
    OBVIOUS
  <2>2. \A i \in DOMAIN file : file[i].id \in Int
    BY <2>1 DEF NamedRow
  <2>3. Winners(table, file, Fitting(file)) \subseteq DOMAIN file
    BY DEF Winners, Fitting
  <2> QED
    BY <2>2, <2>3 DEF KeysAfter
<1>3. DOMAIN table \subseteq KeysAfter(table, file, Fitting(file))
  BY DEF KeysAfter
<1>4. \A k \in DOMAIN table : Inserted(table, file)[k] = table[k]
  BY <1>3 DEF Inserted
<1> QED
  BY <1>1, <1>2, <1>3, <1>4

\* Two lines that are inserted have different keys.
LEMMA WinnersDiffer ==
    ASSUME NEW table, NEW file, NEW can \in SUBSET Int,
           NEW i \in Winners(table, file, can), NEW j \in Winners(table, file, can),
           file[i].id = file[j].id
    PROVE  i = j
BY DEF Winners

\* write_employees only adds rows, and those it adds are the lines it does not report.
LEMMA HiredKeeps ==
    ASSUME TypeOK, NEW chunk \in SUBSET DOMAIN lines
    PROVE  /\ DOMAIN employees \subseteq DOMAIN Hired(chunk)
           /\ \A k \in DOMAIN employees : Hired(chunk)[k] = employees[k]
           /\ \A i \in Winners(employees, lines, Hireable(chunk)) :
                /\ lines[i].id \in DOMAIN Hired(chunk)
                /\ Hired(chunk)[lines[i].id] = lines[i].hire
           /\ \A k \in DOMAIN Hired(chunk) \ DOMAIN employees :
                \E i \in Winners(employees, lines, Hireable(chunk)) :
                  k = lines[i].id /\ Hired(chunk)[k] = lines[i].hire
<1> DEFINE Won == Winners(employees, lines, Hireable(chunk))
<1>1. DOMAIN Hired(chunk) = DOMAIN employees \cup {lines[i].id : i \in Won}
  BY DEF Hired, KeysAfter
<1>2. \A k \in DOMAIN employees : Hired(chunk)[k] = employees[k]
  BY DEF Hired, KeysAfter
<1>3. Won \subseteq DOMAIN lines /\ Hireable(chunk) \subseteq Int
  BY DEF Winners, Hireable, Fitting, TypeOK
<1>4. ASSUME NEW i \in Won
      PROVE  /\ lines[i].id \notin DOMAIN employees
             /\ Hired(chunk)[lines[i].id] = lines[i].hire
  <2> DEFINE w == Winner(employees, lines, Hireable(chunk), lines[i].id)
  <2>1. lines[i].id \notin DOMAIN employees
    BY DEF Winners
  <2>2. w \in Won /\ lines[w].id = lines[i].id
    BY DEF Winner
  <2>3. w = i
    BY <1>3, <2>2, WinnersDiffer
  <2>4. Hired(chunk)[lines[i].id] = lines[w].hire
    BY <1>1, <2>1 DEF Hired
  <2> QED
    BY <2>1, <2>3, <2>4
<1> QED
  BY <1>1, <1>2, <1>4

-----------------------------------------------------------------------------
(* The bulk INSERT and its fallback, statement by statement.  HiringData   *)
(* has only what they come to.                                             *)

\* One more row.
WithRow(table, k, value) == [x \in DOMAIN table \cup {k} |-> IF x = k THEN value ELSE table[x]]

\* add: of the lines that can be inserted, those whose key the table does not have by then.
AfterAdd(table, file, can, values, i) ==
    IF i \in can /\ file[i].id \notin DOMAIN table
      THEN WithRow(table, file[i].id, values[i]) ELSE table

\* The table after each record of the loop, a savepoint for each.
RowByRow(table, file, can, values) ==
    LET after[n \in 0 .. Len(file)] ==
          IF n = 0 THEN table ELSE AfterAdd(after[n - 1], file, can, values, n)
    IN  after

\* bulk_insert: one INSERT, which takes all the records or fails.
BulkWorks(table, file, records, can) ==
    /\ records \subseteq can
    /\ \A i \in records : file[i].id \notin DOMAIN table
    /\ \A i, j \in records : file[i].id = file[j].id => i = j

AfterBulk(table, file, records, values) ==
    [k \in DOMAIN table \cup {file[i].id : i \in records} |->
       IF k \in DOMAIN table THEN table[k]
                             ELSE values[CHOOSE i \in records : file[i].id = k]]

\* The bulk INSERT, and the loop if it fails.
Written(table, file, records, can, values) ==
    IF BulkWorks(table, file, records, can)
      THEN AfterBulk(table, file, records, values)
      ELSE RowByRow(table, file, can, values)[Len(file)]

\* Those of the loop's records whose INSERT raises.
Raising(table, file, records, can, values) ==
    {i \in records : \/ i \notin can
                     \/ file[i].id \in DOMAIN RowByRow(table, file, can, values)[i - 1]}

\* What HiringData says they come to, in one definition for all three tables.
Taking(table, file, can, values) ==
    [k \in KeysAfter(table, file, can) |->
       IF k \in DOMAIN table THEN table[k] ELSE values[Winner(table, file, can, k)]]

LEMMA WinnerIs ==
    ASSUME NEW table, NEW file, NEW can \in SUBSET Int, NEW i \in Winners(table, file, can)
    PROVE  Winner(table, file, can, file[i].id) = i
<1>1. Winner(table, file, can, file[i].id) \in Winners(table, file, can)
  BY DEF Winner
<1>2. file[Winner(table, file, can, file[i].id)].id = file[i].id
  BY DEF Winner
<1> QED
  BY <1>1, <1>2, WinnersDiffer

\* That table by its keys and rows, without the CHOOSE.
Takes(h, table, file, can, values) ==
    /\ h = [k \in DOMAIN h |-> h[k]]
    /\ \A k : k \in DOMAIN h <=>
         k \in DOMAIN table \/ \E i \in Winners(table, file, can) : k = file[i].id
    /\ \A k \in DOMAIN table : h[k] = table[k]
    /\ \A i \in Winners(table, file, can) :
         file[i].id \in DOMAIN h \ DOMAIN table /\ h[file[i].id] = values[i]

LEMMA TakingIs ==
    ASSUME NEW table, NEW file, NEW can \in SUBSET Int, NEW values
    PROVE  Takes(Taking(table, file, can, values), table, file, can, values)
<1> DEFINE h == Taking(table, file, can, values)
<1>1. \A i \in Winners(table, file, can) : file[i].id \notin DOMAIN table
  BY DEF Winners
<1>2. /\ h = [k \in DOMAIN h |-> h[k]]
      /\ \A k : k \in DOMAIN h <=>
           k \in DOMAIN table \/ \E i \in Winners(table, file, can) : k = file[i].id
      /\ \A k \in DOMAIN table : h[k] = table[k]
  BY DEF Taking, KeysAfter
<1>3. \A i \in Winners(table, file, can) : h[file[i].id] = values[i]
  BY <1>1, WinnerIs DEF Taking, KeysAfter
<1> QED
  BY <1>1, <1>2, <1>3 DEF Takes

LEMMA IsTaking ==
    ASSUME NEW table, NEW file, NEW can \in SUBSET Int, NEW values,
           NEW h, Takes(h, table, file, can, values)
    PROVE  h = Taking(table, file, can, values)
<1> DEFINE t == Taking(table, file, can, values)
<1>1. Takes(t, table, file, can, values)
  BY TakingIs
<1> HIDE DEF t
<1>2. DOMAIN h = DOMAIN t
  BY <1>1 DEF Takes
<1>3. \A k \in DOMAIN h : h[k] = t[k]
  BY <1>1 DEF Takes
<1>4. h = [k \in DOMAIN h |-> h[k]] /\ t = [k \in DOMAIN t |-> t[k]]
  BY <1>1 DEF Takes
<1> QED
  BY <1>2, <1>3, <1>4 DEF t

\* Whatever can be inserted has its key in the table afterwards.
LEMMA KeysAreTaken ==
    ASSUME NEW table, NEW file, NEW can \in SUBSET Nat, NEW values, NEW i \in can
    PROVE  file[i].id \in DOMAIN Taking(table, file, can, values)
<1> SUFFICES ASSUME file[i].id \notin DOMAIN table
             PROVE  \E w \in Winners(table, file, can) : file[i].id = file[w].id
  <2>1. can \in SUBSET Int
    OBVIOUS
  <2>2. Takes(Taking(table, file, can, values), table, file, can, values)
    BY <2>1, TakingIs
  <2> QED
    BY <2>2 DEF Takes
<1> DEFINE Same == {j \in can : file[j].id = file[i].id}
<1>1. PICK w \in Same : \A j \in Same : w <= j
  <2>1. Same \subseteq Nat /\ Same # {}
    OBVIOUS
  <2> QED
    BY <2>1, LeastOf
<1> QED
  BY <1>1 DEF Winners

\* The first lines of a file that can be inserted.
UpTo(can, n) == {i \in can : i <= n}

\* Another line of those that can be inserted makes a row if its key is free by then.
LEMMA OneLineMore ==
    ASSUME NEW table, NEW file, NEW can \in SUBSET Nat, NEW values, NEW n \in Nat,
           table = [k \in DOMAIN table |-> table[k]]
    PROVE  Taking(table, file, UpTo(can, n + 1), values)
             = AfterAdd(Taking(table, file, UpTo(can, n), values), file, can, values, n + 1)
<1> DEFINE old == UpTo(can, n)
           new == UpTo(can, n + 1)
           T == Taking(table, file, old, values)
           m == n + 1
<1>1. new = (IF m \in can THEN old \cup {m} ELSE old) /\ m \notin old
  BY DEF UpTo
<1>2. \A i \in old : i < m
  BY DEF UpTo
<1>3. old \subseteq can /\ old \in SUBSET Nat /\ old \in SUBSET Int /\ new \in SUBSET Int
  BY DEF UpTo
<1>4. \A i \in old : file[i].id \in DOMAIN T
  BY <1>3, KeysAreTaken
<1>a. Takes(T, table, file, old, values)
  BY <1>3, TakingIs
<1> HIDE DEF T, old
<1>5. CASE m \in can /\ file[m].id \notin DOMAIN T
  <2>1. new = old \cup {m}
    BY <1>1, <1>5
  <2>2. file[m].id \notin DOMAIN table /\ \A i \in old : file[i].id # file[m].id
    BY <1>4, <1>5, <1>a DEF Takes
  <2>3. Winners(table, file, new) = Winners(table, file, old) \cup {m}
    BY <1>1, <1>2, <1>3, <2>1, <2>2 DEF Winners
  <2> DEFINE W == WithRow(T, file[m].id, values[m])
  <2>4. /\ \A k : k \in DOMAIN W <=> k \in DOMAIN T \/ k = file[m].id
        /\ \A k \in DOMAIN T : W[k] = T[k]
        /\ W[file[m].id] = values[m] /\ W = [k \in DOMAIN W |-> W[k]]
    BY <1>5 DEF WithRow
  <2>5. AfterAdd(T, file, can, values, m) = W
    BY <1>5 DEF AfterAdd
  <2> HIDE DEF W, new
  <2>6. \A i \in Winners(table, file, old) : file[i].id \in DOMAIN T
    BY <1>a DEF Takes
  <2>7. Takes(W, table, file, new, values)
    BY <1>5, <1>a, <2>2, <2>3, <2>4, <2>6 DEF Takes
  <2>8. W = Taking(table, file, new, values)
    BY <1>3, <2>7, IsTaking
  <2> QED
    BY <2>5, <2>8 DEF new, T, old
<1>6. CASE ~(m \in can /\ file[m].id \notin DOMAIN T)
  <2>1. Winners(table, file, new) = Winners(table, file, old)
    <3>1. CASE m \notin can
      BY <1>1, <3>1
    <3>2. CASE m \in can
      <4>1. new = old \cup {m} /\ file[m].id \in DOMAIN T
        BY <1>1, <1>6, <3>2
      <4>2. file[m].id \in DOMAIN table \/ \E i \in old : file[i].id = file[m].id
        BY <4>1, <1>a DEF Winners, Takes
      <4> QED
        BY <1>2, <1>3, <4>1, <4>2 DEF Winners
    <3> QED
      BY <3>1, <3>2
  <2> HIDE DEF new
  <2>2. Taking(table, file, new, values) = T
    <3>1. Takes(T, table, file, new, values)
      BY <1>a, <2>1 DEF Takes
    <3> QED
      BY <1>3, <3>1, IsTaking
  <2>3. AfterAdd(T, file, can, values, m) = T
    BY <1>6 DEF AfterAdd
  <2> QED
    BY <2>2, <2>3 DEF new, T, old
<1> QED
  BY <1>5, <1>6

\* The loop inserts, of the lines it has tried, the first of each free key: the solution
\* of its recursion is there, and it is the only one.
LEMMA LoopTakes ==
    ASSUME NEW table, table = [k \in DOMAIN table |-> table[k]],
           NEW file, Len(file) \in Nat, NEW can \in SUBSET (1 .. Len(file)), NEW values,
           NEW n \in 0 .. Len(file)
    PROVE  RowByRow(table, file, can, values)[n] = Taking(table, file, UpTo(can, n), values)
<1> DEFINE f == RowByRow(table, file, can, values)
           g == [i \in 0 .. Len(file) |-> Taking(table, file, UpTo(can, i), values)]
           Loops(h) == h = [i \in 0 .. Len(file) |->
                              IF i = 0 THEN table ELSE AfterAdd(h[i - 1], file, can, values, i)]
<1>1. Taking(table, file, UpTo(can, 0), values) = table
  <2>1. UpTo(can, 0) = {}
    BY DEF UpTo
  <2>2. Winners(table, file, {}) = {}
    BY DEF Winners
  <2>3. KeysAfter(table, file, {}) = DOMAIN table
    BY <2>2 DEF KeysAfter
  <2> QED
    BY <2>1, <2>3 DEF Taking
<1>2. \A i \in 1 .. Len(file) :
        Taking(table, file, UpTo(can, i), values)
          = AfterAdd(Taking(table, file, UpTo(can, i - 1), values), file, can, values, i)
  <2> TAKE i \in 1 .. Len(file)
  <2>1. i - 1 \in Nat /\ (i - 1) + 1 = i /\ can \in SUBSET Nat
    OBVIOUS
  <2> QED
    BY <2>1, OneLineMore
<1>3. Loops(g)
  <2>1. \A i \in 1 .. Len(file) : i - 1 \in 0 .. Len(file)
    OBVIOUS
  <2>2. \A i \in 0 .. Len(file) :
          Taking(table, file, UpTo(can, i), values)
            = IF i = 0 THEN table ELSE AfterAdd(g[i - 1], file, can, values, i)
    BY <1>1, <1>2, <2>1
  <2> QED
    BY <2>2
<1>4. f = CHOOSE h : Loops(h)
  BY DEF RowByRow
<1> HIDE DEF g
<1>5. Loops(f)
  BY <1>3, <1>4
<1> DEFINE Same == {i \in Nat : i \in 0 .. Len(file) => f[i] = Taking(table, file, UpTo(can, i), values)}
<1> HIDE DEF f
<1>6. 0 \in Same
  BY <1>1, <1>5
<1>7. ASSUME NEW i \in Same PROVE i + 1 \in Same
  <2> SUFFICES ASSUME i + 1 \in 0 .. Len(file)
               PROVE  f[i + 1] = Taking(table, file, UpTo(can, i + 1), values)
    BY <1>7
  <2>1. i \in 0 .. Len(file) /\ i + 1 \in 1 .. Len(file) /\ (i + 1) - 1 = i
    BY <1>7
  <2>2. f[i + 1] = AfterAdd(f[i], file, can, values, i + 1)
    <3>1. i + 1 \in 0 .. Len(file) /\ i + 1 # 0
      BY <2>1
    <3>2. f[i + 1] = AfterAdd(f[(i + 1) - 1], file, can, values, i + 1)
      BY <1>5, <3>1
    <3> QED
      BY <2>1, <3>2
  <2>3. f[i] = Taking(table, file, UpTo(can, i), values)
    BY <1>7, <2>1
  <2> QED
    BY <1>2, <2>1, <2>2, <2>3
<1>8. Same = Nat
  <2>1. Same \in SUBSET Nat
    OBVIOUS
  <2> HIDE DEF Same
  <2> QED
    BY <1>6, <1>7, <2>1, NatSetInduction
<1> QED
  BY <1>8 DEF f

\* Bulk or row by row, the same rows are inserted.
LEMMA WrittenIsTaking ==
    ASSUME NEW table, table = [k \in DOMAIN table |-> table[k]],
           NEW file, Len(file) \in Nat, NEW records \in SUBSET (1 .. Len(file)),
           NEW can \in SUBSET records, NEW values
    PROVE  Written(table, file, records, can, values) = Taking(table, file, can, values)
<1>1. CASE BulkWorks(table, file, records, can)
  <2>1. records = can /\ can \in SUBSET Int
    BY <1>1 DEF BulkWorks
  <2>2. Winners(table, file, can) = can
    BY <1>1, <2>1 DEF Winners, BulkWorks
  <2> DEFINE h == AfterBulk(table, file, records, values)
  <2>3. \A i \in can : (CHOOSE j \in records : file[j].id = file[i].id) = i
    BY <1>1, <2>1 DEF BulkWorks
  <2>4. \A i \in can : file[i].id \in DOMAIN h /\ h[file[i].id] = values[i]
    BY <1>1, <2>1, <2>3 DEF AfterBulk, BulkWorks
  <2>5. /\ \A k : k \in DOMAIN h <=> k \in DOMAIN table \/ \E i \in can : k = file[i].id
        /\ \A k \in DOMAIN table : h[k] = table[k]
        /\ h = [k \in DOMAIN h |-> h[k]]
    BY <2>1 DEF AfterBulk
  <2> HIDE DEF h
  <2>a. Takes(h, table, file, can, values)
    BY <1>1, <2>1, <2>2, <2>4, <2>5 DEF Takes, BulkWorks
  <2>6. h = Taking(table, file, can, values)
    BY <2>1, <2>a, IsTaking
  <2> QED
    BY <1>1, <2>6 DEF Written, h
<1>2. CASE ~ BulkWorks(table, file, records, can)
  <2>1. UpTo(can, Len(file)) = can
    BY DEF UpTo
  <2>2. RowByRow(table, file, can, values)[Len(file)]
          = Taking(table, file, UpTo(can, Len(file)), values)
    <3>1. can \in SUBSET (1 .. Len(file)) /\ Len(file) \in 0 .. Len(file)
      OBVIOUS
    <3> QED
      BY <3>1, LoopTakes
  <2> QED
    BY <1>2, <2>1, <2>2 DEF Written
<1> QED
  BY <1>1, <1>2

\* The loop reports whatever it does not insert.
LEMMA RaisingAreTheOthers ==
    ASSUME NEW table, table = [k \in DOMAIN table |-> table[k]],
           NEW file, Len(file) \in Nat, NEW records \in SUBSET (1 .. Len(file)),
           NEW can \in SUBSET records, NEW values
    PROVE  Raising(table, file, records, can, values) = records \ Winners(table, file, can)
<1> SUFFICES ASSUME NEW i \in can
             PROVE  file[i].id \in DOMAIN RowByRow(table, file, can, values)[i - 1]
                      <=> i \notin Winners(table, file, can)
  BY DEF Raising, Winners
<1> DEFINE before == UpTo(can, i - 1)
<1>1. before = {j \in can : j < i}
  BY DEF UpTo
<1>2. RowByRow(table, file, can, values)[i - 1] = Taking(table, file, before, values)
  <2>1. can \in SUBSET (1 .. Len(file)) /\ i - 1 \in 0 .. Len(file)
    OBVIOUS
  <2> QED
    BY <2>1, LoopTakes
<1> HIDE DEF before
<1>3. before \in SUBSET Int /\ before \in SUBSET Nat /\ can \subseteq Nat
  BY <1>1
<1>4. ASSUME file[i].id \in DOMAIN Taking(table, file, before, values)
      PROVE  i \notin Winners(table, file, can)
  <2>1. file[i].id \in DOMAIN table \/ \E j \in before : file[j].id = file[i].id
    <3>1. Takes(Taking(table, file, before, values), table, file, before, values)
      BY <1>3, TakingIs
    <3> QED
      BY <1>4, <3>1 DEF Takes, Winners
  <2> QED
    BY <1>1, <1>3, <2>1 DEF Winners
<1>5. ASSUME i \notin Winners(table, file, can)
      PROVE  file[i].id \in DOMAIN Taking(table, file, before, values)
  <2>1. file[i].id \in DOMAIN table \/ \E j \in can : file[j].id = file[i].id /\ ~ (i <= j)
    BY <1>5 DEF Winners
  <2>2. file[i].id \in DOMAIN table \/ \E j \in before : file[j].id = file[i].id
    BY <1>1, <1>3, <2>1
  <2>3. Takes(Taking(table, file, before, values), table, file, before, values)
    BY <1>3, TakingIs
  <2>4. \A j \in before : file[j].id \in DOMAIN Taking(table, file, before, values)
    BY <1>3, KeysAreTaken
  <2> QED
    BY <2>2, <2>3, <2>4 DEF Takes
<1> QED
  BY <1>2, <1>4, <1>5

\* A file cut in two makes the same rows as in one piece.
LEMMA PiecesAddUp ==
    ASSUME NEW table, NEW file, NEW values, NEW A \in SUBSET Nat, NEW B \in SUBSET Nat,
           \A a \in A, b \in B : a < b
    PROVE  Taking(Taking(table, file, A, values), file, B, values)
             = Taking(table, file, A \cup B, values)
<1> DEFINE T == Taking(table, file, A, values)
           W == Taking(T, file, B, values)
<1>1. A \in SUBSET Int /\ B \in SUBSET Int /\ A \cup B \in SUBSET Int
  OBVIOUS
<1>2. Takes(T, table, file, A, values) /\ Takes(W, T, file, B, values)
  BY <1>1, TakingIs
<1>3. \A i \in A : file[i].id \in DOMAIN T
  BY KeysAreTaken
<1> HIDE DEF T, W
<1>4. \A k : k \in DOMAIN T <=> k \in DOMAIN table \/ \E a \in A : k = file[a].id
  BY <1>2, <1>3 DEF Takes, Winners
<1>5. Winners(table, file, A \cup B) = Winners(table, file, A) \cup Winners(T, file, B)
  <2>1. ASSUME NEW i \in A
        PROVE  i \in Winners(table, file, A \cup B) <=> i \in Winners(table, file, A)
    <3>1. \A b \in B : i <= b
      BY <2>1
    <3> QED
      BY <2>1, <3>1 DEF Winners
  <2>2. ASSUME NEW i \in B
        PROVE  i \in Winners(table, file, A \cup B) <=> i \in Winners(T, file, B)
    <3>1. \A a \in A : ~ (i <= a)
      BY <2>2
    <3> QED
      BY <1>4, <2>2, <3>1 DEF Winners
  <2>3. A \cap B = {}
    OBVIOUS
  <2>4. /\ Winners(table, file, A \cup B) \subseteq A \cup B
        /\ Winners(table, file, A) \subseteq A
        /\ Winners(T, file, B) \subseteq B
    BY DEF Winners
  <2> QED
    BY <2>1, <2>2, <2>3, <2>4
<1>6. Takes(W, table, file, A \cup B, values)
  BY <1>2, <1>5 DEF Takes
<1> QED
  BY <1>1, <1>6, IsTaking DEF T, W

-----------------------------------------------------------------------------
(* The inductive invariant.                                                *)

IsFunction(table) == table = [k \in DOMAIN table |-> table[k]]

TablesAreFunctions == IsFunction(departments) /\ IsFunction(jobs) /\ IsFunction(employees)

\* Whatever no chunk has to take any more is accounted for.
TakenAreAccounted == \A i \in DOMAIN lines \ todo : Accounted(i)

\* Of a size that is not positive nothing is ever written or reported.
NoSizeNoRows == size <= 0 => DOMAIN employees = {} /\ errors = DOMAIN lines \ Records(lines)

\* The loop ends with its records, but for a negative size.
CompletedTookAll == status = "completed" => todo = {} \/ size < 0

IInv ==
    /\ TypeOK
    /\ TablesAreFunctions
    /\ IsFiniteSet(DOMAIN employees)
    /\ TakenAreAccounted
    /\ NoSizeNoRows
    /\ CompletedTookAll

LEMMA InitIInv == Init => IInv
<1> SUFFICES ASSUME Init PROVE IInv
  OBVIOUS
<1>1. DOMAIN employees = {} /\ DOMAIN departments = {} /\ DOMAIN jobs = {} /\ DOMAIN lines = {}
  BY DEF Init
<1>2. TypeOK
  BY <1>1 DEF Init, TypeOK
<1>3. IsFiniteSet(DOMAIN employees)
  BY <1>1, FS_EmptySet
<1>4. TablesAreFunctions
  <2>1. IsFunction(<< >>)
    BY DEF IsFunction
  <2> QED
    BY <2>1 DEF Init, TablesAreFunctions
<1> QED
  BY <1>1, <1>2, <1>3, <1>4 DEF Init, IInv, TakenAreAccounted, NoSizeNoRows, Records, CompletedTookAll

\* An upload of departments or jobs keeps the invariant.
LEMMA ReferenceKeeps ==
    ASSUME IInv, UNCHANGED <<employees, size, batch>>,
           DOMAIN departments \subseteq DOMAIN departments', DOMAIN departments' \subseteq Int,
           DOMAIN jobs \subseteq DOMAIN jobs', DOMAIN jobs' \subseteq Int,
           IsFunction(departments)', IsFunction(jobs)'
    PROVE  IInv'
BY DEF IInv, TypeOK, TablesAreFunctions, IsFunction, TakenAreAccounted, Accounted, NoSizeNoRows, Records,
       CompletedTookAll, batch

\* Rows of a chunk keep it, if the lines taken with them are in the table or reported.
LEMMA ChunkKeeps ==
    ASSUME IInv, NEW chunk \in SUBSET DOMAIN lines, employees' = Hired(chunk),
           UNCHANGED <<departments, jobs, size, lines>>, size > 0,
           status' \in {"pending", "failed"},
           todo' \subseteq todo, errors \subseteq errors', errors' \subseteq DOMAIN lines,
           \A i \in todo \ todo' : i \in errors' \/ i \in chunk \ Reported(chunk)
    PROVE  IInv'
<1> DEFINE Won == Winners(employees, lines, Hireable(chunk))
<1>1. Won \subseteq chunk /\ \A i \in Won : lines[i] \in HiredRow /\ Resolves(lines[i].hire)
  BY DEF Winners, Hireable, Fitting, IInv, TypeOK
<1>2. /\ DOMAIN employees \subseteq DOMAIN employees'
      /\ \A k \in DOMAIN employees : employees'[k] = employees[k]
      /\ \A i \in Won : lines[i].id \in DOMAIN employees' /\ employees'[lines[i].id] = lines[i].hire
      /\ \A k \in DOMAIN employees' \ DOMAIN employees :
           \E i \in Won : k = lines[i].id /\ employees'[k] = lines[i].hire
  BY HiredKeeps DEF IInv
<1>3. TypeOK'
  BY <1>1, <1>2 DEF IInv, TypeOK, Resolves, HiredRow
<1>4. IsFiniteSet(DOMAIN employees')
  <2> DEFINE f == [i \in Won |-> lines[i].id]
             New == {lines[i].id : i \in Won}
  <2>1. IsFiniteSet(DOMAIN lines)
    <3>1. lines \in Seq(HiredRow)
      BY DEF IInv, TypeOK
    <3>2. DOMAIN lines = 1 .. Len(lines) /\ Len(lines) \in Nat
      BY <3>1
    <3> QED
      BY <3>2, FS_Interval
  <2>2. IsFiniteSet(Won)
    BY <1>1, <2>1, FS_Subset
  <2>3. f \in Surjection(Won, New)
    BY DEF Surjection
  <2>4. IsFiniteSet(New)
    BY <2>2, <2>3, FS_Surjection
  <2>5. DOMAIN employees' = DOMAIN employees \cup New
    <3>1. \A k \in DOMAIN employees' \ DOMAIN employees : k \in New
      BY <1>2
    <3>2. \A k \in New : k \in DOMAIN employees'
      BY <1>2
    <3> HIDE DEF New
    <3> QED
      BY <1>2, <3>1, <3>2
  <2>6. IsFiniteSet(DOMAIN employees)
    BY DEF IInv
  <2> HIDE DEF New
  <2> QED
    BY <2>4, <2>5, <2>6, FS_Union
<1>5. TakenAreAccounted'
  <2> SUFFICES ASSUME NEW i \in DOMAIN lines \ todo' PROVE Accounted(i)'
    BY DEF TakenAreAccounted
  <2>1. CASE i \notin todo
    BY <1>2, <2>1 DEF IInv, TakenAreAccounted, Accounted
  <2>2. CASE i \in todo
    <3>1. i \in errors' \/ i \in Won
      BY <2>2 DEF Reported
    <3> QED
      BY <1>2, <3>1 DEF Accounted
  <2> QED
    BY <2>1, <2>2
<1>6. CompletedTookAll'
  BY DEF CompletedTookAll
<1>7. TablesAreFunctions'
  BY DEF IInv, TablesAreFunctions, IsFunction, Hired
<1>8. NoSizeNoRows'
  BY SizesAssumption DEF NoSizeNoRows, IInv, TypeOK
<1> QED
  BY <1>3, <1>4, <1>5, <1>6, <1>7, <1>8 DEF IInv

LEMMA Inductive == IInv /\ [Next]_vars => IInv'
<1> SUFFICES ASSUME IInv, [Next]_vars PROVE IInv'
  OBVIOUS
<1>1. CASE UNCHANGED vars
  BY <1>1 DEF vars, tables, batch, IInv, TypeOK, TablesAreFunctions, IsFunction, TakenAreAccounted, Accounted, NoSizeNoRows, CompletedTookAll
<1>2. ASSUME NEW file \in DepartmentFiles, IngestDepartments(file) PROVE IInv'
  <2>1. IsFunction(departments)' /\ IsFunction(jobs)'
    BY <1>2 DEF IngestDepartments, Inserted, IsFunction, IInv, TablesAreFunctions
  <2> QED
    BY <1>2, <2>1, InsertedKeeps, ReferenceKeeps, FilesAssumption DEF IngestDepartments, IInv, TypeOK
<1>3. ASSUME NEW file \in JobFiles, IngestJobs(file) PROVE IInv'
  <2>1. IsFunction(departments)' /\ IsFunction(jobs)'
    BY <1>3 DEF IngestJobs, Inserted, IsFunction, IInv, TablesAreFunctions
  <2> QED
    BY <1>3, <2>1, InsertedKeeps, ReferenceKeeps, FilesAssumption DEF IngestJobs, IInv, TypeOK
<1>4. ASSUME NEW file \in EmployeeFiles, IngestEmployees(file) PROVE IInv'
  <2>1. file \in Seq(HiredRow)
    BY FilesAssumption
  <2> QED
    BY <1>4, <2>1 DEF IngestEmployees, Records, tables, IInv, TypeOK, TablesAreFunctions, IsFunction,
                      TakenAreAccounted, Accounted, NoSizeNoRows, CompletedTookAll
<1>5. CASE NoChunks
  BY <1>5 DEF NoChunks, tables, IInv, TypeOK, TablesAreFunctions, IsFunction, TakenAreAccounted, Accounted, NoSizeNoRows, CompletedTookAll
<1>6. CASE WriteChunk
  <2>1. Chunk \in SUBSET DOMAIN lines /\ Reported(Chunk) \subseteq DOMAIN lines
    BY DEF Chunk, First, Reported, IInv, TypeOK
  <2>2. \A i \in todo \ todo' : i \in errors' \/ i \in Chunk \ Reported(Chunk)
    BY <1>6 DEF WriteChunk, Chunk
  <2> QED
    BY <1>6, <2>1, <2>2, ChunkKeeps DEF WriteChunk, HasChunk, IInv, TypeOK
<1>7. CASE WriteFails
  <2>1. PICK n \in 0 .. size - 1 : employees' = Hired(Chunk \cap First(n))
    BY <1>7 DEF WriteFails
  <2>2. Chunk \cap First(n) \in SUBSET DOMAIN lines
    BY DEF Chunk, First, IInv, TypeOK
  <2> QED
    BY <1>7, <2>1, <2>2, ChunkKeeps DEF WriteFails, HasChunk, IInv, TypeOK
<1>8. CASE Finalize
  BY <1>8, SizesAssumption
    DEF Finalize, tables, IInv, TypeOK, TablesAreFunctions, IsFunction, TakenAreAccounted,
        Accounted, NoSizeNoRows, Records, CompletedTookAll
<1> QED
  BY <1>1, <1>2, <1>3, <1>4, <1>5, <1>6, <1>7, <1>8 DEF Next

THEOREM Invariance == Spec => []IInv
BY InitIInv, Inductive, PTL DEF Spec

\* The types, and that the department and the job of every hire exist.
THEOREM TypeCorrect == Spec => []TypeOK
<1>1. IInv => TypeOK
  BY DEF IInv
<1> QED
  BY <1>1, Invariance, PTL

\* Whatever the files: with a size that is not negative a completed batch accounts for
\* each of its lines, with a negative one for exactly those that are no records.
THEOREM CompletedAccounts == Spec => []OnlyNegativeSizesLoseLines
<1>1. ASSUME IInv, status = "completed", NEW i \in DOMAIN lines
      PROVE  Accounted(i) <=> size >= 0 \/ i \notin Records(lines)
  <2>1. size \in Int
    BY <1>1, SizesAssumption DEF IInv, TypeOK
  <2>2. CASE size >= 0
    BY <1>1, <2>1, <2>2 DEF IInv, TakenAreAccounted, CompletedTookAll
  <2>3. CASE size < 0
    <3>1. Accounted(i) <=> i \in errors
      BY <1>1, <2>1, <2>3 DEF IInv, NoSizeNoRows, Accounted
    <3> QED
      BY <1>1, <2>1, <2>3, <3>1 DEF IInv, NoSizeNoRows
  <2> QED
    BY <2>1, <2>2, <2>3
<1>2. IInv => OnlyNegativeSizesLoseLines
  BY <1>1 DEF OnlyNegativeSizesLoseLines
<1> QED
  BY <1>2, Invariance, PTL

-----------------------------------------------------------------------------
(* What is written, statement by statement, is what HiringData says.       *)

Names(file) == [i \in DOMAIN file |-> file[i].name]
Hires == [i \in DOMAIN lines |-> lines[i].hire]

\* A whole upload of departments or jobs, and write_employees with what it returns.
WritesAsDeclared ==
    /\ \A file \in DepartmentFiles :
         Written(departments, file, Records(file), Fitting(file), Names(file))
           = Inserted(departments, file)
    /\ \A file \in JobFiles :
         Written(jobs, file, Records(file), Fitting(file), Names(file)) = Inserted(jobs, file)
    /\ \A chunk \in SUBSET DOMAIN lines :
         /\ Written(employees, lines, chunk, Hireable(chunk), Hires) = Hired(chunk)
         /\ Reported(chunk) = IF BulkWorks(employees, lines, chunk, Hireable(chunk))
                                THEN {} ELSE Raising(employees, lines, chunk, Hireable(chunk), Hires)

\* Wherever the loop of write_employees is broken off, and however a file is cut.
PartsAsDeclared ==
    /\ \A chunk \in SUBSET DOMAIN lines : \A n \in 0 .. Len(lines) :
         RowByRow(employees, lines, Hireable(chunk), Hires)[n] = Hired({i \in chunk : i <= n})
    /\ \A A, B \in SUBSET DOMAIN lines :
         (\A a \in A, b \in B : a < b) =>
           Taking(Hired(A), lines, Hireable(B), Hires) = Hired(A \cup B)

LEMMA InsertedIs ==
    ASSUME NEW table, NEW file \in Seq(NamedRow)
    PROVE  Inserted(table, file) = Taking(table, file, Fitting(file), Names(file))
<1>1. ASSUME NEW k \in KeysAfter(table, file, Fitting(file)), k \notin DOMAIN table
      PROVE  Winner(table, file, Fitting(file), k) \in DOMAIN file
  <2>1. PICK i \in Winners(table, file, Fitting(file)) : k = file[i].id
    BY <1>1 DEF KeysAfter
  <2>2. Winner(table, file, Fitting(file), k) \in Winners(table, file, Fitting(file))
    BY <2>1 DEF Winner
  <2> QED
    BY <2>2 DEF Winners, Fitting
<1> QED
  BY <1>1 DEF Inserted, Taking, Names

LEMMA HiredIs ==
    ASSUME NEW chunk \in SUBSET DOMAIN lines
    PROVE  Hired(chunk) = Taking(employees, lines, Hireable(chunk), Hires)
<1>1. ASSUME NEW k \in KeysAfter(employees, lines, Hireable(chunk)), k \notin DOMAIN employees
      PROVE  Winner(employees, lines, Hireable(chunk), k) \in DOMAIN lines
  <2>1. PICK i \in Winners(employees, lines, Hireable(chunk)) : k = lines[i].id
    BY <1>1 DEF KeysAfter
  <2>2. Winner(employees, lines, Hireable(chunk), k)
          \in Winners(employees, lines, Hireable(chunk))
    BY <2>1 DEF Winner
  <2> QED
    BY <2>2 DEF Winners, Hireable
<1> QED
  BY <1>1 DEF Hired, Taking, Hires

\* In every state, the bulk INSERT with its row-by-row fallback makes the tables, and
\* write_employees the report, that the steps of HiringData have: the fast path and the
\* slow one insert the same rows.
THEOREM WritesAreAsDeclared == Spec => []WritesAsDeclared
<1>1. ASSUME NEW table, IsFunction(table), NEW file \in Seq(NamedRow)
      PROVE  Written(table, file, Records(file), Fitting(file), Names(file))
               = Inserted(table, file)
  <2>1. Len(file) \in Nat /\ Records(file) \in SUBSET (1 .. Len(file))
    BY DEF Records
  <2>2. Fitting(file) \in SUBSET Records(file)
    BY DEF Fitting, Records
  <2> QED
    BY <1>1, <2>1, <2>2, WrittenIsTaking, InsertedIs DEF IsFunction
<1>2. ASSUME IInv, NEW chunk \in SUBSET DOMAIN lines
      PROVE  /\ Written(employees, lines, chunk, Hireable(chunk), Hires) = Hired(chunk)
             /\ Reported(chunk)
                  = IF BulkWorks(employees, lines, chunk, Hireable(chunk))
                      THEN {} ELSE Raising(employees, lines, chunk, Hireable(chunk), Hires)
  <2>1. Len(lines) \in Nat /\ chunk \in SUBSET (1 .. Len(lines)) /\ employees = [k \in DOMAIN employees |-> employees[k]]
    BY <1>2 DEF IInv, TypeOK, TablesAreFunctions, IsFunction
  <2>2. Hireable(chunk) \in SUBSET chunk
    BY DEF Hireable
  <2>3. Written(employees, lines, chunk, Hireable(chunk), Hires) = Hired(chunk)
    BY <2>1, <2>2, WrittenIsTaking, HiredIs
  <2>4. Raising(employees, lines, chunk, Hireable(chunk), Hires) = Reported(chunk)
    BY <2>1, <2>2, RaisingAreTheOthers DEF Reported
  <2>5. BulkWorks(employees, lines, chunk, Hireable(chunk)) => Reported(chunk) = {}
    BY <2>1, <2>2 DEF BulkWorks, Reported, Winners
  <2> QED
    BY <2>3, <2>4, <2>5
<1>3. IInv => WritesAsDeclared
  BY <1>1, <1>2, FilesAssumption DEF WritesAsDeclared, IInv, TablesAreFunctions
<1> QED
  BY <1>3, Invariance, PTL

\* In every state, what write_employees leaves when it is broken off is what HiringData's
\* WriteFails has, and a file that is cut into chunks makes the rows it makes in one piece:
\* while departments and jobs stay as they are, the chunk size decides nothing.
THEOREM PartsAreAsDeclared == Spec => []PartsAsDeclared
<1>1. ASSUME IInv, NEW chunk \in SUBSET DOMAIN lines, NEW n \in 0 .. Len(lines)
      PROVE  RowByRow(employees, lines, Hireable(chunk), Hires)[n] = Hired({i \in chunk : i <= n})
  <2>1. Len(lines) \in Nat /\ Hireable(chunk) \in SUBSET (1 .. Len(lines)) /\ employees = [k \in DOMAIN employees |-> employees[k]]
    BY <1>1 DEF IInv, TypeOK, TablesAreFunctions, IsFunction, Hireable, Fitting
  <2>2. UpTo(Hireable(chunk), n) = Hireable({i \in chunk : i <= n})
    BY DEF UpTo, Hireable
  <2> QED
    BY <2>1, <2>2, LoopTakes, HiredIs
<1>2. ASSUME IInv, NEW A \in SUBSET DOMAIN lines, NEW B \in SUBSET DOMAIN lines,
             \A a \in A, b \in B : a < b
      PROVE  Taking(Hired(A), lines, Hireable(B), Hires) = Hired(A \cup B)
  <2>1. /\ Hireable(A) \in SUBSET Nat /\ Hireable(B) \in SUBSET Nat
        /\ Hireable(A) \subseteq A /\ Hireable(B) \subseteq B
        /\ Hireable(A \cup B) = Hireable(A) \cup Hireable(B)
    BY <1>2 DEF IInv, TypeOK, Hireable, Fitting
  <2>2. Hired(A) = Taking(employees, lines, Hireable(A), Hires)
    BY HiredIs
  <2>3. Hired(A \cup B) = Taking(employees, lines, Hireable(A) \cup Hireable(B), Hires)
    BY <2>1, HiredIs
  <2> QED
    BY <1>2, <2>1, <2>2, <2>3, PiecesAddUp
<1>3. IInv => PartsAsDeclared
  BY <1>1, <1>2 DEF PartsAsDeclared
<1> QED
  BY <1>3, Invariance, PTL

-----------------------------------------------------------------------------
(* Rows stay: what this means for the metrics.                             *)

Grows(table, later) ==
    DOMAIN table \subseteq DOMAIN later /\ \A k \in DOMAIN table : later[k] = table[k]

LEMMA RowsStay ==
    ASSUME IInv, [Next]_vars
    PROVE  Grows(departments, departments') /\ Grows(jobs, jobs') /\ Grows(employees, employees')
<1>1. CASE tables' = tables
  BY <1>1 DEF tables, Grows
<1>2. ASSUME NEW file \in DepartmentFiles, IngestDepartments(file) PROVE Grows(departments, departments')
  BY <1>2, InsertedKeeps, FilesAssumption DEF IngestDepartments, IInv, TypeOK, Grows
<1>3. ASSUME NEW file \in JobFiles, IngestJobs(file) PROVE Grows(jobs, jobs')
  BY <1>3, InsertedKeeps, FilesAssumption DEF IngestJobs, IInv, TypeOK, Grows
<1>4. CASE WriteChunk
  <2>1. Chunk \in SUBSET DOMAIN lines
    BY DEF Chunk, First, IInv, TypeOK
  <2> QED
    BY <1>4, <2>1, HiredKeeps DEF WriteChunk, IInv, Grows
<1>5. CASE WriteFails
  <2>1. PICK n \in 0 .. size - 1 : employees' = Hired(Chunk \cap First(n))
    BY <1>5 DEF WriteFails
  <2>2. Chunk \cap First(n) \in SUBSET DOMAIN lines
    BY DEF Chunk, First, IInv, TypeOK
  <2> QED
    BY <1>5, <2>1, <2>2, HiredKeeps DEF WriteFails, IInv, Grows
<1> QED
  BY <1>1, <1>2, <1>3, <1>4, <1>5
    DEF Next, vars, tables, IngestDepartments, IngestJobs, IngestEmployees, NoChunks, Finalize, Grows

\* A hire keeps its place in the metrics as long as rows only come.
LEMMA HiresKeepTheirGroup ==
    ASSUME TypeOK, Grows(departments, departments'), Grows(jobs, jobs'), Grows(employees, employees')
    PROVE  /\ HiredIn2021 = HiredIn2021' \cap DOMAIN employees
           /\ HiredForJob = HiredForJob' \cap DOMAIN employees
           /\ \A e \in HiredForJob : GroupOf(e)' = GroupOf(e)
           /\ \A q \in DOMAIN Quarters : \A g : GroupIn(q, g) = GroupIn(q, g)' \cap DOMAIN employees
<1>1. HiredIn2021 = HiredIn2021' \cap DOMAIN employees
  BY DEF HiredIn2021, Grows, TypeOK
<1>2. HiredForJob = HiredForJob' \cap DOMAIN employees
  BY <1>1 DEF HiredForJob, HiredIn2021, Grows, TypeOK
<1>3. \A e \in HiredForJob : GroupOf(e)' = GroupOf(e) /\ employees'[e] = employees[e]
  BY DEF GroupOf, HiredForJob, HiredIn2021, Grows
<1>4. ASSUME NEW q \in DOMAIN Quarters, NEW g
      PROVE  GroupIn(q, g) = GroupIn(q, g)' \cap DOMAIN employees
  BY <1>2, <1>3 DEF GroupIn
<1> QED
  BY <1>1, <1>2, <1>3, <1>4

\* departments and jobs can be uploaded without a word to the cache.
THEOREM ReferenceUploadsLeaveMetrics == Spec => ReferenceUploadsKeepMetrics
<1>1. ASSUME IInv, [Next]_vars, employees' = employees
      PROVE  /\ HiresByQuarter' = HiresByQuarter
             /\ DeptHires' = DeptHires
             /\ DepartmentsAboveMean' = DepartmentsAboveMean
  <2>1. /\ HiredIn2021' = HiredIn2021 /\ HiredForJob' = HiredForJob
        /\ \A e \in HiredForJob : GroupOf(e)' = GroupOf(e)
        /\ \A q \in DOMAIN Quarters : \A g : GroupIn(q, g)' = GroupIn(q, g)
    BY <1>1, RowsStay, HiresKeepTheirGroup DEF IInv, HiredIn2021, HiredForJob, GroupIn
  <2>2. HiresByQuarter' = HiresByQuarter
    BY <2>1 DEF HiresByQuarter, Quarters
  <2>3. DeptHires' = DeptHires
    BY <1>1, <2>1 DEF DeptHires, HiresOf
  <2>4. DepartmentsAboveMean' = DepartmentsAboveMean
    BY <2>1, <2>3 DEF DepartmentsAboveMean, AboveMean
  <2> QED
    BY <2>2, <2>3, <2>4
<1> QED
  BY <1>1, Invariance, PTL DEF Spec, ReferenceUploadsKeepMetrics

\* No upload lowers a number of hires-by-quarter.
THEOREM CountsNeverShrink == Spec => CountsOnlyGrow
<1> DEFINE Grown == \A g \in DOMAIN HiresByQuarter :
                      /\ g \in DOMAIN HiresByQuarter'
                      /\ \A q \in DOMAIN Quarters : HiresByQuarter[g][q] <= HiresByQuarter'[g][q]
<1>1. ASSUME IInv, IInv', [Next]_vars PROVE Grown
  <2>1. /\ HiredForJob \subseteq HiredForJob'
        /\ \A e \in HiredForJob : GroupOf(e)' = GroupOf(e)
        /\ \A q \in DOMAIN Quarters : \A g : GroupIn(q, g) \subseteq GroupIn(q, g)'
    BY <1>1, RowsStay, HiresKeepTheirGroup DEF IInv
  <2>2. ASSUME NEW g \in DOMAIN HiresByQuarter PROVE g \in DOMAIN HiresByQuarter'
    BY <2>1 DEF HiresByQuarter
  <2>3. ASSUME NEW g \in DOMAIN HiresByQuarter, NEW q \in DOMAIN Quarters
        PROVE  HiresByQuarter[g][q] <= HiresByQuarter'[g][q]
    <3>1. IsFiniteSet(GroupIn(q, g)')
      <4>1. GroupIn(q, g)' \subseteq DOMAIN employees'
        BY DEF GroupIn, HiredForJob, HiredIn2021
      <4> QED
        BY <1>1, <4>1, FS_Subset DEF IInv
    <3>2. Cardinality(GroupIn(q, g)) <= Cardinality(GroupIn(q, g)')
      BY <2>1, <3>1, FS_Subset
    <3>3. HiresByQuarter[g][q] = Cardinality(GroupIn(q, g))
      BY DEF HiresByQuarter
    <3>4. HiresByQuarter'[g][q] = Cardinality(GroupIn(q, g)')
      BY <2>2 DEF HiresByQuarter, Quarters
    <3> QED
      BY <3>2, <3>3, <3>4
  <2> QED
    BY <2>2, <2>3
<1>2. IInv /\ IInv' /\ [Next]_vars => [Grown]_vars
  BY <1>1
<1> QED
  BY <1>2, Invariance, PTL DEF Spec, CountsOnlyGrow

-----------------------------------------------------------------------------
(* What the metrics add up to.                                             *)

\* The hires of a line of hires-by-quarter.
HiresIn(g) == {e \in HiredForJob : GroupOf(e) = g}

LEMMA HiresAreFinite ==
    ASSUME IInv
    PROVE  /\ IsFiniteSet(HiredForJob) /\ IsFiniteSet(HiredIn2021)
           /\ \A T \in SUBSET HiredForJob : IsFiniteSet(T)
           /\ \A T \in SUBSET HiredIn2021 : IsFiniteSet(T)
           /\ HiredForJob = HiredIn2021
           /\ HiredIn2021 = {e \in DOMAIN employees : employees[e].year = 2021}
<1>1. /\ HiredForJob = HiredIn2021
      /\ HiredIn2021 = {e \in DOMAIN employees : employees[e].year = 2021}
  BY DEF HiredForJob, HiredIn2021, IInv, TypeOK
<1>2. IsFiniteSet(HiredForJob) /\ IsFiniteSet(HiredIn2021)
  <2>1. HiredForJob \in SUBSET DOMAIN employees /\ HiredIn2021 \in SUBSET DOMAIN employees
    BY DEF HiredForJob, HiredIn2021
  <2> QED
    BY <2>1, FS_Subset DEF IInv
<1> QED
  BY <1>1, <1>2, FS_Subset

\* A month is in one quarter.
LEMMA QuartersPartition ==
    /\ DOMAIN Quarters = 1 .. 4
    /\ \A m \in 1..12 : \E q \in 1 .. 4 : m \in Quarters[q]
    /\ \A p, q \in 1 .. 4 : p # q => Quarters[p] \cap Quarters[q] = {}
<1>1. 1 .. 4 = {1, 2, 3, 4}
  OBVIOUS
<1>2. Quarters[1] = 1..3 /\ Quarters[2] = 4..6 /\ Quarters[3] = 7..9 /\ Quarters[4] = 10..12
  BY DEF Quarters
<1>3. ASSUME NEW m \in 1..12 PROVE m \in Quarters[1] \/ m \in Quarters[2] \/ m \in Quarters[3] \/ m \in Quarters[4]
  BY <1>2
<1>4. DOMAIN Quarters = 1 .. 4
  BY DEF Quarters
<1>5. /\ Quarters[1] \cap Quarters[2] = {} /\ Quarters[1] \cap Quarters[3] = {}
      /\ Quarters[1] \cap Quarters[4] = {} /\ Quarters[2] \cap Quarters[3] = {}
      /\ Quarters[2] \cap Quarters[4] = {} /\ Quarters[3] \cap Quarters[4] = {}
  BY <1>2
<1> QED
  BY <1>1, <1>3, <1>4, <1>5

LEMMA LinesAddUp ==
    ASSUME IInv, NEW g \in DOMAIN HiresByQuarter
    PROVE  HiresInYear[g] = Cardinality(HiresIn(g))
<1> DEFINE F == [q \in 1 .. 4 |-> GroupIn(q, g)]
<1>1. \A q \in 1 .. 4 : IsFiniteSet(F[q]) /\ HiresByQuarter[g][q] = Cardinality(F[q])
  <2>1. \A q \in 1 .. 4 : GroupIn(q, g) \in SUBSET HiredForJob
    BY DEF GroupIn
  <2> QED
    BY <2>1, HiresAreFinite, QuartersPartition DEF HiresByQuarter
<1>2. \A p, q \in 1 .. 4 : p # q => F[p] \cap F[q] = {}
  BY QuartersPartition DEF GroupIn
<1>3. \A e : e \in HiresIn(g) <=> \E q \in 1 .. 4 : e \in F[q]
  <2>1. \A e \in HiredForJob : employees[e].month \in 1..12
    BY DEF HiredForJob, HiredIn2021, IInv, TypeOK, Hire
  <2> QED
    BY <2>1, QuartersPartition DEF GroupIn, HiresIn
<1>4. IsFiniteSet(1 .. 4)
  <2>1. 1 \in Int /\ 4 \in Int
    OBVIOUS
  <2> QED
    BY <2>1, FS_Interval, Zenon
<1>5. SumFunctionOnSet(HiresByQuarter[g], 1 .. 4) = Cardinality(HiresIn(g))
  <2> DEFINE D == 1 .. 4
             f == HiresByQuarter[g]
             U == HiresIn(g)
  <2>1. /\ IsFiniteSet(D)
        /\ \A q \in D : IsFiniteSet(F[q]) /\ f[q] = Cardinality(F[q])
        /\ \A p, q \in D : p # q => F[p] \cap F[q] = {}
        /\ \A e : e \in U <=> \E q \in D : e \in F[q]
    BY <1>1, <1>2, <1>3, <1>4
  <2> HIDE DEF D, F, f, U
  <2>2. SumFunctionOnSet(f, D) = Cardinality(U)
    BY <2>1, SumOfCardinalities
  <2> QED
    BY <2>2 DEF D, f, U
<1>6. DOMAIN HiresByQuarter[g] = 1 .. 4
  BY QuartersPartition DEF HiresByQuarter
<1> QED
  BY <1>5, <1>6 DEF HiresInYear, SumFunction

\* The lines of some groups together count the hires of these groups.
LEMMA LinesCount ==
    ASSUME IInv, NEW S \in SUBSET DOMAIN HiresByQuarter
    PROVE  SumFunctionOnSet(HiresInYear, S) = Cardinality({e \in HiredForJob : GroupOf(e) \in S})
<1> DEFINE F == [g \in S |-> HiresIn(g)]
<1>1. \A g \in S : IsFiniteSet(F[g]) /\ HiresInYear[g] = Cardinality(F[g])
  <2>1. \A g \in S : HiresIn(g) \in SUBSET HiredForJob
    BY DEF HiresIn
  <2> QED
    BY <2>1, HiresAreFinite, LinesAddUp
<1>2. \A g, h \in S : g # h => F[g] \cap F[h] = {}
  BY DEF HiresIn
<1> DEFINE U == {e \in HiredForJob : GroupOf(e) \in S}
<1>3. \A e : e \in U <=> \E g \in S : e \in F[g]
  BY DEF HiresIn
<1>4. IsFiniteSet(S)
  <2> DEFINE All == {GroupOf(e) : e \in HiredForJob}
             f == [e \in HiredForJob |-> GroupOf(e)]
  <2>1. f \in Surjection(HiredForJob, All)
    BY DEF Surjection
  <2>2. IsFiniteSet(All)
    BY <2>1, HiresAreFinite, FS_Surjection
  <2>3. S \in SUBSET All
    BY DEF HiresByQuarter
  <2> HIDE DEF All
  <2> QED
    BY <2>2, <2>3, FS_Subset
<1> HIDE DEF F, U
<1>5. SumFunctionOnSet(HiresInYear, S) = Cardinality(U)
  BY <1>1, <1>2, <1>3, <1>4, SumOfCardinalities
<1> QED
  BY <1>5 DEF U

\* hires-by-quarter adds up to the hires of 2021.
THEOREM EveryHireCounted == Spec => []EveryHireCountedOnce
<1>1. ASSUME IInv PROVE EveryHireCountedOnce
  <2>1. DOMAIN HiresInYear = DOMAIN HiresByQuarter
    BY DEF HiresInYear
  <2>2. {e \in HiredForJob : GroupOf(e) \in DOMAIN HiresByQuarter} = HiredForJob
    BY DEF HiresByQuarter
  <2>3. SumFunctionOnSet(HiresInYear, DOMAIN HiresByQuarter) = Cardinality(HiredForJob)
    BY <1>1, <2>2, LinesCount
  <2> QED
    BY <1>1, <2>1, <2>3, HiresAreFinite DEF EveryHireCountedOnce, SumFunction
<1>2. IInv => EveryHireCountedOnce
  BY <1>1
<1> QED
  BY <1>2, Invariance, PTL

\* Only finitely many departments hired, and the numbers of some of them together count
\* the hires of these.
LEMMA DepartmentsCount ==
    ASSUME IInv, NEW S \in SUBSET DOMAIN DeptHires
    PROVE  /\ IsFiniteSet(S)
           /\ SumFunctionOnSet(DeptHires, S)
                = Cardinality({e \in HiredIn2021 : employees[e].department_id \in S})
<1> DEFINE F == [d \in S |-> HiresOf(d)]
           U == {e \in HiredIn2021 : employees[e].department_id \in S}
<1>1. \A d \in S : IsFiniteSet(F[d]) /\ DeptHires[d] = Cardinality(F[d])
  <2>1. \A d \in S : HiresOf(d) \in SUBSET HiredIn2021
    BY DEF HiresOf
  <2> QED
    BY <2>1, HiresAreFinite DEF DeptHires
<1>2. \A c, d \in S : c # d => F[c] \cap F[d] = {}
  BY DEF HiresOf
<1>3. \A e : e \in U <=> \E d \in S : e \in F[d]
  BY DEF HiresOf
<1>4. IsFiniteSet(S)
  <2> DEFINE All == {employees[e].department_id : e \in HiredIn2021}
             f == [e \in HiredIn2021 |-> employees[e].department_id]
  <2>1. f \in Surjection(HiredIn2021, All)
    BY DEF Surjection
  <2>2. IsFiniteSet(All)
    BY <2>1, HiresAreFinite, FS_Surjection
  <2>3. S \in SUBSET All
    BY DEF DeptHires
  <2> HIDE DEF All
  <2> QED
    BY <2>2, <2>3, FS_Subset
<1> HIDE DEF F, U
<1>5. SumFunctionOnSet(DeptHires, S) = Cardinality(U)
  BY <1>1, <1>2, <1>3, <1>4, SumOfCardinalities
<1> QED
  BY <1>4, <1>5 DEF U

\* The lines of one name in hires-by-quarter and the departments of that name in
\* dept_hires add up to the same number, the hires of these departments.
THEOREM MetricsDoAgree == Spec => []MetricsAgree
<1>1. ASSUME IInv, NEW d \in DOMAIN departments
      PROVE  LinesOf(departments[d]) = HiresOfName(departments[d])
  <2> DEFINE Named == {e \in HiredIn2021 : departments[employees[e].department_id] = departments[d]}
             G == {g \in DOMAIN HiresInYear : g[1] = departments[d]}
             D == {c \in DOMAIN DeptHires : departments[c] = departments[d]}
  <2>1. LinesOf(departments[d]) = Cardinality(Named)
    <3>1. G \in SUBSET DOMAIN HiresByQuarter
      BY DEF HiresInYear
    <3>2. {e \in HiredForJob : GroupOf(e) \in G} = Named
      BY <1>1, HiresAreFinite DEF HiresInYear, HiresByQuarter, GroupOf
    <3> HIDE DEF Named
    <3> QED
      BY <1>1, <3>1, <3>2, LinesCount DEF LinesOf
  <2>2. HiresOfName(departments[d]) = Cardinality(Named)
    <3>1. D \in SUBSET DOMAIN DeptHires
      OBVIOUS
    <3>2. {e \in HiredIn2021 : employees[e].department_id \in D} = Named
      BY DEF DeptHires
    <3> HIDE DEF Named
    <3> QED
      BY <1>1, <3>1, <3>2, DepartmentsCount DEF HiresOfName
  <2> QED
    BY <2>1, <2>2
<1>2. IInv => MetricsAgree
  BY <1>1 DEF MetricsAgree
<1> QED
  BY <1>2, Invariance, PTL

\* Some department is above the mean of the departments that hired unless all of them
\* hired equally.
THEOREM AboveMeanRelative == Spec => []AboveMeanIsRelative
<1>1. ASSUME IInv PROVE AboveMeanIsRelative
  <2> DEFINE D == DOMAIN DeptHires
             n == Cardinality(D)
             m == Cardinality(HiredIn2021)
             F == [d \in D |-> HiresOf(d)]
  <2>1. D = {employees[e].department_id : e \in HiredIn2021}
    BY DEF DeptHires
  <2>2. IsFiniteSet(D)
    BY <1>1, DepartmentsCount
  <2>3. \A d \in D : IsFiniteSet(F[d]) /\ DeptHires[d] = Cardinality(F[d])
    <3>1. \A d \in D : HiresOf(d) \in SUBSET HiredIn2021
      BY DEF HiresOf
    <3> QED
      BY <1>1, <3>1, HiresAreFinite DEF DeptHires
  <2>4. SumFunctionOnSet(DeptHires, D) = m
    <3>1. {e \in HiredIn2021 : employees[e].department_id \in D} = HiredIn2021
      BY <2>1
    <3> HIDE DEF D
    <3> QED
      BY <1>1, <3>1, DepartmentsCount DEF D
  <2>5. /\ n \in Nat /\ m \in Nat
        /\ \A d \in D : DeptHires[d] \in Nat
        /\ \A d \in D : n > 0
    <3> HIDE DEF D, F
    <3> QED
      BY <1>1, <2>2, <2>3, HiresAreFinite, FS_CardinalityType, FS_EmptySet
  <2>6. DepartmentsAboveMean = {} <=> \A d \in D : n * DeptHires[d] <= m
    <3>1. \A d \in D : AboveMean(d) <=> ~ (n * DeptHires[d] <= m)
      <4> SUFFICES ASSUME NEW d \in D PROVE AboveMean(d) <=> ~ (n * DeptHires[d] <= m)
        OBVIOUS
      <4>1. AboveMean(d) <=> DeptHires[d] * n > m
        BY DEF AboveMean
      <4> HIDE DEF D, n, m
      <4> QED
        BY <2>5, <4>1
    <3> QED
      BY <3>1 DEF DepartmentsAboveMean
  <2>7. ASSUME \A d \in D : n * DeptHires[d] <= m, NEW c \in D, NEW d \in D,
               DeptHires[c] < DeptHires[d]
        PROVE  FALSE
    <3> HIDE DEF D, n, m
    <3>1. n * DeptHires[c] < n * DeptHires[d]
      BY <2>5, <2>7
    <3>2. n * DeptHires[c] < m
      BY <2>5, <2>7, <3>1
    <3>3. n * SumFunctionOnSet(DeptHires, D) < m * Cardinality(D)
      BY <2>2, <2>5, <2>7, <3>2, SumAtMost
    <3>4. n * m < m * n
      BY <2>4, <3>3 DEF n
    <3> QED
      BY <2>5, <3>4
  <2>8. ASSUME \A c, d \in D : DeptHires[c] = DeptHires[d], NEW d \in D
        PROVE  n * DeptHires[d] <= m
    <3> HIDE DEF D, n, m
    <3>1. SumFunctionOnSet(DeptHires, D) = DeptHires[d] * Cardinality(D)
      BY <2>2, <2>5, <2>8, SumOfEquals
    <3>2. m = DeptHires[d] * n
      BY <2>4, <3>1 DEF n
    <3> QED
      BY <2>5, <3>2
  <2> HIDE DEF n, m
  <2>9. (\A d \in D : n * DeptHires[d] <= m) <=> \A c, d \in D : DeptHires[c] = DeptHires[d]
    <3> HIDE DEF D
    <3>1. ASSUME \A d \in D : n * DeptHires[d] <= m, NEW c \in D, NEW d \in D
          PROVE  DeptHires[c] = DeptHires[d]
      BY <2>5, <2>7, <3>1
    <3> QED
      BY <2>8, <3>1
  <2> QED
    BY <2>6, <2>9 DEF AboveMeanIsRelative
<1>2. IInv => AboveMeanIsRelative
  BY <1>1
<1> QED
  BY <1>2, Invariance, PTL

=============================================================================
