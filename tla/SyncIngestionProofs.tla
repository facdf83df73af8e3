------------------------ MODULE SyncIngestionProofs ------------------------
(***************************************************************************)
(* Proofs about SyncIngestion.tla, for every set of uploads, every set of  *)
(* files and every limit on their rows.                                    *)
(***************************************************************************)
EXTENDS SyncIngestion, InductionTheorems

\* The rows of a file are numbered by naturals.
LEMMA RowsAreNat ==
    ASSUME TypeOK, NEW u \in Uploads
    PROVE  /\ Rows(u) = 1..Len(content[u].rows)
           /\ Len(content[u].rows) \in Nat
           /\ Rows(u) \subseteq Nat
           /\ Records(u) \subseteq Rows(u)
           /\ \A i \in Rows(u) : Row(u, i) \in RowType
  <1>1. content[u] \in FileType
    BY FilesAssumption DEF TypeOK
  <1>2. content[u].rows \in Seq(RowType)
    BY <1>1 DEF FileType
  <1>3. Rows(u) = 1..Len(content[u].rows)
    BY <1>2 DEF Rows
  <1> QED
    BY <1>2, <1>3 DEF Rows, Row, Records

\* A part of the records of a file is finite, and so has a number of elements.
LEMMA RowsAreFinite ==
    ASSUME TypeOK, NEW u \in Uploads
    PROVE  /\ Cardinality(Records(u)) \in Nat
           /\ \A S \in SUBSET Records(u) : IsFiniteSet(S) /\ Cardinality(S) \in Nat
  <1>1. IsFiniteSet(1..Len(content[u].rows))
    BY RowsAreNat, FS_Interval
  <1>2. \A S \in SUBSET Records(u) : IsFiniteSet(S)
    BY <1>1, RowsAreNat, FS_Subset
  <1> QED
    BY <1>2, FS_CardinalityType

\* The files do not change.
LEMMA RowsKept ==
    ASSUME [Next]_vars
    PROVE  /\ content' = content
           /\ \A u \in Uploads : Rows(u)' = Rows(u) /\ Records(u)' = Records(u)
           /\ \A u \in Uploads : \A i : Row(u, i)' = Row(u, i)
  <1>1. content' = content
    <2>1. ASSUME NEW u \in Uploads, RequestStep(u) PROVE content' = content
      <3>1. CASE ReadFile(u) \/ RefuseFile(u) \/ OpenBatch(u) \/ BulkRow(u) \/
                 BulkRejected(u) \/ BulkCommit(u)
        BY <3>1 DEF ReadFile, RefuseFile, OpenBatch, BulkRow, BulkRejected, BulkCommit
      <3>2. CASE ReopenBatch(u) \/ RowInsert(u) \/ RowRejected(u) \/ Finish(u) \/ Reply(u)
        BY <3>2 DEF ReopenBatch, RowInsert, RowRejected, Finish, Reply
      <3> QED
        BY <2>1, <3>1, <3>2 DEF RequestStep
    <2>2. ASSUME NEW u \in Uploads, RequestFault(u) PROVE content' = content
      BY <2>2
        DEF RequestFault, OpenTimesOut, TryFails, TryUnacknowledged, ReopenFails, RowFails,
            FinishFails, DeadlockVictim
    <2>3. CASE Crash
      BY <2>3 DEF Crash
    <2>4. CASE UNCHANGED vars
      BY <2>4 DEF vars
    <2> QED
      BY <2>1, <2>2, <2>3, <2>4 DEF Next
  <1> QED
    BY <1>1 DEF Rows, Records, Row

-----------------------------------------------------------------------------
(* Type correctness.                                                       *)

LEMMA InitType == Init => TypeOK
  BY DEF Init, TypeOK, Phases, Codes, NoReply

\* Every step keeps the types.
LEMMA TypeStep ==
    ASSUME TypeOK, [Next]_vars
    PROVE  TypeOK'
  <1> USE DEF vars, db, session, locals, TypeOK, Phases, InFlight, Codes
  <1>1. ASSUME NEW u \in Uploads, RequestStep(u) PROVE TypeOK'
    <2>1. CASE ReadFile(u)
      BY <2>1 DEF ReadFile, Goto
    <2>2. CASE RefuseFile(u)
      BY <2>2 DEF RefuseFile, Return, Rollback, Goto
    <2>3. CASE OpenBatch(u)
      BY <2>3 DEF OpenBatch, Goto
    <2>4. CASE BulkRow(u)
      BY <2>4, RowsAreNat DEF BulkRow
    <2>5. CASE BulkRejected(u)
      BY <2>5 DEF BulkRejected, Rollback, Goto
    <2>6. CASE BulkCommit(u)
      BY <2>6, RowsAreFinite
        DEF BulkCommit, BulkReady, Commit, Return, Rollback, Goto
    <2>7. CASE ReopenBatch(u)
      BY <2>7, RowsAreNat DEF ReopenBatch, Goto
    <2>8. CASE RowInsert(u)
      BY <2>8, RowsAreNat DEF RowInsert, RowReady
    <2>9. CASE RowRejected(u)
      BY <2>9 DEF RowRejected, RowClash
    <2>10. CASE Finish(u)
      BY <2>10 DEF Finish, Commit, Return, Rollback, Goto
    <2>11. CASE Reply(u)
      <3>1. Rows(u) \ Records(u) \subseteq Nat
        BY RowsAreNat
      <3>2. reply[u].errors \cup (Rows(u) \ Records(u)) \subseteq Nat
        BY <3>1
      <3>3. reply'[u] \in [code : Codes, created : Nat, errors : SUBSET Nat]
        BY <2>11, <3>2 DEF Reply
      <3> QED
        BY <2>11, <3>3 DEF Reply, Goto
    <2> QED
      BY <1>1, <2>1, <2>2, <2>3, <2>4, <2>5, <2>6, <2>7, <2>8, <2>9, <2>10, <2>11
        DEF RequestStep
  <1>2. ASSUME NEW u \in Uploads, RequestFault(u) PROVE TypeOK'
    <2>1. CASE OpenTimesOut(u)
      BY <2>1 DEF OpenTimesOut, Rollback, Goto
    <2>2. CASE TryFails(u)
      BY <2>2 DEF TryFails, Return, Rollback, Goto
    <2>3. CASE TryUnacknowledged(u)
      BY <2>3 DEF TryUnacknowledged, BulkReady, Commit, Return, Rollback, Goto
    <2>4. CASE ReopenFails(u)
      BY <2>4 DEF ReopenFails, Return, Rollback, Goto
    <2>5. CASE RowFails(u)
      BY <2>5 DEF RowFails, Return, Rollback, Goto
    <2>6. CASE FinishFails(u)
      BY <2>6 DEF FinishFails, Commit, Return, Rollback, Goto
    <2>7. CASE DeadlockVictim(u)
      BY <2>7 DEF DeadlockVictim, Return, Rollback, Goto
    <2> QED
      BY <1>2, <2>1, <2>2, <2>3, <2>4, <2>5, <2>6, <2>7 DEF RequestFault
  <1>3. CASE Crash
    BY <1>3 DEF Crash
  <1>4. CASE UNCHANGED vars
    BY <1>4
  <1> QED
    BY <1>1, <1>2, <1>3, <1>4 DEF Next
\* The variables always have their types.
THEOREM TypeCorrect == Spec => []TypeOK
  <1> QED
    BY InitType, TypeStep, PTL DEF Spec

-----------------------------------------------------------------------------
(* The parts of the inductive invariant.                                   *)

\* Every step keeps transactions, locals and phases in step.
LEMMA ShapeStep ==
    ASSUME TypeOK, Shape, [Next]_vars
    PROVE  Shape'
  <1> USE DEF vars, db, session, locals, TypeOK, Shape, Phases, InFlight, NoReply
  <1>1. ASSUME NEW u \in Uploads, RequestStep(u) PROVE Shape'
    <2>1. CASE ReadFile(u)
      BY <2>1, RowsKept DEF ReadFile, Goto, Acceptable
    <2>2. CASE RefuseFile(u)
      BY <2>2, RowsKept DEF RefuseFile, Return, Rollback, Goto
    <2>3. CASE OpenBatch(u)
      BY <2>3, RowsKept DEF OpenBatch, Goto
    <2>4. CASE BulkRow(u)
      BY <2>4, RowsKept DEF BulkRow
    <2>5. CASE BulkRejected(u)
      BY <2>5, RowsKept DEF BulkRejected, Rollback, Goto
    <2>6. CASE BulkCommit(u)
      BY <2>6, RowsKept DEF BulkCommit, BulkReady, Commit, Return, Rollback, Goto
    <2>7. CASE ReopenBatch(u)
      BY <2>7, RowsKept DEF ReopenBatch, Goto
    <2>8. CASE RowInsert(u)
      BY <2>8, RowsKept DEF RowInsert, RowReady
    <2>9. CASE RowRejected(u)
      BY <2>9, RowsKept DEF RowRejected, RowClash
    <2>10. CASE Finish(u)
      BY <2>10, RowsKept DEF Finish, Commit, Return, Rollback, Goto
    <2>11. CASE Reply(u)
      BY <2>11, RowsKept DEF Reply, Goto
    <2> QED
      BY <1>1, <2>1, <2>2, <2>3, <2>4, <2>5, <2>6, <2>7, <2>8, <2>9, <2>10, <2>11
        DEF RequestStep
  <1>2. ASSUME NEW u \in Uploads, RequestFault(u) PROVE Shape'
    <2>1. CASE OpenTimesOut(u)
      BY <2>1, RowsKept DEF OpenTimesOut, Rollback, Goto
    <2>2. CASE TryFails(u)
      BY <2>2, RowsKept DEF TryFails, Return, Rollback, Goto
    <2>3. CASE TryUnacknowledged(u)
      BY <2>3, RowsKept
        DEF TryUnacknowledged, BulkReady, Commit, Return, Rollback, Goto
    <2>4. CASE ReopenFails(u)
      BY <2>4, RowsKept DEF ReopenFails, Return, Rollback, Goto
    <2>5. CASE RowFails(u)
      BY <2>5, RowsKept DEF RowFails, Return, Rollback, Goto
    <2>6. CASE FinishFails(u)
      BY <2>6, RowsKept DEF FinishFails, Commit, Return, Rollback, Goto
    <2>7. CASE DeadlockVictim(u)
      BY <2>7, RowsKept DEF DeadlockVictim, Return, Rollback, Goto
    <2> QED
      BY <1>2, <2>1, <2>2, <2>3, <2>4, <2>5, <2>6, <2>7 DEF RequestFault
  <1>3. CASE Crash
    BY <1>3, RowsKept DEF Crash
  <1>4. CASE UNCHANGED vars
    BY <1>4, RowsKept
  <1> QED
    BY <1>1, <1>2, <1>3, <1>4 DEF Next
\* Committed rows stay.
LEMMA InsertedGrows ==
    ASSUME TypeOK, [Next]_vars
    PROVE  \A u \in Uploads : inserted[u] \subseteq inserted'[u]
  <1> USE DEF vars, db, session, locals, TypeOK
  <1>1. ASSUME NEW u \in Uploads, BulkCommit(u) \/ TryUnacknowledged(u) \/ Finish(u) \/
                                  FinishFails(u)
        PROVE  \A v \in Uploads : inserted[v] \subseteq inserted'[v]
    BY <1>1 DEF BulkCommit, TryUnacknowledged, Finish, FinishFails, Commit
  <1>2. ASSUME NEW u \in Uploads,
               ReadFile(u) \/ RefuseFile(u) \/ OpenBatch(u) \/ BulkRow(u) \/
               BulkRejected(u) \/ ReopenBatch(u) \/ RowInsert(u) \/ RowRejected(u) \/
               Reply(u) \/ OpenTimesOut(u) \/ TryFails(u) \/ ReopenFails(u) \/
               RowFails(u) \/ DeadlockVictim(u)
        PROVE  inserted' = inserted
    BY <1>2 DEF ReadFile, RefuseFile, OpenBatch, BulkRow, BulkRejected, ReopenBatch,
                RowInsert, RowRejected, Reply, OpenTimesOut, TryFails, ReopenFails,
                RowFails, DeadlockVictim
  <1>3. CASE Crash \/ UNCHANGED vars
    BY <1>3 DEF Crash
  <1> QED
    BY <1>1, <1>2, <1>3 DEF Next, RequestStep, RequestFault

\* An excuse stays an excuse.
LEMMA ExcusesLast ==
    ASSUME TypeOK, [Next]_vars
    PROVE  \A u \in Uploads : \A i : Excused(u, i) => Excused(u, i)'
  BY InsertedGrows, RowsKept DEF Excused

\* A record the fallback rejects has its excuse, in the table or in an earlier row
\* of its own transaction.
LEMMA RejectedIsExcused ==
    ASSUME TypeOK, Shape, Fallback, NEW u \in Uploads, NEW i \in todo[u], RowClash(u, i)
    PROVE  Excused(u, i) \/ Preceded(u, i)
  <1>1. u \in opened /\ inserted[u] = {}
    BY DEF Shape, RowClash
  <1>2. CASE ~Row(u, i).fits
    BY <1>2 DEF Excused
  <1>3. CASE Taken(Row(u, i).id)
    BY <1>1, <1>3 DEF Taken, Excused
  <1>4. CASE LockedBy(u, Row(u, i).id)
    <2>1. \A j \in txn[u] : j < i
      BY DEF RowClash, Fallback, FallbackAt
    <2> QED
      BY <1>4, <2>1 DEF LockedBy, Preceded
  <1> QED
    BY <1>1, <1>2, <1>3, <1>4 DEF RowClash

\* A step of one request leaves every other request as it is.
LEMMA OthersKeep ==
    ASSUME TypeOK, NEW u \in Uploads, RequestStep(u) \/ RequestFault(u),
           NEW v \in Uploads \ {u}
    PROVE  /\ batch'[v] = batch[v]
           /\ inserted'[v] = inserted[v]
           /\ v \in opened' <=> v \in opened
           /\ txn'[v] = txn[v]
           /\ pc'[v] = pc[v]
           /\ todo'[v] = todo[v]
           /\ rejected'[v] = rejected[v]
           /\ okCount'[v] = okCount[v]
           /\ reply'[v] = reply[v]
  <1> USE DEF db, session, locals, TypeOK, Return, Rollback, Goto, Commit
  <1>1. CASE RequestStep(u)
    BY <1>1 DEF RequestStep, ReadFile, RefuseFile, OpenBatch, BulkRow, BulkRejected,
                BulkCommit, ReopenBatch, RowInsert, RowRejected, Finish, Reply
  <1>2. CASE RequestFault(u)
    BY <1>2
      DEF RequestFault, OpenTimesOut, TryFails, TryUnacknowledged, ReopenFails,
                RowFails, FinishFails, DeadlockVictim
  <1> QED
    BY <1>1, <1>2

\* A request without a transaction that is not in the loop has nothing to account
\* for.
LEMMA FallbackIdle ==
    ASSUME [Next]_vars, NEW u \in Uploads, txn'[u] = {}, pc'[u] # "rows"
    PROVE  FallbackAt(u)'
  BY RowsKept DEF FallbackAt

\* Every step keeps the fallback's account of the records.
LEMMA FallbackStep ==
    ASSUME TypeOK, Shape, Fallback, [Next]_vars
    PROVE  Fallback'
  <1> USE DEF Fallback
  <1>1. ASSUME NEW u \in Uploads, RequestStep(u) \/ RequestFault(u),
               NEW v \in Uploads \ {u}
        PROVE  FallbackAt(v)'
    BY <1>1, OthersKeep, RowsKept, ExcusesLast DEF FallbackAt, Preceded
  <1>2. ASSUME NEW u \in Uploads, RequestStep(u) PROVE FallbackAt(u)'
    <2>1. CASE ReadFile(u) \/ RefuseFile(u) \/ OpenBatch(u) \/
               BulkRejected(u) \/ Reply(u)
      BY <2>1, FallbackIdle
        DEF vars, db, session, locals, TypeOK, Shape, ReadFile, Goto, RefuseFile,
            Return, Rollback, OpenBatch, BulkRejected, Reply
    <2>2. CASE BulkRow(u)
      <3>1. PICK i \in Records(u) : Row(u, i).fits /\ txn'[u] = txn[u] \cup {i}
        BY <2>2 DEF BulkRow, TypeOK
      <3>2. pc'[u] = "bulk"
        BY <2>2 DEF BulkRow
      <3> QED
        BY <3>1, <3>2, RowsKept DEF FallbackAt
    <2>3. CASE BulkCommit(u) \/ Finish(u)
      BY <2>3, FallbackIdle
        DEF vars, db, session, locals, TypeOK, Shape, BulkCommit, BulkReady,
            Commit, Return, Rollback, Goto, Finish
    <2>4. CASE ReopenBatch(u)
      <3>1. txn[u] = {} /\ rejected[u] = {} /\ okCount[u] = 0
        BY <2>4 DEF ReopenBatch, Shape
      <3>2. /\ txn'[u] = {} /\ rejected'[u] = {} /\ okCount'[u] = 0
            /\ todo'[u] = Records(u)
        BY <2>4, <3>1 DEF ReopenBatch, TypeOK
      <3> QED
        BY <3>2, RowsKept, FS_EmptySet DEF FallbackAt, Preceded
    <2>5. CASE RowInsert(u)
      <3>1. PICK i \in todo[u] :
              /\ RowReady(u, i)
              /\ txn'[u] = txn[u] \cup {i}
              /\ okCount'[u] = okCount[u] + 1
              /\ todo'[u] = todo[u] \ {i}
        BY <2>5 DEF RowInsert, TypeOK
      <3>2. pc[u] = "rows" /\ pc'[u] = "rows" /\ rejected'[u] = rejected[u]
        BY <2>5 DEF RowInsert, RowReady
      <3>3. i \in Records(u) /\ i \notin txn[u] /\ i \notin rejected[u] /\ Row(u, i).fits
        BY <3>1, <3>2 DEF FallbackAt, RowReady
      <3>4. okCount[u] = Cardinality(txn[u]) /\ IsFiniteSet(txn[u])
        BY <3>2, RowsAreFinite DEF FallbackAt
      <3>5. Cardinality(txn[u] \cup {i}) = Cardinality(txn[u]) + 1
        BY <3>3, <3>4, FS_AddElement
      <3>6. /\ txn'[u] \subseteq Records(u)
            /\ \A k \in txn'[u] : Row(u, k).fits
        BY <3>1, <3>3 DEF FallbackAt
      <3>7. /\ Records(u) = todo'[u] \cup txn'[u] \cup rejected'[u]
            /\ todo'[u] \cap (txn'[u] \cup rejected'[u]) = {}
            /\ txn'[u] \cap rejected'[u] = {}
        BY <3>1, <3>2, <3>3 DEF FallbackAt
      <3>8. \A k \in rejected'[u] : Excused(u, k)' \/ Preceded(u, k)'
        BY <3>1, <3>2, ExcusesLast, RowsKept DEF FallbackAt, Preceded
      <3>9. \A k \in todo'[u] : i < k
        BY <3>1, <3>2, RowsAreNat DEF FallbackAt, RowReady, First
      <3>10. \A k \in todo'[u], j \in txn'[u] \cup rejected'[u] : j < k
        BY <3>1, <3>2, <3>9 DEF FallbackAt
      <3> QED
        BY <3>1, <3>2, <3>4, <3>5, <3>6, <3>7, <3>8, <3>10, RowsKept DEF FallbackAt
    <2>6. CASE RowRejected(u)
      <3>1. PICK i \in todo[u] :
              /\ RowClash(u, i)
              /\ rejected'[u] = rejected[u] \cup {i}
              /\ todo'[u] = todo[u] \ {i}
        BY <2>6 DEF RowRejected, TypeOK
      <3>2. pc[u] = "rows" /\ pc'[u] = "rows" /\ txn'[u] = txn[u] /\ okCount'[u] = okCount[u]
        BY <2>6 DEF RowRejected, RowClash, session
      <3>3. i \in Records(u) /\ i \notin txn[u] /\ i \notin rejected[u]
        BY <3>1, <3>2 DEF FallbackAt
      <3>4. Excused(u, i) \/ Preceded(u, i)
        BY <3>1, RejectedIsExcused
      <3>5. \A k \in rejected'[u] : Excused(u, k)' \/ Preceded(u, k)'
        BY <3>1, <3>2, <3>4, RowsKept, ExcusesLast DEF FallbackAt, Preceded
      <3>6. \A k \in todo'[u] : i < k
        BY <3>1, <3>2, RowsAreNat DEF FallbackAt, RowClash, First
      <3>7. \A k \in todo'[u], j \in txn'[u] \cup rejected'[u] : j < k
        BY <3>1, <3>2, <3>6 DEF FallbackAt
      <3> QED
        BY <3>1, <3>2, <3>3, <3>5, <3>7, RowsKept DEF FallbackAt
    <2> QED
      BY <1>2, <2>1, <2>2, <2>3, <2>4, <2>5, <2>6 DEF RequestStep
  <1>3. ASSUME NEW u \in Uploads, RequestFault(u) PROVE FallbackAt(u)'
    <2>1. CASE OpenTimesOut(u) \/ TryFails(u) \/ TryUnacknowledged(u) \/
               ReopenFails(u) \/ RowFails(u) \/ FinishFails(u) \/
               DeadlockVictim(u)
      BY <2>1, FallbackIdle
        DEF vars, db, session, locals, TypeOK, Shape, OpenTimesOut, Rollback,
            Goto, TryFails, Return, TryUnacknowledged, BulkReady, Commit,
            ReopenFails, RowFails, FinishFails, DeadlockVictim
    <2> QED
      BY <1>3, <2>1 DEF RequestFault
  <1>4. CASE Crash
    <2> SUFFICES ASSUME NEW u \in Uploads PROVE FallbackAt(u)'
      OBVIOUS
    <2>1. CASE txn'[u] = {} /\ pc'[u] = "lost"
      BY <2>1, FallbackIdle
    <2>2. CASE UNCHANGED <<txn[u], pc[u], todo[u], rejected[u], okCount[u]>>
      BY <2>2, RowsKept, ExcusesLast DEF FallbackAt, Preceded
    <2> QED
      BY <1>4, <2>1, <2>2 DEF Crash, TypeOK
  <1>5. CASE UNCHANGED vars
    BY <1>5, RowsKept, ExcusesLast DEF vars, session, locals, FallbackAt, Preceded
  <1> QED
    BY <1>1, <1>2, <1>3, <1>4, <1>5 DEF Next
\* Only records that fit are committed.
LEMMA LoadedAreRecords ==
    ASSUME TypeOK, Fallback, Replies, [Next]_vars, NEW u \in Uploads
    PROVE  /\ inserted'[u] \subseteq Records(u)
           /\ \A i \in inserted'[u] : Row(u, i).fits
  <1> USE DEF Fallback, Replies, FallbackAt, ReplyAt
  <1>1. inserted'[u] \subseteq inserted[u] \cup txn[u]
    <2> USE DEF vars, db, session, locals, TypeOK
    <2>1. ASSUME NEW v \in Uploads, RequestStep(v)
          PROVE  inserted'[u] \subseteq inserted[u] \cup txn[u]
      BY <2>1
        DEF RequestStep, ReadFile, RefuseFile, OpenBatch, BulkRow, BulkRejected,
                  BulkCommit, ReopenBatch, RowInsert, RowRejected, Finish, Reply, Commit
    <2>2. ASSUME NEW v \in Uploads, RequestFault(v)
          PROVE  inserted'[u] \subseteq inserted[u] \cup txn[u]
      BY <2>2
        DEF RequestFault, OpenTimesOut, TryFails, TryUnacknowledged, ReopenFails,
                  RowFails, FinishFails, DeadlockVictim, Commit
    <2>3. CASE Crash \/ UNCHANGED vars
      BY <2>3 DEF Crash
    <2> QED
      BY <2>1, <2>2, <2>3 DEF Next
  <1> QED
    BY <1>1

\* An answer other than 200 and 422 makes no claim.
LEMMA RefusalIsEmpty ==
    ASSUME TypeOK, Fallback, Replies, [Next]_vars, NEW u \in Uploads,
           NEW code \in {500, 503},
           reply'[u] = [code |-> code, created |-> 0, errors |-> {}]
    PROVE  ReplyAt(u)'
  BY LoadedAreRecords, RowsKept DEF ReplyAt

\* Nothing changes what is said of a request whose reply and rows stay.
LEMMA ReplyFrame ==
    ASSUME TypeOK, Fallback, Replies, [Next]_vars, NEW u \in Uploads,
           batch'[u] = batch[u], inserted'[u] = inserted[u], reply'[u] = reply[u]
    PROVE  ReplyAt(u)'
  BY RowsKept, ExcusesLast DEF Replies, ReplyAt

\* Every step keeps the replies true.
LEMMA RepliesStep ==
    ASSUME TypeOK, Shape, Fallback, Replies, [Next]_vars
    PROVE  Replies'
  <1> USE DEF Replies
  <1>1. ASSUME NEW u \in Uploads, RequestStep(u) \/ RequestFault(u),
               NEW v \in Uploads \ {u}
        PROVE  ReplyAt(v)'
    BY <1>1, OthersKeep, ReplyFrame DEF Next
  <1>2. ASSUME NEW u \in Uploads, RequestStep(u) PROVE ReplyAt(u)'
    <2>1. CASE ReadFile(u) \/ OpenBatch(u) \/ BulkRow(u) \/ BulkRejected(u) \/
               ReopenBatch(u) \/ RowInsert(u) \/ RowRejected(u)
      BY <2>1, ReplyFrame
        DEF ReadFile, OpenBatch, BulkRow, BulkRejected, ReopenBatch, RowInsert,
            RowRejected, db
    <2>2. CASE RefuseFile(u)
      <3>1. batch'[u] = "absent" /\ inserted'[u] = {}
        BY <2>2 DEF RefuseFile, Shape, db
      <3>2. reply'[u] = [code |-> IF content[u].text THEN 422 ELSE 500,
                         created |-> 0, errors |-> {}]
        BY <2>2 DEF RefuseFile, Return, TypeOK
      <3>3. /\ reply'[u].code # 200
            /\ reply'[u].created = 0
            /\ reply'[u].errors = {}
        BY <3>2
      <3> QED
        BY <3>1, <3>3 DEF ReplyAt
    <2>3. CASE BulkCommit(u)
      <3>1. inserted'[u] = Records(u)
        BY <2>3 DEF BulkCommit, BulkReady, Commit, Shape, TypeOK
      <3>2. reply'[u] = [code |-> 200, created |-> Cardinality(Records(u)), errors |-> {}]
        BY <2>3 DEF BulkCommit, Return, TypeOK
      <3> QED
        BY <3>1, <3>2, LoadedAreRecords, RowsKept DEF ReplyAt
    <2>4. CASE Finish(u)
      <3>1. inserted[u] = {} /\ pc[u] = "rows" /\ todo[u] = {}
        BY <2>4 DEF Finish, Shape
      <3>2. reply'[u] = [code |-> 200, created |-> okCount[u], errors |-> rejected[u]]
        BY <2>4 DEF Finish, Return, TypeOK
      <3>3. okCount[u] = Cardinality(txn[u]) /\ IsFiniteSet(txn[u])
        BY <3>1, RowsAreFinite DEF Fallback, FallbackAt
      <3>4. okCount[u] = 0 => txn[u] = {}
        BY <3>3, FS_EmptySet
      <3>5. inserted'[u] = txn[u]
        <4>1. CASE okCount[u] > 0
          BY <2>4, <3>1, <4>1 DEF Finish, Commit, TypeOK
        <4>2. CASE okCount[u] = 0
          BY <2>4, <3>1, <3>4, <4>2 DEF Finish, db
        <4> QED
          BY <4>1, <4>2 DEF TypeOK
      <3>6. /\ rejected[u] \subseteq Rows(u)
            /\ Records(u) \ inserted'[u] \subseteq rejected[u]
            /\ rejected[u] \cap inserted'[u] = {}
        BY <3>1, <3>5, RowsAreNat DEF Fallback, FallbackAt
      <3>7. \A i \in rejected[u] : Excused(u, i)'
        <4> SUFFICES ASSUME NEW i \in rejected[u] PROVE Excused(u, i)'
          OBVIOUS
        <4>1. CASE Excused(u, i)
          BY <4>1, ExcusesLast
        <4>2. CASE Preceded(u, i)
          <5>1. PICK j \in inserted'[u] : Row(u, j).id = Row(u, i).id
            BY <4>2, <3>5 DEF Preceded
          <5>2. <<u, j>> # <<u, i>>
            BY <3>6, <5>1
          <5> QED
            BY <5>1, <5>2, RowsKept DEF Excused
        <4> QED
          BY <3>1, <4>1, <4>2 DEF Fallback, FallbackAt
      <3> QED
        BY <3>2, <3>3, <3>5, <3>6, <3>7, LoadedAreRecords, RowsKept DEF ReplyAt
    <2>5. CASE Reply(u)
      <3>1. batch'[u] = batch[u] /\ inserted'[u] = inserted[u]
        BY <2>5 DEF Reply, db
      <3>2. CASE reply[u].code = 200
        <4>1. reply'[u] = [reply[u] EXCEPT !.errors = @ \cup (Rows(u) \ Records(u))]
          BY <2>5, <3>2 DEF Reply, TypeOK
        <4>2. /\ reply'[u].code = 200
              /\ reply'[u].created = reply[u].created
              /\ reply'[u].errors = reply[u].errors \cup (Rows(u) \ Records(u))
          BY <3>2, <4>1 DEF TypeOK
        <4>3. \A i \in Rows(u) \ Records(u) : Excused(u, i)
          BY DEF Records, Excused
        <4> QED
          BY <3>1, <3>2, <4>2, <4>3, RowsKept, ExcusesLast DEF Replies, ReplyAt
      <3>3. CASE reply[u].code # 200
        <4>1. reply'[u] = [reply[u] EXCEPT !.errors = @]
          BY <2>5, <3>3 DEF Reply, TypeOK
        <4>2. /\ reply'[u].code = reply[u].code
              /\ reply'[u].created = reply[u].created
              /\ reply'[u].errors = reply[u].errors
          BY <4>1 DEF TypeOK
        <4> QED
          BY <3>1, <3>3, <4>2, RowsKept DEF Replies, ReplyAt
      <3> QED
        BY <3>2, <3>3
    <2> QED
      BY <1>2, <2>1, <2>2, <2>3, <2>4, <2>5 DEF RequestStep
  <1>3. ASSUME NEW u \in Uploads, RequestFault(u) PROVE ReplyAt(u)'
    <2>1. CASE OpenTimesOut(u)
      BY <2>1, ReplyFrame DEF OpenTimesOut, db
    <2>2. CASE TryFails(u) \/ TryUnacknowledged(u) \/ ReopenFails(u) \/
               RowFails(u) \/ FinishFails(u) \/ DeadlockVictim(u)
      <3>1. PICK code \in {500, 503} : Return(u, code, 0, {})
        BY <2>2 DEF TryFails, TryUnacknowledged, ReopenFails, RowFails, FinishFails, DeadlockVictim
      <3>2. reply'[u] = [code |-> code, created |-> 0, errors |-> {}]
        BY <3>1 DEF Return, TypeOK
      <3> QED
        BY <3>2, RefusalIsEmpty
    <2> QED
      BY <1>3, <2>1, <2>2 DEF RequestFault
  <1>4. CASE Crash
    BY <1>4, ReplyFrame DEF Crash, db
  <1>5. CASE UNCHANGED vars
    BY <1>5, ReplyFrame DEF vars, db
  <1> QED
    BY <1>1, <1>2, <1>3, <1>4, <1>5 DEF Next
\* No step gives two rows the same key, whichever uploads they come from.
LEMMA KeysStep ==
    ASSUME TypeOK, Shape, Fallback, KeysAreUnique, [Next]_vars
    PROVE  KeysAreUnique'
  <1>1. ASSUME NEW u \in Uploads, BulkRow(u) \/ RowInsert(u)
        PROVE  KeysAreUnique'
    <2>1. PICK i \in Records(u) :
            /\ txn'[u] = txn[u] \cup {i}
            /\ ~Taken(Row(u, i).id)
            /\ ~Locked(u, Row(u, i).id)
            /\ ~LockedBy(u, Row(u, i).id)
      <3>1. CASE BulkRow(u)
        BY <3>1 DEF BulkRow, TypeOK
      <3>2. CASE RowInsert(u)
        <4>1. PICK i \in todo[u] : RowReady(u, i) /\ txn'[u] = txn[u] \cup {i}
          BY <3>2 DEF RowInsert, TypeOK
        <4>2. i \in Records(u)
          BY <4>1 DEF RowReady, Fallback, FallbackAt
        <4> QED
          BY <4>1, <4>2 DEF RowReady
      <3> QED
        BY <1>1, <3>1, <3>2
    <2>2. inserted' = inserted /\ \A v \in Uploads \ {u} : txn'[v] = txn[v]
      BY <1>1 DEF BulkRow, RowInsert, db, TypeOK
    <2>3. /\ Held(u)' = Held(u) \cup {i}
          /\ \A v \in Uploads \ {u} : Held(v)' = Held(v)
      BY <2>1, <2>2 DEF Held
    <2>4. \A v \in Uploads : \A j \in Held(v) : Row(v, j).id # Row(u, i).id
      BY <2>1 DEF Held, Taken, Locked, LockedBy
    <2> QED
      BY <2>3, <2>4, RowsKept DEF KeysAreUnique
  <1>2. ASSUME \A v \in Uploads : Held(v)' \subseteq Held(v)
        PROVE  KeysAreUnique'
    BY <1>2, RowsKept DEF KeysAreUnique
  <1>3. ASSUME NEW u \in Uploads, RequestStep(u), ~BulkRow(u), ~RowInsert(u)
        PROVE  \A v \in Uploads : Held(v)' \subseteq Held(v)
    BY <1>3
      DEF RequestStep, ReadFile, RefuseFile, OpenBatch, BulkRejected, BulkCommit,
                ReopenBatch, RowRejected, Finish, Reply, Commit, Return, Rollback, Held,
                db, session, TypeOK
  <1>4. ASSUME NEW u \in Uploads, RequestFault(u)
        PROVE  \A v \in Uploads : Held(v)' \subseteq Held(v)
    <2>1. Rollback(u) /\ (Commit(u) \/ UNCHANGED db)
      BY <1>4
        DEF RequestFault, OpenTimesOut, TryFails, TryUnacknowledged, ReopenFails,
                  RowFails, FinishFails, DeadlockVictim, Return
    <2> QED
      BY <2>1 DEF Commit, Rollback, Held, db, TypeOK
  <1>5. ASSUME Crash \/ UNCHANGED vars
        PROVE  \A v \in Uploads : Held(v)' \subseteq Held(v)
    BY <1>5 DEF Crash, vars, db, session, Held, TypeOK
  <1> QED
    BY <1>1, <1>2, <1>3, <1>4, <1>5 DEF Next

\* A commit has at least one row to load.
LEMMA CommitsAreNotEmpty ==
    ASSUME TypeOK, Shape, Fallback, NEW u \in Uploads,
           BulkReady(u) \/ (pc[u] = "rows" /\ okCount[u] > 0)
    PROVE  txn[u] # {}
  <1>1. CASE BulkReady(u)
    BY <1>1 DEF BulkReady, Shape
  <1>2. CASE pc[u] = "rows" /\ okCount[u] > 0
    <2>1. okCount[u] = Cardinality(txn[u])
      BY <1>2 DEF Fallback, FallbackAt
    <2>2. Cardinality({}) = 0
      BY FS_EmptySet
    <2> QED
      BY <1>2, <2>1, <2>2
  <1> QED
    BY <1>1, <1>2

\* A commit makes the batch and its rows visible together, and nothing else does.
LEMMA TogetherStep ==
    ASSUME TypeOK, Shape, Fallback, BatchAndRowsTogether, [Next]_vars
    PROVE  BatchAndRowsTogether'
  <1> USE DEF BatchAndRowsTogether
  <1>1. ASSUME NEW u \in Uploads, Commit(u), txn[u] # {}
        PROVE  BatchAndRowsTogether'
    BY <1>1 DEF Commit, TypeOK
  <1>2. ASSUME UNCHANGED db
        PROVE  BatchAndRowsTogether'
    BY <1>2 DEF db
  <1>3. ASSUME NEW u \in Uploads, RequestStep(u)
        PROVE  UNCHANGED db \/ (Commit(u) /\ txn[u] # {})
    BY <1>3, CommitsAreNotEmpty
      DEF RequestStep, ReadFile, RefuseFile, OpenBatch, BulkRow, BulkRejected, BulkCommit,
          ReopenBatch, RowInsert, RowRejected, Finish, Reply
  <1>4. ASSUME NEW u \in Uploads, RequestFault(u)
        PROVE  UNCHANGED db \/ (Commit(u) /\ txn[u] # {})
    BY <1>4, CommitsAreNotEmpty
      DEF RequestFault, OpenTimesOut, TryFails, TryUnacknowledged, ReopenFails, RowFails,
          FinishFails, DeadlockVictim
  <1>5. ASSUME Crash \/ UNCHANGED vars
        PROVE  UNCHANGED db
    BY <1>5 DEF Crash, vars
  <1> QED
    BY <1>1, <1>2, <1>3, <1>4, <1>5 DEF Next

\* A 200 that goes out is true of the table.
LEMMA TrueStep ==
    ASSUME TypeOK, Shape, Fallback, Replies, AnswersAreTrue, [Next]_vars
    PROVE  AnswersAreTrue'
  <1> SUFFICES ASSUME NEW v \in Uploads, pc'[v] = "answered", reply'[v].code = 200
               PROVE  /\ reply'[v].created = Cardinality(inserted'[v])
                      /\ reply'[v].errors = Rows(v) \ inserted'[v]
    BY RowsKept DEF AnswersAreTrue
  <1>1. CASE batch'[v] = batch[v] /\ inserted'[v] = inserted[v] /\ pc[v] = "answered" /\
             reply'[v] = reply[v]
    BY <1>1 DEF AnswersAreTrue
  <1>2. CASE Reply(v)
    <2>1. reply[v].code = 200
      BY <1>2 DEF Reply, TypeOK
    <2>2. /\ reply'[v].created = reply[v].created
          /\ reply'[v].errors = reply[v].errors \cup (Rows(v) \ Records(v))
      BY <1>2, <2>1 DEF Reply, TypeOK
    <2>3. inserted'[v] = inserted[v]
      BY <1>2 DEF Reply, db
    <2> QED
      BY <2>1, <2>2, <2>3, RowsAreNat DEF Replies, ReplyAt
  <1>3. ASSUME NEW u \in Uploads, RequestStep(u) \/ RequestFault(u), u # v
        PROVE  /\ batch'[v] = batch[v] /\ inserted'[v] = inserted[v]
               /\ pc[v] = "answered" /\ reply'[v] = reply[v]
    BY <1>3, OthersKeep
  <1>4. ASSUME RequestStep(v) \/ RequestFault(v), ~Reply(v)
        PROVE  FALSE
    BY <1>4 DEF RequestStep, RequestFault, ReadFile, RefuseFile, OpenBatch, BulkRow,
                BulkRejected, BulkCommit, ReopenBatch, RowInsert, RowRejected, Finish,
                OpenTimesOut, TryFails, TryUnacknowledged, ReopenFails, RowFails,
                FinishFails, DeadlockVictim, Deadlocked, WaitsFor, Inserting, RowReady,
                RowClash, BulkReady, Return, Goto, TypeOK
  <1>5. CASE Crash \/ UNCHANGED vars
    BY <1>1, <1>5 DEF Crash, vars, db, TypeOK
  <1> QED
    BY <1>1, <1>2, <1>3, <1>4, <1>5 DEF Next

\* What the fallback has rejected so far and what the replies list has its excuse.
LEMMA JustifiedFromParts ==
    ASSUME TypeOK, Shape, Fallback, Replies
    PROVE  ErrorsAreJustified
  <1>1. ASSUME NEW u \in Uploads, NEW i \in rejected[u]
        PROVE  \/ Excused(u, i)
               \/ \E j \in txn[u] : j # i /\ Row(u, j).id = Row(u, i).id
    <2>1. pc[u] = "rows"
      BY <1>1 DEF Shape
    <2>2. \A j \in txn[u] : j \in Nat
      BY DEF TypeOK
    <2> QED
      BY <1>1, <2>1, <2>2 DEF Fallback, FallbackAt, Preceded, TypeOK
  <1>2. ASSUME NEW u \in Uploads, NEW i \in reply[u].errors
        PROVE  Excused(u, i)
    BY <1>2 DEF Replies, ReplyAt
  <1> QED
    BY <1>1, <1>2 DEF ErrorsAreJustified

-----------------------------------------------------------------------------
(* The inductive invariant and what follows from it.                       *)

LEMMA InitInvariant == Init => IInv
  <1> SUFFICES ASSUME Init PROVE IInv
    OBVIOUS
  <1> USE DEF Init, NoReply
  <1>1. TypeOK
    BY InitType
  <1>2. Shape
    BY DEF Shape
  <1>3. Fallback
    BY DEF Fallback, FallbackAt
  <1>4. Replies
    BY DEF Replies, ReplyAt
  <1>5. KeysAreUnique
    BY DEF KeysAreUnique, Held
  <1>6. BatchAndRowsTogether /\ AnswersAreTrue
    BY DEF BatchAndRowsTogether, AnswersAreTrue
  <1> QED
    BY <1>1, <1>2, <1>3, <1>4, <1>5, <1>6, JustifiedFromParts DEF IInv

LEMMA StepInvariant ==
    ASSUME IInv, [Next]_vars
    PROVE  IInv'
  <1> USE DEF IInv
  <1>1. TypeOK' /\ Shape'
    BY TypeStep, ShapeStep
  <1>2. Fallback' /\ Replies'
    BY FallbackStep, RepliesStep
  <1>3. KeysAreUnique' /\ BatchAndRowsTogether' /\ AnswersAreTrue'
    BY KeysStep, TogetherStep, TrueStep
  <1>4. ErrorsAreJustified'
    BY <1>1, <1>2, JustifiedFromParts, PTL
  <1> QED
    BY <1>1, <1>2, <1>3, <1>4

\* The inductive invariant holds in every reachable state.
THEOREM Inductive == Spec => []IInv
  <1> QED
    BY InitInvariant, StepInvariant, PTL DEF Spec

\* ADR-0001 holds of the synchronous uploads: a batch and its rows are committed
\* together.
THEOREM Together == Spec => []BatchAndRowsTogether
  <1>1. IInv => BatchAndRowsTogether
    BY DEF IInv
  <1> QED
    BY <1>1, Inductive, PTL

\* A 200 counts the rows that are in the table and lists all the others.
THEOREM AnswersTrue == Spec => []AnswersAreTrue
  <1>1. IInv => AnswersAreTrue
    BY DEF IInv
  <1> QED
    BY <1>1, Inductive, PTL

\* No good row is given up.
THEOREM Justified == Spec => []ErrorsAreJustified
  <1>1. IInv => ErrorsAreJustified
    BY DEF IInv
  <1> QED
    BY <1>1, Inductive, PTL

-----------------------------------------------------------------------------
(* The uploads implement AtomicUpload.                                     *)

\* When the fallback has tried every record, each one it left out has its key in the
\* table, does not fit, or comes after a row it inserted with the same key.
LEMMA LeftOutWhy ==
    ASSUME IInv, NEW u \in Uploads,
           BulkReady(u) \/ (pc[u] = "rows" /\ todo[u] = {}),
           NEW i \in Records(u) \ txn[u], Row(u, i).fits
    PROVE  \/ \E v \in Uploads : \E j \in inserted[v] : Row(v, j).id = Row(u, i).id
           \/ Preceded(u, i)
  <1> USE DEF IInv
  <1>1. pc[u] = "rows" /\ todo[u] = {} /\ i \in rejected[u]
    BY DEF BulkReady, Fallback, FallbackAt
  <1>2. Excused(u, i) \/ Preceded(u, i)
    BY <1>1 DEF Fallback, FallbackAt
  <1> QED
    BY <1>2 DEF Excused, Records

\* A commit is the abstract load: its rows are exactly the first of each free key.
LEMMA CommitIsLoad ==
    ASSUME IInv, NEW u \in Uploads, Commit(u), UNCHANGED content,
           BulkReady(u) \/ (pc[u] = "rows" /\ todo[u] = {} /\ okCount[u] > 0),
           pc' = [pc EXCEPT ![u] = "replying"],
           \A v \in Uploads \ {u} : reply'[v] = reply[v]
    PROVE  Promise!Load(u)
  <1> USE DEF IInv
  <1>1. /\ pc[u] \in {"bulk", "rows"} /\ pc'[u] = "replying"
        /\ batch[u] = "absent" /\ inserted[u] = {}
    BY DEF BulkReady, Shape, TypeOK
  <1>2. [v \in Uploads |-> IF pc[v] = "answered" THEN reply[v] ELSE NoReply]' =
          [v \in Uploads |-> IF pc[v] = "answered" THEN reply[v] ELSE NoReply]
    BY <1>1 DEF TypeOK
  <1>3. txn[u] # {} /\ txn[u] \subseteq Records(u) /\ \A i \in txn[u] : Row(u, i).fits
    BY CommitsAreNotEmpty DEF Fallback, FallbackAt
  <1>4. /\ Promise!Insertable(u) = {i \in Records(u) : Row(u, i).fits}
        /\ \A v \in Uploads : \A i : Promise!IdOf(v, i) = Row(v, i).id
        /\ \A id : Promise!KeyHeld(id) <=>
             \E v \in Uploads : \E j \in inserted[v] : Row(v, j).id = id
    BY DEF Promise!Insertable, Promise!RowsOf, Promise!IdOf, Promise!KeyHeld, Records,
           Rows, Row
  <1>5. ASSUME NEW i \in txn[u]
        PROVE  /\ ~Promise!KeyHeld(Row(u, i).id)
               /\ \A j \in Promise!Insertable(u) : Row(u, j).id = Row(u, i).id => i <= j
    <2>1. ~Promise!KeyHeld(Row(u, i).id)
      BY <1>1, <1>4, <1>5 DEF KeysAreUnique, Held
    <2>2. ASSUME NEW j \in txn[u], Row(u, j).id = Row(u, i).id PROVE j = i
      BY <1>5, <2>2 DEF KeysAreUnique, Held
    <2>3. ASSUME NEW j \in Records(u) \ txn[u], Row(u, j).fits, Row(u, j).id = Row(u, i).id
          PROVE  Preceded(u, j)
      BY <1>4, <2>1, <2>3, LeftOutWhy
    <2>4. ASSUME NEW j \in Records(u) \ txn[u], Row(u, j).fits, Row(u, j).id = Row(u, i).id
          PROVE  i <= j
      <3>1. PICK k \in txn[u] : k < j /\ Row(u, k).id = Row(u, i).id
        BY <2>3, <2>4 DEF Preceded
      <3>2. k = i
        BY <2>2, <3>1
      <3>3. i \in Nat /\ j \in Nat
        BY <1>5, RowsAreNat DEF TypeOK
      <3> QED
        BY <3>1, <3>2, <3>3
    <2>5. i \in Nat
      BY <1>5 DEF TypeOK
    <2> QED
      BY <1>4, <2>1, <2>2, <2>4, <2>5
  <1>6. ASSUME NEW i \in Promise!Insertable(u) \ txn[u], ~Promise!KeyHeld(Row(u, i).id)
        PROVE  \E j \in Promise!Insertable(u) : Row(u, j).id = Row(u, i).id /\ ~(i <= j)
    <2>1. i \in Records(u) \ txn[u] /\ Row(u, i).fits
      BY <1>4, <1>6
    <2>2. Preceded(u, i)
      BY <1>4, <1>6, <2>1, LeftOutWhy
    <2>3. PICK j \in txn[u] : j < i /\ Row(u, j).id = Row(u, i).id
      BY <2>2 DEF Preceded
    <2> QED
      BY <1>3, <1>4, <2>1, <2>3, RowsAreNat
  <1>7. Promise!Loadable(u) = txn[u]
    <2>1. ASSUME NEW i PROVE i \in Promise!Loadable(u) <=> i \in txn[u]
      BY <1>3, <1>4, <1>5, <1>6 DEF Promise!Loadable
    <2> QED
      BY <2>1
  <1>8. /\ inserted' = [inserted EXCEPT ![u] = txn[u]]
        /\ batch' = [batch EXCEPT ![u] = "completed"]
    BY <1>1 DEF Commit, TypeOK
  <1> QED
    BY <1>1, <1>2, <1>3, <1>7, <1>8 DEF Promise!Load, Promise!NoAnswer, NoReply

\* A 200 going out is the abstract acceptance.
LEMMA ReplyIsAccept ==
    ASSUME IInv, AnswersAreTrue', [Next]_vars, NEW u \in Uploads, Reply(u),
           reply[u].code = 200
    PROVE  Promise!Accept(u)
  <1> USE DEF IInv
  <1>1. /\ pc[u] = "replying" /\ pc' = [pc EXCEPT ![u] = "answered"]
        /\ UNCHANGED <<content, batch, inserted>>
    BY DEF Reply, Goto, db
  <1>2. /\ reply' = [reply EXCEPT ![u] = reply'[u]]
        /\ reply'[u] \in [code : Codes, created : Nat, errors : SUBSET Nat]
        /\ reply'[u].code = 200
    BY TypeStep DEF Reply, TypeOK
  <1>3. /\ reply'[u].created = Cardinality(inserted[u])
        /\ reply'[u].errors = Promise!RowsOf(u) \ inserted[u]
    BY <1>1, <1>2, RowsKept DEF AnswersAreTrue, TypeOK, Promise!RowsOf, Rows
  <1>4. reply'[u] = [code |-> 200, created |-> Cardinality(inserted[u]),
                     errors |-> Promise!RowsOf(u) \ inserted[u]]
    BY <1>2, <1>3
  <1>5. \A i \in Promise!Insertable(u) \ inserted[u] :
          Promise!KeyHeld(Promise!IdOf(u, i))
    <2> SUFFICES ASSUME NEW i \in Records(u) \ inserted[u], Row(u, i).fits
                 PROVE  Promise!KeyHeld(Row(u, i).id)
      BY DEF Promise!Insertable, Promise!RowsOf, Promise!IdOf, Records, Rows, Row
    <2>1. Excused(u, i)
      BY DEF Replies, ReplyAt
    <2> QED
      BY <2>1 DEF Excused, Records, Promise!KeyHeld, Promise!IdOf, Row
  <1>6. [v \in Uploads |-> IF pc[v] = "answered" THEN reply[v] ELSE NoReply][u] = NoReply
    BY <1>1
  <1>7. [v \in Uploads |-> IF pc[v] = "answered" THEN reply[v] ELSE NoReply]' =
          [[v \in Uploads |-> IF pc[v] = "answered" THEN reply[v] ELSE NoReply]
             EXCEPT ![u] = reply'[u]]
    BY <1>1, <1>2 DEF TypeOK
  <1>8. [v \in Uploads |-> IF pc[v] = "answered" THEN reply[v] ELSE NoReply]' =
          [[v \in Uploads |-> IF pc[v] = "answered" THEN reply[v] ELSE NoReply]
             EXCEPT ![u] = [code |-> 200, created |-> Cardinality(inserted[u]),
                            errors |-> Promise!RowsOf(u) \ inserted[u]]]
    BY <1>4, <1>7, Zenon
  <1>9. [v \in Uploads |-> IF pc[v] = "answered" THEN reply[v] ELSE NoReply][u] = Promise!NoAnswer
    BY <1>6 DEF Promise!NoAnswer, NoReply
  <1> QED
    BY <1>1, <1>5, <1>8, <1>9 DEF Promise!Accept, Promise!Cardinality, Cardinality

\* Any other answer going out is the abstract refusal.
LEMMA ReplyIsRefuse ==
    ASSUME IInv, NEW u \in Uploads, Reply(u),
           NEW code \in {422, 500, 503}, reply[u].code = code
    PROVE  Promise!Refuse(u, code)
  <1> USE DEF IInv
  <1>1. /\ pc[u] = "replying" /\ pc' = [pc EXCEPT ![u] = "answered"]
        /\ UNCHANGED <<content, batch, inserted>>
    BY DEF Reply, Goto, db
  <1>2. /\ code = 422 => batch[u] = "absent"
        /\ reply[u].created = 0 /\ reply[u].errors = {}
    BY <1>1 DEF Replies, ReplyAt, TypeOK, Codes
  <1>3. reply[u] = [code |-> code, created |-> 0, errors |-> {}]
    BY <1>2 DEF TypeOK
  <1>4. reply' = reply
    BY DEF Reply, TypeOK
  <1>5. [v \in Uploads |-> IF pc[v] = "answered" THEN reply[v] ELSE NoReply][u] = NoReply
    BY <1>1
  <1>6. [v \in Uploads |-> IF pc[v] = "answered" THEN reply[v] ELSE NoReply]' =
          [[v \in Uploads |-> IF pc[v] = "answered" THEN reply[v] ELSE NoReply]
             EXCEPT ![u] = reply[u]]
    BY <1>1, <1>4 DEF TypeOK
  <1>7. [v \in Uploads |-> IF pc[v] = "answered" THEN reply[v] ELSE NoReply]' =
          [[v \in Uploads |-> IF pc[v] = "answered" THEN reply[v] ELSE NoReply]
             EXCEPT ![u] = [code |-> code, created |-> 0, errors |-> {}]]
    BY <1>3, <1>6, Zenon
  <1>8. [v \in Uploads |-> IF pc[v] = "answered" THEN reply[v] ELSE NoReply][u] =
          Promise!NoAnswer
    BY <1>5 DEF Promise!NoAnswer, NoReply
  <1> QED
    BY <1>1, <1>2, <1>7, <1>8, Zenon DEF Promise!Refuse

\* Steps that commit nothing and answer nobody do not exist in the abstract.
LEMMA HiddenSteps ==
    ASSUME TypeOK, UNCHANGED <<content, db>>,
           \A v \in Uploads : /\ pc'[v] = "answered" <=> pc[v] = "answered"
                              /\ pc[v] = "answered" => reply'[v] = reply[v]
    PROVE  UNCHANGED Promise!uploadVars
  <1>1. [v \in Uploads |-> IF pc[v] = "answered" THEN reply[v] ELSE NoReply]' =
          [v \in Uploads |-> IF pc[v] = "answered" THEN reply[v] ELSE NoReply]
    OBVIOUS
  <1> QED
    BY <1>1 DEF Promise!uploadVars, db

\* Every step is a step of AtomicUpload or none at all.
LEMMA UploadStep ==
    ASSUME IInv, AnswersAreTrue', [Next]_vars
    PROVE  [Promise!UploadNext]_(Promise!uploadVars)
  <1> USE DEF IInv
  <1>1. ASSUME NEW u \in Uploads,
               \/ Promise!Load(u)
               \/ Promise!Accept(u)
               \/ \E code \in {422, 500, 503} : Promise!Refuse(u, code)
        PROVE  [Promise!UploadNext]_(Promise!uploadVars)
    BY <1>1 DEF Promise!UploadNext
  <1>2. ASSUME NEW u \in Uploads, RequestStep(u)
        PROVE  [Promise!UploadNext]_(Promise!uploadVars)
    <2>1. CASE BulkCommit(u)
      BY <1>1, <2>1, CommitIsLoad DEF BulkCommit, Return, Goto, TypeOK
    <2>2. CASE Finish(u) /\ okCount[u] > 0
      BY <1>1, <2>2, CommitIsLoad DEF Finish, Return, Goto, TypeOK
    <2>3. CASE Reply(u)
      <3>1. CASE reply[u].code = 200
        BY <1>1, <2>3, <3>1, ReplyIsAccept
      <3>2. CASE reply[u].code # 200
        <4>1. PICK code \in {422, 500, 503} : reply[u].code = code
          BY <2>3, <3>2 DEF Reply, Shape, TypeOK, Codes
        <4>2. Promise!Refuse(u, code)
          BY <2>3, <4>1, ReplyIsRefuse
        <4> QED
          BY <1>1, <4>2
      <3> QED
        BY <3>1, <3>2
    <2>4. CASE Finish(u) /\ ~(okCount[u] > 0)
      BY <2>4, HiddenSteps DEF Finish, Return, Goto, TypeOK
    <2>5. CASE RefuseFile(u)
      BY <2>5, HiddenSteps DEF RefuseFile, Return, Goto, TypeOK
    <2>6. CASE ReadFile(u) \/ OpenBatch(u) \/ BulkRow(u) \/ BulkRejected(u) \/
               ReopenBatch(u) \/ RowInsert(u) \/ RowRejected(u)
      BY <2>6, HiddenSteps
        DEF ReadFile, OpenBatch, BulkRow, BulkRejected, ReopenBatch, RowInsert,
            RowRejected, Goto, db, TypeOK
    <2> QED
      BY <1>2, <2>1, <2>2, <2>3, <2>4, <2>5, <2>6 DEF RequestStep
  <1>3. ASSUME NEW u \in Uploads, RequestFault(u)
        PROVE  [Promise!UploadNext]_(Promise!uploadVars)
    <2>1. CASE TryUnacknowledged(u)
      BY <1>1, <2>1, CommitIsLoad DEF TryUnacknowledged, Return, Goto, TypeOK
    <2>2. CASE FinishFails(u) /\ Commit(u)
      BY <1>1, <2>2, CommitIsLoad DEF FinishFails, Return, Goto, TypeOK
    <2>3. CASE OpenTimesOut(u)
      BY <2>3, HiddenSteps DEF OpenTimesOut, Goto, TypeOK
    <2>4. ASSUME UNCHANGED <<content, db>>, pc[u] # "answered", NEW code,
                 Return(u, code, 0, {})
          PROVE  UNCHANGED Promise!uploadVars
      BY <2>4, HiddenSteps DEF Return, Goto, TypeOK
    <2>5. CASE TryFails(u) \/ ReopenFails(u) \/ RowFails(u) \/
               (FinishFails(u) /\ UNCHANGED db)
      BY <2>4, <2>5 DEF TryFails, ReopenFails, RowFails, FinishFails
    <2>6. CASE DeadlockVictim(u)
      <3>1. pc[u] # "answered"
        BY <2>6 DEF DeadlockVictim, Deadlocked, WaitsFor, Inserting
      <3> QED
        BY <2>4, <2>6, <3>1 DEF DeadlockVictim
    <2> QED
      BY <1>3, <2>1, <2>2, <2>3, <2>5, <2>6 DEF RequestFault, FinishFails
  <1>4. CASE Crash \/ UNCHANGED vars
    BY <1>4, HiddenSteps DEF Crash, vars, db, InFlight, TypeOK
  <1> QED
    BY <1>2, <1>3, <1>4 DEF Next

\* The departments and jobs uploads are atomic, load all they can, and answer the
\* truth: they implement AtomicUpload.
THEOREM AtomicUploadImplemented == Spec => ImplementsAtomicUpload
  <1>1. Init => Promise!UploadInit
    BY DEF Init, Promise!UploadInit, Promise!NoAnswer, NoReply
  <1>2. IInv /\ IInv' /\ [Next]_vars => [Promise!UploadNext]_(Promise!uploadVars)
    BY UploadStep DEF IInv
  <1> QED
    BY <1>1, <1>2, Inductive, PTL
      DEF Spec, ImplementsAtomicUpload, Promise!UploadSpec

-----------------------------------------------------------------------------
(* Waiting for each other's keys.                                          *)

Serving == {u \in Uploads : pc[u] \in InFlight}

\* A step of the request of u that waits for nobody: the conditions of RequestStep.
GoesOn(u) ==
    \/ pc[u] \in {"opening", "fallback", "replying"}
    \/ BulkReady(u)
    \/ pc[u] = "bulk" /\ BulkClash(u)
    \/ /\ pc[u] = "bulk"
       /\ \E i \in Records(u) \ txn[u] :
            /\ First(Records(u) \ txn[u], i)
            /\ Row(u, i).fits
            /\ ~Taken(Row(u, i).id)
            /\ ~Locked(u, Row(u, i).id)
            /\ ~LockedBy(u, Row(u, i).id)
    \/ pc[u] = "rows" /\ todo[u] = {}
    \/ \E i \in todo[u] : RowReady(u, i) \/ RowClash(u, i)

\* These uploads wait for none but each other.
AmongThemselves(W) == \A w \in W : \A v \in Uploads : WaitsFor(w, v) => v \in W

\* Wherever one follows the waiting, there is an upload that can go on, or a cycle
\* that Postgres breaks: the requests under way never stand still together.
NoStandstill ==
    \A W \in SUBSET Serving :
      W # {} /\ AmongThemselves(W) => \E w \in W : GoesOn(w) \/ Deadlocked(w)

\* A request that cannot go on waits for a key that another one's transaction holds.
LEMMA StuckWaits ==
    ASSUME IInv, NEW u \in Serving, ~GoesOn(u)
    PROVE  \E v \in Serving : WaitsFor(u, v)
  <1> USE DEF IInv
  <1>1. u \in Uploads /\ pc[u] \in {"bulk", "rows"} /\ u \in opened
    BY DEF Serving, InFlight, GoesOn, Shape, TypeOK
  <1>2. ASSUME NEW i \in Records(u), Inserting(u, i), Locked(u, Row(u, i).id)
        PROVE  \E v \in Serving : WaitsFor(u, v)
    <2>1. PICK v \in Uploads \ {u} : LockedBy(v, Row(u, i).id)
      BY <1>2 DEF Locked
    <2>2. v \in Serving
      BY <2>1 DEF LockedBy, Shape, Serving, InFlight
    <2> QED
      BY <1>2, <2>1, <2>2 DEF WaitsFor
  <1>3. CASE pc[u] = "bulk"
    <2>1. txn[u] # Records(u) /\ txn[u] \subseteq Records(u)
      BY <1>1, <1>3 DEF GoesOn, BulkReady, Fallback, FallbackAt
    <2>2. Records(u) \ txn[u] \in SUBSET Nat /\ Records(u) \ txn[u] # {}
      BY <1>1, <2>1, RowsAreNat
    <2>3. PICK i \in Records(u) \ txn[u] : First(Records(u) \ txn[u], i)
      BY <2>2, LeastOf DEF First
    <2>4. Row(u, i).fits /\ ~Taken(Row(u, i).id) /\ ~LockedBy(u, Row(u, i).id)
      BY <1>3, <2>3 DEF GoesOn, BulkClash
    <2>5. Locked(u, Row(u, i).id)
      BY <1>3, <2>3, <2>4 DEF GoesOn
    <2> QED
      BY <1>2, <1>3, <2>3, <2>5 DEF Inserting
  <1>4. CASE pc[u] = "rows"
    <2>1. todo[u] # {} /\ todo[u] \in SUBSET Nat /\ todo[u] \subseteq Records(u)
      BY <1>1, <1>4 DEF GoesOn, TypeOK, Fallback, FallbackAt
    <2>2. PICK i \in todo[u] : First(todo[u], i)
      BY <2>1, LeastOf DEF First
    <2>3. Row(u, i).fits /\ ~Taken(Row(u, i).id) /\ ~LockedBy(u, Row(u, i).id)
      BY <1>4, <2>2 DEF GoesOn, RowClash
    <2>4. Locked(u, Row(u, i).id)
      BY <1>1, <1>4, <2>2, <2>3 DEF GoesOn, RowReady
    <2> QED
      BY <1>2, <1>4, <2>1, <2>2, <2>4 DEF Inserting
  <1> QED
    BY <1>1, <1>3, <1>4

\* In the states of the invariant, and so wherever the waiting leads.
LEMMA SomebodyGoesOn ==
    ASSUME IsFiniteSet(Uploads), IInv
    PROVE  NoStandstill
  <1> SUFFICES ASSUME NEW W \in SUBSET Serving, W # {}, AmongThemselves(W),
                      \A w \in W : ~GoesOn(w)
               PROVE  \E w \in W : Deadlocked(w)
    BY DEF NoStandstill
  <1> DEFINE R == {p \in W \X W : WaitsFor(p[1], p[2])}
  <1>1. W \subseteq Uploads /\ IsFiniteSet(W)
    BY FS_Subset DEF Serving
  <1>2. \A w \in W : \E v \in W : WaitsFor(w, v)
    BY <1>1, StuckWaits DEF AmongThemselves, Serving
  <1>3. \A w, v \in W : <<w, v>> \in R <=> WaitsFor(w, v)
    OBVIOUS
  <1> HIDE DEF R
  <1>4. \A w \in W : \E v \in W : <<w, v>> \in R
    BY <1>2, <1>3
  <1>5. PICK C \in SUBSET W :
          /\ C # {}
          /\ \A w \in C : /\ \E v \in C : <<w, v>> \in R
                          /\ \E v \in C : <<v, w>> \in R
    BY <1>1, <1>4, RingExists
  <1>6. \A w \in C : /\ \E v \in C : WaitsFor(w, v)
                     /\ \E v \in C : WaitsFor(v, w)
    BY <1>3, <1>5
  <1>7. PICK w \in C : TRUE
    BY <1>5
  <1>8. C \in SUBSET Uploads
    BY <1>1, <1>5
  <1>9. Deadlocked(w)
    BY <1>6, <1>7, <1>8 DEF Deadlocked
  <1> QED
    BY <1>7, <1>9

\* For every file and every finite number of requests at a time: uploads of the same
\* keys do not stand still for ever, provided Postgres breaks the cycles. The safety
\* half of RequestsEnd.
THEOREM UploadsDoNotStandStill ==
    ASSUME IsFiniteSet(Uploads)
    PROVE  Spec => []NoStandstill
  <1>1. IInv => NoStandstill
    BY SomebodyGoesOn
  <1> QED
    BY <1>1, Inductive, PTL

=============================================================================
