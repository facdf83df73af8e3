---------------------- MODULE EmployeeIngestionProofs ----------------------
(***************************************************************************)
(* Proofs about EmployeeIngestion.tla, for every set of batches, files,    *)
(* references, positive chunk size and bound on polls.                     *)
(***************************************************************************)
EXTENDS EmployeeIngestion, InductionTheorems

\* The rows of a file are numbered by naturals.
LEMMA RowsAreNat ==
    ASSUME TypeOK, NEW b \in Batches
    PROVE  /\ Rows(b) \subseteq Nat
           /\ Records(b) \subseteq Rows(b)
           /\ \A i \in Rows(b) : Row(b, i) \in RowType
  <1>1. content[b] \in FileType
    BY FilesAssumption DEF TypeOK
  <1>2. content[b].rows \in Seq(RowType)
    BY <1>1 DEF FileType
  <1>3. Rows(b) = 1..Len(content[b].rows)
    BY <1>2 DEF Rows
  <1> QED
    BY <1>2, <1>3 DEF Rows, Row, Records

\* A chunk is a part of the list it is cut from.
LEMMA FirstChunkIsPart ==
    ASSUME NEW S PROVE FirstChunk(S) \subseteq S
  BY DEF FirstChunk

-----------------------------------------------------------------------------
(* Type correctness.                                                       *)

LEMMA InitType == Init => TypeOK
  BY RefsAssumption, MaxPollsAssumption DEF Init, TypeOK, Phases

\* Every step keeps the types.
LEMMA TypeStep ==
    ASSUME TypeOK, [Next]_vars
    PROVE  TypeOK'
  <1> USE DEF vars, db, worker, clients, TypeOK, Statuses, Phases, InFlight,
              Working, Ended
  <1>1. ASSUME NEW b \in Batches, Request(b) PROVE TypeOK'
    <2>1. CASE UploadFile(b)
      BY <2>1 DEF UploadFile, Goto
    <2>2. CASE CreateBatch(b)
      BY <2>2 DEF CreateBatch, SetStatus, Goto
    <2>3. CASE CreateBatchFails(b)
      BY <2>3 DEF CreateBatchFails, SetStatus, Goto
    <2>4. CASE Respond(b)
      BY <2>4 DEF Respond, Goto
    <2>5. CASE UploadFails(b)
      BY <2>5 DEF UploadFails, Goto
    <2> QED
      BY <1>1, <2>1, <2>2, <2>3, <2>4, <2>5 DEF Request
  <1>2. ASSUME NEW b \in Batches, WorkerStep(b) PROVE TypeOK'
    <2>1. CASE Download(b)
      BY <2>1, RowsAreNat DEF Download, Goto
    <2>2. CASE StartChunk(b)
      BY <2>2, FirstChunkIsPart DEF StartChunk, CutChunk, AfterChunk, Goto
    <2>3. CASE BulkRow(b)
      BY <2>3 DEF BulkRow
    <2>4. CASE BulkCommit(b)
      BY <2>4 DEF BulkCommit, Goto, BulkReady
    <2>5. CASE RowInsert(b)
      BY <2>5 DEF RowInsert, Goto, RowDone, RowReady
    <2>6. CASE RowRejected(b)
      BY <2>6 DEF RowRejected, RowClash, Goto, RowDone
    <2>7. CASE Finalize(b)
      BY <2>7 DEF Finalize, Complete, SetStatus, Goto, Leave
    <2>8. CASE MarkFailed(b)
      BY <2>8 DEF MarkFailed, SetStatus, Goto
    <2>9. CASE DecodeFails(b) \/ BulkRejected(b) \/ InvalidateCache(b)
      BY <2>9 DEF DecodeFails, BulkRejected, InvalidateCache, Goto, Leave
    <2> QED
      BY <1>2, <2>1, <2>2, <2>3, <2>4, <2>5, <2>6, <2>7, <2>8, <2>9
      DEF WorkerStep
  <1>3. ASSUME NEW b \in Batches, WorkerFault(b) PROVE TypeOK'
    <2>1. CASE WriteUnacknowledged(b)
      BY <2>1 DEF WriteUnacknowledged, Goto, Leave, BulkReady, RowReady
    <2>2. CASE FinalizeFails(b)
      BY <2>2 DEF FinalizeFails, SetStatus, Goto, Leave
    <2>3. CASE DownloadFails(b) \/ WriteFails(b) \/ DeadlockVictim(b) \/
              MarkFailedSwallowed(b)
      BY <2>3
        DEF DownloadFails, WriteFails, DeadlockVictim, MarkFailedSwallowed, Goto, Leave
    <2> QED
      BY <1>3, <2>1, <2>2, <2>3 DEF WorkerFault
  <1>4. ASSUME NEW b \in Batches, Status(b) \/ Age(b) PROVE TypeOK'
    <2>1. CASE Poll(b)
      BY <2>1 DEF Poll, Tell
    <2>2. CASE PollStale(b)
      BY <2>2, MaxPollsAssumption DEF PollStale, BeginExpiry
    <2>3. CASE Expire(b)
      BY <2>3, MaxPollsAssumption DEF Expire, EndExpiry, SetStatus, Tell
    <2>4. CASE ExpireFails(b)
      BY <2>4, MaxPollsAssumption DEF ExpireFails, EndExpiry
    <2>5. CASE PollUnknown(b) \/ Age(b)
      BY <2>5 DEF PollUnknown, Age
    <2> QED
      BY <1>4, <2>1, <2>2, <2>3, <2>4, <2>5 DEF Status
  <1>5. CASE AddReference
    BY <1>5 DEF AddReference
  <1>6. CASE Crash
    BY <1>6, MaxPollsAssumption DEF Crash
  <1>7. CASE UNCHANGED vars
    BY <1>7
  <1> QED
    BY <1>1, <1>2, <1>3, <1>4, <1>5, <1>6, <1>7 DEF Next

\* The variables always have their types.
THEOREM TypeCorrect == Spec => []TypeOK
  <1> QED
    BY InitType, TypeStep, PTL DEF Spec

-----------------------------------------------------------------------------
(* The parts of the inductive invariant.                                   *)

\* Every step keeps the shape of the worker's locals.
LEMMA ShapeStep ==
    ASSUME TypeOK, Shape, [Next]_vars
    PROVE  Shape'
  <1> USE DEF vars, db, worker, clients, TypeOK, Shape, Phases, InFlight,
              Working, Ended
  <1>1. ASSUME NEW b \in Batches, Request(b) PROVE Shape'
    <2>1. CASE UploadFile(b) \/ UploadFails(b) \/ CreateBatch(b) \/
              CreateBatchFails(b) \/ Respond(b)
      BY <2>1
        DEF UploadFile, UploadFails, CreateBatch, CreateBatchFails, Respond, Goto,
            SetStatus
    <2> QED
      BY <1>1, <2>1 DEF Request
  <1>2. ASSUME NEW b \in Batches, WorkerStep(b) PROVE Shape'
    <2>1. CASE Download(b)
      BY <2>1 DEF Download, Goto
    <2>2. CASE DecodeFails(b)
      BY <2>2 DEF DecodeFails, Goto, Leave
    <2>3. CASE StartChunk(b)
      BY <2>3, FirstChunkIsPart DEF StartChunk, CutChunk, AfterChunk, Goto
    <2>4. CASE BulkRow(b)
      BY <2>4 DEF BulkRow
    <2>5. CASE BulkRejected(b)
      BY <2>5 DEF BulkRejected, Goto
    <2>6. CASE BulkCommit(b)
      BY <2>6 DEF BulkCommit, Goto, BulkReady
    <2>7. CASE RowInsert(b)
      BY <2>7 DEF RowInsert, Goto, RowDone, RowReady
    <2>8. CASE RowRejected(b)
      BY <2>8 DEF RowRejected, RowClash, Goto, RowDone
    <2>9. CASE Finalize(b)
      BY <2>9 DEF Finalize, Complete, SetStatus, Goto, Leave
    <2>10. CASE InvalidateCache(b)
      BY <2>10 DEF InvalidateCache, Goto
    <2>11. CASE MarkFailed(b)
      BY <2>11 DEF MarkFailed, SetStatus, Goto
    <2> QED
      BY <1>2, <2>1, <2>2, <2>3, <2>4, <2>5, <2>6, <2>7, <2>8, <2>9, <2>10, <2>11
        DEF WorkerStep
  <1>3. ASSUME NEW b \in Batches, WorkerFault(b) PROVE Shape'
    <2>1. CASE DownloadFails(b)
      BY <2>1 DEF DownloadFails, Goto, Leave
    <2>2. CASE WriteFails(b)
      BY <2>2 DEF WriteFails, Goto, Leave
    <2>3. CASE WriteUnacknowledged(b)
      BY <2>3 DEF WriteUnacknowledged, Goto, Leave, BulkReady, RowReady
    <2>4. CASE DeadlockVictim(b)
      BY <2>4 DEF DeadlockVictim, Goto, Leave
    <2>5. CASE FinalizeFails(b)
      BY <2>5 DEF FinalizeFails, SetStatus, Goto, Leave
    <2>6. CASE MarkFailedSwallowed(b)
      BY <2>6 DEF MarkFailedSwallowed, Goto
    <2> QED
      BY <1>3, <2>1, <2>2, <2>3, <2>4, <2>5, <2>6 DEF WorkerFault
  <1>4. ASSUME NEW b \in Batches, Status(b) \/ Age(b) PROVE Shape'
    <2>1. CASE PollUnknown(b) \/ Poll(b) \/ PollStale(b) \/ Expire(b) \/
              ExpireFails(b) \/ Age(b)
      BY <2>1
        DEF PollUnknown, Poll, PollStale, Expire, ExpireFails, Age, Tell, BeginExpiry,
            EndExpiry, SetStatus
    <2> QED
      BY <1>4, <2>1 DEF Status
  <1>5. CASE AddReference
    BY <1>5 DEF AddReference
  <1>6. CASE Crash
    BY <1>6 DEF Crash
  <1>7. CASE UNCHANGED vars
    BY <1>7
  <1> QED
    BY <1>1, <1>2, <1>3, <1>4, <1>5, <1>6, <1>7 DEF Next

\* Every step keeps the two stores in step with the phases.
LEMMA LifecycleStep ==
    ASSUME TypeOK, Lifecycle, [Next]_vars
    PROVE  Lifecycle'
  <1> USE DEF vars, db, worker, clients, TypeOK, Lifecycle, Statuses, Phases,
              InFlight, Working, Ended
  <1>1. ASSUME NEW b \in Batches, Request(b) PROVE Lifecycle'
    <2>1. CASE UploadFile(b)
      BY <2>1 DEF UploadFile, Goto
    <2>2. CASE UploadFails(b)
      BY <2>2 DEF UploadFails, Goto
    <2>3. CASE CreateBatch(b)
      BY <2>3 DEF CreateBatch, SetStatus, Goto
    <2>4. CASE CreateBatchFails(b)
      BY <2>4 DEF CreateBatchFails, SetStatus, Goto
    <2>5. CASE Respond(b)
      BY <2>5 DEF Respond, Goto
    <2> QED
      BY <1>1, <2>1, <2>2, <2>3, <2>4, <2>5 DEF Request
  <1>2. ASSUME NEW b \in Batches, WorkerStep(b) PROVE Lifecycle'
    <2>1. CASE Download(b)
      BY <2>1 DEF Download, Goto
    <2>2. CASE DecodeFails(b)
      BY <2>2 DEF DecodeFails, Goto, Leave
    <2>3. CASE StartChunk(b)
      BY <2>3 DEF StartChunk, CutChunk, AfterChunk, Goto
    <2>4. CASE BulkRow(b)
      BY <2>4 DEF BulkRow
    <2>5. CASE BulkRejected(b)
      BY <2>5 DEF BulkRejected, Goto
    <2>6. CASE BulkCommit(b)
      BY <2>6 DEF BulkCommit, Goto, BulkReady
    <2>7. CASE RowInsert(b)
      BY <2>7 DEF RowInsert, Goto, RowDone, RowReady
    <2>8. CASE RowRejected(b)
      BY <2>8 DEF RowRejected, RowClash, Goto, RowDone
    <2>9. CASE Finalize(b)
      BY <2>9 DEF Finalize, Complete, SetStatus, Goto, Leave
    <2>10. CASE InvalidateCache(b)
      BY <2>10 DEF InvalidateCache, Goto
    <2>11. CASE MarkFailed(b)
      BY <2>11 DEF MarkFailed, SetStatus, Goto
    <2> QED
      BY <1>2, <2>1, <2>2, <2>3, <2>4, <2>5, <2>6, <2>7, <2>8, <2>9, <2>10, <2>11
        DEF WorkerStep
  <1>3. ASSUME NEW b \in Batches, WorkerFault(b) PROVE Lifecycle'
    <2>1. CASE DownloadFails(b)
      BY <2>1 DEF DownloadFails, Goto, Leave
    <2>2. CASE WriteFails(b)
      BY <2>2 DEF WriteFails, Goto, Leave
    <2>3. CASE WriteUnacknowledged(b)
      <3>1. pc[b] \in {"bulk", "rows"}
        BY <2>3 DEF WriteUnacknowledged, BulkReady, RowReady
      <3> QED
        BY <2>3, <3>1 DEF WriteUnacknowledged, Goto, Leave
    <2>4. CASE DeadlockVictim(b)
      <3>1. pc[b] = "bulk"
        BY <2>4 DEF DeadlockVictim, Deadlocked, WaitsFor
      <3> QED
        BY <2>4, <3>1 DEF DeadlockVictim, Goto, Leave
    <2>5. CASE FinalizeFails(b)
      BY <2>5 DEF FinalizeFails, SetStatus, Goto, Leave
    <2>6. CASE MarkFailedSwallowed(b)
      BY <2>6 DEF MarkFailedSwallowed, Goto
    <2> QED
      BY <1>3, <2>1, <2>2, <2>3, <2>4, <2>5, <2>6 DEF WorkerFault
  <1>4. ASSUME NEW b \in Batches, Status(b) \/ Age(b) PROVE Lifecycle'
    <2>1. CASE PollUnknown(b)
      BY <2>1 DEF PollUnknown
    <2>2. CASE Poll(b)
      BY <2>2 DEF Poll, Tell
    <2>3. CASE PollStale(b)
      BY <2>3, MaxPollsAssumption DEF PollStale, BeginExpiry, Stale
    <2>4. CASE Expire(b)
      BY <2>4, MaxPollsAssumption DEF Expire, EndExpiry, SetStatus, Tell
    <2>5. CASE ExpireFails(b)
      BY <2>5, MaxPollsAssumption DEF ExpireFails, EndExpiry
    <2>6. CASE Age(b)
      BY <2>6 DEF Age
    <2> QED
      BY <1>4, <2>1, <2>2, <2>3, <2>4, <2>5, <2>6 DEF Status
  <1>5. CASE AddReference
    BY <1>5 DEF AddReference
  <1>6. CASE Crash
    BY <1>6 DEF Crash
  <1>7. CASE UNCHANGED vars
    BY <1>7
  <1> QED
    BY <1>1, <1>2, <1>3, <1>4, <1>5, <1>6, <1>7 DEF Next

\* Every step of the chunk loop moves rows from one place to the next, and no
\* other step touches them.
LEMMA AccountingStep ==
    ASSUME TypeOK, Shape, Lifecycle, Accounting, [Next]_vars
    PROVE  Accounting'
  <1> USE DEF vars, db, worker, clients, Accounting, Rows, Row, Records
  <1>1. ASSUME NEW b \in Batches, Request(b) PROVE Accounting'
    <2>1. CASE UploadFile(b)
      BY <2>1
        DEF UploadFile, Goto, TypeOK, Shape, Lifecycle, Phases, InFlight, Working,
            Ended
    <2>2. CASE UploadFails(b)
      BY <2>2
        DEF UploadFails, Goto, TypeOK, Shape, Lifecycle, Phases, InFlight, Working,
            Ended
    <2>3. CASE CreateBatch(b)
      BY <2>3
        DEF CreateBatch, SetStatus, Goto, TypeOK, Shape, Lifecycle, Phases, InFlight,
            Working, Ended
    <2>4. CASE CreateBatchFails(b)
      BY <2>4
        DEF CreateBatchFails, SetStatus, Goto, TypeOK, Shape, Lifecycle, Phases,
            InFlight, Working, Ended
    <2>5. CASE Respond(b)
      BY <2>5
        DEF Respond, Goto, TypeOK, Shape, Lifecycle, Phases, InFlight, Working, Ended
    <2> QED
      BY <1>1, <2>1, <2>2, <2>3, <2>4, <2>5 DEF Request
  <1>2. ASSUME NEW b \in Batches, WorkerStep(b) PROVE Accounting'
    <2>1. CASE Download(b)
      BY <2>1
        DEF Download, Goto, TypeOK, Shape, Lifecycle, Phases, InFlight, Working, Ended
    <2>2. CASE DecodeFails(b)
      BY <2>2
        DEF DecodeFails, Goto, Leave, TypeOK, Shape, Lifecycle, Phases, InFlight,
            Working, Ended
    <2>3. CASE StartChunk(b)
      BY <2>3, FirstChunkIsPart
        DEF StartChunk, CutChunk, AfterChunk, Goto, TypeOK, Shape, Lifecycle, Phases,
            InFlight, Working, Ended
    <2>4. CASE BulkRow(b)
      BY <2>4
        DEF BulkRow, TypeOK, Shape, Lifecycle, Phases, InFlight, Working, Ended
    <2>5. CASE BulkRejected(b)
      BY <2>5
        DEF BulkRejected, Goto, TypeOK, Shape, Lifecycle, Phases, InFlight, Working,
            Ended
    <2>6. CASE BulkCommit(b)
      BY <2>6
        DEF BulkCommit, Goto, BulkReady, TypeOK, Shape, Lifecycle, Phases, InFlight,
            Working, Ended
    <2>7. CASE RowInsert(b)
      BY <2>7
        DEF RowInsert, Goto, RowDone, RowReady, TypeOK, Shape, Lifecycle, Phases,
            InFlight, Working, Ended
    <2>8. CASE RowRejected(b)
      BY <2>8
        DEF RowRejected, RowClash, Goto, RowDone, TypeOK, Shape, Lifecycle, Phases,
            InFlight, Working, Ended
    <2>9. CASE Finalize(b)
      BY <2>9
        DEF Finalize, Complete, SetStatus, Goto, Leave, TypeOK, Shape, Lifecycle,
            Phases, InFlight, Working, Ended
    <2>10. CASE InvalidateCache(b)
      BY <2>10
        DEF InvalidateCache, Goto, TypeOK, Shape, Lifecycle, Phases, InFlight, Working,
            Ended
    <2>11. CASE MarkFailed(b)
      BY <2>11
        DEF MarkFailed, SetStatus, Goto, TypeOK, Shape, Lifecycle, Phases, InFlight,
            Working, Ended
    <2> QED
      BY <1>2, <2>1, <2>2, <2>3, <2>4, <2>5, <2>6, <2>7, <2>8, <2>9, <2>10, <2>11
        DEF WorkerStep
  <1>3. ASSUME NEW b \in Batches, WorkerFault(b) PROVE Accounting'
    <2>1. CASE DownloadFails(b)
      BY <2>1
        DEF DownloadFails, Goto, Leave, TypeOK, Shape, Lifecycle, Phases, InFlight,
            Working, Ended
    <2>2. CASE WriteFails(b)
      BY <2>2
        DEF WriteFails, Goto, Leave, TypeOK, Shape, Lifecycle, Phases, InFlight,
            Working, Ended
    <2>3. CASE WriteUnacknowledged(b)
      BY <2>3
        DEF WriteUnacknowledged, Goto, Leave, BulkReady, RowReady, TypeOK, Shape,
            Phases, InFlight, Working, Ended
    <2>4. CASE DeadlockVictim(b)
      BY <2>4
        DEF DeadlockVictim, Goto, Leave, TypeOK, Shape, Lifecycle, Phases, InFlight,
            Working, Ended
    <2>5. CASE FinalizeFails(b)
      BY <2>5
        DEF FinalizeFails, SetStatus, Goto, Leave, TypeOK, Shape, Lifecycle, Phases,
            InFlight, Working, Ended
    <2>6. CASE MarkFailedSwallowed(b)
      BY <2>6
        DEF MarkFailedSwallowed, Goto, TypeOK, Shape, Lifecycle, Phases, InFlight,
            Working, Ended
    <2> QED
      BY <1>3, <2>1, <2>2, <2>3, <2>4, <2>5, <2>6 DEF WorkerFault
  <1>4. ASSUME NEW b \in Batches, Status(b) \/ Age(b) PROVE Accounting'
    <2>1. CASE PollUnknown(b) \/ Poll(b) \/ PollStale(b) \/ Expire(b) \/
              ExpireFails(b) \/ Age(b)
      BY <2>1
        DEF PollUnknown, Poll, PollStale, Expire, ExpireFails, Age, Tell, BeginExpiry,
            EndExpiry, SetStatus
    <2> QED
      BY <1>4, <2>1 DEF Status
  <1>5. CASE AddReference
    BY <1>5 DEF AddReference
  <1>6. CASE Crash
    BY <1>6 DEF Crash, TypeOK, Phases, InFlight, Working, Ended
  <1>7. CASE UNCHANGED vars
    BY <1>7
  <1> QED
    BY <1>1, <1>2, <1>3, <1>4, <1>5, <1>6, <1>7 DEF Next

\* Every step keeps the primary keys unique: a key is taken only when no row has it
\* and no open transaction holds it.
LEMMA KeysStep ==
    ASSUME TypeOK, Shape, KeysAreUnique, [Next]_vars
    PROVE  KeysAreUnique'
  <1> USE DEF vars, db, worker, clients, KeysAreUnique, Held, Row
  <1>1. ASSUME NEW b \in Batches, Request(b) PROVE KeysAreUnique'
    <2>1. CASE UploadFile(b) \/ UploadFails(b) \/ CreateBatch(b) \/
              CreateBatchFails(b) \/ Respond(b)
      BY <2>1
        DEF UploadFile, UploadFails, CreateBatch, CreateBatchFails, Respond, Goto,
            SetStatus
    <2> QED
      BY <1>1, <2>1 DEF Request
  <1>2. ASSUME NEW b \in Batches, WorkerStep(b) PROVE KeysAreUnique'
    <2>1. CASE DecodeFails(b)
      BY <2>1 DEF DecodeFails, Goto, Leave, TypeOK
    <2>2. CASE BulkRow(b)
      BY <2>2 DEF BulkRow, TypeOK, Taken, Locked, LockedBy
    <2>3. CASE BulkRejected(b)
      BY <2>3 DEF BulkRejected, Goto, TypeOK
    <2>4. CASE BulkCommit(b)
      BY <2>4 DEF BulkCommit, Goto, BulkReady, TypeOK
    <2>5. CASE RowInsert(b)
      BY <2>5
        DEF RowInsert, Goto, RowDone, RowReady, TypeOK, Shape, Taken, Locked, LockedBy
    <2>6. CASE Finalize(b)
      BY <2>6 DEF Finalize, Complete, SetStatus, Goto, Leave, TypeOK
    <2>7. CASE Download(b) \/ StartChunk(b) \/ RowRejected(b) \/
              InvalidateCache(b) \/ MarkFailed(b)
      BY <2>7
        DEF Download, StartChunk, RowRejected, InvalidateCache, MarkFailed, Goto,
            CutChunk, AfterChunk, RowDone, SetStatus
    <2> QED
      BY <1>2, <2>1, <2>2, <2>3, <2>4, <2>5, <2>6, <2>7 DEF WorkerStep
  <1>3. ASSUME NEW b \in Batches, WorkerFault(b) PROVE KeysAreUnique'
    <2>1. CASE DownloadFails(b)
      BY <2>1 DEF DownloadFails, Goto, Leave, TypeOK
    <2>2. CASE WriteFails(b)
      BY <2>2 DEF WriteFails, Goto, Leave, TypeOK
    <2>3. CASE WriteUnacknowledged(b)
      <3>1. CASE BulkReady(b) /\ inserted' = [inserted EXCEPT ![b] = @ \cup txn[b]]
        BY <2>3, <3>1 DEF WriteUnacknowledged, BulkReady, Leave, Goto, TypeOK
      <3>2. ASSUME NEW i \in chunk[b], RowReady(b, i),
                   inserted' = [inserted EXCEPT ![b] = @ \cup {i}]
            PROVE  KeysAreUnique'
        BY <2>3, <3>2
          DEF WriteUnacknowledged, RowReady, Leave, Goto, TypeOK, Shape, Taken,
              Locked, LockedBy
      <3>3. PICK S \in SUBSET chunk[b] :
              /\ \/ BulkReady(b) /\ S = txn[b]
                 \/ \E i \in chunk[b] : RowReady(b, i) /\ S = {i}
              /\ inserted' = [inserted EXCEPT ![b] = @ \cup S]
        BY <2>3 DEF WriteUnacknowledged
      <3>4. CASE S = txn[b] /\ BulkReady(b)
        BY <3>1, <3>3, <3>4
      <3>5. CASE \E i \in chunk[b] : RowReady(b, i) /\ S = {i}
        BY <3>2, <3>3, <3>5
      <3> QED
        BY <3>3, <3>4, <3>5
    <2>4. CASE DeadlockVictim(b)
      BY <2>4 DEF DeadlockVictim, Goto, Leave, TypeOK
    <2>5. CASE FinalizeFails(b)
      BY <2>5 DEF FinalizeFails, SetStatus, Goto, Leave, TypeOK
    <2>6. CASE MarkFailedSwallowed(b)
      BY <2>6 DEF MarkFailedSwallowed, Goto
    <2> QED
      BY <1>3, <2>1, <2>2, <2>3, <2>4, <2>5, <2>6 DEF WorkerFault
  <1>4. ASSUME NEW b \in Batches, Status(b) \/ Age(b) PROVE KeysAreUnique'
    <2>1. CASE PollUnknown(b) \/ Poll(b) \/ PollStale(b) \/ Expire(b) \/
              ExpireFails(b) \/ Age(b)
      BY <2>1
        DEF PollUnknown, Poll, PollStale, Expire, ExpireFails, Age, Tell, BeginExpiry,
            EndExpiry, SetStatus
    <2> QED
      BY <1>4, <2>1 DEF Status
  <1>5. CASE AddReference
    BY <1>5 DEF AddReference
  <1>6. CASE Crash
    BY <1>6 DEF Crash, TypeOK
  <1>7. CASE UNCHANGED vars
    BY <1>7
  <1> QED
    BY <1>1, <1>2, <1>3, <1>4, <1>5, <1>6, <1>7 DEF Next

\* A batch becomes completed when its chunk loop has emptied both lists, so the
\* rows are in the table or in all_errors; afterwards nothing moves.
LEMMA CompletedStep ==
    ASSUME TypeOK, Shape, Lifecycle, Accounting, CompletedAccountsForEveryRow,
           [Next]_vars
    PROVE  CompletedAccountsForEveryRow'
  <1> USE DEF vars, db, worker, clients, CompletedAccountsForEveryRow, Rows
  <1>1. ASSUME NEW b \in Batches, Request(b) PROVE CompletedAccountsForEveryRow'
    <2>1. CASE CreateBatch(b)
      BY <2>1 DEF CreateBatch, SetStatus, Goto, TypeOK
    <2>2. CASE CreateBatchFails(b)
      BY <2>2 DEF CreateBatchFails, SetStatus, Goto, TypeOK
    <2>3. CASE UploadFile(b) \/ UploadFails(b) \/ Respond(b)
      BY <2>3 DEF UploadFile, UploadFails, Respond, Goto
    <2> QED
      BY <1>1, <2>1, <2>2, <2>3 DEF Request
  <1>2. ASSUME NEW b \in Batches, WorkerStep(b) PROVE CompletedAccountsForEveryRow'
    <2>1. CASE BulkCommit(b)
      BY <2>1 DEF BulkCommit, Goto, BulkReady, TypeOK, Lifecycle, Working
    <2>2. CASE RowInsert(b)
      BY <2>2
        DEF RowInsert, Goto, RowDone, RowReady, TypeOK, Lifecycle, Working
    <2>3. CASE Finalize(b)
      BY <2>3
        DEF Finalize, Complete, SetStatus, Goto, Leave, TypeOK, Shape, Accounting,
            Working
    <2>4. CASE MarkFailed(b)
      BY <2>4 DEF MarkFailed, SetStatus, Goto, TypeOK
    <2>5. CASE Download(b) \/ DecodeFails(b) \/ StartChunk(b) \/ BulkRow(b) \/
              BulkRejected(b) \/ RowRejected(b) \/ InvalidateCache(b)
      BY <2>5
        DEF Download, DecodeFails, StartChunk, BulkRow, BulkRejected, RowRejected,
            InvalidateCache, Goto, Leave, CutChunk, AfterChunk, RowDone
    <2> QED
      BY <1>2, <2>1, <2>2, <2>3, <2>4, <2>5 DEF WorkerStep
  <1>3. ASSUME NEW b \in Batches, WorkerFault(b) PROVE CompletedAccountsForEveryRow'
    <2>1. CASE WriteUnacknowledged(b)
      BY <2>1
        DEF WriteUnacknowledged, Goto, Leave, BulkReady, RowReady, TypeOK, Lifecycle,
            Working
    <2>2. CASE FinalizeFails(b)
      BY <2>2
        DEF FinalizeFails, SetStatus, Goto, Leave, TypeOK, Shape, Accounting, Working
    <2>3. CASE DownloadFails(b) \/ WriteFails(b) \/ DeadlockVictim(b) \/
              MarkFailedSwallowed(b)
      BY <2>3
        DEF DownloadFails, WriteFails, DeadlockVictim, MarkFailedSwallowed, Goto, Leave
    <2> QED
      BY <1>3, <2>1, <2>2, <2>3 DEF WorkerFault
  <1>4. ASSUME NEW b \in Batches, Status(b) \/ Age(b)
        PROVE CompletedAccountsForEveryRow'
    <2>1. CASE Expire(b)
      BY <2>1 DEF Expire, EndExpiry, SetStatus, Tell, TypeOK
    <2>2. CASE PollUnknown(b) \/ Poll(b) \/ PollStale(b) \/ ExpireFails(b) \/
              Age(b)
      BY <2>2
        DEF PollUnknown, Poll, PollStale, ExpireFails, Age, Tell, BeginExpiry,
            EndExpiry
    <2> QED
      BY <1>4, <2>1, <2>2 DEF Status
  <1>5. CASE AddReference
    BY <1>5 DEF AddReference
  <1>6. CASE Crash
    BY <1>6 DEF Crash
  <1>7. CASE UNCHANGED vars
    BY <1>7
  <1> QED
    BY <1>1, <1>2, <1>3, <1>4, <1>5, <1>6, <1>7 DEF Next

\* Rows that reached the table stay there.
LEMMA InsertedGrows ==
    ASSUME TypeOK, [Next]_vars, NEW c \in Batches
    PROVE  inserted[c] \subseteq inserted'[c] /\ content' = content
  <1> DEFINE Grows == inserted[c] \subseteq inserted'[c] /\ content' = content
  <1> USE DEF vars, db, worker, clients, TypeOK
  <1>1. ASSUME NEW b \in Batches, Request(b) PROVE Grows
    BY <1>1
      DEF Request, UploadFile, UploadFails, CreateBatch, CreateBatchFails, Respond
  <1>2. ASSUME NEW b \in Batches, WorkerStep(b) PROVE Grows
    BY <1>2
      DEF WorkerStep, Download, DecodeFails, StartChunk, BulkRow, BulkRejected,
          BulkCommit, RowInsert, RowRejected, Finalize, InvalidateCache, MarkFailed,
          CutChunk, Complete
  <1>3. ASSUME NEW b \in Batches, WorkerFault(b) PROVE Grows
    BY <1>3
      DEF WorkerFault, DownloadFails, WriteFails, WriteUnacknowledged,
          DeadlockVictim, FinalizeFails, MarkFailedSwallowed
  <1>4. ASSUME NEW b \in Batches, Status(b) \/ Age(b) PROVE Grows
    BY <1>4 DEF Status, PollUnknown, Poll, PollStale, Expire, ExpireFails, Age,
           BeginExpiry, EndExpiry
  <1>5. CASE AddReference \/ Crash \/ UNCHANGED vars
    BY <1>5 DEF AddReference, Crash
  <1> QED
    BY <1>1, <1>2, <1>3, <1>4, <1>5 DEF Next

\* An excuse stays an excuse.
LEMMA ExcusesLast ==
    ASSUME TypeOK, [Next]_vars, NEW b \in Batches, NEW i, Excused(b, i)
    PROVE  Excused(b, i)'
  BY InsertedGrows DEF Excused, Row

\* A record the fallback rejects has an excuse: its key is taken by another row, a
\* reference it needs is missing even now, or there was no connection for it.
LEMMA RejectedIsExcused ==
    ASSUME TypeOK, Lifecycle, Accounting, NEW b \in Batches, pc[b] = "rows",
           NEW i \in chunk[b], Taken(Row(b, i).id) \/ ~Resolves(b, i) \/ Row(b, i).crowded
    PROVE  Excused(b, i)
  <1>1. InitialRefs \subseteq known
    BY DEF Lifecycle
  <1>2. i \notin inserted[b]
    BY DEF Accounting, Working
  <1>3. CASE Taken(Row(b, i).id)
    BY <1>2, <1>3 DEF Taken, Excused
  <1>4. CASE ~Resolves(b, i)
    BY <1>1, <1>4 DEF Resolves, Excused
  <1>5. CASE Row(b, i).crowded
    BY <1>5 DEF Excused
  <1> QED
    BY <1>3, <1>4, <1>5

\* Errors come from the parser or from the fallback, and both have an excuse.
LEMMA JustifiedStep ==
    ASSUME TypeOK, Shape, Lifecycle, Accounting, ErrorsAreJustified, [Next]_vars
    PROVE  ErrorsAreJustified'
  <1> USE DEF vars, db, worker, clients, ErrorsAreJustified, TypeOK
  <1>1. ASSUME NEW b \in Batches, Request(b) PROVE ErrorsAreJustified'
    <2>1. CASE CreateBatch(b)
      BY <2>1, ExcusesLast DEF CreateBatch, SetStatus, Goto
    <2>2. CASE CreateBatchFails(b)
      BY <2>2, ExcusesLast DEF CreateBatchFails, SetStatus, Goto
    <2>3. CASE UploadFile(b) \/ UploadFails(b) \/ Respond(b)
      BY <2>3, ExcusesLast DEF UploadFile, UploadFails, Respond, Goto
    <2> QED
      BY <1>1, <2>1, <2>2, <2>3 DEF Request
  <1>2. ASSUME NEW b \in Batches, WorkerStep(b) PROVE ErrorsAreJustified'
    <2>1. CASE Download(b)
      <3>1. \A i \in Rows(b) \ Records(b) : Excused(b, i)
        BY DEF Records, Excused
      <3>2. \A i \in errs'[b] : i \in Rows(b) \ Records(b)
        BY <2>1 DEF Download
      <3>3. errors' = errors /\ \A c \in Batches \ {b} : errs'[c] = errs[c]
        BY <2>1 DEF Download
      <3> QED
        BY <3>1, <3>2, <3>3, ExcusesLast
    <2>2. CASE DecodeFails(b)
      BY <2>2, ExcusesLast DEF DecodeFails, Goto, Leave
    <2>3. CASE RowRejected(b)
      BY <2>3, ExcusesLast, RejectedIsExcused
        DEF RowRejected, RowClash, Goto, RowDone
    <2>4. CASE Finalize(b)
      BY <2>4, ExcusesLast DEF Finalize, Complete, SetStatus, Goto, Leave
    <2>5. CASE MarkFailed(b)
      BY <2>5, ExcusesLast DEF MarkFailed, SetStatus, Goto
    <2>6. CASE StartChunk(b) \/ BulkRow(b) \/ BulkRejected(b) \/
              BulkCommit(b) \/ RowInsert(b) \/ InvalidateCache(b)
      BY <2>6, ExcusesLast
        DEF StartChunk, BulkRow, BulkRejected, BulkCommit, RowInsert, InvalidateCache,
            CutChunk, AfterChunk, Goto, RowDone
    <2> QED
      BY <1>2, <2>1, <2>2, <2>3, <2>4, <2>5, <2>6 DEF WorkerStep
  <1>3. ASSUME NEW b \in Batches, WorkerFault(b) PROVE ErrorsAreJustified'
    <2>1. CASE DownloadFails(b)
      BY <2>1, ExcusesLast DEF DownloadFails, Goto, Leave
    <2>2. CASE WriteFails(b)
      BY <2>2, ExcusesLast DEF WriteFails, Goto, Leave
    <2>3. CASE WriteUnacknowledged(b)
      BY <2>3, ExcusesLast
        DEF WriteUnacknowledged, Goto, Leave, BulkReady, RowReady
    <2>4. CASE DeadlockVictim(b)
      BY <2>4, ExcusesLast DEF DeadlockVictim, Goto, Leave
    <2>5. CASE FinalizeFails(b)
      BY <2>5, ExcusesLast DEF FinalizeFails, SetStatus, Goto, Leave
    <2>6. CASE MarkFailedSwallowed(b)
      BY <2>6, ExcusesLast DEF MarkFailedSwallowed, Goto
    <2> QED
      BY <1>3, <2>1, <2>2, <2>3, <2>4, <2>5, <2>6 DEF WorkerFault
  <1>4. ASSUME NEW b \in Batches, Status(b) \/ Age(b) PROVE ErrorsAreJustified'
    <2>1. CASE Expire(b)
      BY <2>1, ExcusesLast DEF Expire, EndExpiry, SetStatus, Tell
    <2>2. CASE PollUnknown(b) \/ Poll(b) \/ PollStale(b) \/ ExpireFails(b) \/
              Age(b)
      BY <2>2, ExcusesLast
        DEF PollUnknown, Poll, PollStale, ExpireFails, Age, Tell, BeginExpiry,
            EndExpiry
    <2> QED
      BY <1>4, <2>1, <2>2 DEF Status
  <1>5. CASE AddReference
    BY <1>5, ExcusesLast DEF AddReference
  <1>6. CASE Crash
    BY <1>6, ExcusesLast DEF Crash
  <1>7. CASE UNCHANGED vars
    BY <1>7, ExcusesLast
  <1> QED
    BY <1>1, <1>2, <1>3, <1>4, <1>5, <1>6, <1>7 DEF Next

\* What a client was told once stays true of the table.
LEMMA ToldStep ==
    ASSUME TypeOK, CompletedAccountsForEveryRow, ErrorsAreJustified, ToldCompletedMeansLoaded,
           [Next]_vars
    PROVE  ToldCompletedMeansLoaded'
  <1> USE DEF vars, db, worker, clients, ToldCompletedMeansLoaded, TypeOK, Rows
  <1>1. ASSUME NEW b \in Batches, Request(b) PROVE ToldCompletedMeansLoaded'
    <2>1. CASE UploadFile(b) \/ UploadFails(b) \/ CreateBatch(b) \/
              CreateBatchFails(b) \/ Respond(b)
      BY <2>1, ExcusesLast, InsertedGrows
        DEF UploadFile, UploadFails, CreateBatch, CreateBatchFails, Respond, Goto,
            SetStatus
    <2> QED
      BY <1>1, <2>1 DEF Request
  <1>2. ASSUME NEW b \in Batches, WorkerStep(b) PROVE ToldCompletedMeansLoaded'
    <2>1. CASE Download(b) \/ DecodeFails(b) \/ StartChunk(b) \/ BulkRow(b) \/
              BulkRejected(b) \/ BulkCommit(b) \/ RowInsert(b) \/
              RowRejected(b) \/ Finalize(b) \/ InvalidateCache(b) \/
              MarkFailed(b)
      BY <2>1, ExcusesLast, InsertedGrows
        DEF Download, DecodeFails, StartChunk, BulkRow, BulkRejected, BulkCommit,
            RowInsert, RowRejected, Finalize, InvalidateCache, MarkFailed,
            Goto, Leave, CutChunk, AfterChunk, RowDone, Complete, SetStatus
    <2> QED
      BY <1>2, <2>1 DEF WorkerStep
  <1>3. ASSUME NEW b \in Batches, WorkerFault(b) PROVE ToldCompletedMeansLoaded'
    <2>1. CASE DownloadFails(b) \/ WriteFails(b) \/ WriteUnacknowledged(b) \/
              DeadlockVictim(b) \/ FinalizeFails(b) \/ MarkFailedSwallowed(b)
      BY <2>1, ExcusesLast, InsertedGrows
        DEF DownloadFails, WriteFails, WriteUnacknowledged, DeadlockVictim,
            FinalizeFails, MarkFailedSwallowed, Goto, Leave, SetStatus
    <2> QED
      BY <1>3, <2>1 DEF WorkerFault
  <1>4. ASSUME NEW b \in Batches, Status(b) \/ Age(b)
        PROVE ToldCompletedMeansLoaded'
    <2>1. CASE Poll(b)
      BY <2>1, ExcusesLast, InsertedGrows
        DEF Poll, Tell, CompletedAccountsForEveryRow, ErrorsAreJustified
    <2>2. CASE Expire(b)
      BY <2>2, ExcusesLast, InsertedGrows
        DEF Expire, EndExpiry, SetStatus, Tell
    <2>3. CASE PollUnknown(b) \/ PollStale(b) \/ ExpireFails(b) \/ Age(b)
      BY <2>3, ExcusesLast, InsertedGrows
        DEF PollUnknown, PollStale, ExpireFails, Age, BeginExpiry, EndExpiry
    <2> QED
      BY <1>4, <2>1, <2>2, <2>3 DEF Status
  <1>5. CASE AddReference
    BY <1>5, ExcusesLast, InsertedGrows DEF AddReference
  <1>6. CASE Crash
    BY <1>6, ExcusesLast, InsertedGrows DEF Crash
  <1>7. CASE UNCHANGED vars
    BY <1>7, ExcusesLast, InsertedGrows
  <1> QED
    BY <1>1, <1>2, <1>3, <1>4, <1>5, <1>6, <1>7 DEF Next

\* A status turns failed in mark_batch_failed, which ends the worker, or in a poll
\* that found the batch too old.
LEMMA CauseStep ==
    ASSUME TypeOK, Lifecycle, FailedHasCause, [Next]_vars
    PROVE  FailedHasCause'
  <1> USE DEF vars, db, worker, clients, FailedHasCause, TypeOK, Phases,
              InFlight, Working, Ended
  <1>1. ASSUME NEW b \in Batches, Request(b) PROVE FailedHasCause'
    <2>1. CASE UploadFile(b)
      BY <2>1 DEF UploadFile, Goto
    <2>2. CASE UploadFails(b)
      BY <2>2 DEF UploadFails, Goto
    <2>3. CASE CreateBatch(b)
      BY <2>3 DEF CreateBatch, SetStatus, Goto
    <2>4. CASE CreateBatchFails(b)
      BY <2>4 DEF CreateBatchFails, SetStatus, Goto
    <2>5. CASE Respond(b)
      BY <2>5 DEF Respond, Goto
    <2> QED
      BY <1>1, <2>1, <2>2, <2>3, <2>4, <2>5 DEF Request
  <1>2. ASSUME NEW b \in Batches, WorkerStep(b) PROVE FailedHasCause'
    <2>1. CASE Download(b)
      BY <2>1 DEF Download, Goto
    <2>2. CASE DecodeFails(b)
      BY <2>2 DEF DecodeFails, Goto, Leave
    <2>3. CASE StartChunk(b)
      BY <2>3 DEF StartChunk, CutChunk, AfterChunk, Goto
    <2>4. CASE BulkRow(b)
      BY <2>4 DEF BulkRow
    <2>5. CASE BulkRejected(b)
      BY <2>5 DEF BulkRejected, Goto
    <2>6. CASE BulkCommit(b)
      BY <2>6 DEF BulkCommit, Goto, BulkReady
    <2>7. CASE RowInsert(b)
      BY <2>7 DEF RowInsert, Goto, RowDone, RowReady
    <2>8. CASE RowRejected(b)
      BY <2>8 DEF RowRejected, RowClash, Goto, RowDone
    <2>9. CASE Finalize(b)
      BY <2>9 DEF Finalize, Complete, SetStatus, Goto, Leave
    <2>10. CASE InvalidateCache(b)
      BY <2>10 DEF InvalidateCache, Goto
    <2>11. CASE MarkFailed(b)
      BY <2>11 DEF MarkFailed, SetStatus, Goto
    <2> QED
      BY <1>2, <2>1, <2>2, <2>3, <2>4, <2>5, <2>6, <2>7, <2>8, <2>9, <2>10, <2>11
        DEF WorkerStep
  <1>3. ASSUME NEW b \in Batches, WorkerFault(b) PROVE FailedHasCause'
    <2>1. CASE DownloadFails(b)
      BY <2>1 DEF DownloadFails, Goto, Leave
    <2>2. CASE WriteFails(b)
      BY <2>2 DEF WriteFails, Goto, Leave
    <2>3. CASE WriteUnacknowledged(b)
      <3>1. pc[b] \in {"bulk", "rows"}
        BY <2>3 DEF WriteUnacknowledged, BulkReady, RowReady
      <3> QED
        BY <2>3, <3>1 DEF WriteUnacknowledged, Goto, Leave
    <2>4. CASE DeadlockVictim(b)
      <3>1. pc[b] = "bulk"
        BY <2>4 DEF DeadlockVictim, Deadlocked, WaitsFor
      <3> QED
        BY <2>4, <3>1 DEF DeadlockVictim, Goto, Leave
    <2>5. CASE FinalizeFails(b)
      BY <2>5 DEF FinalizeFails, SetStatus, Goto, Leave
    <2>6. CASE MarkFailedSwallowed(b)
      BY <2>6 DEF MarkFailedSwallowed, Goto
    <2> QED
      BY <1>3, <2>1, <2>2, <2>3, <2>4, <2>5, <2>6 DEF WorkerFault
  <1>4. ASSUME NEW b \in Batches, Status(b) \/ Age(b) PROVE FailedHasCause'
    <2>1. CASE PollUnknown(b)
      BY <2>1 DEF PollUnknown
    <2>2. CASE Poll(b)
      BY <2>2 DEF Poll, Tell
    <2>3. CASE PollStale(b)
      BY <2>3 DEF PollStale, BeginExpiry
    <2>4. CASE Expire(b)
      BY <2>4, MaxPollsAssumption
        DEF Expire, EndExpiry, SetStatus, Tell, Lifecycle
    <2>5. CASE ExpireFails(b)
      BY <2>5 DEF ExpireFails, EndExpiry
    <2>6. CASE Age(b)
      BY <2>6 DEF Age
    <2> QED
      BY <1>4, <2>1, <2>2, <2>3, <2>4, <2>5, <2>6 DEF Status
  <1>5. CASE AddReference
    BY <1>5 DEF AddReference
  <1>6. CASE Crash
    BY <1>6 DEF Crash
  <1>7. CASE UNCHANGED vars
    BY <1>7
  <1> QED
    BY <1>1, <1>2, <1>3, <1>4, <1>5, <1>6, <1>7 DEF Next

\* The 202 is sent after both writes, and nothing takes them back.
LEMMA DurableStep ==
    ASSUME TypeOK, Lifecycle, AcceptedIsDurable, [Next]_vars
    PROVE  AcceptedIsDurable'
  <1> USE DEF vars, db, worker, clients, AcceptedIsDurable, TypeOK
  <1>1. ASSUME NEW b \in Batches, Request(b) PROVE AcceptedIsDurable'
    <2>1. CASE CreateBatch(b)
      BY <2>1 DEF CreateBatch, SetStatus, Goto
    <2>2. CASE CreateBatchFails(b)
      BY <2>2 DEF CreateBatchFails, SetStatus, Goto
    <2>3. CASE Respond(b)
      BY <2>3 DEF Respond, Goto, Lifecycle, Working
    <2>4. CASE UploadFile(b) \/ UploadFails(b)
      BY <2>4 DEF UploadFile, UploadFails, Goto
    <2> QED
      BY <1>1, <2>1, <2>2, <2>3, <2>4 DEF Request
  <1>2. ASSUME NEW b \in Batches, WorkerStep(b) PROVE AcceptedIsDurable'
    <2>1. CASE Finalize(b)
      BY <2>1 DEF Finalize, Complete, SetStatus, Goto, Leave
    <2>2. CASE MarkFailed(b)
      BY <2>2 DEF MarkFailed, SetStatus, Goto
    <2>3. CASE Download(b) \/ DecodeFails(b) \/ StartChunk(b) \/ BulkRow(b) \/
              BulkRejected(b) \/ BulkCommit(b) \/ RowInsert(b) \/
              RowRejected(b) \/ InvalidateCache(b)
      BY <2>3
        DEF Download, DecodeFails, StartChunk, BulkRow, BulkRejected, BulkCommit,
            RowInsert, RowRejected, InvalidateCache, Goto, Leave, CutChunk,
            AfterChunk, RowDone
    <2> QED
      BY <1>2, <2>1, <2>2, <2>3 DEF WorkerStep
  <1>3. ASSUME NEW b \in Batches, WorkerFault(b) PROVE AcceptedIsDurable'
    <2>1. CASE FinalizeFails(b)
      BY <2>1 DEF FinalizeFails, SetStatus, Goto, Leave
    <2>2. CASE DownloadFails(b) \/ WriteFails(b) \/ WriteUnacknowledged(b) \/
              DeadlockVictim(b) \/ MarkFailedSwallowed(b)
      BY <2>2
        DEF DownloadFails, WriteFails, WriteUnacknowledged, DeadlockVictim,
            MarkFailedSwallowed, Goto, Leave
    <2> QED
      BY <1>3, <2>1, <2>2 DEF WorkerFault
  <1>4. ASSUME NEW b \in Batches, Status(b) \/ Age(b) PROVE AcceptedIsDurable'
    <2>1. CASE Expire(b)
      BY <2>1 DEF Expire, EndExpiry, SetStatus, Tell
    <2>2. CASE PollUnknown(b) \/ Poll(b) \/ PollStale(b) \/ ExpireFails(b) \/
              Age(b)
      BY <2>2
        DEF PollUnknown, Poll, PollStale, ExpireFails, Age, Tell, BeginExpiry,
            EndExpiry
    <2> QED
      BY <1>4, <2>1, <2>2 DEF Status
  <1>5. CASE AddReference
    BY <1>5 DEF AddReference
  <1>6. CASE Crash
    BY <1>6 DEF Crash
  <1>7. CASE UNCHANGED vars
    BY <1>7
  <1> QED
    BY <1>1, <1>2, <1>3, <1>4, <1>5, <1>6, <1>7 DEF Next

-----------------------------------------------------------------------------
(* The theorems.                                                           *)

LEMMA InitInductive == Init => IInv
  <1> SUFFICES ASSUME Init PROVE IInv
    OBVIOUS
  <1> USE DEF Init
  <1>1. TypeOK
    BY InitType
  <1>2. Shape /\ Lifecycle /\ Accounting
    BY DEF Shape, Lifecycle, Accounting, Working
  <1>3. KeysAreUnique
    BY DEF KeysAreUnique, Held
  <1>4. CompletedAccountsForEveryRow /\ ErrorsAreJustified /\ ToldCompletedMeansLoaded
    BY DEF CompletedAccountsForEveryRow, ErrorsAreJustified, ToldCompletedMeansLoaded
  <1>5. FailedHasCause /\ AcceptedIsDurable
    BY DEF FailedHasCause, AcceptedIsDurable
  <1> QED
    BY <1>1, <1>2, <1>3, <1>4, <1>5 DEF IInv

LEMMA NextInductive == IInv /\ [Next]_vars => IInv'
  BY TypeStep, ShapeStep, LifecycleStep, AccountingStep, KeysStep, CompletedStep,
     JustifiedStep, ToldStep, CauseStep, DurableStep
  DEF IInv

\* The inductive invariant holds in every reachable state.
THEOREM Inductive == Spec => []IInv
  BY InitInductive, NextInductive, PTL DEF Spec

\* A completed batch accounts for every row of its file, whatever the number of
\* uploads, the files, the chunk size (positive) and the interleaving.
THEOREM CompletedAccounts == Spec => []CompletedAccountsForEveryRow
  <1>1. IInv => CompletedAccountsForEveryRow
    BY DEF IInv
  <1> QED
    BY <1>1, Inductive, PTL

\* No error list, kept or persisted, ever names a row without an excuse.
THEOREM Justified == Spec => []ErrorsAreJustified
  <1>1. IInv => ErrorsAreJustified
    BY DEF IInv
  <1> QED
    BY <1>1, Inductive, PTL

\* A client told "completed" has every good row of its file in the table.
THEOREM ToldLoaded == Spec => []ToldCompletedMeansLoaded
  <1>1. IInv => ToldCompletedMeansLoaded
    BY DEF IInv
  <1> QED
    BY <1>1, Inductive, PTL

\* A batch says failed only past the timeout or after its worker raised.
THEOREM FailedCause == Spec => []FailedHasCause
  <1>1. IInv => FailedHasCause
    BY DEF IInv
  <1> QED
    BY <1>1, Inductive, PTL

\* An accepted upload has its file and its batch row.
THEOREM AcceptedDurable == Spec => []AcceptedIsDurable
  <1>1. IInv => AcceptedIsDurable
    BY DEF IInv
  <1> QED
    BY <1>1, Inductive, PTL

\* Only the chunk loop loads rows, and its batch is pending or failed and was never
\* said to be completed; only those who are still at work write the status.
LEMMA FrozenStep ==
    ASSUME IInv, [Next]_vars
    PROVE  KeepsCompleted
  <1> USE DEF vars, db, worker, clients, KeepsCompleted, Settled, InFlight, Ended, Working, Phases
  <1>1. ASSUME NEW b \in Batches, Request(b) PROVE KeepsCompleted
    <2>1. CASE CreateBatch(b)
      BY <2>1 DEF CreateBatch, SetStatus, Goto, IInv, TypeOK
    <2>2. CASE CreateBatchFails(b)
      BY <2>2 DEF CreateBatchFails, SetStatus, Goto, IInv, TypeOK
    <2>3. CASE UploadFile(b) \/ UploadFails(b) \/ Respond(b)
      BY <2>3 DEF UploadFile, UploadFails, Respond, Goto, IInv, TypeOK
    <2> QED
      BY <1>1, <2>1, <2>2, <2>3 DEF Request
  <1>2. ASSUME NEW b \in Batches, WorkerStep(b) PROVE KeepsCompleted
    <2>1. CASE BulkCommit(b)
      BY <2>1 DEF BulkCommit, Goto, BulkReady, IInv, TypeOK, Lifecycle, Working
    <2>2. CASE RowInsert(b)
      BY <2>2
        DEF RowInsert, Goto, RowDone, RowReady, IInv, TypeOK, Lifecycle, Working
    <2>3. CASE Finalize(b)
      BY <2>3
        DEF Finalize, Complete, SetStatus, Goto, Leave, IInv, TypeOK, Lifecycle,
            Working
    <2>4. CASE MarkFailed(b)
      BY <2>4 DEF MarkFailed, SetStatus, Goto, IInv, TypeOK
    <2>5. CASE Download(b) \/ DecodeFails(b) \/ StartChunk(b) \/ BulkRow(b) \/
              BulkRejected(b) \/ RowRejected(b) \/ InvalidateCache(b)
      BY <2>5
        DEF Download, DecodeFails, StartChunk, BulkRow, BulkRejected, RowRejected,
            InvalidateCache, Goto, Leave, CutChunk, AfterChunk, RowDone, RowClash, IInv, TypeOK
    <2> QED
      BY <1>2, <2>1, <2>2, <2>3, <2>4, <2>5 DEF WorkerStep
  <1>3. ASSUME NEW b \in Batches, WorkerFault(b) PROVE KeepsCompleted
    <2>1. CASE WriteUnacknowledged(b)
      <3>1. pc[b] \in {"bulk", "rows"}
        BY <2>1 DEF WriteUnacknowledged, BulkReady, RowReady
      <3>2. status[b] # "completed" /\ "completed" \notin reported[b]
        BY <3>1 DEF IInv, Lifecycle, Working
      <3> QED
        BY <2>1, <3>1, <3>2 DEF WriteUnacknowledged, Goto, Leave, IInv, TypeOK
    <2>2. CASE FinalizeFails(b)
      BY <2>2
        DEF FinalizeFails, SetStatus, Goto, Leave, IInv, TypeOK, Lifecycle, Working
    <2>3. CASE DownloadFails(b) \/ WriteFails(b) \/ DeadlockVictim(b) \/
              MarkFailedSwallowed(b)
      BY <2>3
        DEF DownloadFails, WriteFails, DeadlockVictim, MarkFailedSwallowed, Goto, Leave,
            Deadlocked, WaitsFor, IInv, TypeOK
    <2> QED
      BY <1>3, <2>1, <2>2, <2>3 DEF WorkerFault
  <1>4. ASSUME NEW b \in Batches, Status(b) \/ Age(b) PROVE KeepsCompleted
    <2>1. CASE Expire(b)
      BY <2>1 DEF Expire, EndExpiry, SetStatus, Tell, IInv, TypeOK
    <2>2. CASE PollUnknown(b) \/ Poll(b) \/ PollStale(b) \/ ExpireFails(b) \/
              Age(b)
      BY <2>2
        DEF PollUnknown, Poll, PollStale, Stale, ExpireFails, Age, Tell, BeginExpiry,
            EndExpiry, IInv, TypeOK
    <2> QED
      BY <1>4, <2>1, <2>2 DEF Status
  <1>5. CASE AddReference
    BY <1>5 DEF AddReference
  <1>6. CASE Crash
    BY <1>6 DEF Crash
  <1>7. CASE UNCHANGED vars
    BY <1>7
  <1> QED
    BY <1>1, <1>2, <1>3, <1>4, <1>5, <1>6, <1>7 DEF Next

\* A batch that is completed, or that a client was told is, gains no rows; its errors
\* stand as long as it is completed, and that is for good once its worker and the polls
\* that read it pending are through.
THEOREM CompletedFrozen == Spec => CompletedIsFrozen
  <1>1. IInv /\ [Next]_vars => [KeepsCompleted]_vars
    BY FrozenStep
  <1> QED
    BY <1>1, Inductive, PTL DEF Spec, CompletedIsFrozen

-----------------------------------------------------------------------------
(* The ledger.                                                             *)

\* The rows a commit adds are a Load of the ledger.
LEMMA CommitIsLoad ==
    ASSUME IInv, NEW b \in Batches, NEW S \in SUBSET chunk[b],
           pc[b] \in {"bulk", "rows"},
           \A i, j \in S : Row(b, i).id = Row(b, j).id => i = j,
           \A i \in S, c \in Batches :
             \A j \in inserted[c] : Row(c, j).id # Row(b, i).id,
           inserted' = [inserted EXCEPT ![b] = @ \cup S],
           UNCHANGED <<content, status, errors>>
    PROVE  Ledger!Load(b)
  <1>1. status[b] \in {"pending", "failed"}
    BY DEF IInv, Lifecycle, Working
  <1>2. S \subseteq Rows(b) \ inserted[b] /\ \A i \in S : Row(b, i).valid
    BY DEF IInv, Accounting, Working, Records
  <1> QED
    BY <1>1, <1>2 DEF Ledger!Load, Ledger!RowsOf, Ledger!IdOf, Rows, Row

\* So is a row that is committed alone.
LEMMA RowIsLoad ==
    ASSUME IInv, NEW b \in Batches, NEW i \in chunk[b],
           pc[b] \in {"bulk", "rows"},
           \A c \in Batches : \A j \in inserted[c] : Row(c, j).id # Row(b, i).id,
           inserted' = [inserted EXCEPT ![b] = @ \cup {i}],
           UNCHANGED <<content, status, errors>>
    PROVE  Ledger!Load(b)
  <1>1. {i} \in SUBSET chunk[b]
    OBVIOUS
  <1>2. \A k, l \in {i} : Row(b, k).id = Row(b, l).id => k = l
    OBVIOUS
  <1>3. \A k \in {i}, c \in Batches :
          \A j \in inserted[c] : Row(c, j).id # Row(b, k).id
    OBVIOUS
  <1> QED
    BY <1>1, <1>2, <1>3, CommitIsLoad

\* A bulk insert that is ready to commit holds distinct keys that no row has.
LEMMA BulkKeysFree ==
    ASSUME IInv, NEW b \in Batches, BulkReady(b)
    PROVE  /\ \A i, j \in txn[b] : Row(b, i).id = Row(b, j).id => i = j
           /\ \A i \in txn[b], c \in Batches :
                \A j \in inserted[c] : Row(c, j).id # Row(b, i).id
  <1>1. txn[b] \cap inserted[b] = {}
    BY DEF IInv, Accounting, BulkReady, Working
  <1> QED
    BY <1>1 DEF IInv, KeysAreUnique, Held

\* When the chunk loop ends, all_errors is what the table lacks.
LEMMA FinalErrors ==
    ASSUME IInv, NEW b \in Batches, pc[b] = "chunking", todo[b] = {}
    PROVE  /\ status[b] \in {"pending", "failed"}
           /\ errs[b] = DOMAIN content[b].rows \ inserted[b]
  BY DEF IInv, Shape, Lifecycle, Accounting, Working, Rows

\* Every step is a step of the ledger or leaves it alone.
LEMMA LedgerStep ==
    ASSUME IInv, [Next]_vars
    PROVE  [Ledger!LedgerNext]_(Ledger!ledgerVars)
  <1> USE DEF vars, db, worker, clients, Ledger!ledgerVars
  <1>1. ASSUME NEW b \in Batches, Request(b)
        PROVE [Ledger!LedgerNext]_(Ledger!ledgerVars)
    <2>1. CASE CreateBatch(b)
      <3>1. Ledger!Open(b)
        BY <2>1 DEF CreateBatch, SetStatus, Ledger!Open, IInv, TypeOK, Lifecycle
      <3> QED
        BY <3>1 DEF Ledger!LedgerNext
    <2>2. CASE CreateBatchFails(b)
      <3>1. CASE UNCHANGED <<status, errors>>
        BY <2>2, <3>1 DEF CreateBatchFails
      <3>2. CASE SetStatus(b, "pending", {})
        <4>1. Ledger!Open(b)
          BY <2>2, <3>2
            DEF CreateBatchFails, SetStatus, Ledger!Open, IInv, TypeOK, Lifecycle
        <4> QED
          BY <4>1 DEF Ledger!LedgerNext
      <3> QED
        BY <2>2, <3>1, <3>2 DEF CreateBatchFails
    <2>3. CASE UploadFile(b) \/ UploadFails(b) \/ Respond(b)
      BY <2>3 DEF UploadFile, UploadFails, Respond, Goto
    <2> QED
      BY <1>1, <2>1, <2>2, <2>3 DEF Request
  <1>2. ASSUME NEW b \in Batches, WorkerStep(b)
        PROVE [Ledger!LedgerNext]_(Ledger!ledgerVars)
    <2>1. CASE BulkCommit(b)
      <3>1. Ledger!Load(b)
        BY <2>1, BulkKeysFree, CommitIsLoad DEF BulkCommit, BulkReady
      <3> QED
        BY <3>1 DEF Ledger!LedgerNext
    <2>2. CASE RowInsert(b)
      <3>1. PICK i \in chunk[b] :
              RowReady(b, i) /\ inserted' = [inserted EXCEPT ![b] = @ \cup {i}]
        BY <2>2 DEF RowInsert
      <3>2. pc[b] = "rows" /\ ~Taken(Row(b, i).id)
        BY <3>1 DEF RowReady
      <3>3. \A c \in Batches : \A j \in inserted[c] : Row(c, j).id # Row(b, i).id
        BY <3>2 DEF Taken
      <3>4. UNCHANGED <<content, status, errors>>
        BY <2>2 DEF RowInsert
      <3>5. Ledger!Load(b)
        BY <3>1, <3>2, <3>3, <3>4, RowIsLoad
      <3> QED
        BY <3>5 DEF Ledger!LedgerNext
    <2>3. CASE Finalize(b)
      <3>1. Ledger!Complete(b)
        BY <2>3, FinalErrors
          DEF Finalize, Complete, SetStatus, Ledger!Complete, Ledger!RowsOf
      <3> QED
        BY <3>1 DEF Ledger!LedgerNext
    <2>4. CASE MarkFailed(b)
      <3>1. Ledger!Fail(b)
        BY <2>4 DEF MarkFailed, SetStatus, Ledger!Fail, IInv, Lifecycle
      <3> QED
        BY <3>1 DEF Ledger!LedgerNext
    <2>5. CASE Download(b) \/ DecodeFails(b) \/ StartChunk(b) \/ BulkRow(b) \/
              BulkRejected(b) \/ RowRejected(b) \/ InvalidateCache(b)
      BY <2>5
        DEF Download, DecodeFails, StartChunk, BulkRow, BulkRejected, RowRejected,
            InvalidateCache, Goto, Leave, CutChunk, AfterChunk, RowDone
    <2> QED
      BY <1>2, <2>1, <2>2, <2>3, <2>4, <2>5 DEF WorkerStep
  <1>3. ASSUME NEW b \in Batches, WorkerFault(b)
        PROVE [Ledger!LedgerNext]_(Ledger!ledgerVars)
    <2>1. CASE WriteUnacknowledged(b)
      <3>1. PICK S \in SUBSET chunk[b] :
              /\ \/ BulkReady(b) /\ S = txn[b]
                 \/ \E i \in chunk[b] : RowReady(b, i) /\ S = {i}
              /\ inserted' = [inserted EXCEPT ![b] = @ \cup S]
        BY <2>1 DEF WriteUnacknowledged
      <3>2. UNCHANGED <<content, status, errors>>
        BY <2>1 DEF WriteUnacknowledged
      <3>3. CASE BulkReady(b) /\ S = txn[b]
        <4>1. Ledger!Load(b)
          BY <3>1, <3>2, <3>3, BulkKeysFree, CommitIsLoad DEF BulkReady
        <4> QED
          BY <4>1 DEF Ledger!LedgerNext
      <3>4. CASE \E i \in chunk[b] : RowReady(b, i) /\ S = {i}
        <4>1. PICK i \in chunk[b] : RowReady(b, i) /\ S = {i}
          BY <3>4
        <4>2. pc[b] = "rows" /\ ~Taken(Row(b, i).id)
          BY <4>1 DEF RowReady
        <4>3. \A c \in Batches : \A j \in inserted[c] : Row(c, j).id # Row(b, i).id
          BY <4>2 DEF Taken
        <4>4. Ledger!Load(b)
          BY <3>1, <3>2, <4>1, <4>2, <4>3, RowIsLoad
        <4> QED
          BY <4>4 DEF Ledger!LedgerNext
      <3> QED
        BY <3>1, <3>3, <3>4
    <2>2. CASE FinalizeFails(b)
      <3>1. Ledger!Complete(b) \/ UNCHANGED Ledger!ledgerVars
        BY <2>2, FinalErrors
          DEF FinalizeFails, SetStatus, Ledger!Complete, Ledger!RowsOf
      <3> QED
        BY <3>1 DEF Ledger!LedgerNext
    <2>3. CASE DownloadFails(b) \/ WriteFails(b) \/ DeadlockVictim(b) \/
              MarkFailedSwallowed(b)
      BY <2>3
        DEF DownloadFails, WriteFails, DeadlockVictim, MarkFailedSwallowed, Goto, Leave
    <2> QED
      BY <1>3, <2>1, <2>2, <2>3 DEF WorkerFault
  <1>4. ASSUME NEW b \in Batches, Status(b) \/ Age(b)
        PROVE [Ledger!LedgerNext]_(Ledger!ledgerVars)
    <2>1. CASE Expire(b)
      <3>1. Ledger!Fail(b)
        BY <2>1 DEF Expire, EndExpiry, SetStatus, Ledger!Fail, IInv, Lifecycle
      <3> QED
        BY <3>1 DEF Ledger!LedgerNext
    <2>2. CASE PollUnknown(b) \/ Poll(b) \/ PollStale(b) \/ ExpireFails(b) \/
              Age(b)
      BY <2>2
        DEF PollUnknown, Poll, PollStale, ExpireFails, Age, Tell, BeginExpiry,
            EndExpiry
    <2> QED
      BY <1>4, <2>1, <2>2 DEF Status
  <1>5. CASE AddReference
    BY <1>5 DEF AddReference
  <1>6. CASE Crash
    BY <1>6 DEF Crash
  <1>7. CASE UNCHANGED vars
    BY <1>7
  <1> QED
    BY <1>1, <1>2, <1>3, <1>4, <1>5, <1>6, <1>7 DEF Next

\* The upload, with its processes, transactions, polls and crashes, implements the
\* ledger: for every file, positive chunk size and number of uploads.
THEOREM LedgerImplemented == Spec => ImplementsLedger
  <1>1. Init => Ledger!LedgerInit
    BY DEF Init, Ledger!LedgerInit
  <1>2. IInv /\ [Next]_vars => [Ledger!LedgerNext]_(Ledger!ledgerVars)
    BY LedgerStep
  <1> QED
    BY <1>1, <1>2, Inductive, PTL DEF Spec, ImplementsLedger, Ledger!LedgerSpec

-----------------------------------------------------------------------------
(* Waiting for each other's keys.                                          *)

\* A chunk that is being written is not empty: the slices of iter_chunks have rows,
\* and the fallback leaves with its last one.
ChunksHaveRows ==
    \A b \in Batches : pc[b] \in {"bulk", "rows"} => chunk[b] # {}

\* A step of worker b in the loop over the chunks that neither waits for a key nor
\* owes anything to a timeout of the pool.
GoesOn(b) ==
    \/ pc[b] = "chunking"
    \/ BulkReady(b)
    \/ pc[b] = "bulk" /\ BulkClash(b)
    \/ /\ pc[b] = "bulk"
       /\ \E i \in chunk[b] \ txn[b] :
            /\ First(chunk[b] \ txn[b], i)
            /\ ~Taken(Row(b, i).id)
            /\ ~Locked(b, Row(b, i).id)
            /\ ~LockedBy(b, Row(b, i).id)
    \/ \E i \in chunk[b] :
         \/ RowReady(b, i)
         \/ RowClash(b, i) /\ ~Locked(b, Row(b, i).id)

\* The record b is about to insert, in bulk or alone, has a key that c holds.
HeldUpBy(b, c) ==
    /\ c # b
    /\ \E i \in chunk[b] :
         /\ \/ pc[b] = "bulk" /\ First(chunk[b] \ txn[b], i)
            \/ pc[b] = "rows" /\ First(chunk[b], i)
         /\ LockedBy(c, Row(b, i).id)

InTheLoop == {b \in Batches : pc[b] \in Working}

\* These workers wait for none but each other.
AmongThemselves(W) == \A w \in W : \A c \in Batches : HeldUpBy(w, c) => c \in W

\* Wherever one follows the waiting, there is a worker that can go on, or a cycle
\* that Postgres breaks: the workers under way never stand still together.
NoStandstill ==
    \A W \in SUBSET InTheLoop :
      W # {} /\ AmongThemselves(W) => \E w \in W : GoesOn(w) \/ Deadlocked(w)

\* iter_chunks makes no empty slice of a list that is not empty.
LEMMA FirstChunkHasRows ==
    ASSUME NEW S \in SUBSET Nat, S # {}
    PROVE  FirstChunk(S) # {}
  <1>1. PICK n \in S : \A m \in S : n <= m
    BY LeastOf
  <1>2. {m \in S : m <= n} = {n}
    <2>1. \A m \in S : m \in Nat /\ n <= m
      BY <1>1
    <2>2. \A m \in S : m <= n <=> m = n
      BY <2>1
    <2> QED
      BY <2>2
  <1>3. Cardinality({m \in S : m <= n}) = 1
    BY <1>2, FS_Singleton
  <1>4. 1 <= ChunkSize
    BY ChunkSizeAssumption
  <1> QED
    BY <1>1, <1>3, <1>4 DEF FirstChunk

LEMMA ChunksHaveRowsStep ==
    ASSUME TypeOK, ChunksHaveRows, [Next]_vars
    PROVE  ChunksHaveRows'
  <1> USE DEF vars, db, worker, clients, TypeOK, ChunksHaveRows, Phases, InFlight,
              Working, Ended
  <1>1. ASSUME NEW b \in Batches, Request(b) PROVE ChunksHaveRows'
    BY <1>1 DEF Request, UploadFile, UploadFails, CreateBatch, CreateBatchFails,
                Respond, Goto
  <1>2. ASSUME NEW b \in Batches, WorkerStep(b) PROVE ChunksHaveRows'
    <2>1. CASE StartChunk(b)
      <3>1. FirstChunk(todo[b]) # {}
        BY <2>1, FirstChunkHasRows DEF StartChunk, CutChunk
      <3>2. chunk' = [chunk EXCEPT ![b] = FirstChunk(todo[b])] /\ Goto(b, "bulk")
        BY <2>1 DEF StartChunk, CutChunk
      <3> QED
        BY <3>1, <3>2 DEF Goto
    <2>2. CASE BulkRow(b)
      BY <2>2 DEF BulkRow
    <2>3. CASE BulkRejected(b)
      BY <2>3 DEF BulkRejected, Goto
    <2>4. ASSUME NEW i \in chunk[b], pc[b] = "rows", RowDone(b, i)
          PROVE  ChunksHaveRows'
      BY <2>4 DEF RowDone, Goto
    <2>5. CASE RowInsert(b) \/ RowRejected(b)
      BY <2>4, <2>5 DEF RowInsert, RowRejected, RowReady, RowClash
    <2>6. CASE \/ Download(b) \/ DecodeFails(b) \/ BulkCommit(b) \/ Finalize(b)
               \/ InvalidateCache(b) \/ MarkFailed(b)
      BY <2>6 DEF Download, DecodeFails, BulkCommit, Finalize, Complete,
                  InvalidateCache, MarkFailed, Leave, Goto
    <2> QED
      BY <1>2, <2>1, <2>2, <2>3, <2>5, <2>6 DEF WorkerStep
  <1>3. ASSUME NEW b \in Batches, WorkerFault(b) PROVE ChunksHaveRows'
    BY <1>3 DEF WorkerFault, DownloadFails, WriteFails, WriteUnacknowledged,
                DeadlockVictim, FinalizeFails, MarkFailedSwallowed, Leave, Goto
  <1>4. ASSUME NEW b \in Batches, Status(b) \/ Age(b) PROVE ChunksHaveRows'
    BY <1>4 DEF Status, PollUnknown, Poll, PollStale, BeginExpiry, Expire, ExpireFails,
                EndExpiry, Age
  <1>5. CASE AddReference \/ UNCHANGED vars
    BY <1>5 DEF AddReference
  <1>6. CASE Crash
    BY <1>6 DEF Crash
  <1> QED
    BY <1>1, <1>2, <1>3, <1>4, <1>5, <1>6 DEF Next

\* The loop writes no empty chunk, in any file, with any EMPLOYEE_CHUNK_SIZE.
THEOREM NoChunkIsEmpty == Spec => []ChunksHaveRows
  <1>1. Init => ChunksHaveRows
    BY DEF Init, ChunksHaveRows
  <1>2. IInv /\ ChunksHaveRows /\ [Next]_vars => ChunksHaveRows'
    BY ChunksHaveRowsStep DEF IInv
  <1> QED
    BY <1>1, <1>2, Inductive, PTL DEF Spec

\* A worker that cannot go on is held up by one that is writing a chunk in bulk.
LEMMA StuckIsHeldUp ==
    ASSUME TypeOK, Shape, ChunksHaveRows, NEW b \in InTheLoop, ~GoesOn(b)
    PROVE  \E c \in InTheLoop : HeldUpBy(b, c)
  <1>1. b \in Batches /\ pc[b] \in {"bulk", "rows"}
    BY DEF InTheLoop, Working, GoesOn
  <1>2. chunk[b] \in SUBSET Nat /\ chunk[b] # {} /\ txn[b] \subseteq chunk[b]
    BY <1>1 DEF TypeOK, Shape, ChunksHaveRows
  <1>3. ASSUME NEW i \in chunk[b], Locked(b, Row(b, i).id),
               \/ pc[b] = "bulk" /\ First(chunk[b] \ txn[b], i)
               \/ pc[b] = "rows" /\ First(chunk[b], i)
        PROVE  \E c \in InTheLoop : HeldUpBy(b, c)
    <2>1. PICK c \in Batches \ {b} : LockedBy(c, Row(b, i).id)
      BY <1>3 DEF Locked
    <2>2. c \in InTheLoop
      BY <2>1 DEF LockedBy, Shape, InTheLoop, Working
    <2> QED
      BY <1>3, <2>1, <2>2 DEF HeldUpBy
  <1>4. CASE pc[b] = "bulk"
    <2>1. txn[b] # chunk[b]
      BY <1>4 DEF GoesOn, BulkReady, BulkClash
    <2>2. chunk[b] \ txn[b] \in SUBSET Nat /\ chunk[b] \ txn[b] # {}
      BY <1>2, <2>1
    <2>3. PICK i \in chunk[b] \ txn[b] : First(chunk[b] \ txn[b], i)
      BY <2>2, LeastOf DEF First
    <2>4. ~Taken(Row(b, i).id) /\ ~LockedBy(b, Row(b, i).id)
      BY <1>4, <2>3 DEF GoesOn, BulkClash
    <2>5. Locked(b, Row(b, i).id)
      BY <1>4, <2>3, <2>4 DEF GoesOn
    <2> QED
      BY <1>3, <1>4, <2>3, <2>5
  <1>5. CASE pc[b] = "rows"
    <2>1. PICK i \in chunk[b] : First(chunk[b], i)
      BY <1>2, LeastOf DEF First
    <2>2. Locked(b, Row(b, i).id)
      BY <1>5, <2>1 DEF GoesOn, RowReady, RowClash
    <2> QED
      BY <1>3, <1>5, <2>1, <2>2
  <1> QED
    BY <1>1, <1>4, <1>5

LEMMA SomebodyGoesOn ==
    ASSUME IsFiniteSet(Batches), TypeOK, Shape, ChunksHaveRows
    PROVE  NoStandstill
  <1> SUFFICES ASSUME NEW W \in SUBSET InTheLoop, W # {}, AmongThemselves(W),
                      \A w \in W : ~GoesOn(w)
               PROVE  \E w \in W : Deadlocked(w)
    BY DEF NoStandstill
  <1> DEFINE R == {p \in W \X W : HeldUpBy(p[1], p[2])}
  <1>1. W \subseteq Batches /\ IsFiniteSet(W)
    BY FS_Subset DEF InTheLoop
  <1>2. \A w \in W : \E c \in W : HeldUpBy(w, c)
    BY <1>1, StuckIsHeldUp DEF AmongThemselves, InTheLoop
  <1>3. \A w, c \in W : <<w, c>> \in R <=> HeldUpBy(w, c)
    OBVIOUS
  <1> HIDE DEF R
  <1>4. \A w \in W : \E c \in W : <<w, c>> \in R
    BY <1>2, <1>3
  <1>5. PICK C \in SUBSET W :
          /\ C # {}
          /\ \A w \in C : /\ \E c \in C : <<w, c>> \in R
                          /\ \E c \in C : <<c, w>> \in R
    BY <1>1, <1>4, RingExists
  <1>6. \A w \in C : /\ \E c \in C : HeldUpBy(w, c)
                     /\ \E c \in C : HeldUpBy(c, w)
    BY <1>3, <1>5
  \* Whoever holds a key others wait for is writing in bulk.
  <1>7. \A w \in C : pc[w] = "bulk"
    BY <1>1, <1>5, <1>6 DEF HeldUpBy, LockedBy, Shape
  <1>8. \A w, c \in C : HeldUpBy(w, c) => WaitsFor(w, c)
    BY <1>7 DEF HeldUpBy, WaitsFor, First
  <1>9. PICK w \in C : TRUE
    BY <1>5
  <1>10. C \in SUBSET Batches
    BY <1>1, <1>5
  <1>11. Deadlocked(w)
    BY <1>6, <1>8, <1>9, <1>10 DEF Deadlocked
  <1> QED
    BY <1>9, <1>11

\* For every finite number of uploads at a time: workers that load the same ids do
\* not stand still for ever, provided Postgres breaks the cycles. The safety half of
\* WorkersEnd.
THEOREM WorkersDoNotStandStill ==
    ASSUME IsFiniteSet(Batches)
    PROVE  Spec => []NoStandstill
  <1>1. IInv /\ ChunksHaveRows => NoStandstill
    BY SomebodyGoesOn DEF IInv
  <1> QED
    BY <1>1, Inductive, NoChunkIsEmpty, PTL

=============================================================================
