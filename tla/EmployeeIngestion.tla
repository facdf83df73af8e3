------------------------- MODULE EmployeeIngestion -------------------------
(***************************************************************************)
(* The asynchronous upload of employees: POST /ingest/employees stores the *)
(* CSV and a pending batch and answers 202; a background task downloads    *)
(* the file, inserts its rows chunk by chunk and completes the batch; GET  *)
(* /ingest/employees/{id}/status reports the status and fails a pending    *)
(* batch that is too old.                                                  *)
(*                                                                         *)
(* One step is one call that another coroutine, thread or process can      *)
(* observe: a statement that takes a lock, a commit, a storage call, an    *)
(* answer to the client.  Postgres runs at READ COMMITTED; a unique index  *)
(* makes the second inserter of an id wait for the first one's             *)
(* transaction.                                                            *)
(***************************************************************************)
EXTENDS Naturals, Sequences, FiniteSets

CONSTANTS Batches,      \* requests; the uuid of a request is its batch id
          Ids,          \* values of employees.id
          Refs,         \* departments and jobs an employee may refer to
          InitialRefs,  \* those loaded before the first upload
          Files,        \* the CSV files a client may upload
          ChunkSize,    \* settings.EMPLOYEE_CHUNK_SIZE
          MaxPolls      \* bound: status requests of one batch in flight at once

\* "crowded": when the fallback comes to the row, the pool may have no connection.
RowType == [id : Ids, refs : SUBSET Refs, valid : BOOLEAN, crowded : BOOLEAN]
FileType == [text : BOOLEAN, rows : Seq(RowType)]

ASSUME RefsAssumption == InitialRefs \subseteq Refs
ASSUME FilesAssumption == Files \subseteq FileType
ASSUME ChunkSizeAssumption == ChunkSize \in Nat \ {0}
ASSUME MaxPollsAssumption == MaxPolls \in Nat \ {0}

VARIABLES
    content,    \* the file a request carries: whether it decodes as UTF-8, its rows
    stored,     \* object store: batches whose employees/{id}.csv exists
    status,     \* ingestion_batches.status ("absent": no such row)
    errors,     \* ingestion_batches.errors, as the indices of the rows named
    inserted,   \* committed employees rows of each batch, as row indices
    known,      \* committed departments and jobs
    txn,        \* rows a worker's open transaction holds, uncommitted
    pc,         \* where the request or its background task stands
    todo,       \* worker: records not yet handed to write_employees
    chunk,      \* worker: records of the current chunk not yet dealt with
    errs,       \* worker: all_errors
    aged,       \* batches older than BATCH_TIMEOUT_SECONDS
    expiring,   \* polls that saw a stale pending batch and have not written yet
    accepted,   \* batches whose 202 was sent
    reported    \* history: every status clients were told of a batch

db == <<status, errors, inserted>>
worker == <<todo, chunk, errs>>
clients == <<aged, expiring, reported>>
vars == <<content, stored, db, known, txn, pc, worker, clients, accepted>>

Statuses == {"pending", "completed", "failed"}
Working == {"chunking", "bulk", "rows"}
InFlight == Working \cup
    {"uploaded", "created", "scheduled", "invalidating", "marking"}
Ended == {"done", "raised", "rejected", "lost"}
Phases == {"new"} \cup InFlight \cup Ended

TypeOK ==
    /\ content \in [Batches -> Files]
    /\ stored \subseteq Batches
    /\ status \in [Batches -> Statuses \cup {"absent"}]
    /\ errors \in [Batches -> SUBSET Nat]
    /\ inserted \in [Batches -> SUBSET Nat]
    /\ known \subseteq Refs
    /\ txn \in [Batches -> SUBSET Nat]
    /\ pc \in [Batches -> Phases]
    /\ todo \in [Batches -> SUBSET Nat]
    /\ chunk \in [Batches -> SUBSET Nat]
    /\ errs \in [Batches -> SUBSET Nat]
    /\ aged \subseteq Batches
    /\ expiring \in [Batches -> 0..MaxPolls]
    /\ accepted \subseteq Batches
    /\ reported \in [Batches -> SUBSET Statuses]

Init ==
    /\ content \in [Batches -> Files]
    /\ stored = {}
    /\ status = [b \in Batches |-> "absent"]
    /\ errors = [b \in Batches |-> {}]
    /\ inserted = [b \in Batches |-> {}]
    /\ known = InitialRefs
    /\ txn = [b \in Batches |-> {}]
    /\ pc = [b \in Batches |-> "new"]
    /\ todo = [b \in Batches |-> {}]
    /\ chunk = [b \in Batches |-> {}]
    /\ errs = [b \in Batches |-> {}]
    /\ aged = {}
    /\ expiring = [b \in Batches |-> 0]
    /\ accepted = {}
    /\ reported = [b \in Batches |-> {}]

-----------------------------------------------------------------------------
(* Rows, keys and locks.                                                   *)

Rows(b) == DOMAIN content[b].rows
Row(b, i) == content[b].rows[i]

\* parse_employees: the rows that become records; the others are parse errors.
Records(b) == {i \in Rows(b) : Row(b, i).valid}

\* The next record of a list, in file order.
First(S, i) == i \in S /\ \A j \in S : i <= j

\* iter_chunks: the first ChunkSize records of a list.
FirstChunk(S) == {i \in S : Cardinality({j \in S : j <= i}) <= ChunkSize}

\* A committed row holds this primary key.
Taken(id) == \E c \in Batches : \E j \in inserted[c] : Row(c, j).id = id

\* Another worker's open transaction holds this key: the insert has to wait.
LockedBy(c, id) == \E j \in txn[c] : Row(c, j).id = id
Locked(b, id) == \E c \in Batches \ {b} : LockedBy(c, id)

\* Both foreign keys of the row resolve.
Resolves(b, i) == Row(b, i).refs \subseteq known

\* Why a row may legitimately be missing from the table once its file was
\* processed: it did not parse, it refers to something that was not there from
\* the start, another row has its key, or its insert may have found no connection.
Excused(b, i) ==
    \/ ~Row(b, i).valid
    \/ Row(b, i).crowded
    \/ ~(Row(b, i).refs \subseteq InitialRefs)
    \/ \E c \in Batches : \E j \in inserted[c] :
         <<c, j>> # <<b, i>> /\ Row(c, j).id = Row(b, i).id

-----------------------------------------------------------------------------
(* The upload request: IngestEmployeesUseCase.execute and its route.       *)

Goto(b, phase) == pc' = [pc EXCEPT ![b] = phase]
SetStatus(b, s, e) ==
    /\ status' = [status EXCEPT ![b] = s]
    /\ errors' = [errors EXCEPT ![b] = e]

UploadFile(b) ==
    /\ pc[b] = "new"
    /\ stored' = stored \cup {b}
    /\ Goto(b, "uploaded")
    /\ UNCHANGED <<content, db, known, txn, worker, clients, accepted>>

\* The object store raises: the client gets an error, nothing is kept.
UploadFails(b) ==
    /\ pc[b] = "new"
    /\ Goto(b, "rejected")
    /\ UNCHANGED <<content, stored, db, known, txn, worker, clients, accepted>>

\* Mutant: the 202 goes out before the batch row is written.
CreateBatchSkipped(b) ==
    /\ pc[b] = "uploaded"
    /\ Goto(b, "created")
    /\ UNCHANGED <<content, stored, db, known, txn, worker, clients, accepted>>

\* batch.add(pending) and commit: nobody sees the row in between.
CreateBatch(b) ==
    /\ pc[b] = "uploaded"
    /\ SetStatus(b, "pending", {})
    /\ Goto(b, "created")
    /\ UNCHANGED <<content, stored, inserted, known, txn, worker, clients, accepted>>

\* The INSERT or the commit raises and the client gets an error. The file stays
\* behind; if only the commit's acknowledgement was lost, so does a pending row.
CreateBatchFails(b) ==
    /\ pc[b] = "uploaded"
    /\ \/ UNCHANGED <<status, errors>>
       \/ SetStatus(b, "pending", {})
    /\ Goto(b, "rejected")
    /\ UNCHANGED <<content, stored, inserted, known, txn, worker, clients, accepted>>

\* 202 with the batch id; Starlette runs the background task after it.
Respond(b) ==
    /\ pc[b] = "created"
    /\ accepted' = accepted \cup {b}
    /\ Goto(b, "scheduled")
    /\ UNCHANGED <<content, stored, db, known, txn, worker, clients>>

-----------------------------------------------------------------------------
(* The background task: ProcessEmployeesChunkWorker.                       *)

\* _process leaves with an exception, or is over: its locals are gone and its
\* transaction, if one was open, was rolled back or committed.
Leave(b, phase) ==
    /\ Goto(b, phase)
    /\ todo' = [todo EXCEPT ![b] = {}]
    /\ chunk' = [chunk EXCEPT ![b] = {}]
    /\ errs' = [errs EXCEPT ![b] = {}]
    /\ txn' = [txn EXCEPT ![b] = {}]

\* download_file and parse_employees; all_errors starts as the parse errors.
Download(b) ==
    /\ pc[b] = "scheduled"
    /\ b \in stored
    /\ content[b].text
    /\ todo' = [todo EXCEPT ![b] = Records(b)]
    /\ errs' = [errs EXCEPT ![b] = Rows(b) \ Records(b)]
    /\ Goto(b, "chunking")
    /\ UNCHANGED <<content, stored, db, known, txn, chunk, clients, accepted>>

\* raw.decode() raises.
DecodeFails(b) ==
    /\ pc[b] = "scheduled"
    /\ ~content[b].text
    /\ Leave(b, "marking")
    /\ UNCHANGED <<content, stored, db, known, clients, accepted>>

\* The object store raises.
DownloadFails(b) ==
    /\ pc[b] = "scheduled"
    /\ Leave(b, "marking")
    /\ UNCHANGED <<content, stored, db, known, clients, accepted>>

\* The next iteration: the first records of the list, and what is left of it.
CutChunk(b, rest) ==
    /\ pc[b] = "chunking"
    /\ todo[b] # {}
    /\ chunk' = [chunk EXCEPT ![b] = FirstChunk(todo[b])]
    /\ todo' = [todo EXCEPT ![b] = rest]
    /\ Goto(b, "bulk")
    /\ UNCHANGED <<content, stored, db, known, txn, errs, clients, accepted>>

AfterChunk(b) == todo[b] \ FirstChunk(todo[b])

\* Mutant: the slice after a chunk starts one record too late.
StartChunkSkipsOne(b) ==
    CutChunk(b, {i \in AfterChunk(b) : ~First(AfterChunk(b), i)})

StartChunk(b) == CutChunk(b, AfterChunk(b))

\* bulk_insert: the multi-row INSERT takes the keys of the chunk in file order,
\* and waits at the first one another open transaction holds.
BulkRow(b) ==
    /\ pc[b] = "bulk"
    /\ \E i \in chunk[b] \ txn[b] :
         /\ First(chunk[b] \ txn[b], i)
         /\ ~Taken(Row(b, i).id)
         /\ ~Locked(b, Row(b, i).id)
         /\ ~LockedBy(b, Row(b, i).id)
         /\ txn' = [txn EXCEPT ![b] = @ \cup {i}]
    /\ UNCHANGED <<content, stored, db, known, pc, worker, clients, accepted>>

\* The INSERT meets a key that is taken, in the table or earlier in the same
\* statement, or a foreign key that does not resolve when the statement ends.
BulkClash(b) ==
    \/ \E i \in chunk[b] \ txn[b] :
         /\ First(chunk[b] \ txn[b], i)
         /\ Taken(Row(b, i).id) \/ LockedBy(b, Row(b, i).id)
    \/ /\ txn[b] = chunk[b]
       /\ \E i \in chunk[b] : ~Resolves(b, i)

\* Mutant: a clash reports the whole chunk instead of trying row by row.
BulkRejectsChunk(b) ==
    /\ pc[b] = "bulk"
    /\ BulkClash(b)
    /\ txn' = [txn EXCEPT ![b] = {}]
    /\ errs' = [errs EXCEPT ![b] = @ \cup chunk[b]]
    /\ chunk' = [chunk EXCEPT ![b] = {}]
    /\ Goto(b, "chunking")
    /\ UNCHANGED <<content, stored, db, known, todo, clients, accepted>>

\* rollback, and the chunk is tried again row by row: after a clash, or if the pool
\* timed out before the statement began, which is no OperationalError.
BulkRejected(b) ==
    /\ pc[b] = "bulk"
    /\ BulkClash(b) \/ txn[b] = {}
    /\ txn' = [txn EXCEPT ![b] = {}]
    /\ Goto(b, "rows")
    /\ UNCHANGED <<content, stored, db, known, worker, clients, accepted>>

\* The statement succeeded as a whole.
BulkReady(b) ==
    /\ pc[b] = "bulk"
    /\ txn[b] = chunk[b]
    /\ \A i \in chunk[b] : Resolves(b, i)

BulkCommit(b) ==
    /\ BulkReady(b)
    /\ inserted' = [inserted EXCEPT ![b] = @ \cup txn[b]]
    /\ txn' = [txn EXCEPT ![b] = {}]
    /\ chunk' = [chunk EXCEPT ![b] = {}]
    /\ Goto(b, "chunking")
    /\ UNCHANGED <<content, stored, status, errors, known, todo, errs, clients,
                   accepted>>

\* _write_row_by_row dealt with row i.
RowDone(b, i) ==
    /\ chunk' = [chunk EXCEPT ![b] = @ \ {i}]
    /\ Goto(b, IF chunk[b] = {i} THEN "chunking" ELSE "rows")

\* begin_nested, add and commit of one row: it waits for its key alone, and
\* commits it before the next row.
RowReady(b, i) ==
    /\ pc[b] = "rows"
    /\ First(chunk[b], i)
    /\ ~Locked(b, Row(b, i).id)
    /\ ~Taken(Row(b, i).id)
    /\ Resolves(b, i)

RowInsert(b) ==
    /\ \E i \in chunk[b] :
         /\ RowReady(b, i)
         /\ inserted' = [inserted EXCEPT ![b] = @ \cup {i}]
         /\ RowDone(b, i)
    /\ UNCHANGED <<content, stored, status, errors, known, txn, todo, errs, clients,
                   accepted>>

\* The row clashes with a key, lacks a reference, or gets no connection.  (After a
\* rejected row the session still has one; the model lets the next one time out too.)
RowClash(b, i) ==
    /\ pc[b] = "rows"
    /\ First(chunk[b], i)
    /\ \/ ~Locked(b, Row(b, i).id) /\ (Taken(Row(b, i).id) \/ ~Resolves(b, i))
       \/ Row(b, i).crowded

\* Mutant: a rejected row is not consumed and is tried again for ever.
RowRetried(b) ==
    /\ \E i \in chunk[b] : RowClash(b, i)
    /\ UNCHANGED vars

\* Rollback to the savepoint, and the row joins the errors.
RowRejected(b) ==
    /\ \E i \in chunk[b] :
         /\ RowClash(b, i)
         /\ errs' = [errs EXCEPT ![b] = @ \cup {i}]
         /\ RowDone(b, i)
    /\ UNCHANGED <<content, stored, db, known, txn, todo, clients, accepted>>

\* An OperationalError ends the worker: rollback, translate, raise. What earlier
\* chunks and rows committed stays.
WriteFails(b) ==
    /\ pc[b] \in {"bulk", "rows"}
    /\ Leave(b, "marking")
    /\ UNCHANGED <<content, stored, db, known, clients, accepted>>

\* The connection drops after the commit took effect: the worker sees an
\* OperationalError, and the rows are in the table.
WriteUnacknowledged(b) ==
    /\ \E S \in SUBSET chunk[b] :
         /\ \/ BulkReady(b) /\ S = txn[b]
            \/ \E i \in chunk[b] : RowReady(b, i) /\ S = {i}
         /\ inserted' = [inserted EXCEPT ![b] = @ \cup S]
    /\ Leave(b, "marking")
    /\ UNCHANGED <<content, stored, status, errors, known, clients, accepted>>

\* Worker b's INSERT waits for a key that worker c's transaction holds.
WaitsFor(b, c) ==
    /\ pc[b] = "bulk"
    /\ c # b
    /\ \E i \in chunk[b] \ txn[b] :
         First(chunk[b] \ txn[b], i) /\ LockedBy(c, Row(b, i).id)

Deadlocked(b) ==
    \E W \in SUBSET Batches :
      /\ b \in W
      /\ \A w \in W : /\ \E c \in W : WaitsFor(w, c)
                      /\ \E c \in W : WaitsFor(c, w)

\* Postgres breaks a cycle of waiting transactions by failing one of them with
\* DeadlockDetected, an OperationalError.
DeadlockVictim(b) ==
    /\ Deadlocked(b)
    /\ Leave(b, "marking")
    /\ UNCHANGED <<content, stored, db, known, clients, accepted>>

Complete(b, e) ==
    /\ pc[b] = "chunking"
    /\ SetStatus(b, "completed", e)
    /\ Leave(b, "invalidating")
    /\ UNCHANGED <<content, stored, inserted, known, clients, accepted>>

\* Mutant: the loop over the chunks stops early.
FinalizeEarly(b) == Complete(b, errs[b])

\* Mutant: update_status is called without the collected errors.
FinalizeDropsErrors(b) == todo[b] = {} /\ Complete(b, {})

\* finalize_batch up to its commit. The UPDATE does not look at the status.
Finalize(b) == todo[b] = {} /\ Complete(b, errs[b])

\* finalize_batch raises, before its commit took effect or after.
FinalizeFails(b) ==
    /\ pc[b] = "chunking"
    /\ todo[b] = {}
    /\ \/ UNCHANGED <<status, errors>>
       \/ SetStatus(b, "completed", errs[b])
    /\ Leave(b, "marking")
    /\ UNCHANGED <<content, stored, inserted, known, clients, accepted>>

\* cache_client.delete, which retries and never raises: MetricsCache.tla.
InvalidateCache(b) ==
    /\ pc[b] = "invalidating"
    /\ Goto(b, "done")
    /\ UNCHANGED <<content, stored, db, known, txn, worker, clients, accepted>>

\* mark_batch_failed, and the exception goes on to Starlette.
MarkFailed(b) ==
    /\ pc[b] = "marking"
    /\ SetStatus(b, "failed", {})
    /\ Goto(b, "raised")
    /\ UNCHANGED <<content, stored, inserted, known, txn, worker, clients, accepted>>

\* mark_batch_failed meets a database error of its own and swallows it.
MarkFailedSwallowed(b) ==
    /\ pc[b] = "marking"
    /\ Goto(b, "raised")
    /\ UNCHANGED <<content, stored, db, known, txn, worker, clients, accepted>>

-----------------------------------------------------------------------------
(* The status endpoint: GetBatchStatusUseCase.execute.                     *)

Tell(b, s) == reported' = [reported EXCEPT ![b] = @ \cup {s}]

Stale(b) == status[b] = "pending" /\ b \in aged

\* No such batch: 404.
PollUnknown(b) ==
    /\ status[b] = "absent"
    /\ UNCHANGED vars

Poll(b) ==
    /\ status[b] # "absent"
    /\ ~Stale(b)
    /\ Tell(b, status[b])
    /\ UNCHANGED <<content, stored, db, known, txn, pc, worker, aged, expiring,
                   accepted>>

BeginExpiry(b) ==
    /\ expiring[b] < MaxPolls
    /\ expiring' = [expiring EXCEPT ![b] = @ + 1]
    /\ UNCHANGED <<content, stored, db, known, txn, pc, worker, aged, reported,
                   accepted>>

\* Mutant: any pending batch counts as stale.
PollStaleAnyAge(b) == status[b] = "pending" /\ BeginExpiry(b)

\* Mutant: a batch of any status counts as stale past the timeout.
PollStaleAnyStatus(b) == b \in aged /\ status[b] # "absent" /\ BeginExpiry(b)

\* The status is read and found stale; the UPDATE comes after an await.
PollStale(b) == Stale(b) /\ BeginExpiry(b)

EndExpiry(b) ==
    /\ expiring[b] > 0
    /\ expiring' = [expiring EXCEPT ![b] = @ - 1]
    /\ UNCHANGED <<content, stored, inserted, known, txn, pc, worker, aged, accepted>>

\* Mutant: the timeout is reported and not persisted.
ExpireUnsaved(b) == EndExpiry(b) /\ Tell(b, "failed") /\ UNCHANGED <<status, errors>>

\* Mutant: the timeout is persisted under a name the enum does not have.
ExpireAsTimedOut(b) ==
    EndExpiry(b) /\ Tell(b, "failed") /\ SetStatus(b, "timed_out", {})

\* UPDATE and commit, whatever the status is by now; then the answer, unless
\* re-reading the row for it fails.
Expire(b) ==
    /\ EndExpiry(b)
    /\ SetStatus(b, "failed", {})
    /\ Tell(b, "failed") \/ UNCHANGED reported

\* The UPDATE raises: 500, the batch stays as it was.
ExpireFails(b) == EndExpiry(b) /\ UNCHANGED <<status, errors, reported>>

-----------------------------------------------------------------------------
(* The environment.                                                        *)

\* BATCH_TIMEOUT_SECONDS pass since created_at.
Age(b) ==
    /\ status[b] # "absent"
    /\ b \notin aged
    /\ aged' = aged \cup {b}
    /\ UNCHANGED <<content, stored, db, known, txn, pc, worker, expiring, reported,
                   accepted>>

\* A departments or jobs upload commits: its new rows appear together.
AddReference ==
    /\ \E S \in SUBSET (Refs \ known) : S # {} /\ known' = known \cup S
    /\ UNCHANGED <<content, stored, db, txn, pc, worker, clients, accepted>>

\* An instance of the service is killed. The requests, background tasks and polls
\* it was serving are gone, and Postgres rolls their transactions back.
Crash ==
    \E W \in SUBSET Batches :
      /\ \E b \in W : pc[b] \in InFlight \/ expiring[b] > 0
      /\ pc' = [b \in Batches |->
                   IF b \in W /\ pc[b] \in InFlight THEN "lost" ELSE pc[b]]
      /\ todo' = [b \in Batches |-> IF b \in W THEN {} ELSE todo[b]]
      /\ chunk' = [b \in Batches |-> IF b \in W THEN {} ELSE chunk[b]]
      /\ errs' = [b \in Batches |-> IF b \in W THEN {} ELSE errs[b]]
      /\ txn' = [b \in Batches |-> IF b \in W THEN {} ELSE txn[b]]
      /\ expiring' = [b \in Batches |-> IF b \in W THEN 0 ELSE expiring[b]]
      /\ UNCHANGED <<content, stored, db, known, aged, reported, accepted>>

-----------------------------------------------------------------------------

Request(b) ==
    \/ UploadFile(b) \/ UploadFails(b)
    \/ CreateBatch(b) \/ CreateBatchFails(b)
    \/ Respond(b)

\* What the worker does when no call fails.
WorkerStep(b) ==
    \/ Download(b) \/ DecodeFails(b)
    \/ StartChunk(b)
    \/ BulkRow(b) \/ BulkRejected(b) \/ BulkCommit(b)
    \/ RowInsert(b) \/ RowRejected(b)
    \/ Finalize(b) \/ InvalidateCache(b)
    \/ MarkFailed(b)

WorkerFault(b) ==
    \/ DownloadFails(b)
    \/ WriteFails(b) \/ WriteUnacknowledged(b) \/ DeadlockVictim(b)
    \/ FinalizeFails(b)
    \/ MarkFailedSwallowed(b)

Status(b) ==
    \/ PollUnknown(b) \/ Poll(b) \/ PollStale(b)
    \/ Expire(b) \/ ExpireFails(b)

Next ==
    \/ \E b \in Batches :
         Request(b) \/ WorkerStep(b) \/ WorkerFault(b) \/ Status(b) \/ Age(b)
    \/ AddReference
    \/ Crash

Spec == Init /\ [][Next]_vars

\* The event loop runs every ready task, Postgres resolves deadlocks, time
\* passes, and a client that got its 202 keeps polling over a database that does
\* not fail for ever. Uploads, faults, crashes and reference data owe nothing.
Fairness ==
    /\ \A b \in Batches : WF_vars(WorkerStep(b))
    /\ WF_vars(\E b \in Batches : DeadlockVictim(b))
    /\ \A b \in Batches : WF_vars(Age(b))
    /\ \A b \in Batches : SF_vars(b \in accepted /\ PollStale(b))
    /\ \A b \in Batches : SF_vars(Expire(b))

FairSpec == Spec /\ Fairness

-----------------------------------------------------------------------------
(* The inductive invariant.  Each part is what the next ones need.         *)

\* A coroutine that is not in the chunk loop has no locals left, and only a bulk
\* insert keeps rows uncommitted from one step to the next.
Shape ==
    \A b \in Batches :
      /\ pc[b] \notin Working => todo[b] = {} /\ chunk[b] = {} /\ errs[b] = {}
      /\ pc[b] = "chunking" => chunk[b] = {}
      /\ pc[b] # "bulk" => txn[b] = {}
      /\ txn[b] \subseteq chunk[b]

\* What is in the two stores at each phase of a request and its worker.
Lifecycle ==
    /\ InitialRefs \subseteq known
    /\ \A b \in Batches :
         /\ pc[b] \in {"new", "uploaded"} => status[b] = "absent"
         /\ pc[b] \in {"uploaded", "created"} => b \in stored
         /\ pc[b] \in {"new", "uploaded", "created", "scheduled"} => inserted[b] = {}
         /\ pc[b] \in {"created", "scheduled"} \cup Working =>
              status[b] \in {"pending", "failed"}
         /\ pc[b] = "marking" => status[b] # "absent"
         /\ status[b] = "absent" => errors[b] = {}
         /\ expiring[b] > 0 => b \in aged /\ status[b] # "absent"
         /\ "completed" \in reported[b] => pc[b] \in {"invalidating", "marking"} \cup Ended

\* Until the loop ends, each row of the file is in exactly one place: still to be
\* chunked, in the current chunk, among the errors, or in the table.  Only records
\* reach the table.
Accounting ==
    \A b \in Batches :
      /\ inserted[b] \subseteq Records(b)
      /\ pc[b] \in Working =>
           /\ content[b].text
           /\ Rows(b) = todo[b] \cup chunk[b] \cup errs[b] \cup inserted[b]
           /\ todo[b] \cup chunk[b] \subseteq Records(b)
           /\ todo[b] \cap (chunk[b] \cup errs[b] \cup inserted[b]) = {}
           /\ chunk[b] \cap (errs[b] \cup inserted[b]) = {}
           /\ errs[b] \cap inserted[b] = {}

\* Rows in the table and rows held by open transactions.
Held(b) == inserted[b] \cup txn[b]

\* No two of them have the same primary key, whichever uploads they come from.
KeysAreUnique ==
    \A b, c \in Batches : \A i \in Held(b), j \in Held(c) :
      Row(b, i).id = Row(c, j).id => b = c /\ i = j

-----------------------------------------------------------------------------
(* Properties.                                                             *)

\* A completed batch accounts for its whole file: every row is in the employees
\* table or named in the batch's errors, and none is both.  (The chunk loop, the
\* fallback of write_employees and all_errors together.)
CompletedAccountsForEveryRow ==
    \A b \in Batches : status[b] = "completed" =>
        /\ content[b].text
        /\ Rows(b) = inserted[b] \cup errors[b]
        /\ inserted[b] \cap errors[b] = {}

\* A row is reported as an error only when it did not parse, refers to something
\* that was not loaded, has a key some other row holds, or found no connection: the
\* fallback after a failed bulk insert gives up no other row.
ErrorsAreJustified ==
    \A b \in Batches : \A i \in errs[b] \cup errors[b] : Excused(b, i)

\* A client that was ever told "completed" has every good row of its file in the
\* table, whatever happened to the batch's status since.
ToldCompletedMeansLoaded ==
    \A b \in Batches : "completed" \in reported[b] =>
        \A i \in Rows(b) : i \in inserted[b] \/ Excused(b, i)

\* A batch is failed only because it outlived the timeout or because its worker
\* left with an exception: a poll never fails a young batch.
FailedHasCause ==
    \A b \in Batches : status[b] = "failed" => b \in aged \/ pc[b] = "raised"

\* Once the 202 is out, the file and the batch row are durable: a crash at any
\* later point leaves a batch that can be polled and whose file exists.
AcceptedIsDurable ==
    \A b \in accepted : b \in stored /\ status[b] # "absent"

\* All of it together: what one step needs of the state to keep it.
IInv ==
    /\ TypeOK
    /\ Shape
    /\ Lifecycle
    /\ Accounting
    /\ KeysAreUnique
    /\ CompletedAccountsForEveryRow
    /\ ErrorsAreJustified
    /\ ToldCompletedMeansLoaded
    /\ FailedHasCause
    /\ AcceptedIsDurable

\* Completed, and nobody is left who would write the batch: its worker is gone, and
\* no poll has read it pending and not written yet.
Settled(b) == status[b] = "completed" /\ pc[b] \in Ended /\ expiring[b] = 0

KeepsCompleted ==
    \A b \in Batches :
      /\ status[b] = "completed" \/ "completed" \in reported[b] => inserted'[b] = inserted[b]
      /\ status[b] = "completed" /\ status'[b] = "completed" => errors'[b] = errors[b]
      /\ Settled(b) => Settled(b)'

\* Nothing is loaded for a batch that is completed, or that a client was once told
\* is, and its errors do not change while it is. Polls and a late mark_batch_failed
\* may overwrite the status, but only those already under way as the worker ends:
\* after that it is final.
CompletedIsFrozen == [][KeepsCompleted]_vars

\* The employees table and the batches table behave as the ledger promises.
Ledger == INSTANCE BatchLedger
ImplementsLedger == Ledger!LedgerSpec

\* A client that was given a batch id does not poll for ever: the batch leaves
\* pending for good, whether its worker ends, raises or dies with the process.
AcceptedBatchesResolve ==
    \A b \in Batches : b \in accepted ~> [](status[b] # "pending")

\* A background task that started ends: two uploads of the same ids do not wait
\* for each other for ever, and no row is tried for ever.
WorkersEnd ==
    \A b \in Batches : pc[b] = "scheduled" ~> pc[b] \in Ended

\* What the README says of the status: it goes from pending to completed or to
\* failed.  Then no client is told both of one batch.
ClientsSeeOneOutcome ==
    \A b \in Batches : ~({"completed", "failed"} \subseteq reported[b])

=============================================================================
