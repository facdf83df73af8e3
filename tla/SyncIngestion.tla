--------------------------- MODULE SyncIngestion ---------------------------
(***************************************************************************)
(* The synchronous uploads, POST /ingest/departments and /ingest/jobs: the *)
(* file is parsed and checked, its records are inserted in bulk under one  *)
(* new batch, and if that fails row by row inside savepoints.  Batch and   *)
(* rows are committed once; the answer lists the rows that were rejected.  *)
(*                                                                         *)
(* The two endpoints run the same code on their own tables, and one table  *)
(* is modelled: uploads to different tables share no key.  One step is one *)
(* database call another upload can observe, as in EmployeeIngestion.tla;  *)
(* here the keys of an upload stay locked until its single commit, through *)
(* the savepoints of the fallback too.                                     *)
(***************************************************************************)
EXTENDS Naturals, Sequences, FiniteSets

CONSTANTS Uploads,      \* requests; the uuid drawn for a request is its batch id
          Ids,          \* values of departments.id (or jobs.id)
          Files,        \* the CSV files a client may upload
          MaxRows       \* batch_guard._MAX_ROWS

\* A row: whether it parses, and whether Postgres can store its values (an id
\* beyond 32 bits parses and does not fit).
RowType == [id : Ids, parses : BOOLEAN, fits : BOOLEAN]
FileType == [text : BOOLEAN, rows : Seq(RowType)]

ASSUME FilesAssumption == Files \subseteq FileType
ASSUME MaxRowsAssumption == MaxRows \in Nat

VARIABLES
    content,    \* the file a request carries
    batch,      \* ingestion_batches.status of its batch ("absent": no such row)
    inserted,   \* its committed rows, as row indices
    opened,     \* uploads whose open transaction holds their pending batch row
    txn,        \* rows its open transaction holds
    pc,         \* where the request stands
    todo,       \* fallback: records not yet tried
    rejected,   \* fallback: the errors list
    okCount,    \* fallback: ok_count
    reply       \* the answer, being prepared or (pc = "answered") given

db == <<batch, inserted>>
session == <<opened, txn>>
locals == <<todo, rejected, okCount>>
vars == <<content, db, session, pc, locals, reply>>

InFlight == {"opening", "bulk", "fallback", "rows", "replying"}
Phases == {"new"} \cup InFlight \cup {"answered", "lost"}
Codes == {0, 200, 422, 500, 503}

NoReply == [code |-> 0, created |-> 0, errors |-> {}]

TypeOK ==
    /\ content \in [Uploads -> Files]
    /\ batch \in [Uploads -> {"absent", "pending", "completed"}]
    /\ inserted \in [Uploads -> SUBSET Nat]
    /\ opened \subseteq Uploads
    /\ txn \in [Uploads -> SUBSET Nat]
    /\ pc \in [Uploads -> Phases]
    /\ todo \in [Uploads -> SUBSET Nat]
    /\ rejected \in [Uploads -> SUBSET Nat]
    /\ okCount \in [Uploads -> Nat]
    /\ reply \in [Uploads -> [code : Codes, created : Nat, errors : SUBSET Nat]]

Init ==
    /\ content \in [Uploads -> Files]
    /\ batch = [u \in Uploads |-> "absent"]
    /\ inserted = [u \in Uploads |-> {}]
    /\ opened = {}
    /\ txn = [u \in Uploads |-> {}]
    /\ pc = [u \in Uploads |-> "new"]
    /\ todo = [u \in Uploads |-> {}]
    /\ rejected = [u \in Uploads |-> {}]
    /\ okCount = [u \in Uploads |-> 0]
    /\ reply = [u \in Uploads |-> NoReply]

-----------------------------------------------------------------------------
(* Rows, keys and locks.                                                   *)

Rows(u) == DOMAIN content[u].rows
Row(u, i) == content[u].rows[i]

\* parse_departments: the rows that become records; the others are parse errors.
Records(u) == {i \in Rows(u) : Row(u, i).parses}

\* The next record of a list, in file order.
First(S, i) == i \in S /\ \A j \in S : i <= j

\* A committed row holds this primary key.
Taken(id) == \E v \in Uploads : \E j \in inserted[v] : Row(v, j).id = id

\* The open transaction of v, or of an upload other than u, holds this key.
LockedBy(v, id) == \E j \in txn[v] : Row(v, j).id = id
Locked(u, id) == \E v \in Uploads \ {u} : LockedBy(v, id)

\* Why a row may legitimately not be loaded: it does not parse, it does not fit,
\* or another row has its key.
Excused(u, i) ==
    \/ ~Row(u, i).parses
    \/ ~Row(u, i).fits
    \/ \E v \in Uploads : \E j \in inserted[v] :
         <<v, j>> # <<u, i>> /\ Row(v, j).id = Row(u, i).id

-----------------------------------------------------------------------------
(* Steps a request is made of.                                             *)

Goto(u, phase) == pc' = [pc EXCEPT ![u] = phase]

\* rollback, or the end of the session: the open transaction is gone.
Rollback(u) ==
    /\ opened' = opened \ {u}
    /\ txn' = [txn EXCEPT ![u] = {}]

\* The use case returns or raises; its locals and its transaction are gone.
Return(u, code, created, errs) ==
    /\ reply' = [reply EXCEPT ![u] =
                   [code |-> code, created |-> created, errors |-> errs]]
    /\ Rollback(u)
    /\ todo' = [todo EXCEPT ![u] = {}]
    /\ rejected' = [rejected EXCEPT ![u] = {}]
    /\ okCount' = [okCount EXCEPT ![u] = 0]
    /\ Goto(u, "replying")

\* update_status(completed) and commit.
Commit(u) ==
    /\ batch' = [batch EXCEPT ![u] = "completed"]
    /\ inserted' = [inserted EXCEPT ![u] = @ \cup txn[u]]

Acceptable(u) ==
    /\ content[u].text
    /\ Records(u) # {}
    /\ Cardinality(Records(u)) <= MaxRows

-----------------------------------------------------------------------------
(* get_department_records, and the attempt to insert everything at once.   *)

ReadFile(u) ==
    /\ pc[u] = "new"
    /\ Acceptable(u)
    /\ Goto(u, "opening")
    /\ UNCHANGED <<content, db, session, locals, reply>>

\* Mutant: the wrong status code.
RefuseFileAsBad(u) ==
    /\ pc[u] = "new"
    /\ ~Acceptable(u)
    /\ Return(u, IF content[u].text THEN 400 ELSE 500, 0, {})
    /\ UNCHANGED <<content, db>>

\* raw.decode() raises (500), or validate_batch does (422).
RefuseFile(u) ==
    /\ pc[u] = "new"
    /\ ~Acceptable(u)
    /\ Return(u, IF content[u].text THEN 422 ELSE 500, 0, {})
    /\ UNCHANGED <<content, db>>

\* batch.add: the pending batch row enters the transaction.
OpenBatch(u) ==
    /\ pc[u] = "opening"
    /\ opened' = opened \cup {u}
    /\ Goto(u, "bulk")
    /\ UNCHANGED <<content, db, txn, locals, reply>>

\* No connection is free within the pool's timeout. That is not an
\* OperationalError, so the fallback is tried.
OpenTimesOut(u) ==
    /\ pc[u] = "opening"
    /\ Rollback(u)
    /\ Goto(u, "fallback")
    /\ UNCHANGED <<content, db, locals, reply>>

\* bulk_insert: the multi-row INSERT takes the keys in file order, and waits at
\* the first one another open transaction holds.
BulkRow(u) ==
    /\ pc[u] = "bulk"
    /\ \E i \in Records(u) \ txn[u] :
         /\ First(Records(u) \ txn[u], i)
         /\ Row(u, i).fits
         /\ ~Taken(Row(u, i).id)
         /\ ~Locked(u, Row(u, i).id)
         /\ ~LockedBy(u, Row(u, i).id)
         /\ txn' = [txn EXCEPT ![u] = @ \cup {i}]
    /\ UNCHANGED <<content, db, opened, pc, locals, reply>>

\* The INSERT meets a key that is taken, in the table or earlier in the same
\* statement, or values it cannot store.
BulkClash(u) ==
    \/ \E i \in Records(u) \ txn[u] :
         /\ First(Records(u) \ txn[u], i)
         /\ Taken(Row(u, i).id) \/ LockedBy(u, Row(u, i).id)
    \/ \E i \in Records(u) : ~Row(u, i).fits

\* Mutant: the fallback starts without a rollback.
BulkKeptOpen(u) ==
    /\ pc[u] = "bulk"
    /\ BulkClash(u)
    /\ Goto(u, "fallback")
    /\ UNCHANGED <<content, db, session, locals, reply>>

BulkRejected(u) ==
    /\ pc[u] = "bulk"
    /\ BulkClash(u)
    /\ Rollback(u)
    /\ Goto(u, "fallback")
    /\ UNCHANGED <<content, db, locals, reply>>

\* The INSERT succeeded as a whole: every record, and its batch_id, is in place.
BulkReady(u) ==
    /\ pc[u] = "bulk"
    /\ u \in opened
    /\ txn[u] = Records(u)

BulkCommit(u) ==
    /\ BulkReady(u)
    /\ Commit(u)
    /\ Return(u, 200, Cardinality(Records(u)), {})
    /\ UNCHANGED content

\* An OperationalError in the try: rollback, translate, raise.
TryFails(u) ==
    /\ pc[u] \in {"opening", "bulk"}
    /\ Return(u, 503, 0, {})
    /\ UNCHANGED <<content, db>>

\* The same, but the commit took effect before the connection was lost.
TryUnacknowledged(u) ==
    /\ BulkReady(u)
    /\ Commit(u)
    /\ Return(u, 503, 0, {})
    /\ UNCHANGED content

-----------------------------------------------------------------------------
(* The fallback: row by row, in savepoints that are never released.        *)

\* batch.add again, under the same batch id.
ReopenBatch(u) ==
    /\ pc[u] = "fallback"
    /\ opened' = opened \cup {u}
    /\ todo' = [todo EXCEPT ![u] = Records(u)]
    /\ Goto(u, "rows")
    /\ UNCHANGED <<content, db, txn, rejected, okCount, reply>>

\* This call stands outside any try: what it raises is not translated.
ReopenFails(u) ==
    /\ pc[u] = "fallback"
    /\ Return(u, 500, 0, {})
    /\ UNCHANGED <<content, db>>

\* begin_nested and add can go through for record i.
RowReady(u, i) ==
    /\ pc[u] = "rows"
    /\ First(todo[u], i)
    /\ u \in opened
    /\ Row(u, i).fits
    /\ ~Locked(u, Row(u, i).id)
    /\ ~Taken(Row(u, i).id)
    /\ ~LockedBy(u, Row(u, i).id)

\* Mutant: every row of the fallback commits on its own.
RowCommitted(u) ==
    /\ \E i \in todo[u] :
         /\ RowReady(u, i)
         /\ inserted' = [inserted EXCEPT ![u] = @ \cup {i}]
         /\ batch' = [batch EXCEPT ![u] = "completed"]
         /\ okCount' = [okCount EXCEPT ![u] = @ + 1]
         /\ todo' = [todo EXCEPT ![u] = @ \ {i}]
    /\ UNCHANGED <<content, session, pc, rejected, reply>>

RowInsert(u) ==
    /\ \E i \in todo[u] :
         /\ RowReady(u, i)
         /\ txn' = [txn EXCEPT ![u] = @ \cup {i}]
         /\ okCount' = [okCount EXCEPT ![u] = @ + 1]
         /\ todo' = [todo EXCEPT ![u] = @ \ {i}]
    /\ UNCHANGED <<content, db, opened, pc, rejected, reply>>

\* Record i clashes: its values, its batch_id, a key in the table, or a key of an
\* earlier row of this transaction.
RowClash(u, i) ==
    /\ pc[u] = "rows"
    /\ First(todo[u], i)
    /\ \/ ~Row(u, i).fits
       \/ u \notin opened
       \/ Taken(Row(u, i).id)
       \/ LockedBy(u, Row(u, i).id)

\* Mutant: a rejected record is not consumed.
RowRetried(u) ==
    /\ \E i \in todo[u] : RowClash(u, i)
    /\ UNCHANGED vars

\* Mutant: ok_count is incremented before the insert.
RowCounted(u) ==
    /\ \E i \in todo[u] :
         /\ RowClash(u, i)
         /\ rejected' = [rejected EXCEPT ![u] = @ \cup {i}]
         /\ okCount' = [okCount EXCEPT ![u] = @ + 1]
         /\ todo' = [todo EXCEPT ![u] = @ \ {i}]
    /\ UNCHANGED <<content, db, session, pc, reply>>

\* rollback_to_savepoint, and the record joins the errors.
RowRejected(u) ==
    /\ \E i \in todo[u] :
         /\ RowClash(u, i)
         /\ rejected' = [rejected EXCEPT ![u] = @ \cup {i}]
         /\ todo' = [todo EXCEPT ![u] = @ \ {i}]
    /\ UNCHANGED <<content, db, session, pc, okCount, reply>>

\* An OperationalError in the loop is translated and raised; one of
\* rollback_to_savepoint, in the except clause, is raised as it is. The session ends.
RowFails(u) ==
    /\ pc[u] = "rows"
    /\ todo[u] # {}
    /\ \E code \in {500, 503} : Return(u, code, 0, {})
    /\ UNCHANGED <<content, db>>

\* Mutant: the commit does not ask whether any row was inserted.
FinishAlways(u) ==
    /\ pc[u] = "rows"
    /\ todo[u] = {}
    /\ Commit(u)
    /\ Return(u, 200, okCount[u], rejected[u])
    /\ UNCHANGED content

\* The loop is over; the batch is completed and committed if any row went in.
Finish(u) ==
    /\ pc[u] = "rows"
    /\ todo[u] = {}
    /\ IF okCount[u] > 0 THEN Commit(u) ELSE UNCHANGED db
    /\ Return(u, 200, okCount[u], rejected[u])
    /\ UNCHANGED content

\* update_status or commit raises outside any try, before the commit took effect
\* or after.
FinishFails(u) ==
    /\ pc[u] = "rows"
    /\ todo[u] = {}
    /\ okCount[u] > 0
    /\ Commit(u) \/ UNCHANGED db
    /\ Return(u, 500, 0, {})
    /\ UNCHANGED content

\* The route adds the parse errors to a 200 and the answer goes out.
Reply(u) ==
    /\ pc[u] = "replying"
    /\ reply' = [reply EXCEPT ![u].errors =
                   IF reply[u].code = 200 THEN @ \cup (Rows(u) \ Records(u)) ELSE @]
    /\ Goto(u, "answered")
    /\ UNCHANGED <<content, db, session, locals>>

-----------------------------------------------------------------------------
(* Postgres and the environment.                                           *)

\* The next record upload u is about to insert.
Inserting(u, i) ==
    \/ pc[u] = "bulk" /\ First(Records(u) \ txn[u], i)
    \/ pc[u] = "rows" /\ First(todo[u], i)

\* The INSERT of u waits for a key that the transaction of v holds.
WaitsFor(u, v) ==
    /\ u # v
    /\ \E i \in Records(u) : Inserting(u, i) /\ LockedBy(v, Row(u, i).id)

Deadlocked(u) ==
    \E W \in SUBSET Uploads :
      /\ u \in W
      /\ \A w \in W : /\ \E v \in W : WaitsFor(w, v)
                      /\ \E v \in W : WaitsFor(v, w)

\* Postgres breaks a cycle of waiting transactions by failing one of them with
\* DeadlockDetected, an OperationalError.
DeadlockVictim(u) ==
    /\ Deadlocked(u)
    /\ Return(u, 503, 0, {})
    /\ UNCHANGED <<content, db>>

\* An instance of the service is killed with the requests it was serving.
Crash ==
    \E W \in SUBSET {u \in Uploads : pc[u] \in InFlight} :
      /\ W # {}
      /\ pc' = [u \in Uploads |-> IF u \in W THEN "lost" ELSE pc[u]]
      /\ opened' = opened \ W
      /\ txn' = [u \in Uploads |-> IF u \in W THEN {} ELSE txn[u]]
      /\ todo' = [u \in Uploads |-> IF u \in W THEN {} ELSE todo[u]]
      /\ rejected' = [u \in Uploads |-> IF u \in W THEN {} ELSE rejected[u]]
      /\ okCount' = [u \in Uploads |-> IF u \in W THEN 0 ELSE okCount[u]]
      /\ UNCHANGED <<content, db, reply>>

-----------------------------------------------------------------------------

\* What a request does when no call fails.
RequestStep(u) ==
    \/ ReadFile(u) \/ RefuseFile(u)
    \/ OpenBatch(u) \/ BulkRow(u) \/ BulkRejected(u) \/ BulkCommit(u)
    \/ ReopenBatch(u) \/ RowInsert(u) \/ RowRejected(u) \/ Finish(u)
    \/ Reply(u)

RequestFault(u) ==
    \/ OpenTimesOut(u) \/ TryFails(u) \/ TryUnacknowledged(u)
    \/ ReopenFails(u) \/ RowFails(u) \/ FinishFails(u)
    \/ DeadlockVictim(u)

Next ==
    \/ \E u \in Uploads : RequestStep(u) \/ RequestFault(u)
    \/ Crash

Spec == Init /\ [][Next]_vars

\* The event loop and the thread pool run every request that can go on, and
\* Postgres resolves deadlocks.
Fairness ==
    /\ \A u \in Uploads : WF_vars(RequestStep(u))
    /\ WF_vars(\E u \in Uploads : DeadlockVictim(u))

FairSpec == Spec /\ Fairness

-----------------------------------------------------------------------------
(* The inductive invariant.                                                *)

\* Only a request inside the use case has a transaction, and only one in the
\* fallback loop has locals; nothing is committed before the use case ends.
Shape ==
    \A u \in Uploads :
      /\ u \in opened <=> pc[u] \in {"bulk", "rows"}
      /\ pc[u] \notin {"bulk", "rows"} => txn[u] = {}
      /\ pc[u] # "rows" => todo[u] = {} /\ rejected[u] = {} /\ okCount[u] = 0
      /\ pc[u] \notin {"replying", "answered", "lost"} =>
           /\ batch[u] = "absent"
           /\ inserted[u] = {}
      /\ pc[u] \in {"new", "opening", "bulk", "fallback", "rows"} => reply[u] = NoReply
      /\ pc[u] \in {"replying", "answered"} => reply[u].code # 0
      /\ pc[u] \in {"opening", "bulk", "fallback", "rows"} => Records(u) # {}

\* An earlier row of its own transaction has the key of row i.
Preceded(u, i) == \E j \in txn[u] : j < i /\ Row(u, j).id = Row(u, i).id

\* In the fallback each record is in one place, those tried come before the others
\* in the file, ok_count counts those inserted, and each one given up has its
\* excuse, in the table or in an earlier row of this transaction.
FallbackAt(u) ==
    /\ txn[u] \subseteq Records(u)
    /\ \A i \in txn[u] : Row(u, i).fits
    /\ pc[u] = "rows" =>
         /\ Records(u) = todo[u] \cup txn[u] \cup rejected[u]
         /\ todo[u] \cap (txn[u] \cup rejected[u]) = {}
         /\ txn[u] \cap rejected[u] = {}
         /\ \A i \in todo[u], j \in txn[u] \cup rejected[u] : j < i
         /\ okCount[u] = Cardinality(txn[u])
         /\ \A i \in rejected[u] : Excused(u, i) \/ Preceded(u, i)

Fallback == \A u \in Uploads : FallbackAt(u)

\* What a prepared 200 says is true of the table.
ReplyAt(u) ==
    /\ inserted[u] \subseteq Records(u)
    /\ \A i \in inserted[u] : Row(u, i).fits
    /\ reply[u].code = 422 => batch[u] = "absent"
    /\ reply[u].code # 200 => reply[u].created = 0 /\ reply[u].errors = {}
    /\ reply[u].code = 200 =>
         /\ reply[u].created = Cardinality(inserted[u])
         /\ reply[u].errors \subseteq Rows(u)
         /\ Records(u) \ inserted[u] \subseteq reply[u].errors
         /\ reply[u].errors \cap inserted[u] = {}
         /\ \A i \in reply[u].errors : Excused(u, i)

Replies == \A u \in Uploads : ReplyAt(u)

\* Rows in the table and rows held by open transactions.
Held(u) == inserted[u] \cup txn[u]

\* No two of them have the same primary key.
KeysAreUnique ==
    \A u, v \in Uploads : \A i \in Held(u), j \in Held(v) :
      Row(u, i).id = Row(v, j).id => u = v /\ i = j

-----------------------------------------------------------------------------
(* Properties.                                                             *)

\* ADR-0001: a batch without rows, or rows without a completed batch, is never in
\* the database, at no point and after no failure.
BatchAndRowsTogether ==
    \A u \in Uploads :
      /\ batch[u] # "pending"
      /\ batch[u] = "completed" <=> inserted[u] # {}

\* A 200 is true: created_count is the number of the file's rows in the table, and
\* every other row of the file is listed, once, as an error.
AnswersAreTrue ==
    \A u \in Uploads : pc[u] = "answered" /\ reply[u].code = 200 =>
      /\ reply[u].created = Cardinality(inserted[u])
      /\ reply[u].errors = Rows(u) \ inserted[u]

\* A row is listed as an error only if it does not parse, cannot be stored, or has
\* a key that another row in the table holds: a retry of the whole fallback would
\* not load it either.
ErrorsAreJustified ==
    \A u \in Uploads : \A i \in rejected[u] \cup reply[u].errors :
      \/ Excused(u, i)
      \/ \E j \in txn[u] : j # i /\ Row(u, j).id = Row(u, i).id

\* All of it together.
IInv ==
    /\ TypeOK
    /\ Shape
    /\ Fallback
    /\ Replies
    /\ KeysAreUnique
    /\ BatchAndRowsTogether
    /\ AnswersAreTrue
    /\ ErrorsAreJustified

\* The table, the batches and the answers behave as AtomicUpload promises.
Promise == INSTANCE AtomicUpload WITH
             answer <- [u \in Uploads |->
                          IF pc[u] = "answered" THEN reply[u] ELSE NoReply]
ImplementsAtomicUpload == Promise!UploadSpec

\* A request that reached the database is answered, or dies with its instance:
\* uploads of the same keys do not wait for each other for ever.
RequestsEnd ==
    \A u \in Uploads : pc[u] = "opening" ~> pc[u] \in {"answered", "lost"}

=============================================================================
