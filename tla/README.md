# Verification of the hiring service

TLA+ models of `hiring-service`, TLC configurations that check them on small instances, and
TLAPS proofs of their main invariants. Paths below are relative to
`src/hiring-service/src/app/` unless they start with `README.md` or `docs/`.

Run everything from this directory:

    tlc -workers 2 -config EmployeeIngestion_two.cfg MCEmployeeIngestion.tla
    tlapm EmployeeIngestionProofs.tla

## 1. Inventory

The service is one FastAPI process (several Cloud Run instances of it, in fact), with one event
loop and a thread pool. It keeps its state outside: Postgres, an object store and Redis.

| Component | State | Operations | Interacts with |
|---|---|---|---|
| Employees upload (`use_cases/ingest_employees.py`, `routes/ingestion.py`) | the file in the bucket, a `pending` batch row | upload, create batch, answer 202, schedule the worker | object store, Postgres, worker (background task) |
| Employees worker (`workers/`) | `employees` rows, the batch's status and errors; locals `records`, `all_errors` | download, parse, write a chunk (bulk, then row by row), finalize, mark failed, delete cache keys | object store, Postgres (its own session), Redis |
| Batch status (`use_cases/get_batch_status.py`) | the batch's status | read, decide staleness, UPDATE to `failed`, answer | the same batch row as the worker |
| Departments and jobs uploads (`use_cases/ingest_departments.py`, `ingest_jobs.py`) | `departments`, `jobs`, batch rows; locals `errors`, `ok_count` | parse and guard, bulk insert, fallback in savepoints, one commit, answer | Postgres; their rows are what employees' foreign keys refer to |
| Metrics (`services/metrics/`) | none of its own | look up, query, store, answer | Redis, DuckDB |
| Cache client (`integrations/cache/redis/cache.py`) | Redis keys with a TTL | get, set, delete with two retries | workers and metrics |
| Analytics client (`integrations/duckdb/client.py`) | one DuckDB connection per process, attached to Postgres | query, reconnect and retry once | the thread pool shares it |
| Parser and guard (`helpers/csv_parser.py`, `batch_guard.py`) | none | which rows become records, which files are refused | both ingestion paths |
| Metrics SQL (`services/metrics/helpers/`) | none | count the hires of 2021 by quarter, compare departments with their mean | the three tables |
| Unit of work and repositories (`adapters/sql_*.py`, `db/__init__.py`) | a session, its transaction and savepoint | insert, update, savepoint, commit, rollback | the pool of connections |
| Error translation (`helpers/db_error_translator.py`, `api/handlers/`) | none | exception to HTTP status | every request |
| Object storage (`integrations/storage/`) | files | upload, stream | worker, upload |
| Migrations (`migrations/`) | the schema, its revision in `alembic_version` | upgrade, downgrade | Postgres; run by hand |
| Wiring, health, logging, Terraform, CI | none that the program changes | | |

What is hard, and what must hold in spite of it:

- **Employees.** Uploads run concurrently and share primary keys and foreign keys; every chunk and
  every fallback row commits on its own; polls write the same status as workers, from a status
  read before an `await`; an instance may be killed anywhere; a commit may take effect and not be
  acknowledged. Still: a completed batch accounts for each row of its file exactly once, a row is
  reported as an error only if it has an excuse, a client told `completed` has its good rows, a
  batch is failed only for a cause, an accepted upload is durable, every accepted batch leaves
  `pending`, and no two workers wait for each other for ever.
- **Departments and jobs.** One transaction is filled in bulk, rolled back, opened again under the
  same batch id, filled row by row in savepoints that are never released, and committed if a row
  went in; several calls stand outside any `try`. Keys stay locked to the end. Still: batch and
  rows reach the database together or not at all, a 200 says exactly what is there, and every
  request ends.
- **Metrics.** Readers fill the cache while workers commit and delete; Redis may fail or be down
  for any call. Still: requests are answered, workers do not wait for ever, a stale value under a
  deleted key has exactly one cause, and the TTL ends every stale value.
- **Analytics client.** Several threads use, and replace, one connection; `execute` and `fetchall`
  are two calls on it. An answer must be the answer to its own question.
- **Pools.** A coroutine keeps its connection while it waits for a thread, and a thread while it
  waits for a connection; one statement, the re-read of a polled batch after its commit, waits for a
  connection on the event loop itself. A standstill must have no other cause, and must end.
- **Data.** Files are cut in chunks of a size nobody validates; one metric groups by name, the other by
  id; reference uploads leave the cache alone. Each line must be accounted for, unless that size is
  negative, each hire counted once, the two metrics agree, and the cache be right not to be told.
- **Migrations.** Run by hand, perhaps twice at once, and killed anywhere. The recorded revision must
  be the schema that is there.

`PROJECT.json` lists each hazard at its line with the properties that cover it.

## 2. Plan

In the order in which they were written, most important first; what is left is at the end.

1. `EmployeeIngestion.tla`, implementing `BatchLedger.tla`; `EmployeeIngestionProofs.tla`.
2. `SyncIngestion.tla`, implementing `AtomicUpload.tla`; `SyncIngestionProofs.tla`.
3. `MetricsCache.tla`; `MetricsCacheProofs.tla`.
4. `AnalyticsDb.tla`; `AnalyticsDbProofs.tla`.
5. `Migrations.tla`; `MigrationsProofs.tla`.
6. `ConnectionPool.tla`; `ConnectionPoolProofs.tla`.
7. `HiringData.tla`, which puts the uploads, the tables and the metrics of 1 to 4 together at the
   level of whole chunks; `HiringDataProofs.tla`.
8. `InductionTheorems.tla`, the facts on induction, on rings of waiting tasks and on sums that the proofs
   of 1, 2, 5 and 7 need.

Left: a refinement from module 1 to the workers of modules 3 and 7. The uploads of module 7 are already
the promise of module 2: `Load` inserts the first row of each free key, as `Inserted` does there.

## 3. The modules and the code

One convention holds everywhere: **one step is one call whose effect another process can see**.
Statements inside an open transaction that nobody else can observe are merged with the one that
is observed; an UPDATE of one row and the commit after it are one step, since the row lock keeps
everybody else out in between.

### EmployeeIngestion.tla

Per batch (`b`): `content` is the file; `stored` the bucket; `status`, `errors`, `inserted` the two
tables; `known` the departments and jobs; `txn` the uncommitted rows of the worker's transaction;
`pc`, `todo`, `chunk`, `errs` the coroutine and its locals (`records` not yet chunked, the chunk,
`all_errors`); `aged` the batches past `BATCH_TIMEOUT_SECONDS`; `expiring` the polls between their
read and their UPDATE; `accepted` and `reported` what clients were told. A row is an id, the
references it makes, whether it parses and whether the pool has a connection in time when its call
comes (`crowded`: if not, the code cannot tell it from a bad row); errors are row indices.

| Code | Actions |
|---|---|
| `IngestEmployeesUseCase.execute`, route | `UploadFile`, `UploadFails`, `CreateBatch`, `CreateBatchFails`, `Respond` |
| `ProcessEmployeesChunkWorker` | `Download`, `DecodeFails`, `DownloadFails`, `StartChunk` |
| `write_employees` | `BulkRow` (one key of the INSERT), `BulkRejected`, `BulkCommit`, `WriteFails`, `WriteUnacknowledged` |
| `_write_row_by_row` | `RowInsert`, `RowRejected`, and the two faults above |
| `finalize_batch`, `mark_batch_failed` | `Finalize`, `FinalizeFails`, `InvalidateCache`, `MarkFailed`, `MarkFailedSwallowed` |
| `GetBatchStatusUseCase.execute` | `PollUnknown`, `Poll`, `PollStale` then `Expire` or `ExpireFails` |
| Postgres, time, other uploads, Cloud Run | `DeadlockVictim`, `Age`, `AddReference`, `Crash` |

`BatchLedger.tla` is what the upload promises: `Open`, `Load`, `Complete`, `Fail` on the two tables
alone. It is weaker than one would like, on purpose: it lets a failed batch become completed and
a completed one failed, and lets a failed batch keep rows, because the code does.

### SyncIngestion.tla

Per request (`u`): `content`, `batch`, `inserted` as above; `opened` and `txn` its open transaction;
`todo`, `rejected`, `okCount` the locals of the fallback; `reply` the answer. The two use cases are
the same code on two tables, so one table stands for each; the map names lines of both files.

| Code | Actions |
|---|---|
| `get_department_records`, `validate_batch` | `ReadFile`, `RefuseFile` |
| the `try` of `execute` | `OpenBatch`, `OpenTimesOut`, `BulkRow`, `BulkRejected`, `BulkCommit`, `TryFails`, `TryUnacknowledged` |
| the fallback | `ReopenBatch`, `ReopenFails`, `RowInsert`, `RowRejected`, `RowFails`, `Finish`, `FinishFails` |
| route | `Reply` |
| Postgres, Cloud Run | `DeadlockVictim`, `Crash` |

`AtomicUpload.tla` is the promise: `Load` puts the batch and its rows in one step, and the file and the
table at that step say which rows: the first that fits of each key that is free. `Accept` answers 200
with exactly what was loaded, `Refuse` answers anything else.

### MetricsCache.tla

`loaded`, `worker`, `attempts` are the uploads, reduced to how many chunks are in the table and where
the worker stands; `up`, `held`, `dated`, `value` are Redis; `rpc`, `asked`, `result` the requests. A
result is the number of chunks of each batch its query saw. `behind` and `late` are history: who
overtook which delete.

| Code | Actions |
|---|---|
| `HiresByQuarterUseCase`, `DepartmentsAboveMeanUseCase`, `get_json`, `set_json` | `Ask`, `Hit`, `Miss`, `Query`, `QueryFails`, `Store`, `StoreFails` |
| worker and `finalize_batch` | `LoadChunk`, `Finalize`, `WorkerFails` |
| `CacheClient.delete` | `Delete`, `DeleteFails` (the pause is the time between two of them) |
| Redis, Cloud Run | `RedisStops`, `RedisStarts`, `Expire`, `Crash` |

### AnalyticsDb.tla

`slot` is the one result a DuckDB connection holds, `attached` the connections whose ATTACH works; `conn`
is `self._conn` of each client and `cached` the client `lru_cache` holds; `rpc`, `asked`, `client`,
`using`, `retried`, `columns`, `answer` are the request and its thread. `crossed` and `shaken` are
history: requests another query ran into, and requests during which Postgres went down.

| Code | Actions |
|---|---|
| `get_analytics_db`, `DuckDbClient.__init__` | `Ask`, `Build`, `BuildFails` |
| use cases | `Hit`, `Miss`, `Store` |
| `DuckDbClient.query`, `_execute`, `_connect` | `Execute`, `Executed`, `Describe`, `Fetch`, `FirstFails`, `Reconnect`, `ReconnectFails`, `Adopt`, `SecondFails` |
| Postgres, Cloud Run | `PostgresStops`, `PostgresStarts`, `Restart` |

### Migrations.tla

`schema` is the set of committed objects (tables, indexes, the type, its value `failed`, the revision);
a run has the statements it has to do (`todo`) and what its transaction `added` and `dropped`. `Start` is
`env.py` reading the revision and planning, `Execute` a statement, `Commit`, `Raise` and `Crash` the ends.
A statement waits for transactions that touched its objects, and is refused if an object it needs is
missing or one it creates exists.

### ConnectionPool.tla

The control flow of each endpoint and of the worker is a table of steps (`UploadSteps`, `EmployeesSteps`,
`WorkerSteps`, `PollSteps`): what a step does (run in a thread, in a thread with a connection, commit or
roll back on the loop, read on the loop) and where it leads when it works, times out or fails. `at` is
where a task is with its step, `holding` the sessions with a connection. `EnterThread`, `Checkout`, `Work`,
`Return` and `Close` are the thread pool and the connection pool, `TimesOut` the latter's timeout.

### HiringData.tla

`departments`, `jobs`, `employees` are the tables; `size` the configured chunk size; `lines`, `todo`,
`errors`, `status` the employees batch whose worker runs. `IngestDepartments` and `IngestJobs` are whole
uploads, `WriteChunk` a whole `write_employees`, `WriteFails` one that ends in an `OperationalError` with
some rows committed. `HiresByQuarter` and `DepartmentsAboveMean` are the two queries, clause by clause.
The steps within an upload, concurrent uploads and the other faults are in modules 1 and 2.

### What is assumed of the environment

- Postgres at READ COMMITTED. An INSERT waits for an open transaction that holds one of its keys,
  fails if the key is committed, and a cycle of waits is broken by failing one member with
  `DeadlockDetected`, which SQLAlchemy reports as `OperationalError`. Foreign keys are checked
  when the INSERT ends; references are only ever added.
- A lost connection is an `OperationalError`, before the commit took effect or after it. The pool's
  timeout is not one (`OpenTimesOut` and `crowded` rows go to the fallback).
- Savepoints that are never released stay in the chain, and the final commit takes them all. Very
  deep chains (up to 1000) may exceed limits of the driver; `FinishFails` has that outcome.
- A killed instance loses its coroutines, and Postgres rolls their transactions back. `Crash` takes
  any subset of the requests and workers, since several instances may run.
- A DuckDB connection has one result: `execute` drops it and puts the new one there when it is done;
  `fetchall` empties it. Connections attached before Postgres stopped fail from then on.
- A DDL statement locks the objects it names until its transaction ends. `ALTER TYPE ... ADD VALUE` is
  transactional in this, as it is since Postgres 12 as long as the value is not used.
- Threads, connections and the loop serve those that wait in turn. Limits are those of one process.
- The year and the month of a hire are those of both databases (UTC): the time zone in which DuckDB
  evaluates `EXTRACT` on a `timestamptz` is not modelled.
- Redis deletes several keys in one command; it may come back with its values or without them. Every call
  to it ends: the client sets no socket timeout, and a Redis that hangs without closing is not modelled.
- DuckDB has its postgres extension at hand: `INSTALL` and `LOAD` in `_connect` fail only as `ATTACH` does.
  A process that cannot fetch the extension is not modelled.
- A row that finds no connection in time (`crowded`) is among the errors as the code reports it: the
  properties on errors take that as an excuse, and say that the row is reported, not that it is bad.

## 4. The runs

| Run | Instance | Shows |
|---|---|---|
| `two_uploads` | 2 uploads, files of 3 rows, chunks of 2; 891,314 states | `CompletedAccountsForEveryRow`, `ErrorsAreJustified`, `ToldCompletedMeansLoaded`, `FailedHasCause`, `AcceptedIsDurable`, and that the tables behave as `BatchLedger` |
| `chunk_loop` | 1 upload, files of 0 to 5 rows, 2 polls; 4,166 states | `IInv`, `CompletedIsFrozen`, liveness `AcceptedBatchesResolve` |
| `crossing_uploads` | 2 uploads, opposite orders; 6,369 states | liveness `WorkersEnd` through lock waits and deadlocks |
| `sync_uploads` | 2 uploads of 7 kinds of file, and 3 in a ring; 50,773 states | `BatchAndRowsTogether`, `AnswersAreTrue`, `ErrorsAreJustified`, `AtomicUpload`, liveness `RequestsEnd`, with a deadlock no two of them make |
| `cached_metrics` | 1 batch of 2 chunks, 2 keys, 2 clients; 53,936 states | `StaleOnlyIfOvertaken`, liveness `StaleValuesGo`, `RequestsAnswered`, `InvalidationEnds` |
| `query_threads` | 2 requests for 2 metrics, 4 connections; 141,631 states | `OwnUnlessCrossed`, `FailsOnlyForCause`, liveness `RequestsEnd` |
| `migrations` | 3 operators; 15,490 states | `SchemaMatchesVersion`, `RefusedOnlyIfOvertaken`, liveness `RunsEnd` |
| `pool` | 3 tasks of any kind, 1 connection, 2 threads; 368,494 states | `StuckOnlyIfCrowded`, liveness `EveryTaskEnds` |
| `data_path` | 4 + 2 + 3 files of up to 5 lines, chunk sizes -1, 0, 1, 2, 3, 9; 12,256 states | `OnlyNegativeSizesLoseLines`, `EveryHireCountedOnce`, `MetricsAgree`, `AboveMeanIsRelative`, `ReferenceUploadsKeepMetrics`, `CountsOnlyGrow` |

Every passing run also checks the type invariant of its module, but for `chunk_loop` and
`crossing_uploads`, whose module has it in `two_uploads`.

Runs that are expected to fail, each a disagreement between the code and what is written of it:

- `one_outcome`: README.md:131 has a batch go from pending to completed or to failed. A poll past the
  timeout writes `failed`, the worker, still running, writes `completed` (or the other way round), and
  a client has seen both. `CompletedIsFrozen` says what is left: a batch a client was ever told is completed
  gains no rows, and once its worker and the polls that read it pending are through, it says so for good.
- `fresh_after_delete`: README.md:114 says only a failing delete leaves stale values. A client that
  queried before the last commit and stores after the delete does it with every call succeeding.
- `mixed_up`: metrics.md:63 says which columns departments-above-mean returns. Two requests that miss at
  the same time share a DuckDB connection, and one gets, and caches, rows of the other.

Disagreements without a run of their own:

- The design document has 400 for too many rows, the code answers 422 (`batch_guard.py`).
- ADR-0001 says batch and records go in together or not at all; the worker commits chunk by chunk, and
  a failed batch keeps the rows of its earlier chunks. `BatchLedger` states what is left of it.
- metrics.md:77 says a Redis that is down never serves stale data; down for the three attempts of a
  delete and back with its values, it does (`StaleOnlyIfOvertaken` counts this as a cause).
- README.md:101 speaks of one client per process; first requests at the same time build one each, and
  the others' go when they end.
- README.md:64 has a cached metric answered from the cache; a new process connects to Postgres before it
  looks there, and fails while Postgres is down (`BuildFails`).
- `downgrade` to nothing leaves the type `ingestion_batch_status`, and the next upgrade is refused
  (`TypeLeftBehind`).

**Bounds.** Two uploads are enough for every conflict the guards can tell apart (a key held by
another transaction, a key committed by another, by oneself in an earlier chunk, in the same
statement); three make the smallest cycle that is not between two. Two polls in flight let one
overtake the other. `ChunkSize = 2` with five rows gives full, partial and last chunks. The files
repeat ids inside a chunk, across chunks and across uploads, mix unparsable rows, rows with a
missing reference, rows whose values do not fit, and include the empty file and one that is not
text. `MaxRows` makes one file of each kind oversized. `MaxPolls` bounds polls that have read
and not written; `Retries = 2` is the code's. Requests to the metrics repeat for ever. Two
requests make every crossing on a DuckDB connection (a result replaced, dropped or fetched by one
other), and four connections are as many as can be in use or being made at once, so that
`Fresh` never runs out.
Three operators allow one run to be overtaken twice, back to the revision it read. One connection
and two threads are the smallest pool in which each of the two can be what is missing; three tasks
fill both. The data files repeat keys inside a file and across files, change names, refer to
departments not there yet, and hire on both sides of the ends of two quarters and of the year. Most
safety invariants are proved for all values (section 5), so these bounds matter only for the rest.

**Deadlock.** The check is off only in the runs of `EmployeeIngestion` and `SyncIngestion`: a finite set
of requests ends, and then nothing is left to do. `WorkersEnd` and `RequestsEnd` say that they do not stop earlier.

**Fairness.**

- Weak fairness of `WorkerStep`, `RequestStep`, `Request`: the event loop and the thread pool run every
  task that can go on. For the worker this is an assumption on the deployment: Cloud Run may throttle
  the processor after the response, which is where the background task runs. `AcceptedBatchesResolve`
  does not lean on it for batches whose worker is dead or stuck: polls resolve those.
- Weak fairness of `DeadlockVictim`: Postgres's detector runs after `deadlock_timeout`.
- `AcceptedBatchesResolve` also needs that time passes (`Age`), that a client with a 202 goes on polling
  and that its UPDATE does not fail for ever (strong fairness of `PollStale` and `Expire`: faults and
  crashes may disable them, repeatedly). Uploads, faults, crashes and reference data owe nothing.
- Weak fairness of `Expire(k)` in the cache: time to live ends. Redis itself owes nothing; it may
  stay down for ever.
- Weak fairness of `Request` in `AnalyticsDb`: threads run. Postgres owes nothing.
- Strong fairness of `Run` in `Migrations`: a run whose lock is taken again and again by others gets it in
  the end, since Postgres queues those that wait. No operator owes another command.
- In `ConnectionPool`, strong fairness of `Goes` (the loop, the limiter and the pool serve waiting tasks in
  turn) and weak fairness of `TimesOut` (a full pool's timeout runs out). Without the latter the mutant
  `WaitsForEver` shows the standstill.
- `UploadsFairSpec` (in `MCEmployeeIngestion.tla`) leaves polls out of `crossing_uploads`: the worker
  reads neither the status nor the age of its batch, so they cannot hold it up.

Each property has a mutant: a definition named "Mutant" beside the one it changes, the way a
plausible bug would (a dropped guard, an error list not passed on, a missing rollback, a counter not
incremented). With it in place TLC finds the property violated.

## 5. What is proved

All from the assumptions the modules name (files are sequences of rows, `ChunkSize` and `MaxPolls`
positive, limits natural), for every value of the constants.

**EmployeeIngestionProofs**: `IInv` is inductive (`Inductive`), and with it every safety invariant of the
runs; `CompletedFrozen` (an action property) and `LedgerImplemented` (refinement). The invariants of
section 1 are not inductive alone. *Accounting* carries them: while the worker is in its loop each row
is in exactly one of four places, unchunked, in the chunk, among the errors or in the table; when the
first two are empty, `Finalize` writes exactly what `CompletedAccountsForEveryRow` asks for. It needs
*Shape* (which locals exist when) and *Lifecycle* (what each phase knows of the two stores, such as no
completed status while the worker loads). *KeysAreUnique*, over committed and uncommitted rows, is what
makes a commit a legal `Load` of the ledger. `ErrorsAreJustified` needs only that excuses last
(`ExcusesLast`): rows are never deleted.

`WorkersDoNotStandStill` is the safety half of `WorkersEnd`, for any finite number of uploads: take any
workers that wait for none but each other, and one of them can go on, without a timeout of the pool, or is
in a cycle that Postgres breaks. A worker that cannot go on is held up by one whose bulk INSERT has the key
(`StuckIsHeldUp`, which needs that no chunk is empty: `NoChunkIsEmpty`); if that goes for all of
them, some form a ring (`RingExists`); who holds a key in a ring writes in bulk, and that is what
`Deadlocked` says. TLC finds `GoesOn` to imply ENABLED `WorkerStep` on the runs' instances.

**SyncIngestionProofs**: `IInv` is inductive, so `BatchAndRowsTogether`, `AnswersAreTrue`,
`ErrorsAreJustified` hold, and `AtomicUploadImplemented`. *Fallback* carries it: in the loop each record
is to do, inserted or rejected, `ok_count` is the number inserted, and each rejected one has its excuse,
in the table or in an earlier row of the transaction itself. At the commit the excuses in the transaction
become excuses in the table, which is why a 200 is true. Records are tried in file order, so what was
inserted under a key is the first that fits: the commit is `Load`, after a bulk INSERT, a fallback, or an
acknowledgement that got lost. `UploadsDoNotStandStill` is the safety half of `RequestsEnd`, as for the
workers; here the keys stay locked through the fallback, and rings go through both phases.

**MetricsCacheProofs**: `StaleOnlyIfOvertaken` with its companion on results not yet stored
(`ResultsOnlyIfOvertaken`), which makes it inductive. `MetricsShareOnePast`: the results in use, in Redis or
about to be stored, are states of the table one after the other, so two metrics may be of different times
but no two of them contradict each other. `EveryValueExpires`, and `StalenessOnlyPasses`, an action property:
while no chunk is committed, no outdated result is made, and an outdated value comes only from a request
that had it. The two are the safety half of `StaleValuesGo`. All follow from one lemma on what a
step takes into use (`UseStep`).

**AnalyticsDbProofs**: for any number of metrics, requests and connections, `OwnUnlessCrossed` and the
action property `FailsOnlyForCause`. *Unmixed* carries the first: a request that is not `crossed` has its
connection to itself between `execute` and `fetchall` and finds its own result there. *Healed* carries
the second: a request that retries works on an attached connection unless Postgres stopped meanwhile.
*Placed* says which locals exist when, and that `lru_cache`'s client always has a connection.

**ConnectionPoolProofs**: the limits hold, and `StuckOnlyIfCrowded`, for any number of tasks, connections and
threads. The invariant adds that who waits for a connection has none (`WaitersHaveNone`) and that a
task in a call has a step to do (`CallersHaveStep`); one lemma (`OneMoves`) does the counting for every
action. A standstill with the loop running means that every active task has a connection and waits for a
thread, or a thread and waits for a connection; both are full and no task counts twice, hence
`Conns + Threads` tasks. In each standstill the pool's timeout runs for somebody (`StandstillsEnd`), and
no task comes back to a step it left (`TasksOnlyGoForward`, an action property: the tables of steps lead on,
fallbacks and rollbacks included, chunks and rows of a file being one here). Together they are the safety
half of `EveryTaskEnds`.

**MigrationsProofs**: `SchemaMatchesVersion` for any number of operators. `OnPath` carries it: each run has
executed the first statements of one of five paths, and what it added and dropped are those statements'
objects. `Exclusive` (the locks: no two runs change the same object) and `NewToOthers` (what a run adds is
not yet in the committed schema) say what a run under way cannot have been deprived of: the row of
`alembic_version` its last `Stamp` replaced is still there at its commit, so the schema it started from is
the one `SchemaMatchesVersion` gives (`ViewMatches`, a case for each path).

`RefusedOnlyIfOvertaken` says more: alone, every migration works. Its invariant is `Undisturbed`: a run
that nobody overtook is on a path that starts at the schema as it is now, with exactly that path's
remaining statements to do. `Runnable` says of each such path that the statement after any number of its
statements finds what it needs and creates what is not there, given the schema that `SchemaMatchesVersion`
describes (`UpgradeRuns`, `DowngradeRuns`); only the type the downgrade leaves behind is an exception.

`NobodyWaitsForEver` is the safety half of `RunsEnd`: whatever locks are held, some run can go on. By *Rooted*
a run that changed an object of the revisions sees the type, since no downgrade drops it; so while one run
creates the type no other has changed an object of the revisions; and only one run at a time drops tables. All
that is left to wait for is Alembic's own table, and the run that made it waits for nobody.

**HiringDataProofs**: for any files, chunk size and limit, `TypeOK` with the foreign keys,
`ReferenceUploadsKeepMetrics` and `CountsOnlyGrow`; and `OnlyNegativeSizesLoseLines`, which is not the same for
all sizes: a completed batch accounts for each of its lines if `EMPLOYEE_CHUNK_SIZE` is positive (at 0 none
completes), and if it is negative for none that is a record. The invariant says that
each line no chunk has to take any more is reported or is the row of its key (`TakenAreAccounted`), and
that without a positive size nothing is written or reported beyond the parser's errors (`NoSizeNoRows`); the
lemma on `write_employees` (`HiredKeeps`) has that the lines it does not report are exactly its new rows,
which needs that two inserted lines differ in their keys. That `write_employees` comes to that is
`WritesAreAsDeclared`: the bulk INSERT where it succeeds, and where it does not the loop of the fallback,
a recursion over the lines, insert the same rows and report the same lines, the first of each free key and
all the others. `PartsAreAsDeclared`: so does the loop up to any line at which it breaks off, and a
file cut in two makes the rows of the whole. The recursion is solved by a function given in closed form
(`LoopTakes`), and induction over the lines shows that it has no other solution. The metrics follow from `RowsStay`: no step
changes or removes a row, so a hire keeps its line (`HiresKeepTheirGroup`).

The three properties of the metrics that are about sums hold of any tables of employees whose
departments and jobs exist. `QuartersPartition`: every hire of a group has its month in exactly one
quarter, so a group's quarters add up to its hires. `LinesAddUp`: the groups of a set of lines are
disjoint, so their sums add up to the hires of all of them (`LinesCount`), and so do the numbers of a set
of departments (`DepartmentsCount`). For a name both come to the hires of the departments of that name,
which is `MetricsAgree`: the lines of a name sum up to what the second report has for all its namesakes
together, not for each. And numbers that are not all equal have one above their mean.

**InductionTheorems**: the library's induction theorems take a predicate, which the installed provers
cannot instantiate; here a set takes its place (`NatSetInduction`, `SubsetInduction`), and both follow from
the well-foundedness of `<` and of strict inclusion. In a finite set where everybody waits for somebody,
some wait for each other in a ring (`RingExists`): take away who is waited for by nobody until all are. With
the two inductions the recursive function behind
`SumFunction` has a solution (`StepHasFixpoint`), so it obeys its equation (`SumRecursion`), sums of the
cardinalities of disjoint sets count their union (`SumOfCardinalities`), and a sum is at most the number of
summands times their bound, exactly that only if all are equal to it (`SumAtMost`, `SumOfEquals`).

Each proof has one lemma per part and in it one step per action or group of actions that disturb it the
same way; the theorems combine them with `PTL`.

Only model-checked: the liveness properties (`AcceptedBatchesResolve`, `WorkersEnd`, both `RequestsEnd`,
`StaleValuesGo`, `RequestsAnswered`, `InvalidationEnds`, `RunsEnd`, `EveryTaskEnds`), since the prover has
neither fairness nor ENABLED in its reach, and the violations, which are instances. Every other property
of the runs is a theorem.

## 6. What is not modelled

- Logging and correlation ids, the health probe (it reads nothing), dependency wiring, settings and
  infrastructure: they keep no state the program changes.
- The transfer of a file in pieces, of which only success or failure is visible, and the translation of
  the object store's and Redis's errors to the service's own: every one of them ends up in the same
  `except`.
- Alembic's offline mode, which prints SQL and changes nothing; `downgrade base` over both revisions in one
  run (one revision at a time is modelled).
- The texts of rows and error messages, `ORDER BY` in the two queries, and time zones.
- `translate_db_error` beyond `OperationalError`: nothing else reaches it.
