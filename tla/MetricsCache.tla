---------------------------- MODULE MetricsCache ----------------------------
(***************************************************************************)
(* The metrics endpoints and their Redis cache, with the employee workers  *)
(* that add rows and delete the cached results when a batch is complete.   *)
(* A metric is read cache-aside: look it up, query the database on a miss  *)
(* or on any error, store the result with a time to live.  Each call to    *)
(* Redis or to the database is a step, and Redis may be unreachable for    *)
(* any of them.                                                            *)
(*                                                                         *)
(* A result is abstracted to the rows it was computed from: how many       *)
(* chunks of each batch.  EmployeeIngestion.tla has the detail of how      *)
(* those rows are committed.                                               *)
(***************************************************************************)
EXTENDS Naturals

CONSTANTS Batches,      \* employees uploads
          Chunks,       \* chunks in the file of a batch
          Keys,         \* settings.METRICS_CACHE_KEYS, one per metric
          Readers,      \* clients of the metrics endpoints, one request at a time
          Retries       \* length of _DELETE_RETRY_BACKOFFS_SECONDS

ASSUME SizesAssumption == Chunks \in Nat /\ Retries \in Nat

VARIABLES
    loaded,     \* chunks of each batch in the employees table
    worker,     \* where the worker of each batch stands
    attempts,   \* failed attempts at the delete it is making
    up,         \* Redis is reachable
    held,       \* keys Redis has a value for
    dated,      \* those of them that expire
    value,      \* the result held under each key
    rpc,        \* where the request of each reader stands
    asked,      \* the metric it asks for
    result,     \* the result it computed, before it is stored
    behind,     \* history: batches invalidated since it computed that result
    late        \* history: behind, of the reader that stored the value of a key

uploads == <<loaded, worker, attempts>>
redis == <<up, held, dated, value>>
requests == <<rpc, asked, result>>
history == <<behind, late>>
vars == <<uploads, redis, requests, history>>

Snapshots == [Batches -> 0..Chunks]
NoRows == [b \in Batches |-> 0]

Over == {"done", "gaveUp", "failed", "gone"}

TypeOK ==
    /\ loaded \in Snapshots
    /\ worker \in [Batches -> {"loading", "deleting"} \cup Over]
    /\ attempts \in [Batches -> 0..Retries]
    /\ up \in BOOLEAN
    /\ held \subseteq Keys
    /\ dated \subseteq held
    /\ value \in [Keys -> Snapshots]
    /\ rpc \in [Readers -> {"idle", "lookup", "querying", "storing"}]
    /\ asked \in [Readers -> Keys]
    /\ result \in [Readers -> Snapshots]
    /\ behind \in [Readers -> SUBSET Batches]
    /\ late \in [Keys -> SUBSET Batches]

Init ==
    /\ loaded = NoRows
    /\ worker = [b \in Batches |-> "loading"]
    /\ attempts = [b \in Batches |-> 0]
    /\ up = TRUE
    /\ held = {}
    /\ dated = {}
    /\ value = [k \in Keys |-> NoRows]
    /\ rpc = [r \in Readers |-> "idle"]
    /\ asked \in [Readers -> Keys]
    /\ result = [r \in Readers |-> NoRows]
    /\ behind = [r \in Readers |-> {}]
    /\ late = [k \in Keys |-> {}]

-----------------------------------------------------------------------------
(* Redis.                                                                  *)

\* The values of these keys are gone.
Drop(K) ==
    /\ held' = held \ K
    /\ dated' = dated \ K
    /\ value' = [k \in Keys |-> IF k \in K THEN NoRows ELSE value[k]]
    /\ late' = [k \in Keys |-> IF k \in K THEN {} ELSE late[k]]

RedisStops ==
    /\ up
    /\ up' = FALSE
    /\ UNCHANGED <<uploads, held, dated, value, requests, history>>

\* Redis is back, with its values or without them.
RedisStarts ==
    /\ ~up
    /\ up' = TRUE
    /\ \E K \in {{}, held} : Drop(K)
    /\ UNCHANGED <<uploads, requests, behind>>

\* METRICS_CACHE_TTL is over for a key.
Expire(k) ==
    /\ k \in dated
    /\ Drop({k})
    /\ UNCHANGED <<uploads, up, requests, behind>>

-----------------------------------------------------------------------------
(* The workers: chunks are committed one by one, and once all are and the  *)
(* batch is completed, CacheClient.delete drops both keys.                 *)

WorkerGoto(b, phase) == worker' = [worker EXCEPT ![b] = phase]

LoadChunk(b) ==
    /\ worker[b] = "loading"
    /\ loaded[b] < Chunks
    /\ loaded' = [loaded EXCEPT ![b] = @ + 1]
    /\ UNCHANGED <<worker, attempts, redis, requests, history>>

\* finalize_batch has committed the status.
Finalize(b) ==
    /\ worker[b] = "loading"
    /\ loaded[b] = Chunks
    /\ WorkerGoto(b, "deleting")
    /\ UNCHANGED <<loaded, attempts, redis, requests, history>>

\* The worker raises: its batch is marked failed, and nothing is deleted.
WorkerFails(b) ==
    /\ worker[b] = "loading"
    /\ WorkerGoto(b, "failed")
    /\ UNCHANGED <<loaded, attempts, redis, requests, history>>

\* The delete is over. Readers that hold a result have one from before it.
Invalidated(b, phase) ==
    /\ WorkerGoto(b, phase)
    /\ attempts' = [attempts EXCEPT ![b] = 0]
    /\ behind' = [r \in Readers |->
                    IF rpc[r] = "storing" THEN behind[r] \cup {b} ELSE behind[r]]

\* Mutant: the keys are not passed on as a list.
DeleteOneKey(b) ==
    /\ worker[b] = "deleting"
    /\ up
    /\ \E k \in Keys : Drop({k})
    /\ Invalidated(b, "done")
    /\ UNCHANGED <<loaded, up, requests>>

Delete(b) ==
    /\ worker[b] = "deleting"
    /\ up
    /\ Drop(Keys)
    /\ Invalidated(b, "done")
    /\ UNCHANGED <<loaded, up, requests>>

\* The call raises: Redis is unreachable, or it is not and this call failed,
\* before the keys were deleted or after.
DeleteRaises(b) ==
    /\ worker[b] = "deleting"
    /\ \/ UNCHANGED <<held, dated, value, late>>
       \/ up /\ Drop(Keys)
    /\ UNCHANGED <<loaded, up, requests>>

\* Mutant: attempt is not incremented.
DeleteRetriedForEver(b) ==
    /\ DeleteRaises(b)
    /\ UNCHANGED <<worker, attempts, behind>>

\* Mutant: one retry more than there are backoffs.
DeleteRetriedOnceMore(b) ==
    /\ DeleteRaises(b)
    /\ IF attempts[b] > Retries
         THEN Invalidated(b, "gaveUp")
         ELSE /\ attempts' = [attempts EXCEPT ![b] = @ + 1]
              /\ UNCHANGED <<worker, behind>>

\* It is tried again after a pause, or given up when there are no pauses left.
DeleteFails(b) ==
    /\ DeleteRaises(b)
    /\ IF attempts[b] >= Retries
         THEN Invalidated(b, "gaveUp")
         ELSE /\ attempts' = [attempts EXCEPT ![b] = @ + 1]
              /\ UNCHANGED <<worker, behind>>

-----------------------------------------------------------------------------
(* The requests: HiresByQuarterUseCase and DepartmentsAboveMeanUseCase.    *)

Goto(r, phase) == rpc' = [rpc EXCEPT ![r] = phase]

\* The request is over; its locals are gone.
Answer(r) ==
    /\ Goto(r, "idle")
    /\ result' = [result EXCEPT ![r] = NoRows]
    /\ behind' = [behind EXCEPT ![r] = {}]

Ask(r, k) ==
    /\ rpc[r] = "idle"
    /\ asked' = [asked EXCEPT ![r] = k]
    /\ Goto(r, "lookup")
    /\ UNCHANGED <<uploads, redis, result, history>>

\* get_json finds a value, and that is the answer.
Hit(r) ==
    /\ rpc[r] = "lookup"
    /\ up
    /\ asked[r] \in held
    /\ Answer(r)
    /\ UNCHANGED <<uploads, redis, asked, late>>

\* get_json finds nothing, or swallows the error of its call.
Miss(r) ==
    /\ rpc[r] = "lookup"
    /\ Goto(r, "querying")
    /\ UNCHANGED <<uploads, redis, asked, result, history>>

\* The query sees the rows committed so far.
Query(r) ==
    /\ rpc[r] = "querying"
    /\ result' = [result EXCEPT ![r] = loaded]
    /\ Goto(r, "storing")
    /\ UNCHANGED <<uploads, redis, asked, history>>

\* AnalyticsUnavailableError, a 503.
QueryFails(r) ==
    /\ rpc[r] = "querying"
    /\ Answer(r)
    /\ UNCHANGED <<uploads, redis, asked, late>>

\* Redis takes the result in, dated or not.
Put(r, dates) ==
    /\ rpc[r] = "storing"
    /\ up
    /\ held' = held \cup {asked[r]}
    /\ dated' = IF dates THEN dated \cup {asked[r]} ELSE dated \ {asked[r]}
    /\ value' = [value EXCEPT ![asked[r]] = result[r]]
    /\ late' = [late EXCEPT ![asked[r]] = behind[r]]
    /\ Answer(r)
    /\ UNCHANGED <<uploads, up, asked>>

\* Mutant: set_json is called without its ttl.
StoreUndated(r) == Put(r, FALSE)

\* set_json stores the result for METRICS_CACHE_TTL.
Store(r) == Put(r, TRUE)

\* Mutant: the answer waits for Redis.
StoreAwaited(r) ==
    /\ rpc[r] = "storing"
    /\ up
    /\ Answer(r)
    /\ UNCHANGED <<uploads, redis, asked, late>>

\* set_json swallows the error of its call, and the answer goes out.
StoreFails(r) ==
    /\ rpc[r] = "storing"
    /\ Answer(r)
    /\ UNCHANGED <<uploads, redis, asked, late>>

-----------------------------------------------------------------------------

\* An instance of the service is killed with the work it was doing.
Crash ==
    \E W \in SUBSET {b \in Batches : worker[b] \notin Over},
       R \in SUBSET {r \in Readers : rpc[r] # "idle"} :
      /\ W # {} \/ R # {}
      /\ worker' = [b \in Batches |-> IF b \in W THEN "gone" ELSE worker[b]]
      /\ attempts' = [b \in Batches |-> IF b \in W THEN 0 ELSE attempts[b]]
      /\ rpc' = [r \in Readers |-> IF r \in R THEN "idle" ELSE rpc[r]]
      /\ result' = [r \in Readers |-> IF r \in R THEN NoRows ELSE result[r]]
      /\ behind' = [r \in Readers |-> IF r \in R THEN {} ELSE behind[r]]
      /\ UNCHANGED <<loaded, redis, asked, late>>

WorkerStep(b) ==
    LoadChunk(b) \/ Finalize(b) \/ WorkerFails(b) \/ Delete(b) \/ DeleteFails(b)

Request(r) ==
    Hit(r) \/ Miss(r) \/ Query(r) \/ QueryFails(r) \/ Store(r) \/ StoreFails(r)

Next ==
    \/ \E b \in Batches : WorkerStep(b)
    \/ \E r \in Readers : Request(r) \/ \E k \in Keys : Ask(r, k)
    \/ \E k \in Keys : Expire(k)
    \/ RedisStops \/ RedisStarts
    \/ Crash

Spec == Init /\ [][Next]_vars

\* The event loop runs what can go on, and a dated value expires.
FairSpec ==
    /\ Spec
    /\ \A b \in Batches : WF_vars(WorkerStep(b))
    /\ \A r \in Readers : WF_vars(Request(r))
    /\ \A k \in Keys : WF_vars(Expire(k))

-----------------------------------------------------------------------------
(* Properties.                                                             *)

\* Once the keys were deleted for a completed batch, a value that lacks rows of
\* it can only come from a request that computed it before the delete and stored
\* it after: not from the other key, a chunk, a retry or an outage.
StaleOnlyIfOvertaken ==
    \A k \in held, b \in Batches :
      worker[b] = "done" /\ value[k][b] # loaded[b] => b \in late[k]

\* What the requests under way are going to store is as good.
ResultsOnlyIfOvertaken ==
    \A r \in Readers, b \in Batches :
      rpc[r] = "storing" /\ worker[b] = "done" /\ result[r][b] # loaded[b] =>
        b \in behind[r]

IInv ==
    /\ TypeOK
    /\ StaleOnlyIfOvertaken
    /\ ResultsOnlyIfOvertaken

\* METRICS_CACHE_TTL bounds staleness, whatever was lost: when no more rows come,
\* the values that lack some go, and no other such value comes.
StaleValuesGo == <>[](\A k \in held : value[k] = loaded)

\* The cache is optional: a request is answered whatever Redis does.
RequestsAnswered == \A r \in Readers : rpc[r] = "lookup" ~> rpc[r] = "idle"

\* A worker does not wait for Redis for ever.
InvalidationEnds ==
    \A b \in Batches : worker[b] = "deleting" ~> worker[b] \in Over

\* What metrics.md says of the delete: it keeps the metrics fresh. Only its failure
\* leaves a value that lacks rows of a completed batch.
DeletedMeansFresh ==
    \A k \in held, b \in Batches :
      worker[b] = "done" => value[k][b] = loaded[b]

=============================================================================
