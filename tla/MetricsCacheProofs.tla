------------------------- MODULE MetricsCacheProofs -------------------------
(***************************************************************************)
(* Proofs about MetricsCache.tla: its types, and that only a request that  *)
(* overtook the delete leaves a value that lacks rows of a completed and   *)
(* invalidated batch.  The invariant is inductive once it also speaks of   *)
(* the results that requests are about to store.                           *)
(***************************************************************************)
EXTENDS MetricsCache, TLAPS

USE SizesAssumption

LEMMA InitIInv ==
    ASSUME Init
    PROVE  IInv
  BY DEF Init, IInv, TypeOK, Snapshots, NoRows, Over, StaleOnlyIfOvertaken,
         ResultsOnlyIfOvertaken

\* Dropping keys keeps the types, and leaves the values of the other keys alone.
LEMMA DropKeeps ==
    ASSUME TypeOK, NEW K, Drop(K)
    PROVE  /\ held' \subseteq Keys /\ held' = held \ K
           /\ dated' \subseteq held'
           /\ value' \in [Keys -> Snapshots]
           /\ late' \in [Keys -> SUBSET Batches]
           /\ \A k \in held' : value'[k] = value[k] /\ late'[k] = late[k]
  BY DEF Drop, TypeOK, Snapshots, NoRows

LEMMA WorkerKeepsIInv ==
    ASSUME IInv, NEW b \in Batches, WorkerStep(b)
    PROVE  IInv'
  <1> USE DEF IInv
  <1>1. CASE LoadChunk(b)
    <2>1. TypeOK'
      BY <1>1 DEF LoadChunk, TypeOK, Snapshots, redis, requests, history
    <2>2. \A c \in Batches : worker[c] = "done" => loaded'[c] = loaded[c]
      BY <1>1 DEF LoadChunk, TypeOK, Snapshots
    <2> QED
      BY <1>1, <2>1, <2>2
        DEF LoadChunk, redis, requests, history, StaleOnlyIfOvertaken,
            ResultsOnlyIfOvertaken
  <1>2. CASE Finalize(b) \/ WorkerFails(b)
    BY <1>2 DEF Finalize, WorkerFails, WorkerGoto, TypeOK, Over, redis, requests,
                history, StaleOnlyIfOvertaken, ResultsOnlyIfOvertaken
  <1>3. ASSUME NEW phase \in Over, Invalidated(b, phase),
               UNCHANGED <<loaded, up, requests>>,
               \/ phase = "done" /\ Drop(Keys)
               \/ phase # "done" /\ (Drop(Keys) \/ UNCHANGED <<held, dated, value, late>>)
        PROVE  IInv'
    <2>1. \/ held' = {} /\ dated' = {}
          \/ phase # "done" /\ UNCHANGED <<held, dated, value, late>>
      BY <1>3 DEF Drop, TypeOK
    <2>2. value' \in [Keys -> Snapshots] /\ late' \in [Keys -> SUBSET Batches]
      BY <1>3, DropKeeps DEF TypeOK
    <2>3. TypeOK'
      BY <1>3, <2>1, <2>2 DEF Invalidated, WorkerGoto, TypeOK, Over, requests
    <2>4. StaleOnlyIfOvertaken'
      BY <1>3, <2>1
        DEF Invalidated, WorkerGoto, TypeOK, StaleOnlyIfOvertaken
    <2>5. ResultsOnlyIfOvertaken'
      BY <1>3 DEF Invalidated, WorkerGoto, TypeOK, requests, ResultsOnlyIfOvertaken
    <2> QED
      BY <2>3, <2>4, <2>5
  <1>4. CASE Delete(b)
    BY <1>3, <1>4 DEF Delete, Over, TypeOK
  <1>5. CASE DeleteFails(b)
    <2>1. CASE attempts[b] >= Retries
      BY <1>3, <1>5, <2>1 DEF DeleteFails, DeleteRaises, Over, TypeOK
    <2>2. CASE ~(attempts[b] >= Retries)
      <3>1. /\ UNCHANGED <<loaded, up, requests, worker, behind>>
            /\ attempts' \in [Batches -> 0..Retries]
            /\ Drop(Keys) \/ UNCHANGED <<held, dated, value, late>>
        BY <1>5, <2>2 DEF DeleteFails, DeleteRaises, TypeOK
      <3>2. \/ held' = {} /\ dated' = {}
            \/ UNCHANGED <<held, dated, value, late>>
        BY <3>1 DEF Drop, TypeOK
      <3>3. value' \in [Keys -> Snapshots] /\ late' \in [Keys -> SUBSET Batches]
        BY <3>1, DropKeeps DEF TypeOK
      <3>4. TypeOK'
        BY <3>1, <3>2, <3>3 DEF TypeOK, requests
      <3>5. StaleOnlyIfOvertaken' /\ ResultsOnlyIfOvertaken'
        BY <3>1, <3>2 DEF requests, StaleOnlyIfOvertaken, ResultsOnlyIfOvertaken
      <3> QED
        BY <3>4, <3>5 DEF IInv
    <2> QED
      BY <2>1, <2>2
  <1> QED
    BY <1>1, <1>2, <1>4, <1>5 DEF WorkerStep

LEMMA RequestKeepsIInv ==
    ASSUME IInv, NEW r \in Readers, Request(r) \/ \E k \in Keys : Ask(r, k)
    PROVE  IInv'
  <1> USE DEF IInv
  <1>1. CASE Hit(r) \/ QueryFails(r) \/ StoreFails(r)
    <2>1. Answer(r) /\ UNCHANGED <<uploads, redis, asked, late>>
      BY <1>1 DEF Hit, QueryFails, StoreFails
    <2>2. TypeOK'
      BY <2>1 DEF Answer, Goto, TypeOK, Snapshots, NoRows, uploads, redis
    <2>3. StaleOnlyIfOvertaken'
      BY <2>1 DEF uploads, redis, StaleOnlyIfOvertaken
    <2>4. ResultsOnlyIfOvertaken'
      BY <2>1 DEF Answer, Goto, TypeOK, uploads, ResultsOnlyIfOvertaken
    <2> QED
      BY <2>2, <2>3, <2>4
  <1>2. CASE Miss(r) \/ \E k \in Keys : Ask(r, k)
    BY <1>2 DEF Miss, Ask, Goto, TypeOK, uploads, redis, history,
                StaleOnlyIfOvertaken, ResultsOnlyIfOvertaken
  <1>3. CASE Query(r)
    BY <1>3 DEF Query, Goto, TypeOK, uploads, redis, history, StaleOnlyIfOvertaken,
                ResultsOnlyIfOvertaken
  <1>4. CASE Store(r)
    <2>1. TypeOK'
      BY <1>4 DEF Store, Put, Answer, Goto, TypeOK, Snapshots, NoRows, uploads
    <2>2. StaleOnlyIfOvertaken'
      BY <1>4 DEF Store, Put, TypeOK, uploads, StaleOnlyIfOvertaken,
                  ResultsOnlyIfOvertaken
    <2>3. ResultsOnlyIfOvertaken'
      BY <1>4 DEF Store, Put, Answer, Goto, TypeOK, uploads, ResultsOnlyIfOvertaken
    <2> QED
      BY <2>1, <2>2, <2>3
  <1> QED
    BY <1>1, <1>2, <1>3, <1>4 DEF Request

LEMMA EnvironmentKeepsIInv ==
    ASSUME IInv, RedisStops \/ RedisStarts \/ Crash \/ \E k \in Keys : Expire(k)
    PROVE  IInv'
  <1> USE DEF IInv
  <1>1. CASE RedisStops
    BY <1>1 DEF RedisStops, TypeOK, uploads, requests, history,
                StaleOnlyIfOvertaken, ResultsOnlyIfOvertaken
  <1>2. ASSUME NEW K, Drop(K), up' \in BOOLEAN,
               UNCHANGED <<uploads, requests, behind>>
        PROVE  IInv'
    <2>1. TypeOK'
      BY <1>2, DropKeeps DEF TypeOK, uploads, requests
    <2>2. StaleOnlyIfOvertaken'
      BY <1>2, DropKeeps DEF uploads, StaleOnlyIfOvertaken
    <2>3. ResultsOnlyIfOvertaken'
      BY <1>2 DEF uploads, requests, ResultsOnlyIfOvertaken
    <2> QED
      BY <2>1, <2>2, <2>3
  <1>3. CASE RedisStarts \/ \E k \in Keys : Expire(k)
    BY <1>2, <1>3 DEF RedisStarts, Expire, TypeOK
  <1>4. CASE Crash
    <2>1. TypeOK'
      BY <1>4 DEF Crash, TypeOK, Over, Snapshots, NoRows, redis
    <2>2. \A b \in Batches : worker'[b] = "done" => worker[b] = "done"
      BY <1>4 DEF Crash, TypeOK
    <2>3. \A r \in Readers : rpc'[r] = "storing" =>
            rpc[r] = "storing" /\ result'[r] = result[r] /\ behind'[r] = behind[r]
      BY <1>4 DEF Crash, TypeOK
    <2> QED
      BY <1>4, <2>1, <2>2, <2>3
        DEF Crash, redis, StaleOnlyIfOvertaken, ResultsOnlyIfOvertaken
  <1> QED
    BY <1>1, <1>3, <1>4

LEMMA StepKeepsIInv ==
    ASSUME IInv, [Next]_vars
    PROVE  IInv'
  <1>1. CASE UNCHANGED vars
    BY <1>1 DEF vars, uploads, redis, requests, history, IInv, TypeOK, Snapshots,
                StaleOnlyIfOvertaken, ResultsOnlyIfOvertaken
  <1> QED
    BY <1>1, WorkerKeepsIInv, RequestKeepsIInv, EnvironmentKeepsIInv DEF Next

\* For every set of batches, keys and clients, every number of chunks and retries:
\* the inductive invariant holds in every reachable state.
THEOREM Inductive == Spec => []IInv
  BY InitIInv, StepKeepsIInv, PTL DEF Spec

\* Every variable always has its type.
THEOREM TypeCorrect == Spec => []TypeOK
  <1>1. IInv => TypeOK
    BY DEF IInv
  <1> QED
    BY <1>1, Inductive, PTL

\* A value that lacks rows of a batch whose keys were deleted was computed before
\* that delete and stored after it.
THEOREM StaleIsOvertaken == Spec => []StaleOnlyIfOvertaken
  <1>1. IInv => StaleOnlyIfOvertaken
    BY DEF IInv
  <1> QED
    BY <1>1, Inductive, PTL

-----------------------------------------------------------------------------
(* What the cache can show.                                                *)

AtMost(s, t) == \A b \in Batches : s[b] <= t[b]

\* The results Redis holds, and those requests are about to give it.
InUse == {value[k] : k \in held} \cup {result[r] : r \in {r \in Readers : rpc[r] = "storing"}}

\* The results are states the employees table went through, one after the other:
\* two metrics can be of different times, but neither lacks rows that the other
\* has while it has rows that the other lacks.
OnePast ==
    /\ \A s \in InUse : s \in Snapshots /\ AtMost(s, loaded)
    /\ \A s, t \in InUse : AtMost(s, t) \/ AtMost(t, s)

\* Every value Redis holds has a time to live: none stays for ever.
AllExpire == held \subseteq dated

\* While no chunk is committed, no request computes a result that lacks rows, and
\* Redis holds such a value only if it did already or is given it by a request that
\* held it: the outdated results in use become fewer, whatever fails.
NoNewStale ==
    loaded' = loaded =>
      /\ \A r \in Readers :
           rpc'[r] = "storing" /\ result'[r] # loaded =>
             rpc[r] = "storing" /\ result[r] = result'[r]
      /\ \A k \in held' :
           value'[k] # loaded =>
             \/ k \in held /\ value[k] = value'[k]
             \/ \E r \in Readers : /\ rpc[r] = "storing" /\ rpc'[r] = "idle"
                                   /\ asked[r] = k /\ result[r] = value'[k]

\* A step takes no result into use but what the table holds, moves them from the
\* requests to Redis, and takes no rows away.
LEMMA UseStep ==
    ASSUME TypeOK, [Next]_vars
    PROVE  /\ InUse' \subseteq InUse \cup {loaded}
           /\ AtMost(loaded, loaded')
           /\ loaded' # loaded => InUse' \subseteq InUse
           /\ NoNewStale
           /\ AllExpire => AllExpire'
  <1> DEFINE Kept ==
               \A r \in Readers : rpc'[r] = "storing" => rpc[r] = "storing" /\ result'[r] = result[r]
             Still == \A k \in held' : k \in held /\ value'[k] = value[k]
  <1>1. AtMost(loaded, loaded)
    BY DEF AtMost, TypeOK, Snapshots
  <1>2. ASSUME Kept, Still, AtMost(loaded, loaded')
        PROVE  /\ InUse' \subseteq InUse \cup {loaded}
               /\ AtMost(loaded, loaded')
               /\ loaded' # loaded => InUse' \subseteq InUse
               /\ NoNewStale
    <2>1. InUse' \subseteq InUse
      BY <1>2 DEF InUse
    <2>2. NoNewStale
      BY <1>2 DEF NoNewStale
    <2> QED
      BY <1>2, <2>1, <2>2
  <1> HIDE DEF Kept, Still
  <1>3. ASSUME NEW b \in Batches, WorkerStep(b)
        PROVE  Kept /\ Still /\ AtMost(loaded, loaded') /\ (AllExpire => AllExpire')
    <2> USE DEF Kept, Still
    <2>1. CASE LoadChunk(b)
      <3>1. AtMost(loaded, loaded')
        BY <2>1 DEF LoadChunk, AtMost, TypeOK, Snapshots
      <3> QED
        BY <2>1, <3>1 DEF LoadChunk, redis, requests, AllExpire
    <2>2. CASE Finalize(b) \/ WorkerFails(b)
      BY <1>1, <2>2 DEF Finalize, WorkerFails, redis, requests, AllExpire
    <2>3. CASE Delete(b) \/ DeleteFails(b)
      <3>1. Drop(Keys) \/ UNCHANGED <<held, dated, value>>
        BY <2>3 DEF Delete, DeleteFails, DeleteRaises
      <3>2. UNCHANGED <<loaded, requests>>
        BY <2>3 DEF Delete, DeleteFails, DeleteRaises
      <3>3. Still /\ (AllExpire => AllExpire')
        BY <3>1, DropKeeps DEF Drop, AllExpire
      <3> QED
        BY <1>1, <3>2, <3>3 DEF requests
    <2> QED
      BY <1>3, <2>1, <2>2, <2>3 DEF WorkerStep
  <1>4. ASSUME RedisStops \/ RedisStarts \/ Crash \/ \E k \in Keys : Expire(k)
        PROVE  Kept /\ Still /\ AtMost(loaded, loaded') /\ (AllExpire => AllExpire')
    <2> USE DEF Kept, Still
    <2>1. CASE RedisStops
      BY <1>1, <2>1 DEF RedisStops, uploads, requests, AllExpire
    <2>2. CASE RedisStarts \/ \E k \in Keys : Expire(k)
      <3>1. PICK K : Drop(K)
        BY <2>2 DEF RedisStarts, Expire
      <3>2. UNCHANGED <<uploads, requests>>
        BY <2>2 DEF RedisStarts, Expire
      <3>3. Still /\ (AllExpire => AllExpire')
        BY <3>1, DropKeeps DEF Drop, AllExpire
      <3> QED
        BY <1>1, <3>2, <3>3 DEF uploads, requests
    <2>3. CASE Crash
      BY <1>1, <2>3 DEF Crash, redis, AllExpire, TypeOK
    <2> QED
      BY <1>4, <2>1, <2>2, <2>3
  <1>5. ASSUME NEW r \in Readers,
               \/ Hit(r) \/ Miss(r) \/ QueryFails(r) \/ StoreFails(r)
               \/ \E k \in Keys : Ask(r, k)
        PROVE  Kept /\ Still /\ AtMost(loaded, loaded') /\ (AllExpire => AllExpire')
    <2>1. UNCHANGED <<uploads, redis>>
      BY <1>5 DEF Hit, Miss, QueryFails, StoreFails, Ask
    <2>2. Kept
      BY <1>5 DEF Hit, Miss, QueryFails, StoreFails, Ask, Answer, Goto, TypeOK, Kept
    <2> QED
      BY <1>1, <2>1, <2>2 DEF Still, AllExpire, uploads, redis
  <1>6. ASSUME NEW r \in Readers, Query(r)
        PROVE  /\ InUse' \subseteq InUse \cup {loaded}
               /\ AtMost(loaded, loaded')
               /\ loaded' # loaded => InUse' \subseteq InUse
               /\ NoNewStale
               /\ AllExpire => AllExpire'
    <2>1. UNCHANGED <<uploads, redis>>
      BY <1>6 DEF Query
    <2>2. /\ rpc'[r] = "storing" /\ result'[r] = loaded
          /\ \A q \in Readers \ {r} : rpc'[q] = rpc[q] /\ result'[q] = result[q]
      BY <1>6 DEF Query, Goto, TypeOK
    <2>3. InUse' \subseteq InUse \cup {loaded}
      BY <2>1, <2>2 DEF InUse, redis
    <2>4. NoNewStale
      BY <2>1, <2>2 DEF NoNewStale, redis
    <2> QED
      BY <1>1, <2>1, <2>3, <2>4 DEF uploads, redis, AllExpire
  <1>7. ASSUME NEW r \in Readers, Store(r)
        PROVE  /\ InUse' \subseteq InUse \cup {loaded}
               /\ AtMost(loaded, loaded')
               /\ loaded' # loaded => InUse' \subseteq InUse
               /\ NoNewStale
               /\ AllExpire => AllExpire'
    <2>1. /\ loaded' = loaded /\ rpc[r] = "storing" /\ rpc'[r] = "idle"
          /\ held' = held \cup {asked[r]} /\ dated' = dated \cup {asked[r]}
          /\ asked[r] \in Keys
      BY <1>7 DEF Store, Put, Answer, Goto, uploads, TypeOK
    <2>2. /\ \A q \in Readers \ {r} : rpc'[q] = rpc[q] /\ result'[q] = result[q]
          /\ value'[asked[r]] = result[r]
          /\ \A k \in Keys \ {asked[r]} : value'[k] = value[k]
      BY <1>7 DEF Store, Put, Answer, Goto, TypeOK
    <2>3. held \subseteq Keys
      BY DEF TypeOK
    <2>4. InUse' \subseteq InUse
      BY <2>1, <2>2, <2>3 DEF InUse
    <2>5. NoNewStale
      BY <2>1, <2>2, <2>3 DEF NoNewStale
    <2> QED
      BY <1>1, <2>1, <2>4, <2>5 DEF AllExpire
  <1>8. CASE UNCHANGED vars
    <2>1. Kept /\ Still /\ AtMost(loaded, loaded') /\ (AllExpire => AllExpire')
      BY <1>1, <1>8 DEF vars, uploads, redis, requests, Kept, Still, AllExpire
    <2> QED
      BY <1>2, <2>1
  <1> QED
    BY <1>2, <1>3, <1>4, <1>5, <1>6, <1>7, <1>8 DEF Next, Request

LEMMA OnePastStep ==
    ASSUME TypeOK, TypeOK', OnePast, [Next]_vars
    PROVE  OnePast'
  <1>1. /\ InUse' \subseteq InUse \cup {loaded}
        /\ AtMost(loaded, loaded')
    BY UseStep
  <1>2. loaded \in Snapshots /\ loaded' \in Snapshots
    BY DEF TypeOK
  <1>3. \A s \in InUse \cup {loaded} : s \in Snapshots /\ AtMost(s, loaded)
    BY <1>2 DEF OnePast, AtMost, Snapshots
  <1>4. \A s \in InUse \cup {loaded} : s \in Snapshots /\ AtMost(s, loaded')
    BY <1>1, <1>2, <1>3 DEF AtMost, Snapshots
  <1>5. \A s, t \in InUse \cup {loaded} : AtMost(s, t) \/ AtMost(t, s)
    BY <1>3 DEF OnePast
  <1>6. \A s, t : AtMost(s, t)' <=> AtMost(s, t)
    BY DEF AtMost
  <1> QED
    BY <1>1, <1>4, <1>5 DEF OnePast, AtMost

\* For every set of uploads, keys and clients: the metrics shown come from one
\* history of the table, whatever was delayed, lost or overtaken.
THEOREM MetricsShareOnePast == Spec => []OnePast
  <1>1. Init => OnePast
    BY DEF Init, OnePast, InUse
  <1>2. IInv /\ IInv' /\ OnePast /\ [Next]_vars => OnePast'
    BY OnePastStep DEF IInv
  <1> QED
    BY <1>1, <1>2, Inductive, PTL DEF Spec

\* Redis never holds a metric without METRICS_CACHE_TTL.
THEOREM EveryValueExpires == Spec => []AllExpire
  <1>1. Init => AllExpire
    BY DEF Init, AllExpire
  <1>2. IInv /\ AllExpire /\ [Next]_vars => AllExpire'
    BY UseStep DEF IInv
  <1> QED
    BY <1>1, <1>2, Inductive, PTL DEF Spec

\* Outdated results are not made while the table stands still: the safety half of
\* StaleValuesGo, the other half being that values expire and requests end.
THEOREM StalenessOnlyPasses == Spec => [][NoNewStale]_vars
  <1>1. IInv /\ [Next]_vars => NoNewStale
    BY UseStep DEF IInv
  <1> QED
    BY <1>1, Inductive, PTL DEF Spec

=============================================================================
