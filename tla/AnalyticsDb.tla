---------------------------- MODULE AnalyticsDb ----------------------------
(***************************************************************************)
(* The analytics client of one process.  Requests for a metric run their   *)
(* query in threads; all of them use the client that lru_cache keeps, and  *)
(* a client has one DuckDB connection, attached to Postgres.  execute      *)
(* clears the single result of the connection, puts its own there when it  *)
(* is over, and returns the connection: description and fetchall look at   *)
(* whatever result is there by then.                                       *)
(*                                                                         *)
(* An answer is abstracted to the metric whose columns it has and the      *)
(* metric whose rows it has.  MetricsCache.tla has the age of the rows.    *)
(***************************************************************************)

CONSTANTS Keys,         \* metrics
          Readers,      \* clients of the endpoints, one request at a time
          Conns,        \* DuckDB connections that exist at the same time
          None

Results == [query : Keys, fetched : BOOLEAN]

ASSUME NoneAssumption == None \notin Keys \cup Readers \cup Conns \cup Results

VARIABLES
    up,         \* Postgres accepts connections
    attached,   \* DuckDB connections whose ATTACH still works
    slot,       \* the result each connection holds
    conn,       \* self._conn of each client; a client is named by who built it
    cached,     \* the client lru_cache holds
    rpc,        \* where the request of each reader stands
    asked,      \* the metric it asks for
    client,     \* the client it was given
    using,      \* the connection its thread works on
    retried,    \* it has failed once
    columns,    \* the columns it read
    answer,     \* what it has to answer
    crossed,    \* history: requests whose last execution had another one on its
                \* connection before its rows were fetched
    shaken      \* history: requests during which Postgres stopped, or that shared a
                \* client with one that adopted a connection older than the stop

server == <<up, attached>>
clients == <<conn, cached>>
locals == <<asked, client, using, retried, columns, answer>>
vars == <<server, slot, clients, rpc, locals, crossed, shaken>>

Answers == [columns : Keys, rows : Keys \cup {None}]
Executing == {"running", "describing", "fetching"}
Thread == Executing \cup {"executing", "connecting", "adopting"}
Phases == Thread \cup {"idle", "building", "lookup", "storing"}

TypeOK ==
    /\ up \in BOOLEAN
    /\ attached \subseteq Conns
    /\ slot \in [Conns -> Results \cup {None}]
    /\ conn \in [Readers -> Conns \cup {None}]
    /\ cached \in Readers \cup {None}
    /\ rpc \in [Readers -> Phases]
    /\ asked \in [Readers -> Keys \cup {None}]
    /\ client \in [Readers -> Readers \cup {None}]
    /\ using \in [Readers -> Conns \cup {None}]
    /\ retried \in [Readers -> BOOLEAN]
    /\ columns \in [Readers -> Keys \cup {None}]
    /\ answer \in [Readers -> Answers \cup {None}]
    /\ crossed \subseteq Readers
    /\ shaken \subseteq Readers

Init ==
    /\ up = TRUE
    /\ attached = {}
    /\ slot = [c \in Conns |-> None]
    /\ conn = [r \in Readers |-> None]
    /\ cached = None
    /\ rpc = [r \in Readers |-> "idle"]
    /\ asked = [r \in Readers |-> None]
    /\ client = [r \in Readers |-> None]
    /\ using = [r \in Readers |-> None]
    /\ retried = [r \in Readers |-> FALSE]
    /\ columns = [r \in Readers |-> None]
    /\ answer = [r \in Readers |-> None]
    /\ crossed = {}
    /\ shaken = {}

-----------------------------------------------------------------------------
(* Postgres and the process.                                               *)

Active == {r \in Readers : rpc[r] # "idle"}

\* Connections attached before this do not work any more.
PostgresStops ==
    /\ up
    /\ up' = FALSE
    /\ attached' = {}
    /\ shaken' = shaken \cup Active
    /\ UNCHANGED <<slot, clients, rpc, locals, crossed>>

PostgresStarts ==
    /\ ~up
    /\ up' = TRUE
    /\ UNCHANGED <<attached, slot, clients, rpc, locals,
                   crossed, shaken>>

\* A new process has no client.
Restart ==
    /\ cached # None
    /\ attached' = {}
    /\ slot' = [c \in Conns |-> None]
    /\ conn' = [r \in Readers |-> None]
    /\ cached' = None
    /\ rpc' = [r \in Readers |-> "idle"]
    /\ asked' = [r \in Readers |-> None]
    /\ client' = [r \in Readers |-> None]
    /\ using' = [r \in Readers |-> None]
    /\ retried' = [r \in Readers |-> FALSE]
    /\ columns' = [r \in Readers |-> None]
    /\ answer' = [r \in Readers |-> None]
    /\ crossed' = {}
    /\ shaken' = {}
    /\ UNCHANGED up

-----------------------------------------------------------------------------
(* Dependencies: get_analytics_db runs in a thread before the use case is  *)
(* called.  lru_cache takes no lock while _analytics_db runs.              *)

Goto(r, phase) == rpc' = [rpc EXCEPT ![r] = phase]

\* No client, no thread and no other connection variable refers to it.
Unused(c) == \A q \in Readers : conn[q] # c /\ using[q] # c

\* The name of the next connection; which one it is does not matter.
Fresh == CHOOSE c \in Conns : Unused(c)

\* _connect: a new connection, attached. INSTALL and LOAD are taken to work, or to fail
\* as ATTACH does while Postgres cannot be reached.
Connect ==
    /\ up
    /\ \E c \in Conns : Unused(c)
    /\ attached' = attached \cup {Fresh}
    /\ slot' = [slot EXCEPT ![Fresh] = None]

\* Python closes a connection that nothing refers to any more.
Collect ==
    LET live == {c \in Conns : \E q \in Readers : conn'[q] = c \/ using'[q] = c} IN
    /\ attached' = attached \cap live
    /\ slot' = [c \in Conns |-> IF c \in live THEN slot[c] ELSE None]

\* The request is over; a client that lru_cache did not keep goes with it.
Over(r) ==
    /\ Goto(r, "idle")
    /\ asked' = [asked EXCEPT ![r] = None]
    /\ conn' = IF client[r] \in {None, cached} THEN conn ELSE [conn EXCEPT ![r] = None]
    /\ client' = [client EXCEPT ![r] = None]
    /\ using' = [using EXCEPT ![r] = None]
    /\ retried' = [retried EXCEPT ![r] = FALSE]
    /\ columns' = [columns EXCEPT ![r] = None]
    /\ answer' = [answer EXCEPT ![r] = None]
    /\ crossed' = crossed \ {r}
    /\ shaken' = shaken \ {r}
    /\ Collect
    /\ UNCHANGED <<up, cached>>

\* lru_cache has the client, or calls _analytics_db.
Ask(r, k) ==
    /\ rpc[r] = "idle"
    /\ asked' = [asked EXCEPT ![r] = k]
    /\ client' = [client EXCEPT ![r] = cached]
    /\ shaken' = IF up THEN shaken ELSE shaken \cup {r}
    /\ Goto(r, IF cached = None THEN "building" ELSE "lookup")
    /\ UNCHANGED <<server, slot, clients, using, retried, columns, answer, crossed>>

\* DuckDbClient connects, and lru_cache keeps the first client it is given.
Build(r) ==
    /\ rpc[r] = "building"
    /\ Connect
    /\ conn' = [conn EXCEPT ![r] = Fresh]
    /\ client' = [client EXCEPT ![r] = r]
    /\ cached' = IF cached = None THEN r ELSE cached
    /\ Goto(r, "lookup")
    /\ UNCHANGED <<up, asked, using, retried, columns, answer, crossed, shaken>>

\* ATTACH raises in the constructor, outside any try: a 500, with nothing cached.
BuildFails(r) ==
    /\ rpc[r] = "building"
    /\ ~up
    /\ Over(r)

-----------------------------------------------------------------------------
(* The use case: look up, query in a thread, store.  What Redis does is    *)
(* left open.                                                              *)

\* get_json finds a value, and that is the answer.
Hit(r) ==
    /\ rpc[r] = "lookup"
    /\ Over(r)

Miss(r) ==
    /\ rpc[r] = "lookup"
    /\ Goto(r, "executing")
    /\ UNCHANGED <<server, slot, clients, locals, crossed, shaken>>

\* set_json, which may fail unnoticed; the answer goes out in any case.
Store(r) ==
    /\ rpc[r] = "storing"
    /\ Over(r)

-----------------------------------------------------------------------------
(* DuckDbClient._execute, in a thread.                                     *)

\* The requests whose result is on this connection.
On(c) == {q \in Readers : rpc[q] \in Executing /\ using[q] = c}

\* self._conn is read, and execute drops the result the connection holds.
Execute(r) ==
    LET c == conn[client[r]] IN
    /\ rpc[r] = "executing"
    /\ using' = [using EXCEPT ![r] = c]
    /\ slot' = [slot EXCEPT ![c] = None]
    /\ crossed' = IF On(c) = {} THEN crossed \ {r} ELSE crossed \cup On(c) \cup {r}
    /\ Goto(r, "running")
    /\ UNCHANGED <<server, clients, asked, client, retried, columns, answer, shaken>>

Executed(r) ==
    /\ rpc[r] = "running"
    /\ using[r] \in attached
    /\ slot' = [slot EXCEPT ![using[r]] = [query |-> asked[r], fetched |-> FALSE]]
    /\ Goto(r, "describing")
    /\ UNCHANGED <<server, clients, locals, crossed, shaken>>

\* Without a result, description is None, which cannot be iterated.
Describe(r) ==
    /\ rpc[r] = "describing"
    /\ slot[using[r]] # None
    /\ columns' = [columns EXCEPT ![r] = slot[using[r]].query]
    /\ Goto(r, "fetching")
    /\ UNCHANGED <<server, slot, clients, asked, client, using, retried, answer, crossed,
                   shaken>>

FetchIn(r, c, phases) ==
    /\ rpc[r] \in phases
    /\ slot[c] # None
    /\ answer' = [answer EXCEPT ![r] =
                    [columns |-> columns[r],
                     rows    |-> IF slot[c].fetched THEN None ELSE slot[c].query]]
    /\ slot' = [slot EXCEPT ![c] = [@ EXCEPT !.fetched = TRUE]]
    /\ Goto(r, "storing")
    /\ UNCHANGED <<server, clients, asked, client, using, retried, columns, crossed,
                   shaken>>

\* Mutant: _execute fetches from self._conn.
FetchFromClient(r) == FetchIn(r, conn[client[r]], {"fetching"})

\* Mutant: the rows are fetched before the columns are known.
FetchUndescribed(r) == FetchIn(r, using[r], {"describing", "fetching"})

\* fetchall: the rows of the result that is there, or none if they were fetched. A
\* result replaced in the middle of it gives some of the rows or raises; both are
\* outcomes that a replacement before it has.
Fetch(r) == FetchIn(r, using[r], {"fetching"})

\* A call on the connection raises.
Raises(r) ==
    \/ rpc[r] = "running" /\ using[r] \notin attached
    \/ rpc[r] \in {"describing", "fetching"} /\ slot[using[r]] = None

Retry(r, phase) ==
    /\ Raises(r)
    /\ retried' = [retried EXCEPT ![r] = TRUE]
    /\ using' = [using EXCEPT ![r] = None]
    /\ columns' = [columns EXCEPT ![r] = None]
    /\ Goto(r, phase)
    /\ UNCHANGED <<up, clients, asked, client, answer, crossed, shaken>>
    /\ Collect

\* Mutant: query retries on the connection that failed.
RetryUnconnected(r) == ~retried[r] /\ Retry(r, "executing")

\* Mutant: query retries as long as it fails.
RetryForEver(r) == Retry(r, "connecting")

\* query catches what its first _execute raises.
FirstFails(r) == ~retried[r] /\ Retry(r, "connecting")

\* What the second raises leaves query: AnalyticsUnavailableError, a 503.
SecondFails(r) ==
    /\ Raises(r)
    /\ retried[r]
    /\ Over(r)

Reconnect(r) ==
    /\ rpc[r] = "connecting"
    /\ Connect
    /\ using' = [using EXCEPT ![r] = Fresh]
    /\ Goto(r, "adopting")
    /\ UNCHANGED <<up, clients, asked, client, retried, columns, answer, crossed,
                   shaken>>

ReconnectFails(r) ==
    /\ rpc[r] = "connecting"
    /\ ~up
    /\ Over(r)

\* self._conn is assigned, whatever connection another thread put there meanwhile.
Adopt(r) ==
    /\ rpc[r] = "adopting"
    /\ conn' = [conn EXCEPT ![client[r]] = using[r]]
    /\ using' = [using EXCEPT ![r] = None]
    /\ shaken' = IF using[r] \in attached THEN shaken
                   ELSE shaken \cup {q \in Active : client[q] = client[r]}
    /\ Goto(r, "executing")
    /\ Collect
    /\ UNCHANGED <<up, cached, asked, client, retried, columns, answer, crossed>>

-----------------------------------------------------------------------------

Request(r) ==
    \/ Build(r) \/ BuildFails(r)
    \/ Hit(r) \/ Miss(r) \/ Store(r)
    \/ Execute(r) \/ Executed(r) \/ Describe(r) \/ Fetch(r)
    \/ FirstFails(r) \/ SecondFails(r)
    \/ Reconnect(r) \/ ReconnectFails(r) \/ Adopt(r)

Next ==
    \/ \E r \in Readers : Request(r) \/ \E k \in Keys : Ask(r, k)
    \/ PostgresStops \/ PostgresStarts \/ Restart

Spec == Init /\ [][Next]_vars

\* The event loop and the thread pool run what can go on.
Fairness == \A r \in Readers : WF_vars(Request(r))

-----------------------------------------------------------------------------
(* Properties.                                                             *)

Own(r) == answer[r] = [columns |-> asked[r], rows |-> asked[r]]

\* What a request is going to answer and store is the answer to what it asked, unless
\* another query ran on the connection before it was fetched: reconnection, the
\* client that lru_cache did not keep and the cache mix nothing up.
OwnUnlessCrossed ==
    \A r \in Readers : rpc[r] = "storing" => Own(r) \/ r \in crossed

\* Metrics heal on the request after a restart of Postgres (README.md:101): one
\* reconnection is enough, and a request fails only if Postgres went down while it
\* ran (or before a connection it was handed was adopted), or by another query.
FailsOnlyForCause ==
    [][\A r \in Readers :
         BuildFails(r) \/ SecondFails(r) \/ ReconnectFails(r) =>
           r \in crossed \cup shaken]_vars

\* Which locals exist when, and that a client that is used has a connection.
Placed ==
    /\ cached # None => conn[cached] # None
    /\ \A r \in Readers :
         /\ client[r] # None => client[r] \in {r, cached} /\ conn[client[r]] # None
         /\ rpc[r] # "idle" => asked[r] # None
         /\ rpc[r] \in Thread \cup {"lookup"} => client[r] # None
         /\ rpc[r] \in Executing \cup {"adopting"} => using[r] # None
         /\ rpc[r] = "fetching" => columns[r] # None
         /\ retried[r] => rpc[r] \in Thread \cup {"storing"}

Alone(r) ==
    \A q \in Readers \ {r} :
      rpc[q] \in Executing /\ rpc[r] \in Executing => using[q] # using[r]

Finds(r) ==
    /\ rpc[r] \in {"describing", "fetching"} =>
         slot[using[r]] = [query |-> asked[r], fetched |-> FALSE]
    /\ rpc[r] = "fetching" => columns[r] = asked[r]

\* A request that is not crossed has its connection to itself, and finds its own
\* result and columns there.
Unmixed == \A r \in Readers : r \notin crossed => Alone(r) /\ Finds(r)

\* A request that retries has a connection that works, or an excuse.
Healed ==
    \A r \in Readers : r \notin shaken =>
      /\ ~up => rpc[r] = "idle"
      /\ retried[r] /\ rpc[r] = "executing" => conn[client[r]] \in attached
      /\ retried[r] /\ rpc[r] \in Executing => using[r] \in attached

IInv == TypeOK /\ Placed /\ Unmixed /\ Healed /\ OwnUnlessCrossed

\* Each request ends, however often Postgres stops and threads get in each other's way.
RequestsEnd == \A r \in Readers : []<>(rpc[r] = "idle")

\* What metrics.md says of the endpoints: each answers with its own rows.
AnswersAreOwn == \A r \in Readers : rpc[r] = "storing" => Own(r)

=============================================================================
