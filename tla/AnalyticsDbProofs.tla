------------------------- MODULE AnalyticsDbProofs -------------------------
(***************************************************************************)
(* Proofs about AnalyticsDb.tla: a request whose connection no other query *)
(* used answers its own question, and a request fails only for a cause.    *)
(* Unmixed carries the first: until another execution crosses it, a        *)
(* request finds on its connection what it put there.  Healed carries the  *)
(* second: the connection of a retry works unless Postgres has stopped.    *)
(***************************************************************************)
EXTENDS AnalyticsDb, TLAPS

USE NoneAssumption

LEMMA InitIInv ==
    ASSUME Init
    PROVE  IInv
  BY DEF Init, IInv, TypeOK, Placed, Unmixed, Healed, OwnUnlessCrossed, Own, Thread,
         Phases, Executing, Alone, Finds

\* The connection chosen for a new one is one that nothing refers to.
LEMMA FreshIsUnused ==
    ASSUME Connect
    PROVE  /\ Fresh \in Conns
           /\ \A q \in Readers : conn[q] # Fresh /\ using[q] # Fresh
  BY DEF Connect, Fresh, Unused

\* A request that ends takes its own locals and its own client with it, no others.
LEMMA OverKeeps ==
    ASSUME IInv, NEW r \in Readers, Over(r), rpc[r] # "idle"
    PROVE  IInv'
  <1> USE DEF IInv, server, clients, locals, Goto
  <1>1. TypeOK'
    BY DEF Over, Collect, TypeOK, Placed, Phases, Thread, Executing, Answers, Results
  <1>2. Placed'
    BY DEF Over, Collect, TypeOK, Placed, Thread, Executing, Phases, Results
  <1>3. Unmixed'
    BY DEF Over, Collect, TypeOK, Placed, Unmixed, Alone, Finds, Thread, Executing,
       Results
  <1>4. Healed'
    BY DEF Over, Collect, TypeOK, Placed, Healed, Thread, Executing
  <1>5. OwnUnlessCrossed'
    BY DEF Over, Collect, TypeOK, Placed, Unmixed, Finds, OwnUnlessCrossed, Own,
       Executing
  <1> QED
    BY <1>1, <1>2, <1>3, <1>4, <1>5

\* Ask: a new request starts with an excuse if Postgres is down.
LEMMA AskKeeps ==
    ASSUME IInv, NEW r \in Readers, NEW k \in Keys, Ask(r, k)
    PROVE  IInv'
  <1> USE DEF IInv, server, clients, locals, Goto
  <1>1. TypeOK'
    BY DEF Ask, TypeOK, Placed, Phases, Thread, Executing, Answers, Results
  <1>2. Placed'
    BY DEF Ask, TypeOK, Placed, Thread, Executing, Phases, Results
  <1>3. Unmixed'
    BY DEF Ask, TypeOK, Placed, Unmixed, Alone, Finds, Thread, Executing, Results
  <1>4. Healed'
    BY DEF Ask, TypeOK, Placed, Healed, Thread, Executing
  <1>5. OwnUnlessCrossed'
    BY DEF Ask, TypeOK, Placed, Unmixed, Finds, OwnUnlessCrossed, Own, Executing
  <1> QED
    BY <1>1, <1>2, <1>3, <1>4, <1>5

\* Build: a new client changes nobody else's.
LEMMA BuildKeeps ==
    ASSUME IInv, NEW r \in Readers, Build(r)
    PROVE  IInv'
  <1> USE DEF IInv, server, clients, locals, Goto
  <1>1. TypeOK'
    BY FreshIsUnused DEF Build, Connect, TypeOK, Placed, Phases, Thread, Executing,
       Answers, Results
  <1>2. Placed'
    BY FreshIsUnused DEF Build, Connect, TypeOK, Placed, Thread, Executing, Phases,
       Results
  <1>3. Unmixed'
    BY FreshIsUnused DEF Build, Connect, TypeOK, Placed, Unmixed, Alone, Finds,
       Thread, Executing, Results
  <1>4. Healed'
    BY FreshIsUnused DEF Build, Connect, TypeOK, Placed, Healed, Thread, Executing
  <1>5. OwnUnlessCrossed'
    BY FreshIsUnused DEF Build, Connect, TypeOK, Placed, Unmixed, Finds,
       OwnUnlessCrossed, Own, Executing
  <1> QED
    BY <1>1, <1>2, <1>3, <1>4, <1>5

\* Miss: the first try is not a retry.
LEMMA MissKeeps ==
    ASSUME IInv, NEW r \in Readers, Miss(r)
    PROVE  IInv'
  <1> USE DEF IInv, server, clients, locals, Goto
  <1>1. TypeOK'
    BY DEF Miss, TypeOK, Placed, Phases, Thread, Executing, Answers, Results
  <1>2. Placed'
    BY DEF Miss, TypeOK, Placed, Thread, Executing, Phases, Results
  <1>3. Unmixed'
    BY DEF Miss, TypeOK, Placed, Unmixed, Alone, Finds, Thread, Executing, Results
  <1>4. Healed'
    BY DEF Miss, TypeOK, Placed, Healed, Thread, Executing
  <1>5. OwnUnlessCrossed'
    BY DEF Miss, TypeOK, Placed, Unmixed, Finds, OwnUnlessCrossed, Own, Executing
  <1> QED
    BY <1>1, <1>2, <1>3, <1>4, <1>5

\* Execute: whoever is on the connection is crossed from here on.
LEMMA ExecuteKeeps ==
    ASSUME IInv, NEW r \in Readers, Execute(r)
    PROVE  IInv'
  <1> USE DEF IInv, server, clients, locals, Goto
  <1>1. TypeOK'
    BY DEF Execute, On, TypeOK, Placed, Phases, Thread, Executing, Answers, Results
  <1>2. Placed'
    BY DEF Execute, On, TypeOK, Placed, Thread, Executing, Phases, Results
  <1>3. Unmixed'
    BY DEF Execute, On, TypeOK, Placed, Unmixed, Alone, Finds, Thread, Executing,
       Results
  <1>4. Healed'
    BY DEF Execute, On, TypeOK, Placed, Healed, Thread, Executing
  <1>5. OwnUnlessCrossed'
    BY DEF Execute, On, TypeOK, Placed, Unmixed, Finds, OwnUnlessCrossed, Own,
       Executing
  <1> QED
    BY <1>1, <1>2, <1>3, <1>4, <1>5

\* Executed: the result lands on a connection no uncrossed request shares.
LEMMA ExecutedKeeps ==
    ASSUME IInv, NEW r \in Readers, Executed(r)
    PROVE  IInv'
  <1> USE DEF IInv, server, clients, locals, Goto
  <1>1. TypeOK'
    BY DEF Executed, TypeOK, Placed, Phases, Thread, Executing, Answers, Results
  <1>2. Placed'
    BY DEF Executed, TypeOK, Placed, Thread, Executing, Phases, Results
  <1>3. Unmixed'
    <2>1. slot'[using[r]] = [query |-> asked[r], fetched |-> FALSE] /\ using[r] \in Conns
      BY DEF Executed, TypeOK, Placed, Executing
    <2>2. \A c \in Conns : c # using[r] => slot'[c] = slot[c]
      BY DEF Executed, TypeOK
    <2>3. \A q \in Readers : q # r /\ q \notin crossed /\ rpc[q] \in Executing =>
             using[q] # using[r] /\ using[q] \in Conns
      <3> SUFFICES ASSUME NEW q \in Readers, q # r, q \notin crossed,
                          rpc[q] \in Executing
                   PROVE  using[q] # using[r] /\ using[q] \in Conns
        OBVIOUS
      <3>1. r \in Readers \ {q} /\ rpc[r] \in Executing
        BY DEF Executed, Executing
      <3>2. using[q] # using[r]
        BY <3>1 DEF Unmixed, Alone
      <3>3. using[q] \in Conns
        BY DEF TypeOK, Placed
      <3> QED
        BY <3>2, <3>3
    <2>4. rpc' = [rpc EXCEPT ![r] = "describing"] /\ rpc[r] = "running"
      BY DEF Executed
    <2> SUFFICES ASSUME NEW q \in Readers, q \notin crossed
                 PROVE  Alone(q)' /\ Finds(q)'
      BY DEF Executed, Unmixed
    <2>5. Alone(q)'
      BY <2>4 DEF Executed, TypeOK, Unmixed, Alone, Executing
    <2>6. CASE q = r
      BY <2>1, <2>4, <2>5, <2>6 DEF Executed, TypeOK, Finds
    <2>7. CASE q # r
      BY <2>2, <2>3, <2>4, <2>5, <2>7 DEF Executed, TypeOK, Unmixed, Finds, Executing
    <2> QED
      BY <2>6, <2>7
  <1>4. Healed'
    BY DEF Executed, TypeOK, Placed, Healed, Thread, Executing
  <1>5. OwnUnlessCrossed'
    BY DEF Executed, TypeOK, Placed, Unmixed, Finds, OwnUnlessCrossed, Own, Executing
  <1> QED
    BY <1>1, <1>2, <1>3, <1>4, <1>5

\* Describe: an uncrossed request reads its own columns.
LEMMA DescribeKeeps ==
    ASSUME IInv, NEW r \in Readers, Describe(r)
    PROVE  IInv'
  <1> USE DEF IInv, server, clients, locals, Goto
  <1>1. TypeOK'
    BY DEF Describe, TypeOK, Placed, Phases, Thread, Executing, Answers, Results
  <1>2. Placed'
    BY DEF Describe, TypeOK, Placed, Thread, Executing, Phases, Results
  <1>3. Unmixed'
    BY DEF Describe, TypeOK, Placed, Unmixed, Alone, Finds, Thread, Executing, Results
  <1>4. Healed'
    BY DEF Describe, TypeOK, Placed, Healed, Thread, Executing
  <1>5. OwnUnlessCrossed'
    BY DEF Describe, TypeOK, Placed, Unmixed, Finds, OwnUnlessCrossed, Own, Executing
  <1> QED
    BY <1>1, <1>2, <1>3, <1>4, <1>5

\* Fetch: an uncrossed request reads its own rows.
LEMMA FetchKeeps ==
    ASSUME IInv, NEW r \in Readers, Fetch(r)
    PROVE  IInv'
  <1> USE DEF IInv, server, clients, locals, Goto
  <1>1. TypeOK'
    <2>1. /\ using[r] \in Conns /\ slot[using[r]] \in Results
          /\ columns[r] \in Keys
      BY DEF Fetch, FetchIn, TypeOK, Placed, Executing
    <2>2. answer' \in [Readers -> Answers \cup {None}]
      BY <2>1 DEF Fetch, FetchIn, TypeOK, Answers, Results
    <2>3. slot' \in [Conns -> Results \cup {None}]
      BY <2>1 DEF Fetch, FetchIn, TypeOK, Results
    <2> QED
      BY <2>2, <2>3 DEF Fetch, FetchIn, TypeOK, Phases, Thread
  <1>2. Placed'
    BY DEF Fetch, FetchIn, TypeOK, Placed, Thread, Executing, Phases, Results
  <1>3. Unmixed'
    BY DEF Fetch, FetchIn, TypeOK, Placed, Unmixed, Alone, Finds, Thread, Executing,
       Results
  <1>4. Healed'
    BY DEF Fetch, FetchIn, TypeOK, Placed, Healed, Thread, Executing
  <1>5. OwnUnlessCrossed'
    <2>1. r \notin crossed =>
             answer'[r] = [columns |-> asked[r], rows |-> asked[r]]
      <3> SUFFICES ASSUME r \notin crossed
                   PROVE  answer'[r] = [columns |-> asked[r], rows |-> asked[r]]
        OBVIOUS
      <3>1. /\ slot[using[r]] = [query |-> asked[r], fetched |-> FALSE]
            /\ columns[r] = asked[r]
        BY DEF Fetch, FetchIn, Unmixed, Finds
      <3>2. answer'[r] = [columns |-> columns[r],
                          rows |-> IF slot[using[r]].fetched THEN None
                                     ELSE slot[using[r]].query]
        BY DEF Fetch, FetchIn, TypeOK
      <3> QED
        BY <3>1, <3>2
    <2> QED
      BY <2>1 DEF Fetch, FetchIn, TypeOK, OwnUnlessCrossed, Own
  <1> QED
    BY <1>1, <1>2, <1>3, <1>4, <1>5

\* FirstFails: the retry first wants a new connection.
LEMMA RetryKeeps ==
    ASSUME IInv, NEW r \in Readers, FirstFails(r)
    PROVE  IInv'
  <1> USE DEF IInv, server, clients, locals, Goto
  <1>1. TypeOK'
    BY DEF FirstFails, Retry, Raises, Collect, TypeOK, Placed, Phases, Thread,
       Executing, Answers, Results
  <1>2. Placed'
    BY DEF FirstFails, Retry, Raises, Collect, TypeOK, Placed, Thread, Executing,
       Phases, Results
  <1>3. Unmixed'
    BY DEF FirstFails, Retry, Raises, Collect, TypeOK, Placed, Unmixed, Alone, Finds,
       Thread, Executing, Results
  <1>4. Healed'
    BY DEF FirstFails, Retry, Raises, Collect, TypeOK, Placed, Healed, Thread,
       Executing
  <1>5. OwnUnlessCrossed'
    BY DEF FirstFails, Retry, Raises, Collect, TypeOK, Placed, Unmixed, Finds,
       OwnUnlessCrossed, Own, Executing
  <1> QED
    BY <1>1, <1>2, <1>3, <1>4, <1>5

\* Reconnect: the new connection works.
LEMMA ReconnectKeeps ==
    ASSUME IInv, NEW r \in Readers, Reconnect(r)
    PROVE  IInv'
  <1> USE DEF IInv, server, clients, locals, Goto
  <1>1. TypeOK'
    BY FreshIsUnused DEF Reconnect, Connect, TypeOK, Placed, Phases, Thread,
       Executing, Answers, Results
  <1>2. Placed'
    BY FreshIsUnused DEF Reconnect, Connect, TypeOK, Placed, Thread, Executing,
       Phases, Results
  <1>3. Unmixed'
    BY FreshIsUnused DEF Reconnect, Connect, TypeOK, Placed, Unmixed, Alone, Finds,
       Thread, Executing, Results
  <1>4. Healed'
    BY FreshIsUnused DEF Reconnect, Connect, TypeOK, Placed, Healed, Thread, Executing
  <1>5. OwnUnlessCrossed'
    BY FreshIsUnused DEF Reconnect, Connect, TypeOK, Placed, Unmixed, Finds,
       OwnUnlessCrossed, Own, Executing
  <1> QED
    BY <1>1, <1>2, <1>3, <1>4, <1>5

\* Adopt: everybody with this client is healed, or has an excuse.
LEMMA AdoptKeeps ==
    ASSUME IInv, NEW r \in Readers, Adopt(r)
    PROVE  IInv'
  <1> USE DEF IInv, server, clients, locals, Goto
  <1>1. TypeOK'
    BY DEF Adopt, Collect, Active, TypeOK, Placed, Phases, Thread, Executing, Answers,
       Results
  <1>2. Placed'
    BY DEF Adopt, Collect, Active, TypeOK, Placed, Thread, Executing, Phases, Results
  <1>3. Unmixed'
    BY DEF Adopt, Collect, Active, TypeOK, Placed, Unmixed, Alone, Finds, Thread,
       Executing, Results
  <1>4. Healed'
    BY DEF Adopt, Collect, Active, TypeOK, Placed, Healed, Thread, Executing
  <1>5. OwnUnlessCrossed'
    BY DEF Adopt, Collect, Active, TypeOK, Placed, Unmixed, Finds, OwnUnlessCrossed,
       Own, Executing
  <1> QED
    BY <1>1, <1>2, <1>3, <1>4, <1>5

\* Postgres and the process leave the requests' own state alone, or end it.
LEMMA EnvironmentKeeps ==
    ASSUME IInv, PostgresStops \/ PostgresStarts \/ Restart
    PROVE  IInv'
  <1> USE DEF IInv, server, clients, locals, Goto
  <1>1. TypeOK'
    <2>1. CASE PostgresStops \/ PostgresStarts
      BY <2>1 DEF PostgresStops, PostgresStarts, Active, TypeOK
    <2>2. CASE Restart
      BY <2>2 DEF Restart, TypeOK, Phases
    <2> QED
      BY <2>1, <2>2
  <1>2. Placed'
    BY DEF PostgresStops, PostgresStarts, Restart, Active, TypeOK, Placed, Thread,
       Executing, Phases, Results
  <1>3. Unmixed'
    BY DEF PostgresStops, PostgresStarts, Restart, Active, TypeOK, Placed, Unmixed,
       Alone, Finds, Thread, Executing, Results
  <1>4. Healed'
    BY DEF PostgresStops, PostgresStarts, Restart, Active, TypeOK, Placed, Healed,
       Thread, Executing
  <1>5. OwnUnlessCrossed'
    BY DEF PostgresStops, PostgresStarts, Restart, Active, TypeOK, Placed, Unmixed,
       Finds, OwnUnlessCrossed, Own, Executing
  <1> QED
    BY <1>1, <1>2, <1>3, <1>4, <1>5

LEMMA NextIInv ==
    ASSUME IInv, Next
    PROVE  IInv'
  <1>1. ASSUME NEW r \in Readers, Request(r)
        PROVE  IInv'
    <2>1. CASE BuildFails(r) \/ Hit(r) \/ Store(r) \/ SecondFails(r) \/ ReconnectFails(r)
      <3>1. Over(r) /\ rpc[r] # "idle"
        BY <2>1 DEF IInv, TypeOK, Placed, BuildFails, Hit, Store, SecondFails,
                    ReconnectFails, Raises
      <3> QED
        BY <3>1, OverKeeps
    <2> QED
      BY <1>1, <2>1, BuildKeeps, MissKeeps, ExecuteKeeps, ExecutedKeeps,
         DescribeKeeps, FetchKeeps, RetryKeeps, ReconnectKeeps, AdoptKeeps DEF Request
  <1> QED
    BY <1>1, AskKeeps, EnvironmentKeeps DEF Next

LEMMA StutterIInv ==
    ASSUME IInv, UNCHANGED vars
    PROVE  IInv'
  BY DEF vars, server, clients, locals, IInv, TypeOK, Placed, Unmixed, Alone, Finds, Healed,
         OwnUnlessCrossed, Own

\* The strengthened invariant holds in every reachable state.
THEOREM Inductive == Spec => []IInv
  <1>1. IInv /\ [Next]_vars => IInv'
    BY NextIInv, StutterIInv
  <1> QED
    BY InitIInv, <1>1, PTL DEF Spec

\* Types, for any metrics, requests and connections.
THEOREM TypeCorrect == Spec => []TypeOK
  <1>1. IInv => TypeOK
    BY DEF IInv
  <1> QED
    BY Inductive, <1>1, PTL

\* An answer is that of the metric asked for unless another query ran on the same
\* connection before it was fetched, however many threads there are.
THEOREM AnswersOwnUnlessCrossed == Spec => []OwnUnlessCrossed
  <1>1. IInv => OwnUnlessCrossed
    BY DEF IInv
  <1> QED
    BY Inductive, <1>1, PTL

\* One reconnection is enough: a request fails only if Postgres stopped while it ran,
\* or because of another query on its connection.
THEOREM FailuresHaveCause == Spec => FailsOnlyForCause
  <1> DEFINE Caused == \A r \in Readers :
                         BuildFails(r) \/ SecondFails(r) \/ ReconnectFails(r) =>
                           r \in crossed \cup shaken
  <1>1. IInv => Caused
    <2> SUFFICES ASSUME IInv, NEW r \in Readers, r \notin crossed, r \notin shaken
                 PROVE  ~(BuildFails(r) \/ SecondFails(r) \/ ReconnectFails(r))
      OBVIOUS
    <2>1. ~up => rpc[r] = "idle"
      BY DEF IInv, Healed
    <2>2. ~BuildFails(r) /\ ~ReconnectFails(r)
      BY <2>1 DEF BuildFails, ReconnectFails
    <2>3. retried[r] => ~Raises(r)
      <3>1. rpc[r] \in {"describing", "fetching"} => slot[using[r]] # None
        <4>1. rpc[r] # "idle" => [query |-> asked[r], fetched |-> FALSE] \in Results
          BY DEF IInv, TypeOK, Placed, Results
        <4> QED
          BY <4>1 DEF IInv, Unmixed, Finds
      <3>2. retried[r] /\ rpc[r] = "running" => using[r] \in attached
        BY DEF IInv, Healed, Executing
      <3> QED
        BY <3>1, <3>2 DEF Raises
    <2> QED
      BY <2>2, <2>3 DEF SecondFails
  <1>2. IInv /\ [Next]_vars => [Caused]_vars
    BY <1>1
  <1> QED
    BY Inductive, <1>2, PTL DEF Spec, FailsOnlyForCause

=============================================================================
