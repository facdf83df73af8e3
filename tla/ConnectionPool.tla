--------------------------- MODULE ConnectionPool ---------------------------
(***************************************************************************)
(* What the requests and workers of one process share: its event loop, the *)
(* threads of run_in_threadpool and the connections of the engine's pool.  *)
(* A repository call needs a thread, and a connection unless its session   *)
(* already has one; commit and rollback run on the loop and give the       *)
(* connection back.  A call that finds no connection waits with its thread *)
(* for the pool's timeout, and the one statement that runs on the loop     *)
(* itself stops the whole process while it waits.                          *)
(***************************************************************************)
EXTENDS Naturals, FiniteSets

CONSTANTS
    Tasks,      \* requests, with the background task of an employees upload
    Conns,      \* pool_size + max_overflow: 15 by default
    Threads     \* the thread limiter: 40 by default

ASSUME TasksAssumption == IsFiniteSet(Tasks)
ASSUME LimitsAssumption == Conns \in Nat \ {0} /\ Threads \in Nat \ {0}

VARIABLES
    step,       \* the step each task has come to
    at,         \* where the task is with it
    holding     \* the tasks whose session has a connection

vars == <<step, at, holding>>

-----------------------------------------------------------------------------
(* The steps of every task.  A step runs in a thread ("thread"), in a      *)
(* thread with a connection ("db"), or on the loop: "release" is a commit  *)
(* or a rollback, "read" a SELECT.  It leads to one of next, to late if    *)
(* the pool times out or the database rejects a value, and to failed after *)
(* an OperationalError.  Chunks and rows of a file are one here.           *)

Step(does, next, late, failed) ==
    [does |-> does, next |-> next, late |-> late, failed |-> failed]

UploadSteps ==    \* departments and jobs
    [ upload      |-> Step("thread", {"add"}, "end", "end"),
      add         |-> Step("db", {"bulk"}, "retry", "undo"),
      bulk        |-> Step("db", {"complete"}, "retry", "undo"),
      complete    |-> Step("db", {"commit"}, "retry", "undo"),
      commit      |-> Step("release", {"end"}, "retry", "undo"),
      undo        |-> Step("release", {"end"}, "end", "end"),
      retry       |-> Step("release", {"add_again"}, "end", "end"),
      add_again   |-> Step("db", {"add_row"}, "end", "end"),
      add_row     |-> Step("db", {"complete_rows"}, "end", "end"),
      complete_rows |-> Step("db", {"commit_rows"}, "end", "end"),
      commit_rows |-> Step("release", {"end"}, "end", "end") ]

EmployeesSteps ==
    [ employees   |-> Step("thread", {"store"}, "end", "end"),
      store       |-> Step("thread", {"add_pending"}, "end", "end"),
      add_pending |-> Step("db", {"accept"}, "end", "end"),
      accept      |-> Step("release", {"download"}, "end", "end") ]

WorkerSteps ==
    [ download    |-> Step("thread", {"bulk_chunk"}, "give_up", "give_up"),
      bulk_chunk  |-> Step("db", {"commit_chunk"}, "undo_chunk", "give_up"),
      commit_chunk |-> Step("release", {"finalize"}, "undo_chunk", "give_up"),
      undo_chunk  |-> Step("release", {"employee"}, "give_up", "give_up"),
      employee    |-> Step("db", {"commit_row"}, "finalize", "give_up"),
      commit_row  |-> Step("release", {"finalize"}, "finalize", "give_up"),
      finalize    |-> Step("db", {"commit_batch"}, "give_up", "give_up"),
      commit_batch |-> Step("release", {"end"}, "give_up", "give_up"),
      give_up     |-> Step("release", {"mark"}, "undo_mark", "undo_mark"),
      mark        |-> Step("db", {"commit_mark"}, "undo_mark", "undo_mark"),
      commit_mark |-> Step("release", {"end"}, "undo_mark", "undo_mark"),
      undo_mark   |-> Step("release", {"end"}, "end", "end") ]

\* The commit of a poll expires the batch: batch.id is read with a new SELECT.
PollSteps ==
    [ poll        |-> Step("thread", {"get"}, "end", "end"),
      get         |-> Step("db", {"end", "time_out"}, "end", "end"),
      time_out    |-> Step("db", {"commit_status"}, "end", "end"),
      commit_status |-> Step("release", {"answer"}, "end", "end"),
      answer      |-> Step("read", {"end"}, "end", "end") ]

StepNames ==
    DOMAIN UploadSteps \cup DOMAIN EmployeesSteps \cup DOMAIN WorkerSteps
      \cup DOMAIN PollSteps

Steps ==
    [ s \in StepNames |->
        CASE s \in DOMAIN UploadSteps    -> UploadSteps[s]
          [] s \in DOMAIN EmployeesSteps -> EmployeesSteps[s]
          [] s \in DOMAIN WorkerSteps    -> WorkerSteps[s]
          [] s \in DOMAIN PollSteps      -> PollSteps[s] ]

Endpoints == {"upload", "employees", "poll"}

-----------------------------------------------------------------------------

\* "loop": the coroutine is ready, or queued for a thread.  "waiting": in a thread,
\* for a connection.  "working": in a thread.  "returned": the thread is done, the
\* loop has yet to take the result.  "reading": the loop waits for a connection.
Places == {"idle", "loop", "waiting", "working", "returned", "reading", "closing"}

InThread == {t \in Tasks : at[t] \in {"waiting", "working", "returned"}}
Active == {t \in Tasks : at[t] # "idle"}

TypeOK ==
    /\ step \in [Tasks -> StepNames \cup {"end"}]
    /\ at \in [Tasks -> Places]
    /\ holding \subseteq Active
    /\ Cardinality(holding) <= Conns
    /\ Cardinality(InThread) <= Threads

Init ==
    /\ step = [t \in Tasks |-> "end"]
    /\ at = [t \in Tasks |-> "idle"]
    /\ holding = {}

Frozen == \E t \in Tasks : at[t] = "reading"

Full == Cardinality(holding) >= Conns

Does(t) == IF step[t] = "end" THEN "close" ELSE Steps[step[t]].does

Goto(t, s, place) ==
    /\ step' = [step EXCEPT ![t] = s]
    /\ at' = [at EXCEPT ![t] = place]

\* The coroutine of t is running on the loop.
OnLoop(t) == at[t] = "loop" /\ ~Frozen

Arrive(t) ==
    /\ at[t] = "idle"
    /\ ~Frozen
    /\ \E s \in Endpoints : Goto(t, s, "loop")
    /\ UNCHANGED holding

\* Mutant: every repository call opens a session of its own.
AlwaysNeedsConnection(t) == Does(t) = "db"

NeedsConnection(t) == Does(t) = "db" /\ t \notin holding

\* run_in_threadpool.
EnterThread(t) ==
    /\ OnLoop(t)
    /\ Does(t) \in {"thread", "db"}
    /\ Cardinality(InThread) < Threads
    /\ Goto(t, step[t], IF NeedsConnection(t) THEN "waiting" ELSE "working")
    /\ UNCHANGED holding

\* Mutant: the pool hands out one connection too many.
CheckoutOverflows(t) ==
    /\ at[t] = "waiting"
    /\ Cardinality(holding) <= Conns
    /\ holding' = holding \cup {t}
    /\ Goto(t, step[t], "working")

\* The session of t gets a connection of the pool.
Checkout(t) ==
    /\ at[t] = "waiting"
    /\ ~Full
    /\ holding' = holding \cup {t}
    /\ Goto(t, step[t], "working")

\* Mutant: the pool has no timeout.
WaitsForEver(t) == FALSE /\ UNCHANGED vars

\* The pool gives up: a TimeoutError, which is not an OperationalError, or, where
\* the code has no except for it, the end of the request.
TimesOut(t) ==
    /\ Full
    /\ \/ /\ at[t] = "waiting"
          /\ Goto(t, Steps[step[t]].late, "returned")
       \/ /\ at[t] = "reading"
          /\ Goto(t, Steps[step[t]].late, "loop")
    /\ UNCHANGED holding

\* The call in the thread is done: well, or with a value the database rejects, or
\* with an OperationalError.
Work(t) ==
    /\ at[t] = "working"
    /\ \E s \in Steps[step[t]].next \cup {Steps[step[t]].late, Steps[step[t]].failed} :
         Goto(t, s, "returned")
    /\ UNCHANGED holding

\* The loop takes the result, and the thread is free.
Return(t) ==
    /\ at[t] = "returned"
    /\ ~Frozen
    /\ Goto(t, step[t], "loop")
    /\ UNCHANGED holding

\* commit and rollback, on the loop.
Release(t) ==
    /\ OnLoop(t)
    /\ Does(t) = "release"
    /\ holding' = holding \ {t}
    /\ \E s \in Steps[step[t]].next : Goto(t, s, "loop")

\* A commit that raises keeps the connection for the rollback that follows.
ReleaseFails(t) ==
    /\ OnLoop(t)
    /\ Does(t) = "release"
    /\ \E s \in {Steps[step[t]].late, Steps[step[t]].failed} : Goto(t, s, "loop")
    /\ UNCHANGED holding

\* The SELECT of a poll's answer.
Read(t) ==
    /\ OnLoop(t)
    /\ Does(t) = "read"
    /\ Goto(t, step[t], "reading")
    /\ UNCHANGED holding

ReadAnswered(t) ==
    /\ at[t] = "reading"
    /\ ~Full
    /\ holding' = holding \cup {t}
    /\ \E s \in Steps[step[t]].next : Goto(t, s, "loop")

\* get_session's with statement ends: in a thread that FastAPI has for this.
Close(t) ==
    /\ OnLoop(t)
    /\ Does(t) = "close"
    /\ Goto(t, "end", "closing")
    /\ UNCHANGED holding

Closed(t) ==
    /\ at[t] = "closing"
    /\ holding' = holding \ {t}
    /\ Goto(t, "end", "idle")

\* What t does without a timeout or a fault.
Goes(t) ==
    \/ EnterThread(t) \/ Checkout(t) \/ Work(t) \/ Return(t) \/ Release(t)
    \/ Read(t) \/ ReadAnswered(t) \/ Close(t) \/ Closed(t)

Next == \E t \in Tasks : Arrive(t) \/ Goes(t) \/ TimesOut(t) \/ ReleaseFails(t)

Spec == Init /\ [][Next]_vars

\* The loop, the thread limiter and the pool serve those that wait in turn, and the
\* pool's timeout runs out.
Fairness == \A t \in Tasks : SF_vars(Goes(t)) /\ WF_vars(TimesOut(t))

FairSpec == Spec /\ Fairness

-----------------------------------------------------------------------------
(* Properties.                                                             *)

\* Task t need not wait: its coroutine runs, its thread works, or there is a thread
\* or a connection for it.
CanGoOn(t) ==
    CASE at[t] = "loop"    -> ~Frozen /\ (Does(t) \in {"thread", "db"}
                                             => Cardinality(InThread) < Threads)
      [] at[t] = "waiting" -> ~Full
      [] at[t] = "reading" -> ~Full
      [] at[t] = "returned" -> ~Frozen
      [] OTHER             -> TRUE

Stuck == Active # {} /\ \A t \in Active : ~CanGoOn(t)

\* Only the pool's timeout ends a standstill of the whole process, and there are two
\* ways into one: the loop itself waits for a connection while other sessions have
\* them all, or there are as many tasks as connections and threads together, those
\* with a connection waiting for a thread and those with a thread for a connection.
StuckOnlyIfCrowded ==
    Stuck => /\ Full
             /\ Frozen \/ Cardinality(Active) >= Conns + Threads

\* Every request is answered and every worker ends, whatever they wait for.
EveryTaskEnds == \A t \in Tasks : []<>(at[t] = "idle")

=============================================================================
