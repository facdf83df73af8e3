------------------------ MODULE ConnectionPoolProofs ------------------------
(***************************************************************************)
(* What the connection pool and the thread limiter rule out, for any       *)
(* number of tasks, connections and threads.                               *)
(***************************************************************************)
EXTENDS ConnectionPool, FiniteSetTheorems, TLAPS

-----------------------------------------------------------------------------
(* The tables of steps.                                                    *)

\* A table of steps leads to steps of every table.
LeadsToSteps(T) ==
    \A s \in DOMAIN T :
      /\ T[s].next \subseteq StepNames \cup {"end"}
      /\ T[s].late \in StepNames \cup {"end"}
      /\ T[s].failed \in StepNames \cup {"end"}

LEMMA StepsClosed == LeadsToSteps(Steps)
<1>1. LeadsToSteps(UploadSteps)
  BY DEF LeadsToSteps, StepNames, UploadSteps, EmployeesSteps, WorkerSteps, PollSteps, Step
<1>2. LeadsToSteps(EmployeesSteps)
  BY DEF LeadsToSteps, StepNames, UploadSteps, EmployeesSteps, WorkerSteps, PollSteps, Step
<1>3. LeadsToSteps(WorkerSteps)
  BY DEF LeadsToSteps, StepNames, UploadSteps, EmployeesSteps, WorkerSteps, PollSteps, Step
<1>4. LeadsToSteps(PollSteps)
  BY DEF LeadsToSteps, StepNames, UploadSteps, EmployeesSteps, WorkerSteps, PollSteps, Step
<1>5. DOMAIN Steps = StepNames
  BY DEF Steps
<1>6. ASSUME NEW s \in StepNames
      PROVE  \/ s \in DOMAIN UploadSteps /\ Steps[s] = UploadSteps[s]
             \/ s \in DOMAIN EmployeesSteps /\ Steps[s] = EmployeesSteps[s]
             \/ s \in DOMAIN WorkerSteps /\ Steps[s] = WorkerSteps[s]
             \/ s \in DOMAIN PollSteps /\ Steps[s] = PollSteps[s]
  BY DEF Steps, StepNames
<1> QED
  BY <1>1, <1>2, <1>3, <1>4, <1>5, <1>6 DEF LeadsToSteps

-----------------------------------------------------------------------------
(* The inductive invariant.                                                *)

\* A session that waits for a connection has none: no task waits for itself.
WaitersHaveNone == \A t \in Tasks : at[t] = "waiting" => t \notin holding

\* Who is in a call has a step to do there.
CallersHaveStep ==
    \A t \in Tasks : at[t] \in {"waiting", "working", "reading"} => step[t] # "end"

IInv == TypeOK /\ WaitersHaveNone /\ CallersHaveStep

LEMMA Finite ==
    ASSUME TypeOK
    PROVE  /\ IsFiniteSet(Active) /\ Cardinality(Active) \in Nat
           /\ IsFiniteSet(InThread) /\ Cardinality(InThread) \in Nat
           /\ IsFiniteSet(holding) /\ Cardinality(holding) \in Nat
BY FS_Subset, FS_CardinalityType, TasksAssumption DEF TypeOK, Active, InThread

\* One task moves, and of the connections only its own changes hands: the invariant
\* is kept if it enters a thread only when one is free, takes a connection only when
\* the pool has one, and has none when it waits or is gone.
LEMMA OneMoves ==
    ASSUME IInv, NEW t \in Tasks, NEW s \in StepNames \cup {"end"}, NEW p \in Places,
           Goto(t, s, p),
           p \in {"waiting", "working", "returned"}
             => t \in InThread \/ Cardinality(InThread) < Threads,
           holding' \subseteq holding \cup {t},
           t \in holding' \ holding => ~Full,
           holding \ {t} \subseteq holding',
           t \in holding' => p \notin {"idle", "waiting"},
           p \in {"waiting", "working", "reading"} => s # "end"
    PROVE  IInv'
<1>1. step' \in [Tasks -> StepNames \cup {"end"}] /\ at' \in [Tasks -> Places]
  BY DEF IInv, TypeOK, Goto
<1>2. at'[t] = p /\ \A u \in Tasks \ {t} : at'[u] = at[u]
  BY DEF IInv, TypeOK, Goto
<1>3. (holding \subseteq Active)'
  BY <1>2 DEF IInv, TypeOK, Active
<1>4. WaitersHaveNone'
  BY <1>2 DEF IInv, TypeOK, WaitersHaveNone
<1>7. CallersHaveStep'
  <2>1. step'[t] = s /\ \A u \in Tasks \ {t} : step'[u] = step[u]
    BY DEF IInv, TypeOK, Goto
  <2> QED
    BY <1>2, <2>1 DEF IInv, CallersHaveStep
<1>5. Cardinality(holding') <= Conns
  <2>1. CASE t \in holding' \ holding
    <3>1. holding' = holding \cup {t}
      BY <2>1
    <3>2. Cardinality(holding') = Cardinality(holding) + 1
      BY <2>1, <3>1, Finite, FS_AddElement DEF IInv
    <3> QED
      BY <2>1, <3>2, Finite, LimitsAssumption DEF IInv, Full
  <2>2. CASE t \notin holding' \ holding
    <3>1. holding' \subseteq holding
      BY <2>2
    <3>2. Cardinality(holding') <= Cardinality(holding) /\ Cardinality(holding') \in Nat
      BY <3>1, Finite, FS_Subset, FS_CardinalityType DEF IInv
    <3> QED
      BY <3>2, Finite, LimitsAssumption DEF IInv, TypeOK
  <2> QED
    BY <2>1, <2>2
<1>6. Cardinality(InThread') <= Threads
  <2>1. CASE p \in {"waiting", "working", "returned"} /\ t \notin InThread
    <3>1. InThread' = InThread \cup {t}
      BY <1>2, <2>1 DEF InThread
    <3>2. Cardinality(InThread') = Cardinality(InThread) + 1
      BY <2>1, <3>1, Finite, FS_AddElement DEF IInv
    <3> QED
      BY <2>1, <3>2, Finite, LimitsAssumption DEF IInv
  <2>2. CASE ~ (p \in {"waiting", "working", "returned"} /\ t \notin InThread)
    <3>1. InThread' \subseteq InThread
      BY <1>2, <2>2 DEF InThread
    <3>2. /\ Cardinality(InThread') <= Cardinality(InThread)
          /\ Cardinality(InThread') \in Nat
      BY <3>1, Finite, FS_Subset, FS_CardinalityType DEF IInv
    <3> QED
      BY <3>2, Finite, LimitsAssumption DEF IInv, TypeOK
  <2> QED
    BY <2>1, <2>2
<1> QED
  BY <1>1, <1>3, <1>4, <1>5, <1>6, <1>7 DEF IInv, TypeOK

LEMMA InitIInv == Init => IInv
<1> SUFFICES ASSUME Init PROVE IInv
  OBVIOUS
<1>1. holding = {} /\ InThread = {}
  BY DEF Init, InThread
<1>2. Cardinality(holding) = 0 /\ Cardinality(InThread) = 0
  BY <1>1, FS_EmptySet
<1> QED
  BY <1>1, <1>2, LimitsAssumption DEF Init, IInv, TypeOK, WaitersHaveNone, CallersHaveStep, Active, Places

\* The steps of the code's table that a task can be sent to.
LEMMA Successors ==
    ASSUME TypeOK, NEW t \in Tasks, step[t] # "end"
    PROVE  /\ Steps[step[t]].next \subseteq StepNames \cup {"end"}
           /\ Steps[step[t]].late \in StepNames \cup {"end"}
           /\ Steps[step[t]].failed \in StepNames \cup {"end"}
<1>1. step[t] \in DOMAIN Steps
  BY DEF TypeOK, Steps
<1> QED
  BY <1>1, StepsClosed DEF LeadsToSteps

\* Every action moves one task.
LEMMA NextIInv == IInv /\ [Next]_vars => IInv'
<1> SUFFICES ASSUME IInv, [Next]_vars PROVE IInv'
  OBVIOUS
<1> USE DEF IInv
<1>1. CASE UNCHANGED vars
  BY <1>1 DEF vars, TypeOK, WaitersHaveNone, CallersHaveStep, Active, InThread
<1>2. ASSUME NEW t \in Tasks, Arrive(t) PROVE IInv'
  <2>1. PICK s \in Endpoints : Goto(t, s, "loop")
    BY <1>2 DEF Arrive
  <2>2. s \in StepNames
    BY DEF Endpoints, StepNames, UploadSteps, EmployeesSteps, PollSteps
  <2> QED
    BY <1>2, <2>1, <2>2, OneMoves DEF Arrive, Places
<1>3. ASSUME NEW t \in Tasks, EnterThread(t) PROVE IInv'
  <2> DEFINE p == IF NeedsConnection(t) THEN "waiting" ELSE "working"
  <2>1. Goto(t, step[t], p) /\ Cardinality(InThread) < Threads /\ UNCHANGED holding
    BY <1>3 DEF EnterThread
  <2>2. step[t] \in StepNames \cup {"end"} /\ p \in Places
    BY DEF TypeOK, Places
  <2>3. p = "waiting" => t \notin holding
    BY DEF NeedsConnection
  <2>4. p # "idle" /\ step[t] # "end"
    BY <1>3 DEF EnterThread, Does
  <2> HIDE DEF p
  <2> QED
    BY <2>1, <2>2, <2>3, <2>4, OneMoves
<1>4. ASSUME NEW t \in Tasks, Checkout(t) PROVE IInv'
  <2>1. step[t] \in StepNames \cup {"end"} /\ step[t] # "end" /\ t \in InThread
    BY <1>4 DEF TypeOK, CallersHaveStep, Checkout, InThread
  <2> QED
    BY <1>4, <2>1, OneMoves DEF Checkout, Places
<1>5. ASSUME NEW t \in Tasks, TimesOut(t) PROVE IInv'
  <2>1. step[t] # "end"
    BY <1>5 DEF TimesOut, CallersHaveStep
  <2> QED
    BY <1>5, <2>1, Successors, OneMoves DEF TimesOut, Places, InThread, WaitersHaveNone, TypeOK, Active
<1>6. ASSUME NEW t \in Tasks, Work(t) PROVE IInv'
  <2>1. t \in InThread /\ step[t] # "end"
    BY <1>6 DEF Work, InThread, CallersHaveStep
  <2> QED
    BY <1>6, <2>1, Successors, OneMoves DEF Work, Places
<1>7. ASSUME NEW t \in Tasks, Return(t) PROVE IInv'
  <2>1. step[t] \in StepNames \cup {"end"}
    BY DEF TypeOK
  <2> QED
    BY <1>7, <2>1, OneMoves DEF Return, Places
<1>8. ASSUME NEW t \in Tasks, Release(t) PROVE IInv'
  <2>1. step[t] # "end"
    BY <1>8 DEF Release, Does
  <2> QED
    BY <1>8, <2>1, Successors, OneMoves DEF Release, Places
<1>9. ASSUME NEW t \in Tasks, ReleaseFails(t) PROVE IInv'
  <2>1. step[t] # "end"
    BY <1>9 DEF ReleaseFails, Does
  <2> QED
    BY <1>9, <2>1, Successors, OneMoves DEF ReleaseFails, Places
<1>10. ASSUME NEW t \in Tasks, Read(t) PROVE IInv'
  <2>1. step[t] \in StepNames \cup {"end"} /\ step[t] # "end"
    BY <1>10 DEF TypeOK, Read, Does
  <2> QED
    BY <1>10, <2>1, OneMoves DEF Read, Places
<1>11. ASSUME NEW t \in Tasks, ReadAnswered(t) PROVE IInv'
  <2>1. step[t] # "end"
    BY <1>11 DEF ReadAnswered, CallersHaveStep
  <2> QED
    BY <1>11, <2>1, Successors, OneMoves DEF ReadAnswered, Places
<1>12. ASSUME NEW t \in Tasks, Close(t) PROVE IInv'
  BY <1>12, OneMoves DEF Close, Places
<1>13. ASSUME NEW t \in Tasks, Closed(t) PROVE IInv'
  BY <1>13, OneMoves DEF Closed, Places
<1> QED
  BY <1>1, <1>2, <1>3, <1>4, <1>5, <1>6, <1>7, <1>8, <1>9, <1>10, <1>11, <1>12, <1>13
     DEF Next, Goes

\* The inductive invariant, for any number of tasks, connections and threads.
THEOREM Inductive == Spec => []IInv
BY InitIInv, NextIInv, PTL DEF Spec

\* No more connections and threads are in use than there are, and only tasks under
\* way have them.
THEOREM TypeCorrect == Spec => []TypeOK
<1>1. IInv => TypeOK
  BY DEF IInv
<1> QED
  BY <1>1, Inductive, PTL

-----------------------------------------------------------------------------
(* Standstills.                                                            *)

\* What TimesOut asks of the pool and of task t.
MayTimeOut(t) == Full /\ at[t] \in {"waiting", "reading"}

\* Whenever the process stands still, the pool's timeout runs for some task: there is
\* no standstill without an end.
StandstillsTimeOut == Stuck => \E t \in Tasks : MayTimeOut(t)

LEMMA StuckCrowded == IInv => StuckOnlyIfCrowded /\ StandstillsTimeOut
<1> SUFFICES ASSUME IInv, Stuck
             PROVE  /\ Full /\ (Frozen \/ Cardinality(Active) >= Conns + Threads)
                    /\ \E t \in Tasks : at[t] \in {"waiting", "reading"}
  BY DEF StuckOnlyIfCrowded, StandstillsTimeOut, MayTimeOut
<1> DEFINE Waiting == {t \in Active : at[t] = "waiting"}
<1>1. CASE Frozen
  <2>1. PICK t \in Tasks : at[t] = "reading"
    BY <1>1 DEF Frozen
  <2> QED
    BY <1>1, <2>1 DEF Stuck, Active, CanGoOn
<1>2. CASE ~Frozen
  <2>1. \A t \in Active : at[t] \in {"loop", "waiting"}
    BY <1>2 DEF Stuck, CanGoOn, Frozen, IInv, TypeOK, Active, Places
  <2>2. InThread = Waiting
    BY <2>1 DEF InThread, Active
  <2>3. holding \subseteq Active \ InThread
    BY <2>2 DEF IInv, TypeOK, WaitersHaveNone, Active
  <2>4. Waiting # {} => Full
    BY DEF Stuck, CanGoOn
  <2>5. (\E t \in Active : at[t] = "loop") => Cardinality(InThread) >= Threads
    BY <1>2, Finite, LimitsAssumption DEF Stuck, CanGoOn, IInv
  <2>6. Waiting # {}
    <3>1. SUFFICES ASSUME Waiting = {} PROVE FALSE
      OBVIOUS
    <3>2. \E t \in Active : at[t] = "loop"
      BY <2>1, <3>1 DEF Stuck
    <3>3. Cardinality(InThread) = 0
      BY <2>2, <3>1, FS_EmptySet
    <3> QED
      BY <2>5, <3>2, <3>3, LimitsAssumption
  <2>7. Full
    BY <2>4, <2>6
  <2>8. \E t \in Active : at[t] = "loop"
    <3>1. holding # {}
      <4>1. SUFFICES ASSUME holding = {} PROVE FALSE
        OBVIOUS
      <4>2. Cardinality(holding) = 0
        BY <4>1, FS_EmptySet
      <4> QED
        BY <2>7, <4>2, LimitsAssumption DEF Full
    <3> QED
      BY <2>1, <2>2, <2>3, <3>1
  <2>9. Cardinality(InThread) >= Threads /\ Cardinality(holding) >= Conns
    BY <2>5, <2>7, <2>8 DEF Full
  <2>10. Cardinality(holding \cup InThread) = Cardinality(holding) + Cardinality(InThread)
    <3>1. holding \cap InThread = {}
      BY <2>3
    <3>2. Cardinality(holding \cap InThread) = 0
      BY <3>1, FS_EmptySet
    <3> QED
      <4>1. /\ IsFiniteSet(holding) /\ IsFiniteSet(InThread)
            /\ Cardinality(holding) \in Nat /\ Cardinality(InThread) \in Nat
        BY Finite DEF IInv
      <4>2. Cardinality(holding \cup InThread)
              = Cardinality(holding) + Cardinality(InThread) - 0
        BY <3>2, <4>1, FS_Union
      <4> QED
        BY <4>1, <4>2
  <2>11. Cardinality(holding \cup InThread) <= Cardinality(Active)
    <3>1. holding \cup InThread \subseteq Active
      BY <2>2, <2>3
    <3> QED
      BY <3>1, Finite, FS_Subset DEF IInv
  <2>12. \E t \in Tasks : at[t] = "waiting"
    BY <2>6 DEF Active
  <2> QED
    BY <2>7, <2>9, <2>10, <2>11, <2>12, Finite, LimitsAssumption DEF IInv
<1> QED
  BY <1>1, <1>2

\* The process comes to a standstill only when the loop waits for a connection or
\* there are as many tasks as connections and threads together.
THEOREM StandstillsAreCrowded == Spec => []StuckOnlyIfCrowded
BY Inductive, StuckCrowded, PTL

\* A standstill is never without end: the timeout of the pool runs for some task.
THEOREM StandstillsEnd == Spec => []StandstillsTimeOut
BY Inductive, StuckCrowded, PTL
-----------------------------------------------------------------------------
(* Nothing is done twice.                                                  *)

\* How far a task is: the place of a step among those of its endpoint and worker,
Rank ==
    [ upload |-> 1, add |-> 2, bulk |-> 3, complete |-> 4, commit |-> 5, undo |-> 6,
      retry |-> 6, add_again |-> 7, add_row |-> 8, complete_rows |-> 9,
      commit_rows |-> 10,
      employees |-> 1, store |-> 2, add_pending |-> 3, accept |-> 4,
      download |-> 5, bulk_chunk |-> 6, commit_chunk |-> 7, undo_chunk |-> 8,
      employee |-> 9, commit_row |-> 10, finalize |-> 11, commit_batch |-> 12,
      give_up |-> 13, mark |-> 14, commit_mark |-> 15, undo_mark |-> 16,
      poll |-> 1, get |-> 2, time_out |-> 3, commit_status |-> 4, answer |-> 5,
      end |-> 17 ]

\* and how far it is with the step.
Stage ==
    [ returned |-> 0, loop |-> 1, waiting |-> 2, reading |-> 2, closing |-> 2,
      working |-> 3, idle |-> 4 ]

Further(t) ==
    \/ Rank[step'[t]] > Rank[step[t]]
    \/ step'[t] = step[t] /\ Stage[at'[t]] > Stage[at[t]]

\* A task under way never comes back to where it was: the fallbacks, rollbacks and
\* the marking of a failed batch all lead on, and each task has a bounded number of
\* steps.
OnlyForward ==
    \A t \in Tasks :
      at[t] # "idle" => UNCHANGED <<step[t], at[t]>> \/ Further(t)

\* A table of steps leads on.
LeadsOn(T) ==
    \A s \in DOMAIN T : \A n \in T[s].next \cup {T[s].late, T[s].failed} : Rank[n] > Rank[s]

LEMMA StepsLeadOn == LeadsOn(Steps)
<1>1. LeadsOn(UploadSteps)
  BY DEF LeadsOn, UploadSteps, Step, Rank
<1>2. LeadsOn(EmployeesSteps)
  BY DEF LeadsOn, EmployeesSteps, Step, Rank
<1>3. LeadsOn(WorkerSteps)
  BY DEF LeadsOn, WorkerSteps, Step, Rank
<1>4. LeadsOn(PollSteps)
  BY DEF LeadsOn, PollSteps, Step, Rank
<1>5. DOMAIN Steps = StepNames
  BY DEF Steps
<1>6. ASSUME NEW s \in StepNames
      PROVE  \/ s \in DOMAIN UploadSteps /\ Steps[s] = UploadSteps[s]
             \/ s \in DOMAIN EmployeesSteps /\ Steps[s] = EmployeesSteps[s]
             \/ s \in DOMAIN WorkerSteps /\ Steps[s] = WorkerSteps[s]
             \/ s \in DOMAIN PollSteps /\ Steps[s] = PollSteps[s]
  BY DEF Steps, StepNames
<1> QED
  BY <1>1, <1>2, <1>3, <1>4, <1>5, <1>6 DEF LeadsOn

LEMMA EndIsLast == \A s \in StepNames : Rank["end"] > Rank[s]
  BY DEF StepNames, UploadSteps, EmployeesSteps, WorkerSteps, PollSteps, Rank

\* Where the step of a task leads is further.
LEMMA SuccessorsAreFurther ==
    ASSUME TypeOK, NEW t \in Tasks, step[t] # "end",
           NEW s \in Steps[step[t]].next \cup {Steps[step[t]].late, Steps[step[t]].failed},
           NEW p, Goto(t, s, p)
    PROVE  Further(t)
<1>1. step[t] \in DOMAIN Steps
  BY DEF TypeOK, Steps
<1>2. step'[t] = s
  BY DEF Goto, TypeOK
<1> QED
  BY <1>1, <1>2, StepsLeadOn DEF LeadsOn, Further

\* Or the task comes further with its step.
LEMMA StagesAreFurther ==
    ASSUME TypeOK, NEW t \in Tasks, NEW p \in Places, Goto(t, step[t], p),
           Stage[p] > Stage[at[t]]
    PROVE  Further(t)
BY DEF Goto, TypeOK, Further

LEMMA NextIsForward == IInv /\ [Next]_vars => OnlyForward
<1> SUFFICES ASSUME IInv, [Next]_vars PROVE OnlyForward
  OBVIOUS
<1> USE DEF IInv
<1>1. ASSUME NEW t \in Tasks, NEW s, NEW p, Goto(t, s, p), at[t] = "idle" \/ Further(t)
      PROVE  OnlyForward
  <2>1. \A u \in Tasks \ {t} : step'[u] = step[u] /\ at'[u] = at[u]
    BY <1>1 DEF Goto, TypeOK
  <2> QED
    BY <1>1, <2>1 DEF OnlyForward
<1>2. ASSUME NEW t \in Tasks, Arrive(t) PROVE OnlyForward
  BY <1>1, <1>2 DEF Arrive
<1>3. ASSUME NEW t \in Tasks, EnterThread(t) PROVE OnlyForward
  <2> DEFINE p == IF NeedsConnection(t) THEN "waiting" ELSE "working"
  <2>1. Goto(t, step[t], p) /\ at[t] = "loop"
    BY <1>3 DEF EnterThread, OnLoop
  <2>2. p \in Places /\ Stage[p] > Stage["loop"]
    BY DEF Places, Stage
  <2> HIDE DEF p
  <2>3. Further(t)
    BY <2>1, <2>2, StagesAreFurther
  <2> QED
    BY <1>1, <2>1, <2>3
<1>4. ASSUME NEW t \in Tasks, Checkout(t) \/ Return(t) \/ Read(t)
      PROVE  OnlyForward
  <2>1. /\ Stage["working"] > Stage["waiting"] /\ Stage["loop"] > Stage["returned"]
        /\ Stage["reading"] > Stage["loop"]
    BY DEF Stage
  <2>2. PICK p \in Places : Goto(t, step[t], p) /\ Stage[p] > Stage[at[t]]
    BY <1>4, <2>1 DEF Checkout, Return, Read, OnLoop, Places
  <2> QED
    BY <1>1, <2>2, StagesAreFurther
<1>7. ASSUME NEW t \in Tasks, Close(t) \/ Closed(t)
      PROVE  OnlyForward
  <2>1. Stage["closing"] > Stage["loop"] /\ Stage["idle"] > Stage["closing"]
    BY DEF Stage
  <2>2. PICK p \in Places : Goto(t, "end", p) /\ Stage[p] > Stage[at[t]]
    BY <1>7, <2>1 DEF Close, Closed, OnLoop, Places
  <2>3. CASE step[t] = "end"
    BY <1>1, <2>2, <2>3, StagesAreFurther
  <2>4. CASE step[t] # "end"
    <3>1. Rank["end"] > Rank[step[t]]
      BY <2>4, EndIsLast DEF TypeOK
    <3>2. Further(t)
      BY <2>2, <3>1 DEF Goto, Further, TypeOK
    <3> QED
      BY <1>1, <2>2, <3>2
  <2> QED
    BY <2>3, <2>4
<1>5. ASSUME NEW t \in Tasks,
             TimesOut(t) \/ Work(t) \/ Release(t) \/ ReleaseFails(t) \/ ReadAnswered(t)
      PROVE  OnlyForward
  <2>1. step[t] # "end"
    BY <1>5 DEF TimesOut, Work, Release, ReleaseFails, ReadAnswered, Does, CallersHaveStep
  <2>2. PICK s \in Steps[step[t]].next \cup {Steps[step[t]].late, Steps[step[t]].failed},
             p \in Places : Goto(t, s, p)
    BY <1>5 DEF TimesOut, Work, Release, ReleaseFails, ReadAnswered, Places
  <2> QED
    BY <1>1, <2>1, <2>2, SuccessorsAreFurther
<1>6. CASE UNCHANGED vars
  BY <1>6 DEF vars, OnlyForward
<1> QED
  BY <1>2, <1>3, <1>4, <1>5, <1>6, <1>7 DEF Next, Goes

\* No request and no worker comes back to a step it left, whatever fails: with
\* StandstillsEnd, the safety half of EveryTaskEnds.
THEOREM TasksOnlyGoForward == Spec => [][OnlyForward]_vars
BY Inductive, NextIsForward, PTL DEF Spec

=============================================================================
