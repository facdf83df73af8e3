----------------------------- MODULE Migrations -----------------------------
(***************************************************************************)
(* The two Alembic revisions, run by operators with `alembic upgrade head` *)
(* and `alembic downgrade`.  A run reads the current revision, works out   *)
(* the statements and executes them in one transaction, which Postgres     *)
(* rolls back if a statement raises or the run is killed.  Nothing keeps   *)
(* two operators from running at the same time: only locks on the objects  *)
(* do.  A revision is recorded as a row of alembic_version, an object like *)
(* the others here.                                                        *)
(***************************************************************************)
EXTENDS Naturals, Sequences

CONSTANT Runners        \* operators, one command at a time

VARIABLES
    schema,     \* committed objects
    todo,       \* statements each run has to execute
    running,    \* the runs under way
    added,      \* objects its transaction created
    dropped,    \* objects its transaction dropped
    overtaken   \* history: runs during which another one committed

vars == <<schema, todo, running, added, dropped, overtaken>>

-----------------------------------------------------------------------------
(* Statements: the objects one needs, those that must not exist, and what  *)
(* it adds and drops.                                                      *)

Status == "ingestion_batch_status"
Rev1 == "baf15e3018b0"
Rev2 == "1099b8b292cc"
Versions == "alembic_version"

Create(o, refs) == [needs |-> refs, absent |-> {o}, adds |-> {o}, drops |-> {}]
Drop(o, users) == [needs |-> {o}, absent |-> users, adds |-> {}, drops |-> {o}]

\* Alembic checks how many rows its UPDATE or DELETE found, not before an INSERT.
Stamp(from, to) == [needs |-> from, absent |-> to, adds |-> to, drops |-> from]

\* op.create_table creates the type of an Enum column before its table.
CreateTables ==
    << Create(Status, {}),
       Create("ingestion_batches", {Status}),
       Create("ix_ingestion_batches_id", {"ingestion_batches"}),
       Create("departments", {"ingestion_batches"}),
       Create("ix_departments_id", {"departments"}),
       Create("jobs", {"ingestion_batches"}),
       Create("ix_jobs_id", {"jobs"}),
       Create("employees", {"ingestion_batches", "departments", "jobs"}),
       Create("ix_employees_id", {"employees"}) >>

DropEmployees == << Drop("ix_employees_id", {}), Drop("employees", {}) >>

DropOthers ==
    << Drop("ix_jobs_id", {}),
       Drop("jobs", {"employees"}),
       Drop("ix_departments_id", {}),
       Drop("departments", {"employees"}),
       Drop("ix_ingestion_batches_id", {}),
       Drop("ingestion_batches", {"departments", "jobs", "employees"}) >>

\* Mutant: the tables are dropped in the order they were created.
DropTablesInOrder == DropOthers \o DropEmployees

\* op.drop_table drops no type.
DropTables == DropEmployees \o DropOthers

\* Mutant: ADD VALUE without IF NOT EXISTS.
AddFailedOnce == Create("failed", {Status})

\* ALTER TYPE ingestion_batch_status ADD VALUE IF NOT EXISTS 'failed'.
AddFailed == [needs |-> {Status}, absent |-> {}, adds |-> {"failed"}, drops |-> {}]

Objects ==
    {Rev1, Rev2, Versions, "failed"}
      \cup UNION {CreateTables[i].adds : i \in DOMAIN CreateTables}

Tables == Objects \ {Rev1, Rev2, Versions, Status, "failed"}

\* The statements that lead from one revision to the next, or back.
UpgradeFrom(at) ==
    CASE at = {}     -> CreateTables \o << Stamp({}, {Rev1}), AddFailed,
                                           Stamp({Rev1}, {Rev2}) >>
      [] at = {Rev1} -> << AddFailed, Stamp({Rev1}, {Rev2}) >>
      [] OTHER       -> << >>

\* downgrade -1. The downgrade of the second revision does nothing. With nothing to
\* take back, downgrade base; -1 raises there, and ends as a killed run does.
DowngradeFrom(at) ==
    CASE at = {Rev2} -> << Stamp({Rev2}, {Rev1}) >>
      [] at = {Rev1} -> DropTables \o << Stamp({Rev1}, {}) >>
      [] OTHER       -> << >>

-----------------------------------------------------------------------------

\* A run that is over has no transaction left.
TypeOK ==
    /\ schema \subseteq Objects
    /\ running \subseteq Runners
    /\ overtaken \subseteq running
    /\ \A r \in Runners :
         /\ Len(todo[r]) <= Len(CreateTables) + 4
         /\ added[r] \subseteq Objects
         /\ dropped[r] \subseteq Objects
         /\ r \notin running => added[r] = {} /\ dropped[r] = {} /\ todo[r] = << >>

Init ==
    /\ schema = {}
    /\ todo = [r \in Runners |-> << >>]
    /\ running = {}
    /\ added = [r \in Runners |-> {}]
    /\ dropped = [r \in Runners |-> {}]
    /\ overtaken = {}

\* What a statement of a run sees.
View(r) == (schema \ dropped[r]) \cup added[r]

\* Objects of a statement that another transaction has changed: it waits for it.
Locked(r) ==
    LET s == Head(todo[r]) IN
    \E q \in Runners \ {r} :
      (s.needs \cup s.absent \cup s.adds) \cap (added[q] \cup dropped[q]) # {}

Refused(r) ==
    LET s == Head(todo[r]) IN ~ s.needs \subseteq View(r) \/ s.absent \cap View(r) # {}

\* env.py: the current revision is read and the statements follow from it; the
\* first run of all also creates Alembic's own table.
Start(r) ==
    /\ r \notin running
    /\ running' = running \cup {r}
    /\ \E path \in {UpgradeFrom(schema \cap {Rev1, Rev2}),
                    DowngradeFrom(schema \cap {Rev1, Rev2})} :
         todo' = [todo EXCEPT ![r] =
                    IF Versions \in schema THEN path
                                           ELSE <<Create(Versions, {})>> \o path]
    /\ UNCHANGED <<schema, added, dropped, overtaken>>

Execute(r) ==
    /\ r \in running
    /\ todo[r] # << >>
    /\ ~Locked(r)
    /\ ~Refused(r)
    /\ LET s == Head(todo[r]) IN
         /\ added' = [added EXCEPT ![r] = (@ \ s.drops) \cup (s.adds \ View(r))]
         /\ dropped' = [dropped EXCEPT ![r] = (@ \ s.adds) \cup s.drops]
    /\ todo' = [todo EXCEPT ![r] = Tail(@)]
    /\ UNCHANGED <<schema, running, overtaken>>

\* The run is over, and its transaction with it.
Over(r) ==
    /\ running' = running \ {r}
    /\ todo' = [todo EXCEPT ![r] = << >>]
    /\ added' = [added EXCEPT ![r] = {}]
    /\ dropped' = [dropped EXCEPT ![r] = {}]

Commit(r) ==
    /\ r \in running
    /\ todo[r] = << >>
    /\ schema' = View(r)
    /\ overtaken' = IF View(r) = schema THEN overtaken \ {r} ELSE running \ {r}
    /\ Over(r)

\* Mutant: each statement is committed on its own.
RaiseAfterCommit(r) ==
    /\ r \in running
    /\ todo[r] # << >>
    /\ ~Locked(r)
    /\ Refused(r)
    /\ schema' = View(r)
    /\ overtaken' = overtaken \ {r}
    /\ Over(r)

\* Mutant: the transaction of a refused run stays open.
RaiseLeavingOpen(r) ==
    /\ r \in running
    /\ todo[r] # << >>
    /\ ~Locked(r)
    /\ Refused(r)
    /\ running' = running \ {r}
    /\ overtaken' = overtaken \ {r}
    /\ todo' = [todo EXCEPT ![r] = << >>]
    /\ UNCHANGED <<schema, added, dropped>>

\* A statement raises, and the transaction is rolled back.
Raise(r) ==
    /\ r \in running
    /\ todo[r] # << >>
    /\ ~Locked(r)
    /\ Refused(r)
    /\ overtaken' = overtaken \ {r}
    /\ Over(r)
    /\ UNCHANGED schema

\* The operator's process is killed.
Crash(r) ==
    /\ r \in running
    /\ overtaken' = overtaken \ {r}
    /\ Over(r)
    /\ UNCHANGED schema

Run(r) == Execute(r) \/ Commit(r) \/ Raise(r)

Next == \E r \in Runners : Start(r) \/ Run(r) \/ Crash(r)

Spec == Init /\ [][Next]_vars

\* A run goes on by itself, and Postgres queues those that wait for a lock.
Fairness == \A r \in Runners : SF_vars(Run(r))

FairSpec == Spec /\ Fairness

-----------------------------------------------------------------------------

\* The revision that alembic_version records is the schema that is there: none
\* of the tables without one, all of them at the first, and the value "failed"
\* too at the second, whatever runs were refused, killed or crossed.
SchemaMatchesVersion ==
    /\ schema \cap {Rev1, Rev2} = {} => schema \cap Tables = {}
    /\ Rev1 \in schema => Rev2 \notin schema /\ Tables \cup {Status} \subseteq schema
    /\ Rev2 \in schema => Tables \cup {Status, "failed"} \subseteq schema

\* The type a downgrade of the first revision leaves behind.
TypeLeftBehind == Status \in schema /\ schema \cap {Rev1, Rev2} = {}

\* Alone, a migration works: a statement is refused only to a run another one
\* has overtaken, or to an upgrade that finds the type a downgrade left.
RefusedOnlyIfOvertaken ==
    [][\A r \in Runners : Raise(r) => r \in overtaken \/ TypeLeftBehind]_vars

\* No two runs wait for each other: every run ends.
RunsEnd == \A r \in Runners : []<>(r \notin running)

=============================================================================
