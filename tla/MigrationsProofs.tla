-------------------------- MODULE MigrationsProofs --------------------------
(***************************************************************************)
(* For any number of operators: the recorded revision is the schema that   *)
(* is there, only who was overtaken is refused, and nobody waits in a      *)
(* circle.                                                                 *)
(***************************************************************************)
EXTENDS Migrations, SequenceTheorems, InductionTheorems

-----------------------------------------------------------------------------
(* The statements of a run.                                                *)

Upgrade0 == CreateTables \o << Stamp({}, {Rev1}), AddFailed, Stamp({Rev1}, {Rev2}) >>
Upgrade1 == << AddFailed, Stamp({Rev1}, {Rev2}) >>
Downgrade1 == DropTables \o << Stamp({Rev1}, {}) >>
Downgrade2 == << Stamp({Rev2}, {Rev1}) >>

Paths == {Upgrade0, Upgrade1, Downgrade1, Downgrade2, << >>}

Statement == [needs : SUBSET Objects, absent : SUBSET Objects,
              adds : SUBSET Objects, drops : SUBSET Objects]

\* What the first k statements of a path add and drop.
Added(P, k) == UNION {P[i].adds : i \in 1 .. k}
Dropped(P, k) == UNION {P[i].drops : i \in 1 .. k}

\* What matters of a path: what a statement drops it needs, what it adds must not be
\* there (but for the value of the type), nothing dropped is added again, and only
\* the revision it stamped first does a path drop of what it added.
Sound(P) ==
    /\ P \in Seq(Statement)
    /\ Len(P) <= Len(CreateTables) + 3
    /\ \A i \in 1 .. Len(P) :
         /\ P[i].drops \subseteq P[i].needs
         /\ P[i].adds \ {"failed"} \subseteq P[i].absent
         /\ (P[i].adds \cup P[i].drops) \cap {Versions} = {}
         /\ "failed" \notin P[i].drops
         /\ \A j \in 1 .. i : P[j].drops \cap P[i].adds = {}

LEMMA ObjectsAre ==
    /\ Len(CreateTables) = 9
    /\ Objects = {Rev1, Rev2, Versions, "failed", Status,
                  "ingestion_batches", "ix_ingestion_batches_id",
                  "departments", "ix_departments_id", "jobs", "ix_jobs_id",
                  "employees", "ix_employees_id"}
<1>1. DOMAIN CreateTables = {1, 2, 3, 4, 5, 6, 7, 8, 9} /\ Len(CreateTables) = 9
  BY DEF CreateTables
<1> QED
  BY <1>1 DEF Objects, CreateTables, Create

LEMMA Upgrade0Is ==
    /\ Len(Upgrade0) = 12
    /\ \A i \in 1 .. 9 : Upgrade0[i] = CreateTables[i]
    /\ Upgrade0[10] = Stamp({}, {Rev1})
    /\ Upgrade0[11] = AddFailed
    /\ Upgrade0[12] = Stamp({Rev1}, {Rev2})
BY DEF Upgrade0, CreateTables

LEMMA Downgrade1Is ==
    /\ Len(Downgrade1) = 9
    /\ Downgrade1[1] = Drop("ix_employees_id", {})
    /\ Downgrade1[2] = Drop("employees", {})
    /\ Downgrade1[3] = Drop("ix_jobs_id", {})
    /\ Downgrade1[4] = Drop("jobs", {"employees"})
    /\ Downgrade1[5] = Drop("ix_departments_id", {})
    /\ Downgrade1[6] = Drop("departments", {"employees"})
    /\ Downgrade1[7] = Drop("ix_ingestion_batches_id", {})
    /\ Downgrade1[8] = Drop("ingestion_batches", {"departments", "jobs", "employees"})
    /\ Downgrade1[9] = Stamp({Rev1}, {})
BY DEF Downgrade1, DropTables, DropEmployees, DropOthers

LEMMA PathsSound == \A P \in Paths : Sound(P)
<1>1. Sound(Upgrade0)
  <2>1. \A i \in 1 .. 12 : /\ Upgrade0[i] \in Statement
                           /\ i < 12 => Upgrade0[i].drops = {}
    BY Upgrade0Is, ObjectsAre
      DEF CreateTables, Create, Stamp, AddFailed, Statement, Status, Rev1, Rev2
  <2>2. Upgrade0 \in Seq(Statement)
    <3>1. CreateTables \in Seq(Statement)
      BY ObjectsAre DEF CreateTables, Create, Statement, Status
    <3>2. << Stamp({}, {Rev1}), AddFailed, Stamp({Rev1}, {Rev2}) >> \in Seq(Statement)
      BY ObjectsAre DEF Stamp, AddFailed, Statement, Status, Rev1, Rev2
    <3> QED
      BY <3>1, <3>2, ConcatProperties DEF Upgrade0
  <2>3. ASSUME NEW i \in 1 .. 12
        PROVE  /\ Upgrade0[i].drops \subseteq Upgrade0[i].needs
               /\ Upgrade0[i].adds \ {"failed"} \subseteq Upgrade0[i].absent
               /\ (Upgrade0[i].adds \cup Upgrade0[i].drops) \cap {Versions} = {}
               /\ "failed" \notin Upgrade0[i].drops
               /\ Upgrade0[i].drops \cap Upgrade0[i].adds = {}
    BY Upgrade0Is DEF CreateTables, Create, Stamp, AddFailed, Status, Rev1, Rev2, Versions
  <2> QED
    BY <2>1, <2>2, <2>3, Upgrade0Is, ObjectsAre DEF Sound
<1>2. Sound(Upgrade1)
  BY ObjectsAre DEF Sound, Upgrade1, Stamp, AddFailed, Statement, Status, Rev1, Rev2, Versions
<1>3. Sound(Downgrade1)
  <2>1. \A i \in 1 .. 9 : /\ Downgrade1[i] \in Statement
                          /\ Downgrade1[i].adds = {}
    BY Downgrade1Is, ObjectsAre DEF Drop, Stamp, Statement, Rev1
  <2>2. Downgrade1 \in Seq(Statement)
    <3>1. DropEmployees \in Seq(Statement) /\ DropOthers \in Seq(Statement)
      BY ObjectsAre DEF DropEmployees, DropOthers, Drop, Statement
    <3>2. << Stamp({Rev1}, {}) >> \in Seq(Statement)
      BY ObjectsAre DEF Stamp, Statement, Rev1
    <3>3. DropTables \in Seq(Statement)
      BY <3>1, ConcatProperties DEF DropTables
    <3> QED
      BY <3>2, <3>3, ConcatProperties DEF Downgrade1
  <2>3. ASSUME NEW i \in 1 .. 9
        PROVE  /\ Downgrade1[i].drops \subseteq Downgrade1[i].needs
               /\ Versions \notin Downgrade1[i].drops
               /\ "failed" \notin Downgrade1[i].drops
    BY Downgrade1Is DEF Drop, Stamp, Rev1, Versions
  <2> QED
    BY <2>1, <2>2, <2>3, Downgrade1Is, ObjectsAre DEF Sound
<1>4. Sound(Downgrade2)
  BY ObjectsAre DEF Sound, Downgrade2, Stamp, Statement, Rev1, Rev2, Versions
<1>5. Sound(<< >>)
  BY ObjectsAre DEF Sound
<1> QED
  BY <1>1, <1>2, <1>3, <1>4, <1>5 DEF Paths

\* What whole paths add and drop.
LEMMA WholePaths ==
    /\ Added(Upgrade0, 12) = Tables \cup {Status, Rev1, Rev2, "failed"}
    /\ Dropped(Upgrade0, 12) = {Rev1}
    /\ Added(Upgrade1, 2) = {"failed", Rev2}
    /\ Dropped(Upgrade1, 2) = {Rev1}
    /\ Added(Downgrade1, 9) = {}
    /\ Dropped(Downgrade1, 9) = Tables \cup {Rev1}
    /\ Added(Downgrade2, 1) = {Rev1}
    /\ Dropped(Downgrade2, 1) = {Rev2}
<1>1. Tables = {"ingestion_batches", "ix_ingestion_batches_id", "departments", "ix_departments_id",
                "jobs", "ix_jobs_id", "employees", "ix_employees_id"}
  BY ObjectsAre DEF Tables, Rev1, Rev2, Versions, Status
<1>2. /\ 1 .. 12 = {1, 2, 3, 4, 5, 6, 7, 8, 9, 10, 11, 12}
      /\ 1 .. 9 = {1, 2, 3, 4, 5, 6, 7, 8, 9}
      /\ 1 .. 2 = {1, 2} /\ 1 .. 1 = {1}
  OBVIOUS
<1>3. Added(Upgrade0, 12) = Tables \cup {Status, Rev1, Rev2, "failed"}
  BY <1>1, <1>2, Upgrade0Is
    DEF Added, CreateTables, Create, Stamp, AddFailed, Status, Rev1, Rev2
<1>4. Dropped(Upgrade0, 12) = {Rev1}
  BY <1>2, Upgrade0Is DEF Dropped, CreateTables, Create, Stamp, AddFailed
<1>5. Added(Downgrade1, 9) = {}
  BY <1>2, Downgrade1Is DEF Added, Drop, Stamp
<1>6. Dropped(Downgrade1, 9) = Tables \cup {Rev1}
  BY <1>1, <1>2, Downgrade1Is DEF Dropped, Drop, Stamp
<1>7. Added(Upgrade1, 2) = {"failed", Rev2} /\ Dropped(Upgrade1, 2) = {Rev1}
  BY <1>2 DEF Added, Dropped, Upgrade1, Stamp, AddFailed
<1>8. Added(Downgrade2, 1) = {Rev1} /\ Dropped(Downgrade2, 1) = {Rev2}
  BY <1>2 DEF Added, Dropped, Downgrade2, Stamp
<1> QED
  BY <1>3, <1>4, <1>5, <1>6, <1>7, <1>8

\* One statement more.
LEMMA OneMore ==
    ASSUME NEW P, Sound(P), NEW k \in 0 .. Len(P) - 1
    PROVE  /\ Added(P, k + 1) = Added(P, k) \cup P[k + 1].adds
           /\ Dropped(P, k + 1) = Dropped(P, k) \cup P[k + 1].drops
           /\ Dropped(P, k + 1) \cap P[k + 1].adds = {}
<1>1. 1 .. k + 1 = (1 .. k) \cup {k + 1} /\ k + 1 \in 1 .. Len(P)
  BY DEF Sound
<1>2. Added(P, k + 1) = Added(P, k) \cup P[k + 1].adds
  BY <1>1 DEF Added
<1>3. Dropped(P, k + 1) = Dropped(P, k) \cup P[k + 1].drops
  BY <1>1 DEF Dropped
<1>4. \A j \in 1 .. k + 1 : P[j].drops \cap P[k + 1].adds = {}
  BY <1>1 DEF Sound
<1>5. Dropped(P, k + 1) \cap P[k + 1].adds = {}
  BY <1>4 DEF Dropped
<1> QED
  BY <1>2, <1>3, <1>5

-----------------------------------------------------------------------------
(* The inductive invariant.                                                *)

\* A run has done the first k statements of P, and nothing else but to create
\* Alembic's own table. What it dropped without having added it is still there for
\* the others, and nobody takes the value of the type away.
At(r, P, k) ==
    /\ \/ todo[r] = SubSeq(P, k + 1, Len(P))
       \/ k = 0 /\ todo[r] = << Create(Versions, {}) >> \o P
    /\ added[r] \ {Versions, "failed"} = (Added(P, k) \ Dropped(P, k)) \ {"failed"}
    /\ dropped[r] = Dropped(P, k)
    /\ dropped[r] \ Added(P, k) \subseteq schema
    /\ "failed" \in Added(P, k) => "failed" \in schema \cup added[r]
    /\ "failed" \in added[r] => "failed" \in Added(P, k)

OnPath == \A r \in running : \E P \in Paths : \E k \in 0 .. Len(P) : At(r, P, k)

Changed(r) == added[r] \cup dropped[r]

\* The locks: no two runs change the same object.
Exclusive == \A q, r \in Runners : q # r => Changed(q) \cap Changed(r) = {}

\* What a run adds is not there for the others.
NewToOthers == \A r \in Runners : added[r] \cap schema = {}

IInv ==
    /\ todo \in [Runners -> Seq(Statement)]
    /\ added \in [Runners -> SUBSET Objects]
    /\ dropped \in [Runners -> SUBSET Objects]
    /\ TypeOK
    /\ OnPath
    /\ Exclusive
    /\ NewToOthers
    /\ SchemaMatchesVersion

LEMMA InitIInv == Init => IInv
BY ObjectsAre DEF Init, IInv, TypeOK, OnPath, Exclusive, Changed, NewToOthers,
     SchemaMatchesVersion, Statement

\* What follows from a path for the run that follows it.
LEMMA PathTypes ==
    ASSUME NEW P \in Paths, NEW k \in 0 .. Len(P)
    PROVE  /\ SubSeq(P, k + 1, Len(P)) \in Seq(Statement)
           /\ Len(SubSeq(P, k + 1, Len(P))) = Len(P) - k
           /\ Len(P) \in Nat /\ Len(P) <= 12
           /\ Versions \notin Added(P, k) /\ Versions \notin Dropped(P, k)
           /\ "failed" \notin Dropped(P, k)
<1>1. Sound(P)
  BY PathsSound
<1>2. \A i \in 1 .. k : i \in 1 .. Len(P)
  BY <1>1 DEF Sound
<1>3. Versions \notin Added(P, k) /\ Versions \notin Dropped(P, k) /\ "failed" \notin Dropped(P, k)
  BY <1>1, <1>2 DEF Sound, Added, Dropped
<1>4. P \in Seq(Statement) /\ Len(P) \in Nat /\ Len(P) <= 12
  BY <1>1, ObjectsAre DEF Sound
<1>5. \A i \in k + 1 .. Len(P) : P[i] \in Statement
  BY <1>4
<1> QED
  BY <1>3, <1>4, <1>5, SubSeqProperties

\* Runs that go on where they were, while another one does something.
LEMMA OthersStay ==
    ASSUME IInv, NEW r \in Runners,
           \A q \in Runners \ {r} :
             todo'[q] = todo[q] /\ added'[q] = added[q] /\ dropped'[q] = dropped[q],
           schema \ dropped[r] \subseteq schema',
           NEW q \in running \ {r}
    PROVE  \E P \in Paths : \E k \in 0 .. Len(P) : At(q, P, k)'
<1>1. q \in Runners
  BY DEF IInv, TypeOK
<1>a. PICK P \in Paths : \E k \in 0 .. Len(P) : At(q, P, k)
  BY DEF IInv, OnPath
<1>2. PICK k \in 0 .. Len(P) : At(q, P, k)
  BY <1>a
<1>3. dropped[q] \cap dropped[r] = {}
  BY <1>1 DEF IInv, Exclusive, Changed
<1>4. "failed" \notin dropped[r]
  <2>1. CASE r \in running
    <3>a. PICK R \in Paths : \E n \in 0 .. Len(R) : At(r, R, n)
      BY <2>1 DEF IInv, OnPath
    <3>1. PICK n \in 0 .. Len(R) : At(r, R, n)
      BY <3>a
    <3> QED
      BY <3>1, PathTypes DEF At
  <2>2. CASE r \notin running
    BY <2>2 DEF IInv, TypeOK
  <2> QED
    BY <2>1, <2>2
<1>5. At(q, P, k)'
  BY <1>1, <1>2, <1>3, <1>4 DEF At
<1> QED
  BY <1>5

LEMMA StartKeeps == ASSUME IInv, NEW r \in Runners, Start(r) PROVE IInv'
<1>1. PICK P \in Paths :
        todo' = [todo EXCEPT ![r] = IF Versions \in schema THEN P
                                                           ELSE << Create(Versions, {}) >> \o P]
  <2>1. \A at \in SUBSET {Rev1, Rev2} : UpgradeFrom(at) \in Paths /\ DowngradeFrom(at) \in Paths
    BY DEF UpgradeFrom, DowngradeFrom, Paths, Upgrade0, Upgrade1, Downgrade1, Downgrade2
  <2>2. schema \cap {Rev1, Rev2} \in SUBSET {Rev1, Rev2}
    OBVIOUS
  <2> QED
    BY <2>1, <2>2 DEF Start
<1>2. P \in Seq(Statement) /\ Len(P) \in Nat /\ Len(P) <= 12
  BY PathsSound, ObjectsAre DEF Sound
<1>3. Create(Versions, {}) \in Statement
  BY ObjectsAre DEF Create, Statement, Versions
<1>4. /\ << Create(Versions, {}) >> \o P \in Seq(Statement)
      /\ Len(<< Create(Versions, {}) >> \o P) = 1 + Len(P)
  <2>1. << Create(Versions, {}) >> \in Seq(Statement) /\ Len(<< Create(Versions, {}) >>) = 1
    BY <1>3
  <2> QED
    BY <1>2, <2>1, ConcatProperties
<1>5. /\ todo' \in [Runners -> Seq(Statement)] /\ Len(todo'[r]) <= 13
      /\ \A q \in Runners \ {r} : todo'[q] = todo[q]
  BY <1>1, <1>2, <1>4 DEF IInv
<1>6. /\ added[r] = {} /\ dropped[r] = {} /\ r \in running'
      /\ running' = running \cup {r}
      /\ UNCHANGED <<schema, added, dropped, overtaken>>
  BY DEF Start, IInv, TypeOK
<1>7. TypeOK'
  BY <1>5, <1>6, ObjectsAre DEF IInv, TypeOK
<1>8. At(r, P, 0)'
  <2>1. Added(P, 0) = {} /\ Dropped(P, 0) = {}
    BY DEF Added, Dropped
  <2>2. SubSeq(P, 0 + 1, Len(P)) = P
    BY <1>2, SubSeqFull
  <2>3. todo'[r] = P \/ todo'[r] = << Create(Versions, {}) >> \o P
    BY <1>1 DEF IInv
  <2> QED
    BY <1>6, <2>1, <2>2, <2>3 DEF At
<1>9. OnPath'
  <2>1. \A q \in running \ {r} : \E Q \in Paths : \E k \in 0 .. Len(Q) : At(q, Q, k)'
    BY <1>5, <1>6, OthersStay
  <2> QED
    BY <1>2, <1>6, <1>8, <2>1 DEF OnPath
<1> QED
  BY <1>5, <1>6, <1>7, <1>9 DEF IInv, Exclusive, Changed, NewToOthers, SchemaMatchesVersion

\* A statement changes what no other run has changed, and adds what is not there.
LEMMA StatementKeeps ==
    ASSUME IInv, NEW r \in Runners, Execute(r), Head(todo[r]) \in Statement,
           Head(todo[r]).drops \subseteq Head(todo[r]).needs,
           todo'[r] \in Seq(Statement), Len(todo'[r]) <= 13
    PROVE  /\ todo' \in [Runners -> Seq(Statement)]
           /\ added' \in [Runners -> SUBSET Objects]
           /\ dropped' \in [Runners -> SUBSET Objects]
           /\ TypeOK' /\ Exclusive' /\ SchemaMatchesVersion'
<1> DEFINE s == Head(todo[r])
<1>1. /\ added' = [added EXCEPT ![r] = (added[r] \ s.drops) \cup (s.adds \ View(r))]
      /\ dropped' = [dropped EXCEPT ![r] = (dropped[r] \ s.adds) \cup s.drops]
      /\ todo' = [todo EXCEPT ![r] = Tail(todo[r])]
      /\ r \in running /\ UNCHANGED <<schema, running, overtaken>>
  BY DEF Execute
<1>2. s.adds \subseteq Objects /\ s.drops \subseteq Objects
  BY DEF Statement
<1> HIDE DEF s
<1>3. /\ todo' \in [Runners -> Seq(Statement)]
      /\ added' \in [Runners -> SUBSET Objects]
      /\ dropped' \in [Runners -> SUBSET Objects]
  <2>1. \A q \in Runners \ {r} : todo'[q] = todo[q]
    BY <1>1 DEF IInv
  <2> QED
    BY <1>1, <1>2, <2>1 DEF IInv
<1>4. TypeOK'
  <2>1. \A q \in Runners : Len(todo'[q]) <= Len(CreateTables) + 4
    BY <1>1, ObjectsAre DEF IInv, TypeOK
  <2> QED
    BY <1>1, <1>3, <2>1 DEF IInv, TypeOK
<1>5. Exclusive'
  <2>1. \A q \in Runners \ {r} : (s.adds \cup s.drops) \cap Changed(q) = {}
    BY DEF Execute, Locked, Changed, s
  <2>2. Changed(r)' \subseteq Changed(r) \cup s.adds \cup s.drops
    BY <1>1 DEF Changed, IInv
  <2>3. \A q \in Runners \ {r} : Changed(q)' = Changed(q)
    BY <1>1 DEF Changed, IInv
  <2> QED
    BY <2>1, <2>2, <2>3 DEF Exclusive, IInv
<1>6. SchemaMatchesVersion'
  BY <1>1 DEF IInv, SchemaMatchesVersion
<1> QED
  BY <1>3, <1>4, <1>5, <1>6

\* A run moves along the path it is on.
LEMMA ExecuteMoves ==
    ASSUME IInv, NEW r \in Runners, Execute(r),
           NEW P \in Paths, NEW k \in 0 .. Len(P), At(r, P, k)
    PROVE  /\ IInv'
           /\ \E n \in 0 .. Len(P) : At(r, P, n)' /\ todo'[r] = SubSeq(P, n + 1, Len(P))
<1>1. r \in running /\ todo[r] # << >> /\ UNCHANGED <<schema, running, overtaken>>
  BY DEF Execute
<1>2. At(r, P, k)
  OBVIOUS
<1>3. P \in Seq(Statement) /\ Sound(P) /\ Len(P) \in Nat /\ Len(P) <= 12
  BY PathsSound, PathTypes DEF Sound
<1>4. \A q \in Runners \ {r} :
        todo'[q] = todo[q] /\ added'[q] = added[q] /\ dropped'[q] = dropped[q]
  BY DEF Execute, IInv
<1>5. \A q \in running \ {r} : \E Q \in Paths : \E n \in 0 .. Len(Q) : At(q, Q, n)'
  BY <1>1, <1>4, OthersStay
<1> DEFINE s == Head(todo[r])
<1>6. /\ added'[r] = (added[r] \ s.drops) \cup (s.adds \ View(r))
      /\ dropped'[r] = (dropped[r] \ s.adds) \cup s.drops
      /\ todo'[r] = Tail(todo[r])
      /\ s.needs \subseteq View(r) /\ s.absent \cap View(r) = {}
  BY DEF Execute, Refused, IInv
<1>7. CASE k = 0 /\ todo[r] = << Create(Versions, {}) >> \o P
  <2>1. s = Create(Versions, {}) /\ todo'[r] = P /\ s \in Statement
    <3>1. Create(Versions, {}) \in Statement
      BY ObjectsAre DEF Create, Statement, Versions
    <3> QED
      BY <1>3, <1>6, <1>7, <3>1
  <2>2. s.drops = {} /\ s.adds = {Versions} /\ s.absent = {Versions}
    BY <2>1 DEF Create
  <2>3. added'[r] = added[r] \cup {Versions} /\ Versions \notin schema
    <3>1. Versions \notin dropped[r]
      BY <1>2, PathTypes DEF At
    <3> QED
      BY <1>6, <2>2, <3>1 DEF View
  <2>4. dropped'[r] = dropped[r]
    BY <1>2, <1>6, <2>2, PathTypes DEF At
  <2>5. At(r, P, 0)'
    <3>1. SubSeq(P, 0 + 1, Len(P)) = P
      BY <1>3, SubSeqFull
    <3>2. /\ added'[r] \ {Versions, "failed"} = added[r] \ {Versions, "failed"}
          /\ "failed" \in added'[r] => "failed" \in added[r]
      BY <2>3 DEF Versions
    <3> QED
      BY <1>1, <1>2, <1>7, <2>1, <2>3, <2>4, <3>1, <3>2 DEF At
  <2>6. NewToOthers'
    BY <1>1, <1>4, <2>3 DEF IInv, NewToOthers
  <2>7. OnPath'
    BY <1>1, <1>3, <1>5, <2>5 DEF OnPath
  <2>8. s.drops \subseteq s.needs
    BY <2>2
  <2>9. IInv'
    BY <1>3, <2>1, <2>6, <2>7, <2>8, StatementKeeps DEF IInv
  <2>10. todo'[r] = SubSeq(P, 0 + 1, Len(P))
    BY <1>3, <2>1, SubSeqFull
  <2> QED
    BY <1>3, <2>5, <2>9, <2>10
<1>8. CASE todo[r] = SubSeq(P, k + 1, Len(P))
  <2>1. k \in 0 .. Len(P) - 1
    BY <1>1, <1>3, <1>8, SubSeqEmpty
  <2>2. s = P[k + 1] /\ todo'[r] = SubSeq(P, (k + 1) + 1, Len(P)) /\ s \in Statement
    <3>1. k + 1 \in 1 .. Len(P) /\ Len(P) \in 1 .. Len(P)
      BY <1>3, <2>1
    <3>2. Head(SubSeq(P, k + 1, Len(P))) = P[k + 1]
      BY <1>3, <3>1, HeadTailOfSubSeq
    <3>3. Tail(SubSeq(P, k + 1, Len(P))) = SubSeq(P, (k + 1) + 1, Len(P))
      BY <1>3, <3>1, HeadTailOfSubSeq
    <3>4. P[k + 1] \in Statement
      BY <1>3, <3>1
    <3> QED
      BY <1>6, <1>8, <3>2, <3>3, <3>4
  <2>3. /\ s.drops \subseteq s.needs /\ s.adds \ {"failed"} \subseteq s.absent
        /\ Versions \notin s.adds /\ Versions \notin s.drops /\ "failed" \notin s.drops
    BY <1>3, <2>1, <2>2 DEF Sound
  <2>4. /\ Added(P, k + 1) = Added(P, k) \cup s.adds
        /\ Dropped(P, k + 1) = Dropped(P, k) \cup s.drops
        /\ Dropped(P, k + 1) \cap s.adds = {}
    BY <1>3, <2>1, <2>2, OneMore
  <2> HIDE DEF s
  <2>5. dropped'[r] = Dropped(P, k + 1)
    BY <1>2, <1>6, <2>4 DEF At
  <2>6. s.adds \ {"failed"} \subseteq s.adds \ View(r)
    BY <1>6, <2>3
  <2>7. added'[r] \ {Versions, "failed"} = (Added(P, k + 1) \ Dropped(P, k + 1)) \ {"failed"}
    BY <1>2, <1>6, <2>3, <2>4, <2>6, PathTypes DEF At
  <2>8. dropped'[r] \ Added(P, k + 1) \subseteq schema
    <3> SUFFICES ASSUME NEW o \in dropped'[r] \ Added(P, k + 1) PROVE o \in schema
      OBVIOUS
    <3>1. CASE o \in dropped[r]
      BY <1>2, <2>4, <3>1 DEF At
    <3>2. CASE o \in s.drops
      <4>1. o \in View(r)
        BY <1>6, <2>3, <3>2
      <4>2. o \notin added[r]
        BY <1>2, <2>3, <2>4, <3>2 DEF At
      <4> QED
        BY <4>1, <4>2 DEF View
    <3> QED
      BY <1>6, <3>1, <3>2
  <2>9. "failed" \in Added(P, k + 1) => "failed" \in schema \cup added'[r]
    <3>1. CASE "failed" \in Added(P, k)
      BY <1>2, <1>6, <2>3, <3>1 DEF At
    <3>2. CASE "failed" \in s.adds
      BY <1>6, <2>3, <3>2 DEF View
    <3> QED
      BY <2>4, <3>1, <3>2
  <2>10. At(r, P, k + 1)'
    BY <1>1, <1>2, <1>6, <2>2, <2>4, <2>5, <2>7, <2>8, <2>9 DEF At
  <2>11. NewToOthers'
    <3>1. (s.adds \ View(r)) \cap schema = {}
      <4>1. s.adds \cap dropped[r] = {}
        BY <1>2, <2>4 DEF At
      <4> QED
        BY <4>1 DEF View
    <3> QED
      BY <1>1, <1>4, <1>6, <3>1 DEF IInv, NewToOthers
  <2>12. OnPath'
    BY <1>1, <1>3, <1>5, <2>1, <2>10 DEF OnPath
  <2>13. todo'[r] \in Seq(Statement) /\ Len(todo'[r]) <= 13
    BY <1>3, <2>1, <2>2, PathTypes
  <2>14. IInv'
    BY <2>2, <2>3, <2>11, <2>12, <2>13, StatementKeeps DEF IInv, s
  <2> QED
    BY <2>1, <2>2, <2>10, <2>14
<1> QED
  BY <1>2, <1>7, <1>8 DEF At

LEMMA ExecuteKeeps == ASSUME IInv, NEW r \in Runners, Execute(r) PROVE IInv'
<1>1. PICK P \in Paths : \E k \in 0 .. Len(P) : At(r, P, k)
  BY DEF Execute, IInv, OnPath
<1>2. PICK k \in 0 .. Len(P) : At(r, P, k)
  BY <1>1
<1> QED
  BY <1>2, ExecuteMoves

\* The end of a run, whatever it leaves behind in the schema.
LEMMA OverKeeps ==
    ASSUME IInv, NEW r \in Runners, Over(r), overtaken' \subseteq running \ {r},
           schema' \subseteq Objects, schema \ dropped[r] \subseteq schema',
           schema' \subseteq schema \cup added[r], SchemaMatchesVersion'
    PROVE  IInv'
<1>1. /\ \A q \in Runners \ {r} :
           todo'[q] = todo[q] /\ added'[q] = added[q] /\ dropped'[q] = dropped[q]
      /\ todo'[r] = << >> /\ added'[r] = {} /\ dropped'[r] = {}
      /\ running' = running \ {r}
  BY DEF Over, IInv
<1>2. /\ todo' \in [Runners -> Seq(Statement)]
      /\ added' \in [Runners -> SUBSET Objects]
      /\ dropped' \in [Runners -> SUBSET Objects]
  BY DEF Over, IInv
<1>3. TypeOK'
  <2>1. \A q \in Runners : Len(todo'[q]) <= Len(CreateTables) + 4
    BY <1>1, ObjectsAre DEF IInv, TypeOK
  <2> QED
    BY <1>1, <1>2, <2>1 DEF IInv, TypeOK
<1>4. OnPath'
  <2>1. \A q \in running \ {r} : \E Q \in Paths : \E k \in 0 .. Len(Q) : At(q, Q, k)'
    BY <1>1, OthersStay
  <2> QED
    BY <1>1, <2>1 DEF OnPath
<1>5. Exclusive'
  BY <1>1 DEF IInv, Exclusive, Changed
<1>6. NewToOthers'
  <2>1. \A q \in Runners \ {r} : added[q] \cap (schema \cup added[r]) = {}
    BY DEF IInv, NewToOthers, Exclusive, Changed
  <2> QED
    BY <1>1, <2>1 DEF NewToOthers
<1> QED
  BY <1>2, <1>3, <1>4, <1>5, <1>6 DEF IInv

LEMMA EndKeeps == ASSUME IInv, NEW r \in Runners, Raise(r) \/ Crash(r) PROVE IInv'
<1>1. Over(r) /\ UNCHANGED schema /\ overtaken' \subseteq running \ {r}
  BY DEF Raise, Crash, IInv, TypeOK
<1>2. SchemaMatchesVersion'
  BY <1>1 DEF IInv, SchemaMatchesVersion
<1> QED
  BY <1>1, <1>2, OverKeeps DEF IInv, TypeOK

\* The last statement stamps the revision whose schema the transaction has made: it
\* found the row of the one its path starts from.
LEMMA ViewMatches ==
    ASSUME IInv, NEW r \in Runners, NEW P \in Paths, At(r, P, Len(P)),
           schema' = View(r)
    PROVE  SchemaMatchesVersion'
<1>1. /\ added[r] \ {Versions, "failed"} = (Added(P, Len(P)) \ Dropped(P, Len(P))) \ {"failed"}
      /\ dropped[r] = Dropped(P, Len(P))
      /\ dropped[r] \ Added(P, Len(P)) \subseteq schema
      /\ "failed" \in Added(P, Len(P)) => "failed" \in schema \cup added[r]
      /\ schema' = (schema \ dropped[r]) \cup added[r]
      /\ added[r] \cap schema = {}
      /\ SchemaMatchesVersion
  BY DEF At, View, IInv, NewToOthers
<1>2. /\ {Rev1, Rev2, Versions, Status, "failed"} \cap Tables = {}
      /\ Rev1 # Rev2 /\ Status \notin {Rev1, Rev2} /\ "ingestion_batches" \in Tables
      /\ {Rev1, Rev2, Status} \cap {Versions, "failed"} = {}
  BY ObjectsAre DEF Tables, Rev1, Rev2, Versions, Status
<1>3. CASE P = Upgrade0
  <2>1. /\ Added(P, Len(P)) = Tables \cup {Status, Rev1, Rev2, "failed"}
        /\ dropped[r] = {Rev1}
    BY <1>1, <1>3, Upgrade0Is, WholePaths
  <2>2. Tables \cup {Status, Rev2} \subseteq added[r] /\ Rev1 \notin added[r]
    <3>1. added[r] \ {Versions, "failed"}
            = ((Tables \cup {Status, Rev1, Rev2, "failed"}) \ {Rev1}) \ {"failed"}
      BY <1>1, <2>1
    <3>2. (Tables \cup {Status, Rev2}) \cap {Rev1, Versions, "failed"} = {}
      BY <1>2
    <3>3. Tables \cup {Status, Rev2} \subseteq added[r] \ {Versions, "failed"}
      BY <3>1, <3>2
    <3>4. Rev1 \notin added[r] \ {Versions, "failed"} /\ Rev1 \notin {Versions, "failed"}
      BY <1>2, <3>1
    <3> QED
      BY <3>3, <3>4
  <2>3. "failed" \in schema'
    BY <1>1, <1>2, <2>1 DEF Rev1
  <2> QED
    BY <1>1, <1>2, <2>1, <2>2, <2>3 DEF SchemaMatchesVersion
<1>4. CASE P = Upgrade1
  <2>1. /\ Added(P, Len(P)) = {"failed", Rev2} /\ dropped[r] = {Rev1}
    <3>1. Len(Upgrade1) = 2
      BY DEF Upgrade1
    <3> QED
      BY <1>1, <1>4, <3>1, WholePaths
  <2>2. Rev2 \in added[r] /\ Rev1 \notin added[r] /\ Rev1 \in schema
    BY <1>1, <1>2, <2>1
  <2>3. "failed" \in schema'
    BY <1>1, <1>2, <2>1 DEF Rev1
  <2> QED
    BY <1>1, <1>2, <2>1, <2>2, <2>3 DEF SchemaMatchesVersion
<1>5. CASE P = Downgrade1
  <2>1. Added(P, Len(P)) = {} /\ dropped[r] = Tables \cup {Rev1}
    BY <1>1, <1>5, Downgrade1Is, WholePaths
  <2>2. added[r] \subseteq {Versions, "failed"} /\ Rev1 \in schema
    BY <1>1, <2>1
  <2>3. Rev1 \notin schema' /\ Rev2 \notin schema' /\ schema' \cap Tables = {}
    BY <1>1, <1>2, <2>1, <2>2 DEF SchemaMatchesVersion
  <2> QED
    BY <2>3 DEF SchemaMatchesVersion
<1>6. CASE P = Downgrade2
  <2>1. Added(P, Len(P)) = {Rev1} /\ dropped[r] = {Rev2}
    <3>1. Len(Downgrade2) = 1
      BY DEF Downgrade2
    <3> QED
      BY <1>1, <1>6, <3>1, WholePaths
  <2>2. Rev1 \in added[r] /\ Rev2 \notin added[r] /\ Rev2 \in schema
    BY <1>1, <1>2, <2>1
  <2> QED
    BY <1>1, <1>2, <2>1, <2>2 DEF SchemaMatchesVersion
<1>7. CASE P = << >>
  <2>1. dropped[r] = {} /\ added[r] \subseteq {Versions, "failed"}
    <3>1. Added(<< >>, 0) = {} /\ Dropped(<< >>, 0) = {} /\ Len(<< >>) = 0
      BY DEF Added, Dropped
    <3> QED
      BY <1>1, <1>7, <3>1
  <2> QED
    BY <1>1, <1>2, <2>1 DEF SchemaMatchesVersion
<1> QED
  BY <1>3, <1>4, <1>5, <1>6, <1>7 DEF Paths

LEMMA CommitKeeps == ASSUME IInv, NEW r \in Runners, Commit(r) PROVE IInv'
<1>a. PICK P \in Paths : \E n \in 0 .. Len(P) : At(r, P, n)
  BY DEF Commit, IInv, OnPath
<1>1. PICK k \in 0 .. Len(P) : At(r, P, k)
  BY <1>a
<1>2. k = Len(P)
  <2>1. todo[r] = << >>
    BY DEF Commit
  <2>2. << Create(Versions, {}) >> \o P # << >>
    <3>1. P \in Seq(Statement)
      BY PathsSound DEF Sound
    <3>2. << Create(Versions, {}) >> \in Seq(Statement) /\ Len(<< Create(Versions, {}) >>) = 1
      BY ObjectsAre DEF Create, Statement, Versions
    <3> QED
      BY <3>1, <3>2, ConcatProperties
  <2>3. Len(SubSeq(P, k + 1, Len(P))) = Len(P) - k /\ Len(P) \in Nat
    BY PathTypes
  <2>4. todo[r] = SubSeq(P, k + 1, Len(P))
    BY <1>1, <2>1, <2>2 DEF At
  <2>5. Len(P) - k = 0
    <3>1. Len(<< >>) = 0
      OBVIOUS
    <3> QED
      BY <2>1, <2>3, <2>4, <3>1
  <2> QED
    BY <2>3, <2>5
<1>3. schema' = View(r) /\ Over(r) /\ overtaken' \subseteq running \ {r}
  BY DEF Commit, IInv, TypeOK
<1>4. SchemaMatchesVersion'
  BY <1>1, <1>2, <1>3, ViewMatches
<1> QED
  BY <1>3, <1>4, OverKeeps DEF IInv, TypeOK, View

LEMMA Inductive == IInv /\ [Next]_vars => IInv'
<1> SUFFICES ASSUME IInv, [Next]_vars PROVE IInv'
  OBVIOUS
<1>1. ASSUME NEW r \in Runners, Start(r) PROVE IInv'
  BY <1>1, StartKeeps
<1>2. ASSUME NEW r \in Runners, Execute(r) PROVE IInv'
  BY <1>2, ExecuteKeeps
<1>3. ASSUME NEW r \in Runners, Commit(r) PROVE IInv'
  BY <1>3, CommitKeeps
<1>4. ASSUME NEW r \in Runners, Raise(r) \/ Crash(r) PROVE IInv'
  BY <1>4, EndKeeps
<1>5. CASE UNCHANGED vars
  BY <1>5 DEF vars, IInv, TypeOK, OnPath, At, Exclusive, Changed, NewToOthers,
       SchemaMatchesVersion
<1> QED
  BY <1>1, <1>2, <1>3, <1>4, <1>5 DEF Next, Run

\* A run that is over leaves no transaction open and nothing to execute, and only the
\* objects of the two revisions are ever created.
THEOREM TypeCorrect == Spec => []TypeOK
<1>1. IInv => TypeOK
  BY DEF IInv
<1> QED
  BY InitIInv, Inductive, <1>1, PTL DEF Spec

\* However the runs of any number of operators cross, are refused or are killed, the
\* revision in alembic_version is the schema the database has.
THEOREM SchemaRecorded == Spec => []SchemaMatchesVersion
<1>1. IInv => SchemaMatchesVersion
  BY DEF IInv
<1> QED
  BY InitIInv, Inductive, <1>1, PTL DEF Spec

-----------------------------------------------------------------------------
(* Refusals.                                                               *)

\* What a run that has done the first k statements of P sees, if it started from base.
Seen(P, base, k) == (base \cup Added(P, k)) \ Dropped(P, k)

\* Every statement of P finds what it needs, and nothing of what it creates.
Runnable(P, base) ==
    \A k \in 0 .. Len(P) - 1 :
      /\ P[k + 1].needs \subseteq Seen(P, base, k)
      /\ P[k + 1].absent \cap Seen(P, base, k) = {}
      /\ (P[k + 1].needs \cup P[k + 1].absent) \cap {Versions, "failed"} = {}

\* What the first upgrade has created before each of its statements.
Before ==
    << {}, {Status},
       {Status, "ingestion_batches"},
       {Status, "ingestion_batches", "ix_ingestion_batches_id"},
       {Status, "ingestion_batches", "ix_ingestion_batches_id", "departments"},
       {Status, "ingestion_batches", "ix_ingestion_batches_id", "departments",
        "ix_departments_id"},
       {Status, "ingestion_batches", "ix_ingestion_batches_id", "departments",
        "ix_departments_id", "jobs"},
       {Status, "ingestion_batches", "ix_ingestion_batches_id", "departments",
        "ix_departments_id", "jobs", "ix_jobs_id"},
       {Status, "ingestion_batches", "ix_ingestion_batches_id", "departments",
        "ix_departments_id", "jobs", "ix_jobs_id", "employees"},
       Tables \cup {Status},
       Tables \cup {Status, Rev1},
       Tables \cup {Status, Rev1, "failed"} >>

LEMMA UpgradeRuns ==
    ASSUME NEW base, base \cap (Tables \cup {Status, Rev1, Rev2}) = {}
    PROVE  Runnable(Upgrade0, base)
<1>1. Tables = {"ingestion_batches", "ix_ingestion_batches_id", "departments", "ix_departments_id",
                "jobs", "ix_jobs_id", "employees", "ix_employees_id"}
  BY ObjectsAre DEF Tables, Rev1, Rev2, Versions, Status
<1> DEFINE Finds(k) == /\ Upgrade0[k].needs \subseteq Before[k]
                       /\ Upgrade0[k].absent \cap Before[k] = {}
                       /\ Upgrade0[k].absent \subseteq Tables \cup {Status, Rev1, Rev2}
                       /\ Upgrade0[k].needs \cap {Versions, "failed"} = {}
<1>2. \A k \in 1 .. 12 : k = 1 \/ k = 2 \/ k = 3 \/ k = 4 \/ k = 5 \/ k = 6
                         \/ k = 7 \/ k = 8 \/ k = 9 \/ k = 10 \/ k = 11 \/ k = 12
  OBVIOUS
<1>3. \A k \in 1 .. 12 : Finds(k)
  BY <1>1, <1>2, Upgrade0Is
    DEF Before, CreateTables, Create, Stamp, AddFailed, Status, Rev1, Rev2, Versions
<1>4. \A k \in 1 .. 11 : Before[k + 1] = Before[k] \cup Upgrade0[k].adds
  BY <1>1, <1>2, Upgrade0Is
    DEF Before, CreateTables, Create, Stamp, AddFailed, Status, Rev1, Rev2, Versions
<1>5. /\ Added(Upgrade0, 0) = {} /\ Dropped(Upgrade0, 0) = {}
      /\ \A k \in 0 .. 11 :
           /\ Added(Upgrade0, k + 1) = Added(Upgrade0, k) \cup Upgrade0[k + 1].adds
           /\ Dropped(Upgrade0, k + 1) = Dropped(Upgrade0, k) \cup Upgrade0[k + 1].drops
  <2>1. Added(Upgrade0, 0) = {} /\ Dropped(Upgrade0, 0) = {}
    BY DEF Added, Dropped
  <2>2. Sound(Upgrade0) /\ Len(Upgrade0) = 12
    BY PathsSound, Upgrade0Is DEF Paths
  <2>3. ASSUME NEW k \in 0 .. 11
        PROVE  /\ Added(Upgrade0, k + 1) = Added(Upgrade0, k) \cup Upgrade0[k + 1].adds
               /\ Dropped(Upgrade0, k + 1) = Dropped(Upgrade0, k) \cup Upgrade0[k + 1].drops
    <3>1. k \in 0 .. Len(Upgrade0) - 1
      BY <2>2
    <3> QED
      BY <2>2, <3>1, OneMore
  <2> QED
    BY <2>1, <2>3
<1>6. \A k \in 0 .. 11 : Added(Upgrade0, k) = Before[k + 1] /\ Dropped(Upgrade0, k) = {}
  <2> DEFINE G == {k \in Nat : k <= 11 => /\ Added(Upgrade0, k) = Before[k + 1]
                                          /\ Dropped(Upgrade0, k) = {}}
  <2>1. 0 \in G
    <3>1. Before[0 + 1] = {}
      BY DEF Before
    <3> QED
      BY <1>5, <3>1
  <2>2. ASSUME NEW k \in G PROVE k + 1 \in G
    <3>1. CASE k + 1 <= 11
      <4>1. /\ Added(Upgrade0, k + 1) = Added(Upgrade0, k) \cup Upgrade0[k + 1].adds
            /\ Dropped(Upgrade0, k + 1) = Dropped(Upgrade0, k) \cup Upgrade0[k + 1].drops
            /\ Added(Upgrade0, k) = Before[k + 1] /\ Dropped(Upgrade0, k) = {}
        BY <1>5, <3>1
      <4>2. Before[(k + 1) + 1] = Before[k + 1] \cup Upgrade0[k + 1].adds
        BY <1>4, <3>1
      <4>3. Upgrade0[k + 1].drops = {}
        <5>1. k + 1 \in 1 .. 11
          BY <3>1
        <5> QED
          BY <5>1, <1>2, Upgrade0Is DEF CreateTables, Create, Stamp, AddFailed
      <4>4. /\ Added(Upgrade0, k + 1) = Before[(k + 1) + 1]
            /\ Dropped(Upgrade0, k + 1) = {}
        BY <4>1, <4>2, <4>3
      <4> QED
        BY <2>2, <4>4
    <3>2. k + 1 \in Nat
      BY <2>2
    <3> QED
      BY <3>1, <3>2
  <2>3. G = Nat
    <3> HIDE DEF G
    <3>1. G \in SUBSET Nat
      BY DEF G
    <3> QED
      BY <2>1, <2>2, <3>1, NatSetInduction
  <2> QED
    BY <2>3
<1> QED
  <2> SUFFICES ASSUME NEW k \in 0 .. 11
               PROVE  /\ Upgrade0[k + 1].needs \subseteq Seen(Upgrade0, base, k)
                      /\ Upgrade0[k + 1].absent \cap Seen(Upgrade0, base, k) = {}
                      /\ (Upgrade0[k + 1].needs \cup Upgrade0[k + 1].absent)
                           \cap {Versions, "failed"} = {}
    BY Upgrade0Is DEF Runnable
  <2>1. Seen(Upgrade0, base, k) = base \cup Before[k + 1]
    BY <1>6 DEF Seen
  <2>2. Finds(k + 1)
    BY <1>3
  <2>3. (Tables \cup {Status, Rev1, Rev2}) \cap {Versions, "failed"} = {}
    BY <1>1 DEF Status, Rev1, Rev2, Versions
  <2> QED
    BY <2>1, <2>2, <2>3

LEMMA DowngradeRuns ==
    ASSUME NEW base, Tables \cup {Rev1} \subseteq base
    PROVE  Runnable(Downgrade1, base)
<1>1. Tables = {"ingestion_batches", "ix_ingestion_batches_id", "departments", "ix_departments_id",
                "jobs", "ix_jobs_id", "employees", "ix_employees_id"}
  BY ObjectsAre DEF Tables, Rev1, Rev2, Versions, Status
<1> SUFFICES ASSUME NEW k \in 0 .. 8
             PROVE  /\ Downgrade1[k + 1].needs \subseteq Seen(Downgrade1, base, k)
                    /\ Downgrade1[k + 1].absent \cap Seen(Downgrade1, base, k) = {}
                    /\ (Downgrade1[k + 1].needs \cup Downgrade1[k + 1].absent)
                         \cap {Versions, "failed"} = {}
  BY Downgrade1Is DEF Runnable
<1>2. k = 0 \/ k = 1 \/ k = 2 \/ k = 3 \/ k = 4 \/ k = 5 \/ k = 6 \/ k = 7 \/ k = 8
  OBVIOUS
<1>3. Added(Downgrade1, k) = {}
  BY Downgrade1Is DEF Added, Drop
<1>4. \A o : o \in Dropped(Downgrade1, k) <=> \E i \in 1 .. k : o \in Downgrade1[i].drops
  BY DEF Dropped
<1>5. \A i \in 1 .. k : Downgrade1[i].drops \cap Downgrade1[k + 1].needs = {}
  BY <1>2, Downgrade1Is DEF Drop, Stamp, Rev1
<1>6. \A o \in Downgrade1[k + 1].absent : \E i \in 1 .. k : o \in Downgrade1[i].drops
  BY <1>2, Downgrade1Is DEF Drop, Stamp
<1>7. /\ Downgrade1[k + 1].needs \subseteq Tables \cup {Rev1}
      /\ (Downgrade1[k + 1].needs \cup Downgrade1[k + 1].absent) \cap {Versions, "failed"} = {}
  BY <1>1, <1>2, Downgrade1Is DEF Drop, Stamp, Rev1, Versions
<1> QED
  BY <1>3, <1>4, <1>5, <1>6, <1>7 DEF Seen

\* The paths that a run which started from the schema as it is may be on.
PathsNow == {UpgradeFrom(schema \cap {Rev1, Rev2}), DowngradeFrom(schema \cap {Rev1, Rev2})}

LEMMA PathsNowRun ==
    ASSUME IInv, ~TypeLeftBehind, NEW P \in PathsNow
    PROVE  P \in Paths /\ Runnable(P, schema)
<1> DEFINE at == schema \cap {Rev1, Rev2}
<1>1. at \in SUBSET {Rev1, Rev2} /\ Rev1 # Rev2
  BY DEF Rev1, Rev2
<1>2. Runnable(<< >>, schema)
  BY DEF Runnable
<1>3. CASE at = {}
  <2>1. P = Upgrade0 \/ P = << >>
    BY <1>3, <1>1 DEF PathsNow, UpgradeFrom, DowngradeFrom, Upgrade0
  <2>2. schema \cap (Tables \cup {Status, Rev1, Rev2}) = {}
    BY <1>3 DEF IInv, SchemaMatchesVersion, TypeLeftBehind
  <2> QED
    BY <1>2, <2>1, <2>2, UpgradeRuns DEF Paths
<1>4. CASE at = {Rev1}
  <2>1. P = Upgrade1 \/ P = Downgrade1
    BY <1>4, <1>1 DEF PathsNow, UpgradeFrom, DowngradeFrom, Upgrade1, Downgrade1
  <2>2. Rev1 \in schema /\ Rev2 \notin schema /\ Tables \cup {Status} \subseteq schema
    BY <1>4, <1>1 DEF IInv, SchemaMatchesVersion
  <2>3. Runnable(Upgrade1, schema)
    <3> SUFFICES ASSUME NEW k \in 0 .. 1
                 PROVE  /\ Upgrade1[k + 1].needs \subseteq Seen(Upgrade1, schema, k)
                        /\ Upgrade1[k + 1].absent \cap Seen(Upgrade1, schema, k) = {}
                        /\ (Upgrade1[k + 1].needs \cup Upgrade1[k + 1].absent)
                             \cap {Versions, "failed"} = {}
      <4>1. Len(Upgrade1) = 2
        BY DEF Upgrade1
      <4> QED
        BY <4>1 DEF Runnable
    <3>1. CASE k = 0
      <4>1. Seen(Upgrade1, schema, 0) = schema
        BY DEF Seen, Added, Dropped
      <4> QED
        BY <2>2, <3>1, <4>1 DEF Upgrade1, AddFailed, Status, Versions
    <3>2. CASE k = 1
      <4>1. Seen(Upgrade1, schema, 1) = schema \cup {"failed"}
        <5>1. Added(Upgrade1, 1) = {"failed"} /\ Dropped(Upgrade1, 1) = {}
          BY DEF Added, Dropped, Upgrade1, AddFailed
        <5> QED
          BY <5>1 DEF Seen
      <4> QED
        BY <2>2, <3>2, <4>1 DEF Upgrade1, Stamp, Rev1, Rev2, Versions
    <3> QED
      BY <3>1, <3>2
  <2> QED
    BY <2>1, <2>2, <2>3, DowngradeRuns DEF Paths
<1>5. CASE at = {Rev2}
  <2>1. P = Downgrade2 \/ P = << >>
    BY <1>5, <1>1 DEF PathsNow, UpgradeFrom, DowngradeFrom, Downgrade2
  <2>2. Rev2 \in schema /\ Rev1 \notin schema
    BY <1>5, <1>1
  <2>3. Runnable(Downgrade2, schema)
    <3>1. Seen(Downgrade2, schema, 0) = schema
      BY DEF Seen, Added, Dropped
    <3> QED
      BY <2>2, <3>1 DEF Runnable, Downgrade2, Stamp, Rev1, Rev2, Versions
  <2> QED
    BY <1>2, <2>1, <2>3 DEF Paths
<1>6. at # {Rev1, Rev2}
  BY <1>1 DEF IInv, SchemaMatchesVersion
<1> QED
  BY <1>1, <1>3, <1>4, <1>5, <1>6

\* A run no other one has overtaken is on a path from the schema as it is; if it has to
\* create Alembic's own table, that is not there.
OnPathNow(r) ==
    \E P \in PathsNow : \E k \in 0 .. Len(P) :
      /\ At(r, P, k)
      /\ todo[r] = SubSeq(P, k + 1, Len(P)) \/ Versions \notin schema \cup added[r]

Undisturbed == \A r \in running \ overtaken : OnPathNow(r)

\* The steps that leave a run and the schema alone.
LEMMA OthersUndisturbed ==
    ASSUME NEW q, OnPathNow(q), schema' = schema,
           todo'[q] = todo[q], added'[q] = added[q], dropped'[q] = dropped[q]
    PROVE  OnPathNow(q)'
BY DEF OnPathNow, At, PathsNow

LEMMA PathsNowArePaths ==
    ASSUME NEW P \in PathsNow
    PROVE  P \in Paths
<1>1. \A at \in SUBSET {Rev1, Rev2} : UpgradeFrom(at) \in Paths /\ DowngradeFrom(at) \in Paths
  BY DEF UpgradeFrom, DowngradeFrom, Paths, Upgrade0, Upgrade1, Downgrade1, Downgrade2
<1>2. schema \cap {Rev1, Rev2} \in SUBSET {Rev1, Rev2}
  OBVIOUS
<1> QED
  BY <1>1, <1>2 DEF PathsNow

LEMMA UndisturbedInductive == IInv /\ Undisturbed /\ [Next]_vars => Undisturbed'
<1> SUFFICES ASSUME IInv, Undisturbed, [Next]_vars PROVE Undisturbed'
  OBVIOUS
<1>1. ASSUME NEW r \in Runners, Start(r) PROVE Undisturbed'
  <2>1. PICK P \in PathsNow :
          todo' = [todo EXCEPT ![r] = IF Versions \in schema THEN P
                                                             ELSE << Create(Versions, {}) >> \o P]
    BY <1>1 DEF Start, PathsNow
  <2>2. /\ \A q \in Runners \ {r} : todo'[q] = todo[q]
        /\ todo'[r] = IF Versions \in schema THEN P ELSE << Create(Versions, {}) >> \o P
        /\ UNCHANGED <<schema, added, dropped, overtaken>> /\ running' = running \cup {r}
        /\ added[r] = {} /\ dropped[r] = {}
    BY <1>1, <2>1 DEF Start, IInv, TypeOK
  <2>3. OnPathNow(r)'
    <3>1. P \in Seq(Statement) /\ Len(P) \in Nat
      BY PathsNowArePaths, PathsSound DEF Sound
    <3>2. SubSeq(P, 0 + 1, Len(P)) = P
      BY <3>1, SubSeqFull
    <3>3. Added(P, 0) = {} /\ Dropped(P, 0) = {}
      BY DEF Added, Dropped
    <3>4. /\ At(r, P, 0)'
          /\ todo'[r] = SubSeq(P, 0 + 1, Len(P)) \/ Versions \notin schema' \cup added'[r]
      BY <2>2, <3>2, <3>3 DEF At
    <3>5. PathsNow' = PathsNow
      BY <2>2 DEF PathsNow
    <3> QED
      BY <3>1, <3>4, <3>5 DEF OnPathNow
  <2>4. \A q \in running \ overtaken : q # r => OnPathNow(q)'
    BY <2>2, OthersUndisturbed DEF Undisturbed, IInv, TypeOK
  <2> QED
    BY <2>2, <2>3, <2>4 DEF Undisturbed
<1>2. ASSUME NEW r \in Runners, Execute(r) PROVE Undisturbed'
  <2>1. /\ \A q \in Runners \ {r} :
             todo'[q] = todo[q] /\ added'[q] = added[q] /\ dropped'[q] = dropped[q]
        /\ UNCHANGED <<schema, running, overtaken>>
    BY <1>2 DEF Execute, IInv
  <2>2. \A q \in running \ overtaken : q # r => OnPathNow(q)'
    BY <2>1, OthersUndisturbed DEF Undisturbed, IInv, TypeOK
  <2>3. ASSUME r \in running \ overtaken PROVE OnPathNow(r)'
    <3>1. PICK P \in PathsNow : \E k \in 0 .. Len(P) : At(r, P, k)
      BY <2>3 DEF Undisturbed, OnPathNow
    <3>2. PICK k \in 0 .. Len(P) : At(r, P, k)
      BY <3>1
    <3>3. \E n \in 0 .. Len(P) : At(r, P, n)' /\ todo'[r] = SubSeq(P, n + 1, Len(P))
      BY <1>2, <3>2, PathsNowArePaths, ExecuteMoves
    <3>4. PathsNow' = PathsNow
      BY <2>1 DEF PathsNow
    <3> QED
      BY <3>3, <3>4 DEF OnPathNow
  <2> QED
    BY <2>1, <2>2, <2>3 DEF Undisturbed
<1>3. ASSUME NEW r \in Runners, Over(r), schema' = schema,
             running' \ overtaken' \subseteq running \ overtaken
      PROVE  Undisturbed'
  <2>1. /\ \A q \in Runners \ {r} :
             todo'[q] = todo[q] /\ added'[q] = added[q] /\ dropped'[q] = dropped[q]
        /\ running' = running \ {r}
    BY <1>3 DEF Over, IInv
  <2>2. \A q \in running \ overtaken : q # r => OnPathNow(q)'
    BY <1>3, <2>1, OthersUndisturbed DEF Undisturbed, IInv, TypeOK
  <2> QED
    BY <1>3, <2>1, <2>2 DEF Undisturbed
<1>4. ASSUME NEW r \in Runners, Commit(r) PROVE Undisturbed'
  <2>1. CASE View(r) = schema
    BY <1>3, <1>4, <2>1 DEF Commit, Over
  <2>2. CASE View(r) # schema
    <3>1. running' \ overtaken' = {}
      BY <1>4, <2>2 DEF Commit, Over
    <3> QED
      BY <3>1 DEF Undisturbed
  <2> QED
    BY <2>1, <2>2
<1>5. ASSUME NEW r \in Runners, Raise(r) \/ Crash(r) PROVE Undisturbed'
  BY <1>3, <1>5 DEF Raise, Crash, Over
<1>6. CASE UNCHANGED vars
  BY <1>6, OthersUndisturbed DEF vars, Undisturbed
<1> QED
  BY <1>1, <1>2, <1>4, <1>5, <1>6 DEF Next, Run

\* Alone, every migration works: whatever the operators do, a statement is refused only
\* to a run during which another one changed the schema, or to the first upgrade after a
\* downgrade to nothing, which finds the type that was left.
THEOREM RefusalsHaveCause == Spec => RefusedOnlyIfOvertaken
<1>1. ASSUME IInv, Undisturbed, NEW r \in Runners, Raise(r)
      PROVE  r \in overtaken \/ TypeLeftBehind
  <2> SUFFICES ASSUME r \notin overtaken, ~TypeLeftBehind PROVE FALSE
    OBVIOUS
  <2>1. r \in running /\ todo[r] # << >> /\ Refused(r)
    BY <1>1 DEF Raise
  <2>2. PICK P \in PathsNow : \E k \in 0 .. Len(P) :
          /\ At(r, P, k)
          /\ todo[r] = SubSeq(P, k + 1, Len(P)) \/ Versions \notin schema \cup added[r]
    BY <1>1, <2>1 DEF Undisturbed, OnPathNow
  <2>3. PICK k \in 0 .. Len(P) :
          /\ At(r, P, k)
          /\ todo[r] = SubSeq(P, k + 1, Len(P)) \/ Versions \notin schema \cup added[r]
    BY <2>2
  <2>4. P \in Paths /\ Runnable(P, schema) /\ P \in Seq(Statement) /\ Len(P) \in Nat
    BY <1>1, PathsNowRun, PathsSound DEF Sound
  <2>5. CASE todo[r] = SubSeq(P, k + 1, Len(P))
    <3>1. k \in 0 .. Len(P) - 1
      BY <2>1, <2>4, <2>5, SubSeqEmpty
    <3>2. Head(todo[r]) = P[k + 1]
      BY <2>4, <2>5, <3>1, HeadTailOfSubSeq
    <3>3. View(r) \ {Versions, "failed"} = Seen(P, schema, k) \ {Versions, "failed"}
      BY <2>3, <2>4, PathTypes DEF At, View, Seen
    <3> QED
      BY <2>1, <2>4, <3>1, <3>2, <3>3 DEF Refused, Runnable
  <2>6. CASE todo[r] = << Create(Versions, {}) >> \o P /\ Versions \notin schema \cup added[r]
    <3>1. Create(Versions, {}) \in Statement
      BY ObjectsAre DEF Create, Statement, Versions
    <3>2. Head(todo[r]) = Create(Versions, {})
      BY <2>4, <2>6, <3>1
    <3> QED
      BY <2>1, <2>6, <3>2 DEF Refused, Create, View
  <2> QED
    BY <2>3, <2>5, <2>6 DEF At
<1>2. Init => Undisturbed
  BY DEF Init, Undisturbed
<1>3. IInv /\ Undisturbed => \A r \in Runners : Raise(r) => r \in overtaken \/ TypeLeftBehind
  BY <1>1
<1> QED
  BY InitIInv, Inductive, UndisturbedInductive, <1>2, <1>3, PTL
    DEF Spec, RefusedOnlyIfOvertaken

-----------------------------------------------------------------------------
(* Waiting.                                                                *)

\* It commits next, or its next statement waits for no other transaction.
GoesOn(r) == todo[r] = << >> \/ ~Locked(r)

\* Whatever locks the runs hold, one of them can go on.
NoStandstill == running # {} => \E r \in running : GoesOn(r)

\* Who changed an object of the revisions sees the type: it is there for everybody,
\* since no downgrade drops it, or the run itself has created it.
Rooted == \A r \in Runners : Changed(r) \subseteq {Versions} \/ Status \in schema \cup added[r]

\* The objects its next statement takes locks on.
Touched(r) == LET s == Head(todo[r]) IN s.needs \cup s.absent \cup s.adds

\* What keeps the first upgrade apart from the other paths.
LEMMA PathsRooted ==
    ASSUME NEW P \in Paths, NEW k \in 0 .. Len(P) - 1
    PROVE  /\ Status \notin P[k + 1].drops
           /\ Versions \notin P[k + 1].needs \cup P[k + 1].absent \cup P[k + 1].adds
           /\ \/ P = Upgrade0 /\ Status \in Added(P, k + 1)
              \/ P # Upgrade0 /\ P[k + 1].needs \cap (Tables \cup {Status, Rev1, Rev2}) # {}
<1>1. Tables = {"ingestion_batches", "ix_ingestion_batches_id", "departments", "ix_departments_id",
                "jobs", "ix_jobs_id", "employees", "ix_employees_id"}
  BY ObjectsAre DEF Tables, Rev1, Rev2, Versions, Status
<1>2. CASE P = Upgrade0
  <2>1. k + 1 \in 1 .. 12 /\ 1 \in 1 .. k + 1
    BY <1>2, Upgrade0Is
  <2>2. Status \in Upgrade0[1].adds
    BY Upgrade0Is DEF CreateTables, Create
  <2>3. Status \in Added(P, k + 1)
    BY <1>2, <2>1, <2>2 DEF Added
  <2>4. \A i \in 1 .. 12 :
          /\ Status \notin Upgrade0[i].drops
          /\ Versions \notin Upgrade0[i].needs \cup Upgrade0[i].absent \cup Upgrade0[i].adds
    BY Upgrade0Is DEF CreateTables, Create, Stamp, AddFailed, Status, Rev1, Rev2, Versions
  <2> QED
    BY <1>2, <2>1, <2>3, <2>4
<1>3. CASE P = Upgrade1
  <2>1. k = 0 \/ k = 1
    BY <1>3 DEF Upgrade1
  <2>2. Len(Upgrade1) = 2 /\ Len(Upgrade0) = 12
    BY Upgrade0Is DEF Upgrade1
  <2>3. P # Upgrade0
    BY <1>3, <2>2
  <2> QED
    BY <1>1, <1>3, <2>1, <2>3 DEF Upgrade1, AddFailed, Stamp, Status, Rev1, Rev2, Versions
<1>4. CASE P = Downgrade1
  <2>1. k = 0 \/ k = 1 \/ k = 2 \/ k = 3 \/ k = 4 \/ k = 5 \/ k = 6 \/ k = 7 \/ k = 8
    BY <1>4, Downgrade1Is
  <2>2. P # Upgrade0
    BY <1>4, Downgrade1Is, Upgrade0Is
  <2> QED
    BY <1>1, <1>4, <2>1, <2>2, Downgrade1Is DEF Drop, Stamp, Status, Rev1, Rev2, Versions
<1>5. CASE P = Downgrade2
  <2>1. k = 0 /\ P # Upgrade0
    <3>1. Len(Downgrade2) = 1
      BY DEF Downgrade2
    <3> QED
      BY <1>5, <3>1, Upgrade0Is
  <2> QED
    BY <1>1, <1>5, <2>1 DEF Downgrade2, Stamp, Status, Rev1, Rev2, Versions
<1>6. CASE P = << >>
  BY <1>6
<1> QED
  BY <1>2, <1>3, <1>4, <1>5, <1>6 DEF Paths

LEMMA TypeIsNotDropped ==
    ASSUME IInv, NEW r \in Runners
    PROVE  Status \notin dropped[r]
<1>1. CASE r \in running
  <2>1. PICK P \in Paths : \E k \in 0 .. Len(P) : At(r, P, k)
    BY <1>1 DEF IInv, OnPath
  <2>2. PICK k \in 0 .. Len(P) : At(r, P, k)
    BY <2>1
  <2>3. \A i \in 1 .. k : Status \notin P[i].drops
    <3> TAKE i \in 1 .. k
    <3>1. i - 1 \in 0 .. Len(P) - 1 /\ (i - 1) + 1 = i
      BY PathTypes
    <3>2. Status \notin P[(i - 1) + 1].drops
      BY <3>1, PathsRooted
    <3> QED
      BY <3>1, <3>2
  <2> QED
    BY <2>2, <2>3 DEF At, Dropped
<1>2. CASE r \notin running
  BY <1>2 DEF IInv, TypeOK
<1> QED
  BY <1>1, <1>2

LEMMA RootedInductive == IInv /\ Rooted /\ [Next]_vars => Rooted'
<1> SUFFICES ASSUME IInv, Rooted, [Next]_vars PROVE Rooted'
  OBVIOUS
<1>1. ASSUME NEW r \in Runners, Start(r) PROVE Rooted'
  BY <1>1 DEF Start, Rooted, Changed
<1>2. ASSUME NEW r \in Runners, Execute(r) PROVE Rooted'
  <2>1. PICK P \in Paths : \E k \in 0 .. Len(P) : At(r, P, k)
    BY <1>2 DEF Execute, IInv, OnPath
  <2>2. PICK k \in 0 .. Len(P) : At(r, P, k)
    BY <2>1
  <2> DEFINE s == Head(todo[r])
  <2>3. /\ \A q \in Runners \ {r} : added'[q] = added[q] /\ dropped'[q] = dropped[q]
        /\ added'[r] = (added[r] \ s.drops) \cup (s.adds \ View(r))
        /\ dropped'[r] = (dropped[r] \ s.adds) \cup s.drops
        /\ s.needs \subseteq View(r) /\ todo[r] # << >>
        /\ schema' = schema
    BY <1>2 DEF Execute, Refused, IInv
  <2>4. P \in Seq(Statement) /\ Len(P) \in Nat
    BY PathsSound DEF Sound
  <2>5. Changed(r)' \subseteq {Versions} \/ Status \in schema' \cup added'[r]
    <3>1. CASE k = 0 /\ todo[r] = << Create(Versions, {}) >> \o P
      <4>1. s = Create(Versions, {})
        <5>1. Create(Versions, {}) \in Statement
          BY ObjectsAre DEF Create, Statement, Versions
        <5> QED
          BY <2>4, <3>1, <5>1
      <4>2. s.drops = {} /\ s.adds = {Versions}
        BY <4>1 DEF Create
      <4>3. Changed(r)' \subseteq Changed(r) \cup {Versions} /\ added[r] \subseteq added'[r]
        BY <2>3, <4>2 DEF Changed
      <4> QED
        BY <2>3, <4>3 DEF Rooted
    <3>2. CASE todo[r] = SubSeq(P, k + 1, Len(P))
      <4>1. k \in 0 .. Len(P) - 1
        BY <2>3, <2>4, <3>2, SubSeqEmpty
      <4>2. s = P[k + 1]
        BY <2>4, <3>2, <4>1, HeadTailOfSubSeq
      <4>3. CASE P = Upgrade0 /\ Status \in Added(P, k + 1)
        <5>1. Status \in Added(P, k) \/ Status \in s.adds
          BY <4>1, <4>2, <4>3, OneMore, PathsSound
        <5>2. Status \notin Dropped(P, k) /\ Status \notin {Versions, "failed"}
          BY <2>2, TypeIsNotDropped DEF At, Status, Versions
        <5>3. Status \in Added(P, k) => Status \in added[r]
          BY <2>2, <5>2 DEF At
        <5> QED
          BY <2>2, <2>3, <4>1, <4>2, <5>1, <5>2, <5>3, PathsRooted, TypeIsNotDropped DEF View
      <4>4. CASE s.needs \cap (Tables \cup {Status, Rev1, Rev2}) # {}
        <5>1. PICK o \in s.needs : o \in Tables \cup {Status, Rev1, Rev2}
          BY <4>4
        <5>2. o # Versions
          BY <5>1 DEF Tables, Status, Rev1, Rev2, Versions
        <5>3. CASE o \in schema
          BY <2>3, <5>1, <5>3 DEF IInv, SchemaMatchesVersion
        <5>4. CASE o \in added[r]
          <6>1. Status \in schema \cup added[r]
            BY <5>2, <5>4 DEF Rooted, Changed
          <6> QED
            BY <2>3, <4>1, <4>2, <6>1, PathsRooted
        <5> QED
          BY <2>3, <5>1, <5>3, <5>4 DEF View
      <4> QED
        BY <4>1, <4>2, <4>3, <4>4, PathsRooted
    <3> QED
      BY <2>2, <3>1, <3>2 DEF At
  <2> QED
    BY <2>3, <2>5 DEF Rooted, Changed
<1>3. ASSUME NEW r \in Runners, Over(r), schema \ dropped[r] \subseteq schema'
      PROVE  Rooted'
  <2>1. /\ \A q \in Runners \ {r} : added'[q] = added[q] /\ dropped'[q] = dropped[q]
        /\ added'[r] = {} /\ dropped'[r] = {}
    BY <1>3 DEF Over, IInv
  <2>2. Status \in schema => Status \in schema'
    BY <1>3, TypeIsNotDropped
  <2> QED
    BY <2>1, <2>2 DEF Rooted, Changed
<1>4. ASSUME NEW r \in Runners, Commit(r) \/ Raise(r) \/ Crash(r) PROVE Rooted'
  BY <1>3, <1>4 DEF Commit, Raise, Crash, View
<1>5. CASE UNCHANGED vars
  BY <1>5 DEF vars, Rooted, Changed
<1> QED
  BY <1>1, <1>2, <1>4, <1>5 DEF Next, Run

\* Where a run can be that has a statement left.
Creating(r) == Status \in added[r] /\ Versions \notin Touched(r)
Waiting(r) == Changed(r) \subseteq {Versions}
Adding(r) == Changed(r) \subseteq {Versions, "failed"} /\ Touched(r) = {Rev1, Rev2}
Dropping(r) == /\ Changed(r) \subseteq Tables \cup {Versions}
               /\ "ix_employees_id" \in Changed(r)
               /\ Touched(r) \subseteq Tables \cup {Rev1}

LEMMA Somewhere ==
    ASSUME IInv, NEW r \in running, todo[r] # << >>
    PROVE  Creating(r) \/ Waiting(r) \/ Adding(r) \/ Dropping(r)
<1>1. PICK P \in Paths : \E k \in 0 .. Len(P) : At(r, P, k)
  BY DEF IInv, OnPath
<1>2. PICK k \in 0 .. Len(P) : At(r, P, k)
  BY <1>1
<1>3. P \in Seq(Statement) /\ Len(P) \in Nat
  BY PathsSound DEF Sound
<1>4. /\ added[r] \subseteq Added(P, k) \cup {Versions}
      /\ dropped[r] = Dropped(P, k)
  BY <1>2 DEF At
<1>5. CASE k = 0
  <2>1. Added(P, 0) = {} /\ Dropped(P, 0) = {}
    BY DEF Added, Dropped
  <2> QED
    BY <1>4, <1>5, <2>1 DEF Waiting, Changed
<1>6. CASE k # 0
  <2>1. todo[r] = SubSeq(P, k + 1, Len(P))
    BY <1>2, <1>6 DEF At
  <2>2. k \in 1 .. Len(P) - 1
    BY <1>3, <1>6, <2>1, SubSeqEmpty
  <2>3. Head(todo[r]) = P[k + 1]
    BY <1>3, <2>1, <2>2, HeadTailOfSubSeq
  <2>4. Touched(r) = P[k + 1].needs \cup P[k + 1].absent \cup P[k + 1].adds
    BY <2>3 DEF Touched
  <2>5. CASE P = Upgrade0
    <3>1. k - 1 \in 0 .. Len(P) - 1 /\ (k - 1) + 1 = k
      BY <2>2
    <3>2. Status \in Added(P, (k - 1) + 1)
      BY <2>5, <3>1, PathsRooted
    <3>3. Status \notin Dropped(P, k) /\ Status \notin {Versions, "failed"}
      BY <1>2, TypeIsNotDropped DEF At, IInv, TypeOK, Status, Versions
    <3>4. Status \in added[r]
      BY <1>2, <3>1, <3>2, <3>3 DEF At
    <3>5. k \in 0 .. Len(P) - 1
      BY <2>2
    <3>6. Versions \notin Touched(r)
      BY <2>4, <3>5, PathsRooted
    <3> QED
      BY <3>4, <3>6 DEF Creating
  <2>6. CASE P = Upgrade1
    <3>1. k = 1
      BY <2>2, <2>6 DEF Upgrade1
    <3>2. Added(P, 1) = {"failed"} /\ Dropped(P, 1) = {}
      BY <2>6 DEF Added, Dropped, Upgrade1, AddFailed
    <3>3. P[1 + 1] = Stamp({Rev1}, {Rev2})
      BY <2>6 DEF Upgrade1
    <3>4. Touched(r) = {Rev1, Rev2}
      BY <2>4, <3>1, <3>3 DEF Stamp
    <3> QED
      BY <1>4, <3>1, <3>2, <3>4 DEF Adding, Changed
  <2>7. CASE P = Downgrade1
    <3>1. Tables = {"ingestion_batches", "ix_ingestion_batches_id", "departments",
                    "ix_departments_id", "jobs", "ix_jobs_id", "employees", "ix_employees_id"}
      BY ObjectsAre DEF Tables, Rev1, Rev2, Versions, Status
    <3>2. k = 1 \/ k = 2 \/ k = 3 \/ k = 4 \/ k = 5 \/ k = 6 \/ k = 7 \/ k = 8
      BY <2>2, <2>7, Downgrade1Is
    <3>3. \A i \in 1 .. 8 : i = 1 \/ i = 2 \/ i = 3 \/ i = 4 \/ i = 5 \/ i = 6 \/ i = 7 \/ i = 8
      OBVIOUS
    <3>4. \A i \in 1 .. 8 : Downgrade1[i].adds = {} /\ Downgrade1[i].drops \subseteq Tables
      BY <3>1, <3>3, Downgrade1Is DEF Drop
    <3>5. Added(P, k) = {} /\ Dropped(P, k) \subseteq Tables
      <4>1. \A i \in 1 .. k : i \in 1 .. 8
        BY <3>2
      <4>2. \A i \in 1 .. k : P[i].adds = {} /\ P[i].drops \subseteq Tables
        BY <2>7, <3>4, <4>1
      <4> QED
        BY <4>2 DEF Added, Dropped
    <3>6. "ix_employees_id" \in Dropped(P, k)
      <4>1. "ix_employees_id" \in Downgrade1[1].drops
        BY Downgrade1Is DEF Drop
      <4>2. 1 \in 1 .. k
        BY <3>2
      <4> QED
        BY <2>7, <4>1, <4>2 DEF Dropped
    <3>7. Touched(r) \subseteq Tables \cup {Rev1}
      BY <2>4, <2>7, <3>1, <3>2, Downgrade1Is DEF Drop, Stamp
    <3> QED
      BY <1>4, <3>5, <3>6, <3>7 DEF Dropping, Changed
  <2>8. CASE P = Downgrade2 \/ P = << >>
    <3>1. Len(Downgrade2) = 1
      BY DEF Downgrade2
    <3>2. Len(<< >>) = 0
      OBVIOUS
    <3>3. Len(P) \in {0, 1}
      BY <2>8, <3>1, <3>2
    <3> QED
      BY <2>2, <3>3
  <2> QED
    BY <2>5, <2>6, <2>7, <2>8 DEF Paths
<1> QED
  BY <1>5, <1>6

LEMMA SomebodyGoesOn ==
    ASSUME IInv, Rooted, NEW r \in running
    PROVE  \E q \in running : GoesOn(q)
<1> SUFFICES ASSUME \A q \in running : todo[q] # << >> /\ Locked(q) PROVE FALSE
  BY DEF GoesOn
<1>1. \A q \in running : \E p \in Runners \ {q} : Touched(q) \cap Changed(p) # {}
  BY DEF Locked, Touched, Changed
<1>2. running \subseteq Runners /\ \A p \in Runners : Changed(p) # {} => p \in running
  BY DEF IInv, TypeOK, Changed
<1>3. \A p \in running : Creating(p) \/ Waiting(p) \/ Adding(p) \/ Dropping(p)
  BY Somewhere
<1>4. \A p, q \in Runners : p # q => Changed(p) \cap Changed(q) = {}
  BY DEF IInv, Exclusive
<1>5. /\ Versions \notin Tables \cup {Status, Rev1, Rev2, "failed"}
      /\ {Rev1, Rev2} \cap (Tables \cup {"failed"}) = {} /\ "failed" \notin Tables
  BY ObjectsAre DEF Tables, Status, Rev1, Rev2, Versions
\* Who creates the type is alone with the objects of the revisions.
<1>6. ASSUME NEW q \in running, Creating(q) PROVE FALSE
  <2>1. Status \notin schema /\ Status \in Changed(q)
    BY <1>2, <1>6 DEF Creating, IInv, NewToOthers, Changed
  <2>2. \A p \in Runners \ {q} : Changed(p) \subseteq {Versions}
    BY <1>2, <1>4, <2>1 DEF Rooted, Changed
  <2> QED
    BY <1>1, <1>6, <2>2 DEF Creating
\* Only one run drops tables, and nobody has changed a revision.
<1>7. ASSUME NEW q \in running, Dropping(q) PROVE FALSE
  <2>1. \A p \in Runners \ {q} : Changed(p) \subseteq {Versions, "failed"}
    BY <1>2, <1>3, <1>4, <1>6, <1>7 DEF Waiting, Adding, Dropping
  <2> QED
    BY <1>1, <1>5, <1>7, <2>1 DEF Dropping
<1>8. ASSUME NEW q \in running, Adding(q) PROVE FALSE
  <2>1. \A p \in Runners : Changed(p) \subseteq {Versions, "failed"}
    BY <1>2, <1>3, <1>6, <1>7 DEF Waiting, Adding
  <2> QED
    BY <1>1, <1>5, <1>8, <2>1 DEF Adding
\* All that is left to wait for is Alembic's own table, and who made it does not.
<1>9. \A p \in Runners : Changed(p) \subseteq {Versions}
  BY <1>2, <1>3, <1>6, <1>7, <1>8 DEF Waiting
<1>10. PICK q \in Runners \ {r} : Touched(r) \cap Changed(q) # {}
  BY <1>1
<1>11. q \in running /\ Versions \in Changed(q)
  BY <1>2, <1>9, <1>10
<1>12. PICK p \in Runners \ {q} : Touched(q) \cap Changed(p) # {}
  BY <1>1, <1>11
<1> QED
  BY <1>4, <1>9, <1>11, <1>12

\* No number of operators can wait for each other in a circle: while runs are under way,
\* one of them has nothing left but its commit, or a next statement that no open
\* transaction blocks.
THEOREM NobodyWaitsForEver == Spec => []NoStandstill
<1>1. Init => Rooted
  BY DEF Init, Rooted, Changed
<1>2. IInv /\ Rooted => NoStandstill
  BY SomebodyGoesOn DEF NoStandstill
<1> QED
  BY InitIInv, Inductive, RootedInductive, <1>1, <1>2, PTL DEF Spec

=============================================================================
