----------------------------- MODULE HiringData -----------------------------
(***************************************************************************)
(* The data of the service from one end to the other: files become records *)
(* and records become rows of departments, jobs and employees, chunk by    *)
(* chunk for employees, and the two metrics are SQL over these tables.     *)
(*                                                                         *)
(* Here an upload of departments or jobs is one step, and so is a chunk:   *)
(* SyncIngestion.tla and EmployeeIngestion.tla have the steps within, and  *)
(* what concurrent uploads and faults do to them.                          *)
(***************************************************************************)
EXTENDS Integers, Sequences, FiniteSets, Functions

CONSTANTS
    DepartmentFiles, JobFiles, EmployeeFiles,   \* files a client may upload
    Sizes,      \* values EMPLOYEE_CHUNK_SIZE may be set to
    MaxRows     \* batch_guard._MAX_ROWS, 1000

\* A "malformed" line does not parse, the values of a "refused" one do not fit
\* their columns. The other fields of a malformed line mean nothing.
Kinds == {"malformed", "refused", "good"}

NamedRow == [kind : Kinds, id : Int, name : STRING]
Hire == [year : Int, month : 1..12, department_id : Int, job_id : Int]
HiredRow == [kind : Kinds, id : Int, hire : Hire]

ASSUME FilesAssumption ==
    /\ DepartmentFiles \subseteq Seq(NamedRow)
    /\ JobFiles \subseteq Seq(NamedRow)
    /\ EmployeeFiles \subseteq Seq(HiredRow)
ASSUME SizesAssumption == Sizes \subseteq Int
ASSUME MaxRowsAssumption == MaxRows \in Nat

VARIABLES
    departments, jobs,  \* the names, by primary key
    employees,          \* the hires, by primary key
    size,               \* settings.EMPLOYEE_CHUNK_SIZE of this deployment
    status,             \* of the batch whose worker runs, or ran last
    lines,              \* its file
    todo,               \* the lines whose records no chunk had yet
    errors              \* the lines reported as errors

tables == <<departments, jobs, employees>>
batch == <<status, lines, todo, errors>>
vars == <<tables, size, batch>>

-----------------------------------------------------------------------------
(* Parsing, the guard and the INSERTs. Records are known by the line of   *)
(* the file they come from.                                                *)

\* The parsers: lines that do not convert are left out.
Records(file) == {i \in DOMAIN file : file[i].kind # "malformed"}

\* validate_batch.
Acceptable(file) == Cardinality(Records(file)) \in 1 .. MaxRows

\* Those that are inserted, in bulk or one by one, of the ones that can be:
\* the first of each key that the table does not have yet.
Winners(table, file, can) ==
    {i \in can : /\ file[i].id \notin DOMAIN table
                 /\ \A j \in can : file[j].id = file[i].id => i <= j}

Winner(table, file, can, k) == CHOOSE i \in Winners(table, file, can) : file[i].id = k

KeysAfter(table, file, can) ==
    DOMAIN table \cup {file[i].id : i \in Winners(table, file, can)}

Fitting(file) == {i \in DOMAIN file : file[i].kind = "good"}

\* Mutant: INSERT ... ON CONFLICT (id) DO UPDATE.
Upserted(table, file) ==
    [k \in KeysAfter(table, file, Fitting(file)) |->
       IF \E i \in Fitting(file) : file[i].id = k
         THEN file[Winner(<< >>, file, Fitting(file), k)].name ELSE table[k]]

\* departments or jobs after an upload.
Inserted(table, file) ==
    [k \in KeysAfter(table, file, Fitting(file)) |->
       IF k \in DOMAIN table THEN table[k]
                             ELSE file[Winner(table, file, Fitting(file), k)].name]

\* Mutant: employees.job_id has no foreign key.
DepartmentResolves(hire) == hire.department_id \in DOMAIN departments

\* The foreign keys of employees.
Resolves(hire) ==
    /\ hire.department_id \in DOMAIN departments
    /\ hire.job_id \in DOMAIN jobs

\* Of these lines, the ones whose hires the table takes if their key is free.
Hireable(chunk) == {i \in chunk \cap Fitting(lines) : Resolves(lines[i].hire)}

\* Mutant: INSERT ... ON CONFLICT (id) DO UPDATE.
Rehired(chunk) ==
    [k \in KeysAfter(employees, lines, Hireable(chunk)) |->
       IF \E i \in Hireable(chunk) : lines[i].id = k
         THEN lines[Winner(<< >>, lines, Hireable(chunk), k)].hire ELSE employees[k]]

\* employees after write_employees.
Hired(chunk) ==
    [k \in KeysAfter(employees, lines, Hireable(chunk)) |->
       IF k \in DOMAIN employees
         THEN employees[k]
         ELSE lines[Winner(employees, lines, Hireable(chunk), k)].hire]

\* The errors that write_employees returns.
Reported(chunk) == chunk \ Winners(employees, lines, Hireable(chunk))

-----------------------------------------------------------------------------
(* The metrics.                                                            *)

\* Mutant: the second quarter ends in July.
QuartersThatOverlap == <<1..3, 4..7, 7..9, 10..12>>

\* _QUARTERS, as the months BETWEEN whose first and last a quarter is.
Quarters == <<1..3, 4..6, 7..9, 10..12>>

\* FROM employees JOIN departments WHERE the year is 2021.
HiredIn2021 ==
    {e \in DOMAIN employees : /\ employees[e].year = 2021
                              /\ employees[e].department_id \in DOMAIN departments}

\* ... JOIN jobs.
HiredForJob == {e \in HiredIn2021 : employees[e].job_id \in DOMAIN jobs}

\* GROUP BY department, job: names, not ids.
GroupOf(e) == <<departments[employees[e].department_id], jobs[employees[e].job_id]>>

GroupIn(q, g) ==
    {e \in HiredForJob : employees[e].month \in Quarters[q] /\ GroupOf(e) = g}

HiresByQuarter ==
    [g \in {GroupOf(e) : e \in HiredForJob} |->
       [q \in DOMAIN Quarters |-> Cardinality(GroupIn(q, g))]]

\* Mutant: no WHERE.
HiresOfAnyYear(d) == {e \in DOMAIN employees : employees[e].department_id = d}

HiresOf(d) == {e \in HiredIn2021 : employees[e].department_id = d}

\* dept_hires: grouped by id.
DeptHires ==
    [d \in {employees[e].department_id : e \in HiredIn2021} |-> Cardinality(HiresOf(d))]

\* Mutant: the mean counts the departments that hired nobody.
AboveMeanOfAll(d) == DeptHires[d] * Cardinality(DOMAIN departments) > Cardinality(HiredIn2021)

\* mean_hires is over the departments of dept_hires.
AboveMean(d) == DeptHires[d] * Cardinality(DOMAIN DeptHires) > Cardinality(HiredIn2021)

DepartmentsAboveMean == {d \in DOMAIN DeptHires : AboveMean(d)}

-----------------------------------------------------------------------------

Init ==
    /\ departments = << >>
    /\ jobs = << >>
    /\ employees = << >>
    /\ size \in Sizes
    /\ status = "none"
    /\ lines = << >>
    /\ todo = {}
    /\ errors = {}

\* A file the guard refuses changes nothing.
IngestDepartments(file) ==
    /\ Acceptable(file)
    /\ departments' = Inserted(departments, file)
    /\ UNCHANGED <<jobs, employees, size, batch>>

IngestJobs(file) ==
    /\ Acceptable(file)
    /\ jobs' = Inserted(jobs, file)
    /\ UNCHANGED <<departments, employees, size, batch>>

\* The worker of an employees upload starts; one at a time here. No guard looks
\* at its records.
IngestEmployees(file) ==
    /\ status # "pending"
    /\ status' = "pending"
    /\ lines' = file
    /\ todo' = Records(file)
    /\ errors' = DOMAIN file \ Records(file)
    /\ UNCHANGED <<tables, size>>

\* range(0, len(items), 0) raises.
NoChunks ==
    /\ status = "pending"
    /\ size = 0
    /\ status' = "failed"
    /\ UNCHANGED <<tables, size, lines, todo, errors>>

\* The next n records.
First(n) == {i \in todo : Cardinality({j \in todo : j <= i}) <= n}

\* Mutant: items[i : i + size - 1]
ShortChunk == First(size - 1)

\* items[i : i + size]
Chunk == First(size)

HasChunk == status = "pending" /\ size > 0 /\ todo # {}

WriteChunk ==
    /\ HasChunk
    /\ employees' = Hired(Chunk)
    /\ errors' = errors \cup Reported(Chunk)
    /\ todo' = todo \ First(size)
    /\ UNCHANGED <<departments, jobs, size, status, lines>>

\* An OperationalError: in the bulk INSERT, or row by row after some were committed.
WriteFails ==
    /\ HasChunk
    /\ \E n \in 0 .. size - 1 :
         /\ n > 0 => Reported(Chunk) # {}
         /\ employees' = Hired(Chunk \cap First(n))
    /\ status' = "failed"
    /\ UNCHANGED <<departments, jobs, size, lines, todo, errors>>

\* The loop is over; of a negative size range makes no step at all.
Finalize ==
    /\ status = "pending"
    /\ size # 0
    /\ size > 0 => todo = {}
    /\ status' = "completed"
    /\ UNCHANGED <<tables, size, lines, todo, errors>>

Next ==
    \/ \E file \in DepartmentFiles : IngestDepartments(file)
    \/ \E file \in JobFiles : IngestJobs(file)
    \/ \E file \in EmployeeFiles : IngestEmployees(file)
    \/ NoChunks
    \/ WriteChunk
    \/ WriteFails
    \/ Finalize

Spec == Init /\ [][Next]_vars

-----------------------------------------------------------------------------
(* Properties.                                                             *)

\* Types, and the foreign keys of employees.
TypeOK ==
    /\ DOMAIN departments \subseteq Int
    /\ DOMAIN jobs \subseteq Int
    /\ DOMAIN employees \subseteq Int
    /\ \A e \in DOMAIN employees :
         /\ employees[e] \in Hire
         /\ employees[e].department_id \in DOMAIN departments
         /\ employees[e].job_id \in DOMAIN jobs
    /\ size \in Sizes
    /\ status \in {"none", "pending", "completed", "failed"}
    /\ lines \in Seq(HiredRow)
    /\ todo \subseteq DOMAIN lines
    /\ errors \subseteq DOMAIN lines

\* This line is the row of its key, or reported.
Accounted(i) ==
    \/ i \in errors
    \/ /\ lines[i].id \in DOMAIN employees
       /\ employees[lines[i].id] = lines[i].hire

\* When a batch is completed, each line of its file is the row of its key or is
\* reported, however the chunks cut the file. Only if EMPLOYEE_CHUNK_SIZE is negative
\* is it otherwise: then no record of any file is, and that without a word.
OnlyNegativeSizesLoseLines ==
    status = "completed" =>
      \A i \in DOMAIN lines : Accounted(i) <=> size >= 0 \/ i \notin Records(lines)

\* Over the year, of each line of hires-by-quarter.
HiresInYear == [g \in DOMAIN HiresByQuarter |-> SumFunction(HiresByQuarter[g])]

\* The quarters of the year add up: every hire of 2021 is in one line of
\* hires-by-quarter and in one of its quarters, and no other hire is.
EveryHireCountedOnce ==
    SumFunction(HiresInYear) = Cardinality({e \in DOMAIN employees : employees[e].year = 2021})

\* The hires of the lines of hires-by-quarter that have this name.
LinesOf(name) == SumFunctionOnSet(HiresInYear, {g \in DOMAIN HiresInYear : g[1] = name})

\* The hires of the departments that departments-above-mean counts and have this name.
HiresOfName(name) ==
    SumFunctionOnSet(DeptHires, {d \in DOMAIN DeptHires : departments[d] = name})

\* The two metrics agree: what hires-by-quarter has for the name of a department
\* over the year is what the mean counts for it and its namesakes, one line for each
\* of them there, one for all here.
MetricsAgree ==
    \A d \in DOMAIN departments : LinesOf(departments[d]) = HiresOfName(departments[d])

\* Nobody is above the mean exactly when all departments that hired did so
\* equally; those that hired nobody in 2021 do not count.
AboveMeanIsRelative ==
    DepartmentsAboveMean = {} <=> \A c, d \in DOMAIN DeptHires : DeptHires[c] = DeptHires[d]

\* Uploads of departments and jobs do not change what the metrics answer, which
\* is why they do not invalidate the cache.
ReferenceUploadsKeepMetrics ==
    [][employees' = employees =>
         /\ HiresByQuarter' = HiresByQuarter
         /\ DeptHires' = DeptHires
         /\ DepartmentsAboveMean' = DepartmentsAboveMean]_vars

\* No upload takes anything out of a line of hires-by-quarter: what a cache
\* holds may lag behind the tables, and never counts a hire they do not have.
CountsOnlyGrow ==
    [][\A g \in DOMAIN HiresByQuarter :
         /\ g \in DOMAIN HiresByQuarter'
         /\ \A q \in DOMAIN Quarters : HiresByQuarter[g][q] <= HiresByQuarter'[g][q]]_vars

=============================================================================
