---------------------------- MODULE BatchLedger ----------------------------
(***************************************************************************)
(* What the employees upload promises, with nothing of how it is done: a   *)
(* ledger of batches, each with a file, a status, the rows of its file     *)
(* that reached the employees table and the rows reported as errors.       *)
(*                                                                         *)
(* Processes, transactions, chunks, polls and crashes do not exist here.   *)
(* EmployeeIngestion.tla implements this specification.                    *)
(***************************************************************************)
EXTENDS Naturals, Sequences, FiniteSets

CONSTANTS Batches,     \* batch ids (one per POST /ingest/employees)
          Files        \* the CSV files a client may upload

VARIABLES content,     \* content[b]: the file behind batch b
          status,      \* ingestion_batches.status, "absent" before the INSERT
          errors,      \* ingestion_batches.errors, as indices of rows
          inserted     \* rows of b's file committed to the employees table

ledgerVars == <<content, status, errors, inserted>>

RowsOf(b) == DOMAIN content[b].rows
IdOf(b, i) == content[b].rows[i].id

LedgerInit ==
    /\ content \in [Batches -> Files]
    /\ status = [b \in Batches |-> "absent"]
    /\ errors = [b \in Batches |-> {}]
    /\ inserted = [b \in Batches |-> {}]

\* A batch is opened once, as pending.
Open(b) ==
    /\ status[b] = "absent"
    /\ status' = [status EXCEPT ![b] = "pending"]
    /\ UNCHANGED <<content, errors, inserted>>

\* New rows reach the table together. They parsed, and their primary keys are
\* free and distinct. A completed batch takes no more rows.
Load(b) ==
    /\ status[b] \in {"pending", "failed"}
    /\ \E S \in SUBSET (RowsOf(b) \ inserted[b]) :
         /\ \A i \in S : content[b].rows[i].valid
         /\ \A i, j \in S : IdOf(b, i) = IdOf(b, j) => i = j
         /\ \A i \in S, c \in Batches :
              \A j \in inserted[c] : IdOf(c, j) # IdOf(b, i)
         /\ inserted' = [inserted EXCEPT ![b] = @ \cup S]
    /\ UNCHANGED <<content, status, errors>>

\* Completion accounts for the whole file: every row that is not in the table
\* is in the error list.
Complete(b) ==
    /\ status[b] \in {"pending", "failed"}
    /\ status' = [status EXCEPT ![b] = "completed"]
    /\ errors' = [errors EXCEPT ![b] = RowsOf(b) \ inserted[b]]
    /\ UNCHANGED <<content, inserted>>

\* A batch that exists may be declared failed, which forgets its error list.
Fail(b) ==
    /\ status[b] # "absent"
    /\ status' = [status EXCEPT ![b] = "failed"]
    /\ errors' = [errors EXCEPT ![b] = {}]
    /\ UNCHANGED <<content, inserted>>

LedgerNext == \E b \in Batches : Open(b) \/ Load(b) \/ Complete(b) \/ Fail(b)

LedgerSpec == LedgerInit /\ [][LedgerNext]_ledgerVars

=============================================================================
