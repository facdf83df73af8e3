---------------------------- MODULE AtomicUpload ----------------------------
(***************************************************************************)
(* What a departments or jobs upload promises: its batch and its rows      *)
(* reach the database in one step or not at all; which rows, the file and  *)
(* the table at that step determine; nothing is loaded once the client has *)
(* its answer, and a 200 tells exactly what was loaded.                    *)
(*                                                                         *)
(* SyncIngestion.tla implements this specification.                        *)
(***************************************************************************)
EXTENDS Naturals, Sequences, FiniteSets

CONSTANTS Uploads,     \* POST /ingest/departments (or jobs) requests
          Files        \* the CSV files a client may upload

VARIABLES content,     \* content[u]: the file of upload u
          batch,       \* ingestion_batches.status of u, "absent": no such row
          inserted,    \* rows of u's file in the table
          answer       \* what the client of u was told

uploadVars == <<content, batch, inserted, answer>>

NoAnswer == [code |-> 0, created |-> 0, errors |-> {}]

RowsOf(u) == DOMAIN content[u].rows
IdOf(u, i) == content[u].rows[i].id
Insertable(u) ==
    {i \in RowsOf(u) : content[u].rows[i].parses /\ content[u].rows[i].fits}
KeyHeld(id) == \E v \in Uploads : \E j \in inserted[v] : IdOf(v, j) = id

\* The first row of each key that is free: all that can be loaded together, and
\* what module HiringData takes an upload to insert.
Loadable(u) ==
    {i \in Insertable(u) :
       /\ ~KeyHeld(IdOf(u, i))
       /\ \A j \in Insertable(u) : IdOf(u, j) = IdOf(u, i) => i <= j}

UploadInit ==
    /\ content \in [Uploads -> Files]
    /\ batch = [u \in Uploads |-> "absent"]
    /\ inserted = [u \in Uploads |-> {}]
    /\ answer = [u \in Uploads |-> NoAnswer]

\* The batch appears completed, with every row that can be loaded.
Load(u) ==
    /\ answer[u] = NoAnswer
    /\ batch[u] = "absent"
    /\ Loadable(u) # {}
    /\ inserted' = [inserted EXCEPT ![u] = Loadable(u)]
    /\ batch' = [batch EXCEPT ![u] = "completed"]
    /\ UNCHANGED <<content, answer>>

\* 200: the rows in the table are counted, all the others are errors, and a row
\* that could have been loaded has its key held.
Accept(u) ==
    /\ answer[u] = NoAnswer
    /\ \A i \in Insertable(u) \ inserted[u] : KeyHeld(IdOf(u, i))
    /\ answer' = [answer EXCEPT ![u] =
                    [code |-> 200, created |-> Cardinality(inserted[u]),
                     errors |-> RowsOf(u) \ inserted[u]]]
    /\ UNCHANGED <<content, batch, inserted>>

\* Any other answer says nothing of rows. Only a file that was never opened for
\* loading is a client error.
Refuse(u, code) ==
    /\ answer[u] = NoAnswer
    /\ code = 422 => batch[u] = "absent"
    /\ answer' = [answer EXCEPT ![u] = [code |-> code, created |-> 0, errors |-> {}]]
    /\ UNCHANGED <<content, batch, inserted>>

UploadNext ==
    \E u \in Uploads :
      \/ Load(u)
      \/ Accept(u)
      \/ \E code \in {422, 500, 503} : Refuse(u, code)

UploadSpec == UploadInit /\ [][UploadNext]_uploadVars

=============================================================================
