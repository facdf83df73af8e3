------------------------ MODULE MCEmployeeIngestion ------------------------
(* Instances of EmployeeIngestion.tla for TLC. *)
EXTENDS EmployeeIngestion, TLC

CONSTANTS eng, hr    \* a department loaded beforehand, and one loaded later

good(id) == [id |-> id, refs |-> {eng}, valid |-> TRUE, crowded |-> FALSE]
late(id) == [id |-> id, refs |-> {hr}, valid |-> TRUE, crowded |-> FALSE]
torn(id) == [id |-> id, refs |-> {}, valid |-> FALSE, crowded |-> FALSE]
slow(id) == [good(id) EXCEPT !.crowded = TRUE]
csv(rows) == [text |-> TRUE, rows |-> rows]

MCIds == 1..3
MCRefs == {eng, hr}
MCInitialRefs == {eng}

\* A file of two chunks that repeats an id across them, and one whose chunk mixes
\* an unparsable row, a row with a reference that may be missing and a good row.
\* They compete for ids 1 and 2 in opposite orders.
MCFiles == { csv(<<slow(2), good(1), good(1)>>),
             csv(<<torn(3), late(1), good(2)>>) }

\* For the deadlock: files that clash in opposite orders, and one that is not text.
CrossingFiles == { csv(<<good(1), good(2)>>), csv(<<good(2), good(1)>>),
                   [text |-> FALSE, rows |-> <<torn(1)>>] }

\* One worker, files long enough for three chunks.
LongFiles == { csv(<<good(1), good(2), good(3), good(1), late(2)>>),
               csv(<<torn(1), late(1), good(2), torn(3), slow(3)>>),
               csv(<<>>) }

Symmetry == Permutations(Batches)

\* The uploads and their workers alone.  The worker reads neither the status nor
\* the age of its batch, so polls cannot hold it up.
UploadsNext ==
    \/ \E b \in Batches : Request(b) \/ WorkerStep(b) \/ WorkerFault(b)
    \/ Crash

UploadsFairSpec ==
    /\ Init
    /\ [][UploadsNext]_vars
    /\ \A b \in Batches : WF_vars(WorkerStep(b))
    /\ WF_vars(\E b \in Batches : DeadlockVictim(b))

=============================================================================
