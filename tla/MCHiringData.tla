---------------------------- MODULE MCHiringData ----------------------------
(* Small files for TLC: names shared by two departments, duplicate keys,    *)
(* hires before and in 2021 and on both sides of a quarter's end.           *)
EXTENDS HiringData

Named(id, name) == [id |-> id, name |-> name, kind |-> "good"]

HiredAs(id, year, month, department_id, job_id) ==
    [id |-> id, kind |-> "good",
     hire |-> [year |-> year, month |-> month,
               department_id |-> department_id, job_id |-> job_id]]

Malformed(row) == [row EXCEPT !.kind = "malformed"]
Refused(row) == [row EXCEPT !.kind = "refused"]

\* The second file changes a name and has three lines of which two parse; the
\* third is refused as a whole, with three records.
MCDepartmentFiles ==
    { <<Named(1, "Sales")>>,
      <<Named(1, "Support"), Malformed(Named(2, "Sales")), Named(2, "Sales")>>,
      <<Named(3, "Legal"), Named(4, "Legal"), Named(5, "Legal")>>,
      <<Refused(Named(3, "Sales")), Named(3, "Sales")>> }

MCJobFiles == { <<Named(1, "Nurse")>>, <<Named(2, "Clerk"), Named(2, "Nurse")>> }

MCEmployeeFiles ==
    { <<Malformed(HiredAs(1, 2021, 3, 1, 1))>>,
      <<HiredAs(1, 2021, 3, 1, 1), HiredAs(2, 2020, 12, 1, 2), HiredAs(1, 2021, 4, 2, 1)>>,
      <<HiredAs(1, 2021, 7, 2, 2), Malformed(HiredAs(3, 2021, 1, 1, 1)),
        HiredAs(3, 2021, 6, 2, 1), Refused(HiredAs(4, 2021, 8, 1, 1)),
        HiredAs(4, 2021, 10, 3, 2)>> }

MCSizes == {-1, 0, 1, 2, 3, 9}

=============================================================================
