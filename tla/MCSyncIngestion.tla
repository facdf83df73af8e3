-------------------------- MODULE MCSyncIngestion --------------------------
(* Instances of SyncIngestion.tla for TLC. *)
EXTENDS SyncIngestion, TLC

row(id) == [id |-> id, parses |-> TRUE, fits |-> TRUE]
torn(id) == [id |-> id, parses |-> FALSE, fits |-> TRUE]
huge(id) == [id |-> id, parses |-> TRUE, fits |-> FALSE]
csv(rows) == [text |-> TRUE, rows |-> rows]

MCIds == 1..3
MCMaxRows == 3

\* Files that clash with each other in opposite orders, repeat a key, hold values
\* that cannot be stored, and whose rows are all bad; one is refused for each
\* reason there is.
PairFiles ==
           { csv(<<row(1), row(2)>>),
             csv(<<row(2), torn(3), row(1), row(2)>>),
             csv(<<huge(3), row(2)>>),
             csv(<<huge(1)>>),
             csv(<<torn(1)>>),
             csv(<<row(1), row(2), row(3), row(3)>>),
             [text |-> FALSE, rows |-> <<torn(1)>>] }

\* Two uploads of any of these files, or three that wait for each other in a ring no
\* two of them make; the third is refused when there are two.
CONSTANTS u1, u2, u3
MCUploads == {u1, u2, u3}
Refused == [text |-> FALSE, rows |-> <<torn(1)>>]
Ring == (u1 :> csv(<<row(1), row(2)>>)) @@ (u2 :> csv(<<row(2), row(3)>>))
          @@ (u3 :> csv(<<row(3), row(1)>>))
MCFiles == PairFiles \cup {Ring[u] : u \in MCUploads}

ScenarioInit ==
    /\ Init
    /\ \/ content = Ring
       \/ content[u3] = Refused /\ {content[u1], content[u2]} \subseteq PairFiles

ScenarioSpec == ScenarioInit /\ [][Next]_vars /\ Fairness

=============================================================================
