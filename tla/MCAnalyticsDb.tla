---------------------------- MODULE MCAnalyticsDb ----------------------------
(* Instances of AnalyticsDb.tla for TLC. *)
EXTENDS AnalyticsDb, TLC

\* Each reader keeps asking for a metric of its own.
CONSTANTS r1, r2, hires, above
MetricOf == (r1 :> hires) @@ (r2 :> above)
KeepsAsking == \A r \in Readers : asked'[r] \in {None, MetricOf[r]}

TwoMetricsSpec ==
    /\ Init
    /\ [][Next /\ KeepsAsking]_vars
    /\ Fairness

=============================================================================
