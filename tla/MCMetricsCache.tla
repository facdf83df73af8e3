--------------------------- MODULE MCMetricsCache ---------------------------
(* Instances of MetricsCache.tla for TLC. *)
EXTENDS MetricsCache

=============================================================================
