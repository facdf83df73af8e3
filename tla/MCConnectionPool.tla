-------------------------- MODULE MCConnectionPool --------------------------
(* Three tasks of one process, with fewer connections and threads than it  *)
(* takes to serve them all.                                                *)
EXTENDS ConnectionPool

CONSTANTS t1, t2, t3
=============================================================================
