--------------------------- MODULE MCConnectionPool ---------------------------
(***************************************************************************)
(* ConnectionPool for TLC.  The callers and the connections are alike, so  *)
(* the safety run may permute them; the run with liveness does not.        *)
(***************************************************************************)
EXTENDS ConnectionPool, TLC

Symmetry == Permutations(Callers) \cup Permutations(Conn)
=============================================================================
