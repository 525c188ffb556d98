------------------------------ MODULE MCGateway ------------------------------
(***************************************************************************)
(* Gateway for TLC.  Handlers and connections are alike, and so are the    *)
(* transactions that carry no PIN block.                                   *)
(***************************************************************************)
EXTENDS Gateway, TLC

Symmetry ==
    Permutations(Links) \cup Permutations(Conn) \cup Permutations(Txn \ WithPin)
=============================================================================
