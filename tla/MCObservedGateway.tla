-------------------------- MODULE MCObservedGateway --------------------------
(***************************************************************************)
(* ObservedGateway for TLC, with the same symmetry as Gateway.             *)
(***************************************************************************)
EXTENDS ObservedGateway, TLC

Symmetry ==
    Permutations(Links) \cup Permutations(Conn) \cup Permutations(Txn \ WithPin)
=============================================================================
