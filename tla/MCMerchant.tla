------------------------------ MODULE MCMerchant ------------------------------
(***************************************************************************)
(* Merchant for TLC.                                                       *)
(***************************************************************************)
EXTENDS Merchant
=============================================================================
