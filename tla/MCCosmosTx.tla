----------------------------- MODULE MCCosmosTx -----------------------------
(***************************************************************************)
(* The two goroutines that send transactions.                              *)
(***************************************************************************)
EXTENDS CosmosTx

CONSTANTS header, proof
=============================================================================
