------------------------- MODULE MCEthereumManager -------------------------
(***************************************************************************)
(* One deposit, with enough blocks after it for a proof.                   *)
(***************************************************************************)
EXTENDS EthereumManager, TLC

CONSTANTS d1

MCBlockOf == d1 :> 2

MCKeyRank == d1 :> 1
=============================================================================
