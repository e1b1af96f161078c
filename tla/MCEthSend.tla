----------------------------- MODULE MCEthSend -----------------------------
(***************************************************************************)
(* An account with two routes.                                             *)
(***************************************************************************)
EXTENDS EthSend

CONSTANTS r1, r2, monitor
=============================================================================
