--------------------------- MODULE MCDepositRelay ---------------------------
(***************************************************************************)
(* Two deposits, in a block below which confirmed ones follow and in the   *)
(* block after it; the later one comes first in the order of the keys.     *)
(***************************************************************************)
EXTENDS DepositRelay, TLC

CONSTANTS d1, d2

MCBlockOf == d1 :> 2 @@ d2 :> 3

MCSameBlock == d1 :> 2 @@ d2 :> 2

MCKeyRank == d1 :> 2 @@ d2 :> 1
=============================================================================
