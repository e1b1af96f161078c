-------------------------- MODULE MCBlockHandling --------------------------
(***************************************************************************)
(* Two accounts, pages of two, and blocks with none, with more than a page *)
(* and with exactly a page of transactions.                                *)
(***************************************************************************)
EXTENDS BlockHandling

CONSTANTS s1, s2

MCSenders == <<s1, s2>>

MCTxsOf == <<0, 3, 2, 0, 0>>

MCValsOf == <<2, 1, 3, 1, 1>>
=============================================================================
