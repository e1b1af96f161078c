--------------------------- MODULE NonceAllocator ---------------------------
(***************************************************************************)
(* What a nonce manager promises to those who send with its nonces: a      *)
(* nonce has one holder, the smallest one that was given back is handed    *)
(* out first, and only when there is none a new one, so that no nonce that *)
(* was given back is passed over.  NonceManager (tools/nouncmanager.go) is *)
(* shown to implement it in EthSend.                                       *)
(***************************************************************************)
EXTENDS Integers

CONSTANTS
  MaxNonce,   \* bound: the nonces are 0..MaxNonce
  Unknown     \* not a nonce: none was asked for yet

VARIABLES
  next,   \* the next new nonce
  free,   \* the nonces that were given back
  held    \* the nonces somebody has

allocVars == <<next, free, held>>

AllocInit == next = Unknown /\ free = {} /\ held = {}

(***************************************************************************)
(* The first nonce is that of the account, whatever it is.                 *)
(***************************************************************************)
AllocateFirst ==
  /\ next = Unknown
  /\ \E n \in 0..MaxNonce - 1 : next' = n + 1 /\ held' = {n}
  /\ UNCHANGED free

AllocateNew ==
  /\ next \in 0..MaxNonce - 1 /\ free = {}
  /\ next' = next + 1 /\ held' = held \cup {next}
  /\ UNCHANGED free

AllocateFreed ==
  /\ \E n \in free :
       /\ \A k \in free : n <= k
       /\ n \notin held
       /\ free' = free \ {n} /\ held' = held \cup {n}
  /\ UNCHANGED next

Release ==
  /\ \E n \in held \ free : free' = free \cup {n} /\ held' = held \ {n}
  /\ UNCHANGED next

Retire ==
  /\ \E n \in held : held' = held \ {n}
  /\ UNCHANGED <<next, free>>

Forget == next' = Unknown /\ free' = {} /\ held' = {}

AllocNext ==
  AllocateFirst \/ AllocateNew \/ AllocateFreed \/ Release \/ Retire \/ Forget

AllocSpec == AllocInit /\ [][AllocNext]_allocVars
=============================================================================
