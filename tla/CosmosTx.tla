------------------------------ MODULE CosmosTx ------------------------------
(***************************************************************************)
(* Sequence numbers.  Every transaction EthereumManager sends to the       *)
(* bridge chain takes the next number of CMSeq and is broadcast until the  *)
(* bridge node has it (sendCosmosTx, manager/ethereumManager.go).  Two     *)
(* goroutines do so at the same time, one with headers, one with proofs.   *)
(*                                                                         *)
(* What the node answers is all that is modelled of the bridge chain: it   *)
(* takes the number after those it has seen and knows a transaction it     *)
(* has taken already.                                                      *)
(***************************************************************************)
EXTENDS Integers, FiniteSets

CONSTANTS
  Thread,    \* the goroutines that send transactions
  Prover,    \* those among them that do not survive an error
  First,     \* the sequence number of the account at the start
  MaxSeq,    \* bound: sequence numbers below it are used
  Faults,    \* the external failures that may happen
  MaxCrash   \* bound: how often the process may crash

FaultKinds ==
  {"refuse",  \* the node refuses a transaction, whatever its number
   "timeout", \* the connection times out, before or after the node had it
   "forget"   \* the node loses its mempool
  }

ASSUME TxAssumption ==
  /\ Prover \subseteq Thread
  /\ First \in Nat /\ MaxSeq \in Nat /\ First <= MaxSeq
  /\ Faults \subseteq FaultKinds
  /\ MaxCrash \in Nat

VARIABLES
  committed,  \* the account's sequence number in the last block
  expected,   \* the number the node takes next
  up,         \* the relayer's process is running
  crashes,    \* how often it has crashed
  val,        \* CosmosSeq.val
  sending,    \* the goroutines that are broadcasting
  seq,        \* per goroutine: the number of its transaction
  taken,      \* of these goroutines, those whose transaction the node took
  lost        \* history: a number given out or pending at a restart is lost

node  == <<committed, expected>>
proc  == <<up, crashes>>
local == <<val, sending, seq, taken>>
vars  == <<node, proc, local, lost>>

TypeOK ==
  /\ committed \in First..MaxSeq
  /\ expected \in First..MaxSeq
  /\ committed <= expected
  /\ up \in BOOLEAN
  /\ crashes \in 0..MaxCrash
  /\ val \in First..MaxSeq
  /\ sending \subseteq Thread
  /\ seq \in [Thread -> 0..MaxSeq]
  /\ taken \subseteq sending
  /\ lost \in BOOLEAN

Init ==
  /\ committed = First /\ expected = First
  /\ up = TRUE /\ crashes = 0
  /\ val = First
  /\ sending = {} /\ seq = [t \in Thread |-> 0] /\ taken = {}
  /\ lost = FALSE

-----------------------------------------------------------------------------
\* A wrong variant: without the lock an increment may be lost.
GetAndAddUnlocked(t) ==
  /\ seq' = [seq EXCEPT ![t] = val]
  /\ val' \in {val, val + 1}

\* A wrong variant: the value is read after the increment.
AddAndGet(t) ==
  /\ seq' = [seq EXCEPT ![t] = val + 1]
  /\ val' = val + 1

(***************************************************************************)
(* Taking a number: CosmosSeq.GetAndAdd, under its lock.                   *)
(***************************************************************************)
GetAndAdd(t) ==
  /\ seq' = [seq EXCEPT ![t] = val]
  /\ val' = val + 1

SendCosmosTx(t) ==
  /\ up /\ t \notin sending
  /\ val < MaxSeq
  /\ GetAndAdd(t)
  /\ sending' = sending \cup {t}
  /\ UNCHANGED <<node, proc, taken, lost>>

Return(t) ==
  /\ sending' = sending \ {t}
  /\ taken' = taken \ {t}
  /\ seq' = [seq EXCEPT ![t] = 0]

(***************************************************************************)
(* The node takes the transaction; the goroutine learns so, or else its    *)
(* connection times out and it broadcasts the transaction again.           *)
(***************************************************************************)
Accepted(t) ==
  /\ up /\ t \in sending \ taken
  /\ seq[t] = expected
  /\ expected' = expected + 1
  /\ \/ Return(t)
     \/ /\ "timeout" \in Faults
        /\ taken' = taken \cup {t}
        /\ UNCHANGED <<sending, seq>>
  /\ UNCHANGED <<committed, proc, val, lost>>

(***************************************************************************)
(* A number out of turn, and a connection that times out before the node   *)
(* has the transaction: the same transaction is broadcast again.           *)
(***************************************************************************)
BroadcastAgain(t) ==
  /\ up /\ t \in sending \ taken
  /\ seq[t] # expected \/ "timeout" \in Faults
  /\ UNCHANGED vars

(***************************************************************************)
(* Any other answer is an error, for a refused transaction and for one the *)
(* node has in its mempool already.  The number is not given back.         *)
(***************************************************************************)
Die ==
  /\ up' = FALSE
  /\ sending' = {} /\ taken' = {} /\ seq' = [t \in Thread |-> 0]
  /\ UNCHANGED <<node, val>>

Failed(t) ==
  /\ IF t \in Prover
     THEN Die
     ELSE Return(t) /\ UNCHANGED <<node, val, up>>
  /\ UNCHANGED crashes

Refused(t) ==
  /\ "refuse" \in Faults
  /\ up /\ t \in sending \ taken
  /\ Failed(t)
  /\ lost' = TRUE

TakenAlready(t) ==
  /\ up /\ t \in taken
  /\ Failed(t)
  /\ UNCHANGED lost

Crash ==
  /\ up /\ crashes < MaxCrash
  /\ crashes' = crashes + 1
  /\ Die
  /\ UNCHANGED lost

\* A wrong variant: the account's number is taken for the last one used.
RestartBehind ==
  /\ ~up
  /\ up' = TRUE
  /\ val' = committed + 1
  /\ lost' = (committed < expected)
  /\ UNCHANGED <<node, crashes, sending, seq, taken>>

(***************************************************************************)
(* NewEthereumManager asks for the account as it is in the last block.     *)
(***************************************************************************)
Restart ==
  /\ ~up
  /\ up' = TRUE
  /\ val' = committed
  /\ lost' = (committed < expected)
  /\ UNCHANGED <<node, crashes, sending, seq, taken>>

-----------------------------------------------------------------------------
BridgeBlock ==
  /\ committed < expected
  /\ committed' = committed + 1
  /\ UNCHANGED <<expected, proc, local, lost>>

ForgetMempool ==
  /\ "forget" \in Faults
  /\ committed < expected
  /\ expected' = committed
  /\ lost' = TRUE
  /\ UNCHANGED <<committed, proc, local>>

Goroutine(t) ==
  \/ SendCosmosTx(t)
  \/ Accepted(t) \/ BroadcastAgain(t) \/ Refused(t) \/ TakenAlready(t)

(***************************************************************************)
(* The goroutines go on for ever when they have nothing to send.           *)
(***************************************************************************)
NothingToSend ==
  /\ up /\ sending = {}
  /\ UNCHANGED vars

Next ==
  \/ \E t \in Thread : Goroutine(t)
  \/ NothingToSend
  \/ Crash \/ Restart
  \/ BridgeBlock \/ ForgetMempool

Spec == Init /\ [][Next]_vars

(***************************************************************************)
(* A goroutine that keeps broadcasting gets an answer when the node has    *)
(* one: a transaction whose turn it is is taken in the end.  It need not   *)
(* have anything to send, and nothing needs to be refused.                 *)
(***************************************************************************)
Fairness ==
  /\ \A t \in Thread : WF_vars(Accepted(t) \/ TakenAlready(t))
  /\ WF_vars(Restart)
  /\ WF_vars(BridgeBlock)

FairSpec == Spec /\ Fairness

-----------------------------------------------------------------------------
(***************************************************************************)
(* Two goroutines that send at the same time have different numbers, below *)
(* the next one to be given out.                                           *)
(***************************************************************************)
UniqueSeq ==
  \A t \in sending :
    /\ seq[t] < val
    /\ \A u \in sending : seq[u] = seq[t] => u = t

(***************************************************************************)
(* Nobody waits in vain: every number that was given out and that the node *)
(* does not know yet is being sent by some goroutine, also after time-outs *)
(* and after a restart, unless a number was lost: a transaction refused,   *)
(* the mempool lost, or transactions pending at the restart.               *)
(***************************************************************************)
NoGap ==
  up /\ ~lost =>
    /\ expected <= val
    /\ \A n \in expected..val - 1 : \E t \in sending \ taken : seq[t] = n

(***************************************************************************)
(* A goroutine that sends a transaction gets an answer in the end, unless  *)
(* a number was lost.                                                      *)
(***************************************************************************)
SendsEnd == \A t \in Thread : t \in sending ~> t \notin sending \/ lost
=============================================================================
