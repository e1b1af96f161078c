---------------------------- MODULE BridgeRelay ----------------------------
(***************************************************************************)
(* The way back: BridgeManager.MonitorChain hands the blocks of the bridge *)
(* chain, one after the other, to handleDepositTxs, which sends each       *)
(* header to Ethereum and waits for it (manager/bridgeManager.go, with     *)
(* tools/nouncmanager.go and the Height bucket of db/db.go).               *)
(*                                                                         *)
(* Heights are unsigned words that wrap; the height in the database is a   *)
(* narrower one.  The transactions of a block are looked up but not sent.  *)
(***************************************************************************)
EXTENDS Integers, FiniteSets

CONSTANTS
  Sender,      \* the accounts of the key store
  MaxBridge,   \* bound: the last height of the bridge chain
  FirstHeight, \* the height of the bridge chain at the start
  Epoch,       \* CurEpochStartHeight of the Ethereum contract
  StartFlag,   \* the height the manager is constructed with
  Word,        \* the number of values of a uint64
  Word32,      \* the number of values of a uint32
  Faults,      \* the external failures that may happen
  MaxCrash,    \* bound: how often the process may crash
  MaxNonce     \* bound: nonces from here on are not told apart, nor used

FaultKinds ==
  {"rpc",    \* a query to the bridge node or the Ethereum node fails
   "epoch",  \* the query for CurEpochStartHeight fails
   "pack",   \* the arguments cannot be packed for the contract
   "nonce",  \* the query for the pending nonce fails
   "send",   \* a transaction is not taken by the Ethereum node
   "revert", \* a transaction fails when it is executed
   "db"      \* the height is not written to the database
  }

ASSUME BridgeAssumption ==
  /\ MaxBridge \in Nat /\ FirstHeight \in 1..MaxBridge
  /\ Epoch \in Nat /\ StartFlag \in Nat
  /\ Word \in Nat /\ Word32 \in Nat
  /\ MaxBridge + 1 < Word32 /\ Word32 <= Word
  /\ Epoch < Word32 /\ StartFlag < Word
  /\ Faults \subseteq FaultKinds
  /\ MaxCrash \in Nat /\ MaxNonce \in Nat

VARIABLES
  bridgeHeight,  \* height of the bridge chain
  bridgeHeightDB,\* the "bridge_height" entry of the Height bucket
  ethNonce,      \* per sender: the nonce Ethereum executes next
  pool,          \* per sender: set of <<nonce, header>> sent and not executed
  up,            \* the relayer's process is running
  crashes,       \* how often it has crashed
  pc,            \* where MonitorChain is
  currentHeight, \* BridgeManager.currentHeight
  latestheight,  \* the bridge height read by this tick, less one
  sender,        \* the sender chosen for this header
  nonce,         \* the nonce it got
  addressNonce,  \* per sender: NonceManager.addressNonce, Unknown at first
  handled,       \* history: heights handleDepositTxs returned true for
  relayed        \* history: headers executed by Ethereum with success

chains == <<bridgeHeight, bridgeHeightDB, ethNonce, pool>>
proc   == <<up, crashes>>
local  == <<pc, currentHeight, latestheight, sender, nonce, addressNonce>>
vars   == <<chains, proc, local, handled, relayed>>

NoSender == "none"

Unknown == -1

Minus(a, b) == (a - b) % Word

TypeOK ==
  /\ bridgeHeight \in FirstHeight..MaxBridge
  /\ bridgeHeightDB \in 0..Word32 - 1
  /\ ethNonce \in [Sender -> 0..MaxNonce]
  /\ pool \in [Sender -> SUBSET ((0..MaxNonce) \X (1..MaxBridge))]
  /\ up \in BOOLEAN
  /\ crashes \in 0..MaxCrash
  /\ pc \in {"init", "idle", "loop", "prepare", "nonce", "send", "confirm",
             "save"}
  /\ currentHeight \in 0..Word - 1
  /\ latestheight \in 0..Word - 1
  /\ sender \in Sender \cup {NoSender}
  /\ nonce \in 0..MaxNonce
  /\ addressNonce \in [Sender -> {Unknown} \cup 0..MaxNonce]
  /\ handled \subseteq 1..MaxBridge
  /\ relayed \subseteq 1..MaxBridge

Init ==
  /\ bridgeHeight = FirstHeight /\ bridgeHeightDB = 0
  /\ ethNonce = [s \in Sender |-> 0] /\ pool = [s \in Sender |-> {}]
  /\ up = TRUE /\ crashes = 0
  /\ pc = "init" /\ currentHeight = StartFlag /\ latestheight = 0
  /\ sender = NoSender /\ nonce = 0
  /\ addressNonce = [s \in Sender |-> Unknown]
  /\ handled = {} /\ relayed = {}

-----------------------------------------------------------------------------
(***************************************************************************)
(* BridgeManager.init: the height of the flag, or else the higher one of   *)
(* the database's and the contract's; a failed query counts as height 0.   *)
(***************************************************************************)
LatestHeight == {Epoch} \cup (IF "epoch" \in Faults THEN {0} ELSE {})

InitManager ==
  /\ up /\ pc = "init"
  /\ \/ StartFlag > 0 /\ UNCHANGED currentHeight
     \/ /\ StartFlag = 0
        /\ \E h \in LatestHeight :
             currentHeight' = IF h > bridgeHeightDB THEN h ELSE bridgeHeightDB
  /\ pc' = "idle"
  /\ UNCHANGED <<chains, proc, latestheight, sender, nonce, addressNonce,
                 handled, relayed>>

(***************************************************************************)
(* A tick of MonitorChain.  The last block and the one before it are not   *)
(* confirmed; ONT_USEFUL_BLOCK_NUM is 1.                                   *)
(***************************************************************************)
Tick ==
  /\ up /\ pc = "idle"
  /\ latestheight' = Minus(bridgeHeight, 1)
  /\ pc' = IF Minus(latestheight', currentHeight) < 1 THEN "idle" ELSE "loop"
  /\ UNCHANGED <<chains, proc, currentHeight, sender, nonce, addressNonce,
                 handled, relayed>>

\* Wrong variants: one block too far, and one block short.
MoreBlocksFar == currentHeight <= latestheight

MoreBlocksShort == currentHeight < Minus(latestheight, 1)

MoreBlocks == currentHeight <= Minus(latestheight, 1)

LoopDone ==
  /\ up /\ pc = "loop" /\ ~MoreBlocks
  /\ pc' = "save"
  /\ UNCHANGED <<chains, proc, currentHeight, latestheight, sender, nonce,
                 addressNonce, handled, relayed>>

\* A wrong variant: the height of the block that is next.
SavedHeightNext == currentHeight % Word32

(***************************************************************************)
(* The height written is that of the last block handled, also when a block *)
(* could not be handled and ended the loop.                                *)
(***************************************************************************)
SavedHeight == Minus(currentHeight, 1) % Word32

UpdateBridgeHeight ==
  /\ up /\ pc = "save"
  /\ \/ bridgeHeightDB' = SavedHeight
     \/ "db" \in Faults /\ UNCHANGED bridgeHeightDB
  /\ pc' = "idle"
  /\ latestheight' = 0
  /\ UNCHANGED <<bridgeHeight, ethNonce, pool, proc, currentHeight, sender,
                 nonce, addressNonce, handled, relayed>>

-----------------------------------------------------------------------------
(***************************************************************************)
(* handleDepositTxs: the header and the transactions of the block are read *)
(* and a sender is selected; a failure ends the tick.                      *)
(***************************************************************************)
HasBlock == currentHeight \in 1..bridgeHeight

HandleDepositTxs ==
  /\ up /\ pc = "loop" /\ MoreBlocks
  /\ \/ /\ HasBlock
        /\ sender' \in Sender
        /\ pc' = "prepare"
     \/ /\ ~HasBlock \/ "rpc" \in Faults
        /\ pc' = "save"
        /\ UNCHANGED sender
  /\ UNCHANGED <<chains, proc, currentHeight, latestheight, nonce,
                 addressNonce, handled, relayed>>

(***************************************************************************)
(* EthSender.commitHeader, up to the nonce: gas price, data, gas limit.    *)
(***************************************************************************)
PrepareHeader ==
  /\ up /\ pc = "prepare"
  /\ \/ pc' = "nonce" /\ UNCHANGED sender
     \/ "rpc" \in Faults /\ pc' = "save" /\ sender' = NoSender
  /\ UNCHANGED <<chains, proc, currentHeight, latestheight, nonce,
                 addressNonce, handled, relayed>>

(***************************************************************************)
(* NonceManager.GetAddressNonce: the cached nonce, which is at first the   *)
(* one Ethereum expects behind what is pending, or 0 when the query fails. *)
(***************************************************************************)
PendingNonceAt(s) ==
  CHOOSE n \in ethNonce[s]..MaxNonce :
    /\ \A k \in ethNonce[s]..n - 1 : \E e \in pool[s] : e[1] = k
    /\ n = MaxNonce \/ ~ \E e \in pool[s] : e[1] = n

\* A wrong variant: the cache is used before the nonce was ever asked for.
CachedUnasked(s) == {addressNonce[s]}

CachedOrAsked(s) ==
  IF addressNonce[s] # Unknown THEN {addressNonce[s]}
  ELSE {PendingNonceAt(s)} \cup (IF "nonce" \in Faults THEN {0} ELSE {})

\* A wrong variant: incremented twice.
NextNonceTwice(n) == IF n + 1 < MaxNonce THEN n + 2 ELSE MaxNonce

NextNonce(n) == IF n < MaxNonce THEN n + 1 ELSE n

GetAddressNonce ==
  /\ up /\ pc = "nonce"
  /\ \E n \in CachedOrAsked(sender) :
       /\ nonce' = n
       /\ addressNonce' = [addressNonce EXCEPT ![sender] = NextNonce(n)]
  /\ pc' = "send"
  /\ UNCHANGED <<chains, proc, currentHeight, latestheight, sender,
                 handled, relayed>>

(***************************************************************************)
(* A nonce that was executed or is pending already is refused.  When the   *)
(* transaction is not taken the tick ends, and the nonce is not returned.  *)
(***************************************************************************)
NonceTaken ==
  /\ nonce < MaxNonce
  /\ nonce < ethNonce[sender] \/ \E e \in pool[sender] : e[1] = nonce

SendTransaction ==
  /\ up /\ pc = "send"
  /\ \/ /\ ~NonceTaken
        /\ pool' = [pool EXCEPT ![sender] = @ \cup {<<nonce, currentHeight>>}]
        /\ pc' = "confirm"
        /\ UNCHANGED <<sender, nonce>>
     \/ /\ NonceTaken \/ "send" \in Faults
        /\ pc' = "save" /\ sender' = NoSender /\ nonce' = 0
        /\ UNCHANGED pool
  /\ UNCHANGED <<bridgeHeight, bridgeHeightDB, ethNonce, proc, currentHeight,
                 latestheight, addressNonce, handled, relayed>>

(***************************************************************************)
(* waitTransactionConfirm, which ends when the transaction was executed;   *)
(* whether it succeeded is only logged, the block counts as handled.       *)
(***************************************************************************)
ConfirmTransaction ==
  /\ up /\ pc = "confirm"
  /\ IF nonce < ethNonce[sender]
     THEN /\ handled' = handled \cup {currentHeight}
          /\ currentHeight' = currentHeight + 1
          /\ pc' = "loop" /\ sender' = NoSender /\ nonce' = 0
     ELSE UNCHANGED <<handled, currentHeight, pc, sender, nonce>>
  /\ UNCHANGED <<chains, proc, latestheight, addressNonce, relayed>>

-----------------------------------------------------------------------------
Die ==
  /\ up' = FALSE
  /\ pc' = "init" /\ currentHeight' = StartFlag /\ latestheight' = 0
  /\ sender' = NoSender /\ nonce' = 0
  /\ addressNonce' = [s \in Sender |-> Unknown]
  /\ UNCHANGED <<chains, handled, relayed>>

Crash ==
  /\ up /\ crashes < MaxCrash
  /\ crashes' = crashes + 1
  /\ Die

(***************************************************************************)
(* When the data cannot be packed, the error that is logged is another     *)
(* one, which is nil.                                                      *)
(***************************************************************************)
PackPanics ==
  /\ "pack" \in Faults
  /\ up /\ pc = "prepare"
  /\ UNCHANGED crashes
  /\ Die

Restart ==
  /\ ~up
  /\ up' = TRUE
  /\ UNCHANGED <<chains, crashes, local, handled, relayed>>

BridgeBlock ==
  /\ bridgeHeight < MaxBridge
  /\ bridgeHeight' = bridgeHeight + 1
  /\ UNCHANGED <<bridgeHeightDB, ethNonce, pool, proc, local, handled, relayed>>

(***************************************************************************)
(* Ethereum executes the transactions of a sender in the order of nonces.  *)
(***************************************************************************)
EthBlock ==
  /\ \E s \in Sender : \E e \in pool[s] :
       /\ e[1] = ethNonce[s] /\ ethNonce[s] < MaxNonce
       /\ ethNonce' = [ethNonce EXCEPT ![s] = @ + 1]
       /\ pool' = [pool EXCEPT ![s] = @ \ {e}]
       /\ \/ relayed' = relayed \cup {e[2]}
          \/ "revert" \in Faults /\ UNCHANGED relayed
  /\ UNCHANGED <<bridgeHeight, bridgeHeightDB, proc, local, handled>>

MonitorChain ==
  \/ InitManager \/ Tick \/ HandleDepositTxs \/ PrepareHeader
  \/ GetAddressNonce \/ SendTransaction \/ ConfirmTransaction
  \/ LoopDone \/ UpdateBridgeHeight

Next ==
  \/ MonitorChain
  \/ Crash \/ PackPanics \/ Restart
  \/ BridgeBlock \/ EthBlock

Spec == Init /\ [][Next]_vars

(***************************************************************************)
(* The goroutine is scheduled, the process restarted, both chains go on.   *)
(***************************************************************************)
Fairness ==
  /\ WF_vars(MonitorChain)
  /\ WF_vars(Restart)
  /\ WF_vars(BridgeBlock)
  /\ WF_vars(EthBlock)

FairSpec == Spec /\ Fairness

-----------------------------------------------------------------------------
(***************************************************************************)
(* No block is left out: from where the contract's epoch starts, all those *)
(* below the height in memory, and all up to the one in the database, were *)
(* handled, wherever the process died or a write failed.                   *)
(***************************************************************************)
Start == IF StartFlag > 0 THEN StartFlag ELSE Epoch

NoneSkipped ==
  \A h \in Start..MaxBridge :
    (h <= bridgeHeightDB \/ (pc # "init" /\ h < currentHeight)) => h \in handled

(***************************************************************************)
(* A header is sent to Ethereum only when two more blocks follow it.       *)
(***************************************************************************)
OnlyConfirmedBlocks ==
  \A s \in Sender : \A e \in pool[s] : e[2] + 2 <= bridgeHeight

(***************************************************************************)
(* Ethereum executes the header of every confirmed block from the start    *)
(* on, across crashes with headers pending and nonces asked for anew.      *)
(***************************************************************************)
AllRelayed == \A h \in Start..MaxBridge - 2 : <>(h \in relayed)

(***************************************************************************)
(* The wait for a header sent to Ethereum ends.                            *)
(***************************************************************************)
ConfirmEnds == pc = "confirm" ~> pc # "confirm"
=============================================================================
