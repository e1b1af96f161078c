----------------------------- MODULE HeaderSync -----------------------------
(***************************************************************************)
(* EthereumManager.MonitorChain: the scan of the Ethereum chain, and the   *)
(* headers it sends to the bridge chain (manager/ethereumManager.go).      *)
(*                                                                         *)
(* Heights are unsigned machine words, so that differences wrap; Word      *)
(* stands for 2^64.  A batch of headers is the set of their heights.  What *)
(* is found in a block is left to DepositRelay, which this module          *)
(* implements as far as scanning and headers go.                           *)
(***************************************************************************)
EXTENDS Integers, FiniteSets, SequencesExt

CONSTANTS
  MaxEth,          \* bound: the last height of the Ethereum chain
  Genesis,         \* the Ethereum height the bridge chain starts with
  BridgeStart,     \* the height of the bridge chain itself at the start
  MaxBridge,       \* bound: bridge heights from here on are not told apart
  ForceHeight,     \* the -ethereumforce flag, 0 when it is not given
  HeadersPerBatch, \* ETHConfig.HeadersPerBatch
  Word,            \* the number of values of a uint64
  Faults,          \* the external failures that may happen
  MaxCrash,        \* bound: how often the process may crash
  MaxPool          \* bound: header transactions waiting in the mempool

FaultKinds ==
  {"rpc",     \* a query to the Ethereum node or the bridge node fails
   "lag",     \* the Ethereum node asked for its height is behind
   "refuse",  \* the bridge node refuses a header transaction
   "parent",  \* it does so because it misses the parent block
   "execute", \* a header transaction fails when it is executed
   "others"   \* other relayers sync headers too
  }

USEFUL == 3   \* ETH_USEFUL_BLOCK_NUM

EthTip == MaxEth - USEFUL

ASSUME HeaderAssumption ==
  /\ MaxEth \in Nat /\ MaxEth < Word /\ Word \in Nat
  /\ Genesis \in 1..EthTip
  /\ BridgeStart \in Nat /\ MaxBridge \in Nat /\ BridgeStart <= MaxBridge
  /\ ForceHeight \in 0..Genesis
  /\ HeadersPerBatch \in Nat \ {0}
  /\ Faults \subseteq FaultKinds
  /\ MaxCrash \in Nat /\ MaxPool \in Nat \ {0}

VARIABLES
  ethHeight,      \* height of the Ethereum chain
  synced,         \* Ethereum height known to the bridge chain
  bridgeHeight,   \* height of the bridge chain
  mempool,        \* batches waiting to be executed by the bridge chain
  up,             \* the relayer's process is running
  crashes,        \* how often it has crashed
  currentHeight,  \* EthereumManager.currentHeight
  height,         \* the node height read by this tick
  header4sync,    \* EthereumManager.header4sync
  pc,             \* where MonitorChain is
  included,       \* bridge height of the transaction waited for, 0 if none yet
  scanned         \* history: the last block of the scan, before any roll back

chain == <<ethHeight, synced, bridgeHeight, mempool>>
proc  == <<up, crashes>>
local == <<currentHeight, height, header4sync, pc, included>>
vars  == <<chain, proc, local, scanned>>

\* A wrong variant: heights are signed.
MinusSigned(a, b) == a - b

Minus(a, b) == (a - b) % Word

TypeOK ==
  /\ ethHeight \in Genesis..MaxEth
  /\ synced \in Genesis..MaxEth
  /\ bridgeHeight \in BridgeStart..MaxBridge
  /\ mempool \in Seq(SUBSET (1..MaxEth)) /\ Len(mempool) <= MaxPool
  /\ up \in BOOLEAN
  /\ crashes \in 0..MaxCrash
  /\ currentHeight \in 0..Word - 1
  /\ height \in 0..MaxEth
  /\ header4sync \in SUBSET (1..MaxEth)
  /\ pc \in {"idle", "loop", "events", "commit", "confirm", "rollback"}
  /\ included \in 0..MaxBridge
  /\ scanned \in 0..MaxEth

(***************************************************************************)
(* EthereumManager.init                                                    *)
(***************************************************************************)
InitHeight ==
  IF ForceHeight > 0 /\ ForceHeight < synced THEN ForceHeight ELSE synced

Init ==
  /\ ethHeight = Genesis + USEFUL /\ synced = Genesis
  /\ bridgeHeight = BridgeStart /\ mempool = <<>>
  /\ up = TRUE /\ crashes = 0
  /\ currentHeight = InitHeight /\ height = 0
  /\ header4sync = {} /\ pc = "idle" /\ included = 0
  /\ scanned = InitHeight

-----------------------------------------------------------------------------
(***************************************************************************)
(* A tick reads the node's height and does nothing unless some block after *)
(* currentHeight is useful.                                                *)
(***************************************************************************)
Reported == IF "lag" \in Faults THEN 0..ethHeight ELSE {ethHeight}

Tick ==
  /\ up /\ pc = "idle"
  /\ \E h \in Reported :
       IF Minus(h, currentHeight) > USEFUL
       THEN height' = h /\ pc' = "loop"
       ELSE UNCHANGED <<height, pc>>
  /\ UNCHANGED <<chain, proc, currentHeight, header4sync, included, scanned>>

\* A wrong variant: one block too far.
MoreBlocksFar == currentHeight <= Minus(height, USEFUL)

\* Wrong variants: headers further ahead, and the header after the wanted one.
NextWantedAhead == synced + 1 <= currentHeight + 1

NextWantedLate == synced + 1 = currentHeight

\* A wrong variant: a full batch is sent before the deposits are fetched.
HandleBlockHeaderFirst ==
  /\ up /\ pc = "loop" /\ currentHeight < Minus(height, USEFUL)
  /\ currentHeight + 1 <= ethHeight
  /\ header4sync' = IF synced = currentHeight
                    THEN header4sync \cup {currentHeight + 1} ELSE header4sync
  /\ pc' = IF Cardinality(header4sync') >= HeadersPerBatch THEN "commit"
                                                            ELSE "events"
  /\ UNCHANGED <<chain, proc, currentHeight, height, included, scanned>>

(***************************************************************************)
(* handleBlockHeader on the next block, which must exist: its header is    *)
(* queued if the bridge chain has just its parent.  A failed query ends    *)
(* the tick.                                                               *)
(***************************************************************************)
MoreBlocks == currentHeight < Minus(height, USEFUL)

NextWanted == synced + 1 = currentHeight + 1

HandleBlockHeader ==
  /\ up /\ pc = "loop" /\ MoreBlocks
  /\ \/ /\ currentHeight + 1 <= ethHeight
        /\ header4sync' = IF NextWanted
                          THEN header4sync \cup {currentHeight + 1}
                          ELSE header4sync
        /\ pc' = "events"
     \/ /\ currentHeight + 1 > ethHeight \/ "rpc" \in Faults
        /\ pc' = "idle"
        /\ UNCHANGED header4sync
  /\ UNCHANGED <<chain, proc, currentHeight, height, included, scanned>>

(***************************************************************************)
(* The deposits of the block are fetched, with or without success; then    *)
(* the batch is sent if it is large enough.                                *)
(***************************************************************************)
BlockHandled ==
  /\ up /\ pc = "events"
  /\ currentHeight' = currentHeight + 1
  /\ scanned' = currentHeight + 1
  /\ pc' = IF Cardinality(header4sync) >= HeadersPerBatch THEN "commit"
                                                           ELSE "loop"
  /\ UNCHANGED <<chain, proc, height, header4sync, included>>

(***************************************************************************)
(* After the last block what is left of the batch is sent.                 *)
(***************************************************************************)
LoopDone ==
  /\ up /\ pc = "loop" /\ ~MoreBlocks
  /\ pc' = IF header4sync = {} THEN "idle" ELSE "commit"
  /\ UNCHANGED <<chain, proc, currentHeight, height, header4sync, included,
                 scanned>>

-----------------------------------------------------------------------------
(***************************************************************************)
(* commitHeader.  A refused batch stays queued and the tick ends.          *)
(***************************************************************************)
CommitHeader ==
  /\ up /\ pc = "commit"
  /\ \/ /\ Len(mempool) < MaxPool
        /\ mempool' = Append(mempool, header4sync)
        /\ included' = 0
        /\ pc' = "confirm"
     \/ /\ "refuse" \in Faults /\ pc' = "idle"
        /\ UNCHANGED <<mempool, included>>
     \/ /\ "parent" \in Faults /\ pc' = "rollback"
        /\ UNCHANGED <<mempool, included>>
  /\ UNCHANGED <<ethHeight, synced, bridgeHeight, proc, currentHeight,
                 height, header4sync, scanned>>

\* A wrong variant: the heights are compared the other way round.
ConfirmHeaderSwapped ==
  /\ up /\ pc = "confirm" /\ included > 0
  /\ IF included > synced
     THEN header4sync' = {} /\ pc' = "loop" /\ included' = 0
     ELSE UNCHANGED <<header4sync, pc, included>>
  /\ UNCHANGED <<chain, proc, currentHeight, height, scanned>>

(***************************************************************************)
(* The loop that waits for the transaction is left when it is found in a   *)
(* block of the bridge chain whose height is below the synced Ethereum     *)
(* height, whether or not it was executed with success.                    *)
(***************************************************************************)
ConfirmHeader ==
  /\ up /\ pc = "confirm" /\ included > 0
  /\ IF synced > included
     THEN header4sync' = {} /\ pc' = "loop" /\ included' = 0
     ELSE UNCHANGED <<header4sync, pc, included>>
  /\ UNCHANGED <<chain, proc, currentHeight, height, scanned>>

Die ==
  /\ up' = FALSE
  /\ pc' = "idle" /\ height' = 0 /\ header4sync' = {} /\ included' = 0
  /\ UNCHANGED <<chain, currentHeight, scanned>>

(***************************************************************************)
(* A query that does not find it, or fails, returns nil, whose Height is   *)
(* read.                                                                   *)
(***************************************************************************)
CommitHeaderPanics ==
  /\ up /\ pc = "confirm"
  /\ included = 0 \/ "rpc" \in Faults
  /\ UNCHANGED crashes
  /\ Die

(***************************************************************************)
(* rollBackToCommAncestor looks for a height at which the data hash of the *)
(* bridge block is the hash of the Ethereum header.  These are never       *)
(* equal, so that every turn ends in the decrement, which an increment     *)
(* precedes when Ethereum does not answer.                                 *)
(***************************************************************************)
RollBack ==
  /\ up /\ pc = "rollback"
  /\ \/ currentHeight' = Minus(currentHeight, 1)
     \/ "rpc" \in Faults /\ UNCHANGED currentHeight
  /\ UNCHANGED <<chain, proc, height, header4sync, pc, included, scanned>>

Crash ==
  /\ up /\ crashes < MaxCrash
  /\ crashes' = crashes + 1
  /\ Die

Restart ==
  /\ ~up
  /\ up' = TRUE
  /\ currentHeight' = InitHeight /\ scanned' = InitHeight
  /\ UNCHANGED <<chain, crashes, height, header4sync, pc, included>>

MonitorChain ==
  \/ Tick \/ HandleBlockHeader \/ BlockHandled \/ LoopDone
  \/ CommitHeader \/ ConfirmHeader \/ CommitHeaderPanics \/ RollBack

-----------------------------------------------------------------------------
(***************************************************************************)
(* The chains.  A batch is executed in the order of its heights; headers   *)
(* that are known or do not follow have no effect.                         *)
(***************************************************************************)
EthBlock ==
  /\ ethHeight < MaxEth
  /\ ethHeight' = ethHeight + 1
  /\ UNCHANGED <<synced, bridgeHeight, mempool, proc, local, scanned>>

Absorbed(batch) ==
  CHOOSE n \in synced..MaxEth :
    (synced + 1)..n \subseteq batch /\ n + 1 \notin batch

Waiting == up /\ pc = "confirm" /\ included = 0

BridgeBlock ==
  /\ mempool # <<>>
  /\ mempool' = Tail(mempool)
  /\ bridgeHeight' = IF bridgeHeight < MaxBridge THEN bridgeHeight + 1
                                                 ELSE bridgeHeight
  /\ \/ synced' = Absorbed(Head(mempool))
     \/ "execute" \in Faults /\ UNCHANGED synced
  /\ included' = IF Waiting /\ Len(mempool) = 1 THEN bridgeHeight' ELSE included
  /\ UNCHANGED <<ethHeight, proc, currentHeight, height, header4sync, pc,
                 scanned>>

OtherRelayer ==
  /\ "others" \in Faults
  /\ synced < EthTip /\ synced + USEFUL < ethHeight
  /\ synced' = synced + 1
  /\ UNCHANGED <<ethHeight, bridgeHeight, mempool, proc, local, scanned>>

Next ==
  \/ MonitorChain \/ Crash \/ Restart
  \/ EthBlock \/ BridgeBlock \/ OtherRelayer

Spec == Init /\ [][Next]_vars

(***************************************************************************)
(* The goroutine is scheduled, the process restarted, both chains go on.   *)
(***************************************************************************)
Fairness ==
  /\ WF_vars(MonitorChain)
  /\ WF_vars(Restart)
  /\ WF_vars(EthBlock)
  /\ WF_vars(BridgeBlock)

FairSpec == Spec /\ Fairness

-----------------------------------------------------------------------------
(***************************************************************************)
(* The bridge chain knows the parent of every header that is queued or     *)
(* sent, whatever was refused, failed or sent by others meanwhile.         *)
(***************************************************************************)
Linkable ==
  \A batch \in {header4sync} \cup ToSet(mempool) :
    \A h \in batch : h <= synced + 1

(***************************************************************************)
(* A header is sent only after the deposits of its block were fetched: it  *)
(* is at most currentHeight while its sender lives.                        *)
(***************************************************************************)
FetchedFirst ==
  up /\ pc \in {"commit", "confirm"} =>
    \A h \in header4sync : h <= currentHeight

(***************************************************************************)
(* The scan passes a block only when USEFUL blocks follow it, also when    *)
(* the node is behind what was scanned before, provided that it has USEFUL *)
(* blocks itself (with fewer its height wraps around).                     *)
(***************************************************************************)
OnlyConfirmedBlocks ==
  [][BlockHandled /\ height >= USEFUL
       => currentHeight' + USEFUL <= ethHeight]_vars

(***************************************************************************)
(* Every header with enough blocks after it reaches the bridge chain,      *)
(* unless commitHeader waits for ever: for a transaction in a block of the *)
(* bridge chain that is not below the Ethereum height it knows.            *)
(***************************************************************************)
WaitsInVain == pc = "confirm" /\ included >= synced

HeadersFlow == <>[]WaitsInVain \/ \A h \in Genesis..EthTip : <>(synced >= h)

-----------------------------------------------------------------------------
(***************************************************************************)
(* DepositRelay without deposits is what the rest of the relayer knows of  *)
(* this goroutine: which block is being scanned, and that a header reaches *)
(* the bridge chain after the scan of its block, at the latest from a      *)
(* transaction that a dead process left in the mempool.  The roll back     *)
(* does not scan, and a node that is behind may let the scan pass blocks   *)
(* that are not confirmed.                                                 *)
(***************************************************************************)
LeftBehind ==
  IF Waiting THEN ToSet(Front(mempool)) ELSE ToSet(mempool)

Relay == INSTANCE DepositRelay WITH
  Deposit <- {}, KeyRank <- [d \in {} |-> 0], BlockOf <- [d \in {} |-> 0],
  MaxNum <- 1, NoDeposit <- 0, BlockConfig <- 0, MaxTx <- 0,
  EthTip <- MaxEth, currentHeight <- scanned,
  Faults <- {"slow", "lost"} \cup (Faults \cap {"others"}),
  retryBkt <- {}, checkBkt <- {}, sent <- <<>>,
  flight <- \E batch \in LeftBehind : synced + 1 \in batch,
  scanning <- pc = "events", events <- {},
  dpc <- "idle", refHeight <- 0, retryList <- {}, crosstx <- 0,
  checkMap <- {}, recorded <- {}, closed <- {}

ImplementsScan == Relay!Spec
=============================================================================
