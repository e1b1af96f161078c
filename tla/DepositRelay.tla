---------------------------- MODULE DepositRelay ----------------------------
(***************************************************************************)
(* The way of a deposit from Ethereum to the bridge chain                  *)
(* (manager/ethereumManager.go).  Three goroutines share the database:     *)
(*                                                                         *)
(*   MonitorChain    scans a confirmed block at a time and puts each       *)
(*                   deposit it finds into the Retry bucket;               *)
(*   MonitorDeposit  lists the Retry bucket, proves each deposit that is   *)
(*                   buried deep enough, broadcasts the proof to the       *)
(*                   bridge chain, and moves the deposit to Check;         *)
(*   CheckDeposit    looks at what became of the broadcast proofs.         *)
(*                                                                         *)
(* The buckets survive a crash, everything else the relayer knows does     *)
(* not.  What MonitorChain does with block headers is left to HeaderSync;  *)
(* here the height the bridge chain has reached simply grows.              *)
(***************************************************************************)
EXTENDS BoltDB, Sequences

CONSTANTS
  NoDeposit,    \* a value that is no deposit
  BlockOf,      \* the Ethereum block a deposit was made in
  EthTip,       \* bound: the last confirmed Ethereum block
  Genesis,      \* the Ethereum height the bridge chain starts with
  BlockConfig,  \* ETHConfig.BlockConfig, the confirmations a proof needs
  ForceHeight,  \* the -ethereumforce flag, 0 when it is not given
  Faults,       \* the external failures that may happen
  MaxCrash,     \* bound: how often the process may crash
  MaxTx         \* bound: how many proof transactions are broadcast

FaultKinds ==
  {"fetch",   \* the event query of a block fails
   "db",      \* a database write fails
   "proof",   \* eth_getProof fails
   "reject",  \* the bridge node refuses a proof transaction
   "execute", \* a proof transaction fails when the bridge executes it
   "others",  \* other relayers sync headers too
   "slow",    \* the bridge takes long to put a header into a block
   "lost"     \* a header transaction fails or is dropped, which counts here
              \* when its sender is dead
  }

ASSUME RelayAssumption ==
  /\ NoDeposit \notin Deposit
  /\ EthTip \in Nat
  /\ Genesis \in 1..EthTip
  /\ BlockOf \in [Deposit -> 1..EthTip]
  /\ BlockConfig \in Nat
  /\ ForceHeight \in Nat
  /\ Faults \subseteq FaultKinds
  /\ MaxCrash \in Nat
  /\ MaxTx \in Nat

(***************************************************************************)
(* The hash of an Ethereum transaction is never that of a transaction of   *)
(* the bridge chain; the latter are numbered in the order of broadcast.    *)
(***************************************************************************)
ASSUME HashAssumption == Deposit \cap Nat = {}

VARIABLES
  synced,         \* Ethereum height known to the bridge chain
  flight,         \* a crashed relayer left a header transaction in the mempool
  sent,           \* proof transactions in the bridge chain's mempool or blocks
  up,             \* the relayer's process is running
  crashes,        \* how often it has crashed
  currentHeight,  \* EthereumManager.currentHeight, the last block scanned
  scanning,       \* the block after currentHeight is being scanned
  events,         \* its deposits that are still to be recorded
  dpc,            \* where MonitorDeposit is
  refHeight,      \* the synced height it read at the beginning of its round
  retryList,      \* the deposits of this round it has still to look at
  crosstx,        \* the deposit it is proving
  checkMap,       \* the Check entries CheckDeposit has still to look at
  recorded,       \* history: deposits that were put into the Retry bucket
  closed          \* history: deposits deleted from it after their broadcast

chainVars   == <<synced, flight, sent>>
monitorVars == <<currentHeight, scanning, events>>
depositVars == <<dpc, refHeight, retryList, crosstx>>
procVars    == <<up, crashes>>
history     == <<recorded, closed>>
vars == <<retryBkt, checkBkt, chainVars, procVars, monitorVars, depositVars,
          checkMap, history>>

Pending == -1   \* a transaction not executed yet

Executed == 0   \* TxResult.Code of a transaction that succeeded

NoTx == -1      \* the answer to a transaction query that finds nothing

Steps == {"idle", "list", "loop", "commit", "check", "delete"}

ProofTxs == [dep : Deposit, at : Nat, code : {Pending, Executed, 1, 2}]

TypeOK ==
  /\ retryBkt \subseteq Deposit
  /\ checkBkt \subseteq (1..MaxTx) \X Deposit
  /\ synced \in Genesis..EthTip
  /\ flight \in BOOLEAN
  /\ sent \in Seq(ProofTxs)
  /\ Len(sent) <= MaxTx
  /\ up \in BOOLEAN
  /\ crashes \in 0..MaxCrash
  /\ currentHeight \in 0..EthTip
  /\ scanning \in BOOLEAN
  /\ events \subseteq Deposit
  /\ dpc \in Steps
  /\ refHeight \in 0..EthTip
  /\ retryList \subseteq Deposit
  /\ crosstx \in Deposit \cup {NoDeposit}
  /\ checkMap \subseteq (1..MaxTx) \X Deposit
  /\ recorded \subseteq Deposit
  /\ closed \subseteq Deposit

\* A wrong variant: the block the bridge chain misses counts as scanned.
InitHeightAhead ==
  IF ForceHeight > 0 /\ ForceHeight < synced THEN ForceHeight ELSE synced + 1

(***************************************************************************)
(* EthereumManager.init: start where the bridge chain is, or further back  *)
(* when the operator forces it.                                            *)
(***************************************************************************)
InitHeight ==
  IF ForceHeight > 0 /\ ForceHeight < synced THEN ForceHeight ELSE synced

Init ==
  /\ retryBkt = {} /\ checkBkt = {}
  /\ synced = Genesis /\ flight = FALSE /\ sent = <<>>
  /\ up = TRUE /\ crashes = 0
  /\ currentHeight = InitHeight /\ scanning = FALSE /\ events = {}
  /\ dpc = "idle" /\ refHeight = 0 /\ retryList = {} /\ crosstx = NoDeposit
  /\ checkMap = {}
  /\ recorded = {} /\ closed = {}

-----------------------------------------------------------------------------
(***************************************************************************)
(* MonitorChain: handleNewBlock on the block after currentHeight.          *)
(***************************************************************************)
DepositsIn(h) == {d \in Deposit : BlockOf[d] = h}

FetchEvents ==
  /\ up /\ ~scanning /\ currentHeight < EthTip
  /\ scanning' = TRUE
  /\ events' = DepositsIn(currentHeight + 1)
  /\ UNCHANGED <<retryBkt, checkBkt, chainVars, procVars, currentHeight,
                 depositVars, checkMap, history>>

(***************************************************************************)
(* A failed event query is logged and the block counts as handled.         *)
(***************************************************************************)
FetchFails ==
  /\ "fetch" \in Faults
  /\ up /\ ~scanning /\ currentHeight < EthTip
  /\ currentHeight' = currentHeight + 1
  /\ UNCHANGED <<retryBkt, checkBkt, chainVars, procVars, scanning, events,
                 depositVars, checkMap, history>>

(***************************************************************************)
(* The query for the event's transaction among those of the bridge chain,  *)
(* which finds something when the hash is one of the bridge chain's.       *)
(***************************************************************************)
OnBridge(hash) == hash \in 1..Len(sent)

(***************************************************************************)
(* One event of the block: skipped when it is known to the bridge chain,   *)
(* put into the Retry bucket otherwise.  A failed write is only logged.    *)
(***************************************************************************)
RecordEvent ==
  /\ up /\ scanning
  /\ \E d \in events :
       /\ events' = events \ {d}
       /\ \/ /\ ~OnBridge(d)
             /\ PutRetry(d)
             /\ recorded' = recorded \cup {d}
          \/ /\ OnBridge(d) \/ "db" \in Faults
             /\ UNCHANGED <<retryBkt, recorded>>
  /\ UNCHANGED <<checkBkt, chainVars, procVars, currentHeight, scanning,
                 depositVars, checkMap, closed>>

BlockDone ==
  /\ up /\ scanning /\ events = {}
  /\ scanning' = FALSE
  /\ currentHeight' = currentHeight + 1
  /\ UNCHANGED <<retryBkt, checkBkt, chainVars, procVars, events,
                 depositVars, checkMap, history>>

-----------------------------------------------------------------------------
(***************************************************************************)
(* MonitorDeposit: handleLockDepositEvents, one round per tick, one        *)
(* deposit of the listing after the other.                                 *)
(***************************************************************************)
DepositTick ==
  /\ up /\ dpc = "idle"
  /\ refHeight' = synced
  /\ dpc' = "list"
  /\ UNCHANGED <<retryBkt, checkBkt, chainVars, procVars, monitorVars,
                 retryList, crosstx, checkMap, history>>

DepositList ==
  /\ up /\ dpc = "list"
  /\ \/ retryList' = GetAllRetry /\ dpc' = "loop"
     \/ "db" \in Faults /\ dpc' = "idle" /\ UNCHANGED retryList
  /\ UNCHANGED <<retryBkt, checkBkt, chainVars, procVars, monitorVars,
                 refHeight, crosstx, checkMap, history>>

NextInList(d) ==
  d \in retryList /\ \A k \in retryList : KeyRank[d] <= KeyRank[k]

\* A wrong variant: one confirmation less.
DeepEnoughSoon(d) == refHeight >= BlockOf[d] + BlockConfig

DeepEnough(d) == refHeight > BlockOf[d] + BlockConfig

(***************************************************************************)
(* A deposit that is not deep enough, or whose proof cannot be had, waits  *)
(* for a later round.                                                      *)
(***************************************************************************)
SkipDeposit ==
  /\ up /\ dpc = "loop"
  /\ \E d \in Deposit :
       /\ NextInList(d)
       /\ ~DeepEnough(d) \/ "proof" \in Faults
       /\ retryList' = retryList \ {d}
  /\ UNCHANGED <<retryBkt, checkBkt, chainVars, procVars, monitorVars,
                 dpc, refHeight, crosstx, checkMap, history>>

GetProof ==
  /\ up /\ dpc = "loop"
  /\ \E d \in Deposit :
       /\ NextInList(d)
       /\ DeepEnough(d)
       /\ crosstx' = d
       /\ retryList' = retryList \ {d}
  /\ dpc' = "commit"
  /\ UNCHANGED <<retryBkt, checkBkt, chainVars, procVars, monitorVars,
                 refHeight, checkMap, history>>

(***************************************************************************)
(* The proof is for the block BlockConfig below the height read at the     *)
(* beginning of the round, whatever the bridge chain has reached since.    *)
(***************************************************************************)
ProofTx(d) ==
  [dep |-> d, at |-> refHeight - BlockConfig, code |-> Pending]

CommitProof ==
  /\ up /\ dpc = "commit" /\ Len(sent) < MaxTx
  /\ sent' = Append(sent, ProofTx(crosstx))
  /\ dpc' = "check"
  /\ UNCHANGED <<retryBkt, checkBkt, synced, flight, procVars, monitorVars,
                 refHeight, retryList, crosstx, checkMap, history>>

\* A wrong variant: the entry has the hash of the first broadcast.
AddCheckOldHash ==
  /\ up /\ dpc = "check"
  /\ \/ PutCheck(1, crosstx)
     \/ "db" \in Faults /\ UNCHANGED checkBkt
  /\ dpc' = "delete"
  /\ UNCHANGED <<retryBkt, chainVars, procVars, monitorVars, refHeight,
                 retryList, crosstx, checkMap, history>>

\* A wrong variant: the deposit is read from the bucket again.
AddCheckReread ==
  /\ up /\ dpc = "check"
  /\ \/ \E d \in GetAllRetry : PutCheck(Len(sent), d)
     \/ "db" \in Faults /\ UNCHANGED checkBkt
  /\ dpc' = "delete"
  /\ UNCHANGED <<retryBkt, chainVars, procVars, monitorVars, refHeight,
                 retryList, crosstx, checkMap, history>>

(***************************************************************************)
(* The hash of the last broadcast goes to the Check bucket, then the       *)
(* deposit leaves the Retry bucket; either write may fail, which is only   *)
(* logged.                                                                 *)
(***************************************************************************)
AddCheck ==
  /\ up /\ dpc = "check"
  /\ \/ PutCheck(Len(sent), crosstx)
     \/ "db" \in Faults /\ UNCHANGED checkBkt
  /\ dpc' = "delete"
  /\ UNCHANGED <<retryBkt, chainVars, procVars, monitorVars, refHeight,
                 retryList, crosstx, checkMap, history>>

DropRetry ==
  /\ up /\ dpc = "delete"
  /\ \/ DeleteRetry(crosstx) /\ closed' = closed \cup {crosstx}
     \/ "db" \in Faults /\ UNCHANGED <<retryBkt, closed>>
  /\ dpc' = "loop"
  /\ crosstx' = NoDeposit
  /\ UNCHANGED <<checkBkt, chainVars, procVars, monitorVars, refHeight,
                 retryList, checkMap, recorded>>

RoundDone ==
  /\ up /\ dpc = "loop" /\ retryList = {}
  /\ dpc' = "idle"
  /\ refHeight' = 0
  /\ UNCHANGED <<retryBkt, checkBkt, chainVars, procVars, monitorVars,
                 retryList, crosstx, checkMap, history>>

-----------------------------------------------------------------------------
(***************************************************************************)
(* CheckDeposit: checkLockDepositEvents.  Whatever the query for a proof   *)
(* transaction answers, one of three early exits is taken: it was found,   *)
(* or the query failed, or it found nothing.  An entry is settled only     *)
(* when the answer passes all of them.                                     *)
(***************************************************************************)
CheckTick ==
  /\ up /\ checkMap = {}
  /\ checkMap' \in GetAllCheck
  /\ UNCHANGED <<retryBkt, checkBkt, chainVars, procVars, monitorVars,
                 depositVars, history>>

\* A wrong variant: the exits for a transaction not found are gone.
SettlesUnknown(res) == res = NoTx

Settles(res) ==
  /\ ~(res # NoTx)   \* found: already on the bridge chain
  /\ ~(res = NoTx)   \* not found, with an error or without

(***************************************************************************)
(* The query is not made with the hash of the proof transaction but with   *)
(* its text in hexadecimal, which is the hash of nothing.                  *)
(***************************************************************************)
TxByHash(hash) == IF hash \in 1..Len(sent) THEN sent[hash].code ELSE NoTx

HexText(hash) == -hash

CheckEntry ==
  /\ up
  /\ \E e \in checkMap :
       LET res == TxByHash(HexText(e[1])) IN
         /\ checkMap' = checkMap \ {e}
         /\ IF Settles(res)
            THEN /\ IF res # 1 THEN PutRetry(e[2]) ELSE UNCHANGED retryBkt
                 /\ DeleteCheck(e[1])
            ELSE UNCHANGED <<retryBkt, checkBkt>>
  /\ UNCHANGED <<chainVars, procVars, monitorVars, depositVars, history>>

-----------------------------------------------------------------------------
(***************************************************************************)
(* The process.  When it dies the buckets remain, and the header of the    *)
(* next block may be on its way if that block was scanned.                 *)
(***************************************************************************)
Die ==
  /\ up' = FALSE
  /\ \/ UNCHANGED flight
     \/ synced < currentHeight /\ flight' = TRUE
  /\ scanning' = FALSE /\ events' = {}
  /\ dpc' = "idle" /\ refHeight' = 0 /\ retryList' = {}
  /\ crosstx' = NoDeposit /\ checkMap' = {}
  /\ UNCHANGED <<retryBkt, checkBkt, synced, sent, currentHeight, history>>

Crash ==
  /\ up /\ crashes < MaxCrash
  /\ crashes' = crashes + 1
  /\ Die

\* A wrong variant: the deposit of a refused proof is dropped.
CommitProofDrops ==
  /\ "reject" \in Faults
  /\ up /\ dpc = "commit"
  /\ DeleteRetry(crosstx)
  /\ dpc' = "loop" /\ crosstx' = NoDeposit
  /\ UNCHANGED <<checkBkt, chainVars, procVars, monitorVars, refHeight,
                 retryList, checkMap, history>>

(***************************************************************************)
(* commitProof panics on any error of the broadcast, so that its caller's  *)
(* handling of errors is never reached.                                    *)
(***************************************************************************)
CommitProofPanics ==
  /\ "reject" \in Faults
  /\ up /\ dpc = "commit"
  /\ UNCHANGED crashes
  /\ Die

(***************************************************************************)
(* commitHeader panics when the header it has just sent is not in a block  *)
(* at the first look.                                                      *)
(***************************************************************************)
CommitHeaderPanics ==
  /\ "slow" \in Faults
  /\ up /\ ~scanning
  /\ UNCHANGED crashes
  /\ Die

Restart ==
  /\ ~up
  /\ up' = TRUE
  /\ currentHeight' = InitHeight
  /\ UNCHANGED <<retryBkt, checkBkt, chainVars, crashes, scanning, events,
                 depositVars, checkMap, history>>

-----------------------------------------------------------------------------
(***************************************************************************)
(* The bridge chain takes the header of the next block, from this relayer  *)
(* (only of blocks it scanned), from its crashed predecessor or from       *)
(* another relayer.                                                        *)
(***************************************************************************)
SyncHeader ==
  /\ synced < EthTip
  /\ \/ up /\ synced < currentHeight
     \/ flight
     \/ "others" \in Faults
  /\ synced' = synced + 1
  /\ flight' = FALSE
  /\ UNCHANGED <<retryBkt, checkBkt, sent, procVars, monitorVars,
                 depositVars, checkMap, history>>

LoseHeader ==
  /\ "lost" \in Faults
  /\ flight
  /\ flight' = FALSE
  /\ UNCHANGED <<retryBkt, checkBkt, synced, sent, procVars, monitorVars,
                 depositVars, checkMap, history>>

(***************************************************************************)
(* It executes the proof transactions in the order of their sequence       *)
(* numbers.  The second one for a deposit fails.                           *)
(***************************************************************************)
Done(d) == \E i \in 1..Len(sent) : sent[i].dep = d /\ sent[i].code = Executed

Deliver ==
  /\ \E i \in 1..Len(sent) :
       /\ sent[i].code = Pending
       /\ \A j \in 1..i - 1 : sent[j].code # Pending
       /\ \/ /\ ~Done(sent[i].dep)
             /\ sent' = [sent EXCEPT ![i].code = Executed]
          \/ /\ Done(sent[i].dep) \/ "execute" \in Faults
             /\ \E c \in {1, 2} : sent' = [sent EXCEPT ![i].code = c]
  /\ UNCHANGED <<retryBkt, checkBkt, synced, flight, procVars, monitorVars,
                 depositVars, checkMap, history>>

-----------------------------------------------------------------------------
MonitorChain == FetchEvents \/ FetchFails \/ RecordEvent \/ BlockDone

MonitorDeposit ==
  \/ DepositTick \/ DepositList \/ SkipDeposit \/ GetProof
  \/ CommitProof \/ CommitProofPanics \/ AddCheck \/ DropRetry \/ RoundDone

CheckDeposit == CheckTick \/ CheckEntry

Next ==
  \/ MonitorChain \/ MonitorDeposit \/ CheckDeposit
  \/ Crash \/ CommitHeaderPanics \/ Restart
  \/ SyncHeader \/ LoseHeader \/ Deliver

Spec == Init /\ [][Next]_vars

(***************************************************************************)
(* Each goroutine is scheduled and its tickers fire; the process is        *)
(* started again; and a proof that can be asked for again and again is had *)
(* in the end.  Nothing says that a header reaches the bridge chain, not   *)
(* even that of a block that was scanned.                                  *)
(***************************************************************************)
Fairness ==
  /\ WF_vars(MonitorChain)
  /\ WF_vars(MonitorDeposit)
  /\ \A d \in Deposit : SF_vars(GetProof /\ crosstx' = d)
  /\ WF_vars(CheckDeposit)
  /\ WF_vars(Restart)

FairSpec == Spec /\ Fairness

-----------------------------------------------------------------------------
SentFor(d) == \E i \in 1..Len(sent) : sent[i].dep = d

CheckedFor(d) == \E e \in checkBkt : e[2] = d

(***************************************************************************)
(* A proof is made at a block above the deposit's own and BlockConfig      *)
(* blocks below what the bridge chain knows, also when the bridge chain    *)
(* moves on during the round or the relayer is restarted.                  *)
(***************************************************************************)
Confirmed ==
  \A i \in 1..Len(sent) :
    /\ BlockOf[sent[i].dep] < sent[i].at
    /\ sent[i].at + BlockConfig <= synced

(***************************************************************************)
(* A deposit that was recorded is still to be relayed or was broadcast, at *)
(* whatever point the process crashed or a database write failed.          *)
(***************************************************************************)
NotForgotten == \A d \in recorded : d \in retryBkt \/ SentFor(d)

(***************************************************************************)
(* More than that when the database works: what is no longer to be relayed *)
(* can be looked up in the Check bucket.                                   *)
(***************************************************************************)
Accounted == \A d \in recorded : d \in retryBkt \/ CheckedFor(d)

(***************************************************************************)
(* An entry of the Check bucket names the deposit its transaction proves.  *)
(***************************************************************************)
CheckNamesDeposit ==
  \A e \in checkBkt : e[1] <= Len(sent) /\ sent[e[1]].dep = e[2]

(***************************************************************************)
(* The relayer starts where the bridge chain is, not where its own scan    *)
(* was, and still every deposit below its scan was recorded: a header only *)
(* reaches the bridge chain after the block's deposits reached the bucket, *)
(* even when it arrives after its sender crashed.                          *)
(***************************************************************************)
NothingMissed ==
  \A d \in Deposit :
    Genesis < BlockOf[d] /\ BlockOf[d] <= currentHeight => d \in recorded

(***************************************************************************)
(* Blocks are scanned again after a restart, but a deposit whose proof was *)
(* broadcast and that left the Retry bucket never comes back to it.        *)
(***************************************************************************)
ClosedStaysClosed == closed \cap retryBkt = {}

(***************************************************************************)
(* A recorded deposit is broadcast in the end, although proofs fail, the   *)
(* listing is cut off at MaxNum and the process crashes in between, once   *)
(* the bridge chain knows enough blocks after it and after the deposits in *)
(* front of it.  If it goes on without headers, those may fill the listing *)
(* for ever.                                                               *)
(***************************************************************************)
TooYoung(d) == synced <= BlockOf[d] + BlockConfig

EventuallySubmitted ==
  \A d \in Deposit :
    \/ d \in retryBkt ~> SentFor(d)
    \/ []<>(d \in retryBkt /\ \E k \in Before(d) \cup {d} : TooYoung(k))

(***************************************************************************)
(* What the code means to do with a proof transaction that failed when it  *)
(* was executed (ethereumManager.go:624-630): put the deposit back.        *)
(***************************************************************************)
FailedProofReturns ==
  \A d \in Deposit :
    (\E i \in 1..Len(sent) : sent[i].dep = d /\ sent[i].code \in {1, 2})
      ~> (d \in retryBkt \/ Done(d))
=============================================================================
