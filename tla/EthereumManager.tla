-------------------------- MODULE EthereumManager --------------------------
(***************************************************************************)
(* EthereumManager as a whole (manager/ethereumManager.go): the deposits   *)
(* of DepositRelay, whose proofs are sent with the sequence numbers of     *)
(* CosmosTx, and the goroutine of the headers, which scans for deposits    *)
(* and draws on the same numbers.  An action joins the steps of the two    *)
(* modules that the code takes together.                                   *)
(*                                                                         *)
(* What is kept of HeaderSync is how headers are queued, sent, executed    *)
(* and waited for, in batches of one; heights do not wrap here, the node   *)
(* is not behind, and nothing is rolled back.                              *)
(***************************************************************************)
EXTENDS DepositRelay

CONSTANTS
  First,      \* the sequence number of the account at the start
  MaxSeq,     \* bound: sequence numbers below it are used
  MaxBridge,  \* bound: the heights of the bridge chain itself
  NodeFaults  \* what may go wrong with a broadcast, as in CosmosTx

ASSUME ManagerAssumption ==
  /\ First \in Nat /\ MaxSeq \in Nat /\ First <= MaxSeq
  /\ MaxBridge \in Nat \ {0}
  /\ "reject" \notin Faults   \* a refusal is one of NodeFaults here
  /\ NodeFaults \subseteq {"refuse", "timeout"}

VARIABLES
  committed, expected, val, sending, seq, taken, lost, \* as in CosmosTx
  hpc,          \* where MonitorChain is
  header4sync,  \* EthereumManager.header4sync, the heights of the headers
  included,     \* bridge height of the header waited for, 0 if none yet
  mempool,      \* the transactions the bridge chain has still to execute
  failed        \* history: since the start, a header was answered with an
                \* error or failed when it was executed

txVars     == <<committed, expected, val, sending, seq, taken, lost>>
headerVars == <<hpc, header4sync, included, failed>>
allVars    == <<vars, txVars, headerVars, mempool>>

Tx == INSTANCE CosmosTx WITH
  Thread <- {"header", "proof"}, Prover <- {"proof"}, Faults <- NodeFaults

ManagerInit ==
  /\ Init /\ Tx!Init
  /\ hpc = "scan" /\ header4sync = {} /\ included = 0
  /\ mempool = <<>> /\ failed = FALSE

HeaderTx == [proof |-> FALSE, batch |-> header4sync]

ProofOfDeposit == [proof |-> TRUE, batch |-> {}]

Batches == {mempool[i].batch : i \in 1..Len(mempool)}

OnItsWay(h) == \E batch \in Batches : h \in batch

-----------------------------------------------------------------------------
(***************************************************************************)
(* MonitorChain: a block is scanned, its header queued if the bridge chain *)
(* has just its parent; then the queue is sent, also when the deposits of  *)
(* the block could not be fetched.                                         *)
(***************************************************************************)
\* A wrong variant: the header of the last block instead of the next one.
NextWantedLate == synced + 1 = currentHeight

NextWanted == synced = currentHeight

QueueHeader ==
  header4sync' = IF NextWanted THEN header4sync \cup {currentHeight + 1}
                               ELSE header4sync

Scan ==
  /\ hpc = "scan"
  /\ \/ FetchEvents /\ QueueHeader /\ UNCHANGED hpc
     \/ RecordEvent /\ UNCHANGED <<hpc, header4sync>>
     \/ /\ \/ FetchFails /\ QueueHeader
           \/ BlockDone /\ UNCHANGED header4sync
        /\ hpc' = IF header4sync' = {} THEN "scan" ELSE "commit"
  /\ UNCHANGED <<txVars, mempool, included, failed>>

(***************************************************************************)
(* commitHeader: after an error the headers stay queued until a block is   *)
(* scanned.  Whoever waits is the last to have sent headers.               *)
(***************************************************************************)
SendHeader ==
  /\ hpc = "commit"
  /\ Tx!SendCosmosTx("header")
  /\ UNCHANGED <<vars, headerVars, mempool>>

HeaderTaken ==
  /\ Tx!Accepted("header")
  /\ mempool' = Append(mempool, HeaderTx)
  /\ hpc' = IF "header" \in taken' THEN "commit" ELSE "confirm"
  /\ UNCHANGED <<vars, header4sync, included, failed>>

HeaderFailed ==
  /\ Tx!Refused("header") \/ Tx!TakenAlready("header")
  /\ hpc' = "scan" /\ failed' = TRUE
  /\ UNCHANGED <<vars, header4sync, included, mempool>>

\* A wrong variant: the heights are compared the other way round.
HeaderConfirmedSwapped ==
  /\ up /\ hpc = "confirm"
  /\ included > 0 /\ included > synced
  /\ hpc' = "scan" /\ header4sync' = {} /\ included' = 0
  /\ UNCHANGED <<vars, txVars, mempool, failed>>

(***************************************************************************)
(* The wait is over when the transaction is in a block of the bridge chain *)
(* whose height is below the synced Ethereum height, whatever came of it.  *)
(***************************************************************************)
HeaderConfirmed ==
  /\ up /\ hpc = "confirm"
  /\ included > 0 /\ synced > included
  /\ hpc' = "scan" /\ header4sync' = {} /\ included' = 0
  /\ UNCHANGED <<vars, txVars, mempool, failed>>

MonitorHeaders ==
  Scan \/ SendHeader \/ HeaderTaken \/ HeaderFailed \/ HeaderConfirmed

-----------------------------------------------------------------------------
(***************************************************************************)
(* The process dies with all its goroutines; what the node has taken       *)
(* remains.                                                                *)
(***************************************************************************)
ManagerDies ==
  /\ Die /\ flight' = OnItsWay(synced + 1)
  /\ hpc' = "scan" /\ header4sync' = {} /\ included' = 0
  /\ UNCHANGED <<mempool, failed>>

(***************************************************************************)
(* MonitorDeposit: the proof is sent with the next number.  The node has   *)
(* the proof once it has taken it, the goroutine goes on once it knows;    *)
(* any error ends the process.                                             *)
(***************************************************************************)
SendProof ==
  /\ dpc = "commit"
  /\ Tx!SendCosmosTx("proof")
  /\ UNCHANGED <<vars, headerVars, mempool>>

ProofTaken ==
  /\ Tx!Accepted("proof")
  /\ CommitProof
  /\ mempool' = Append(mempool, ProofOfDeposit)
  /\ UNCHANGED headerVars

ProofFailed ==
  /\ Tx!Refused("proof") \/ Tx!TakenAlready("proof")
  /\ ManagerDies

OneByOne ==
  /\ "proof" \notin sending
  /\ \/ DepositTick \/ DepositList \/ SkipDeposit \/ GetProof
     \/ AddCheck \/ DropRetry \/ RoundDone
  /\ UNCHANGED <<txVars, headerVars, mempool>>

ProveDeposits == SendProof \/ ProofTaken \/ ProofFailed \/ OneByOne

CheckDeposits == CheckDeposit /\ UNCHANGED <<txVars, headerVars, mempool>>

-----------------------------------------------------------------------------
ManagerCrash == Crash /\ Tx!Crash /\ ManagerDies

HeaderPanics ==
  /\ hpc = "confirm" /\ CommitHeaderPanics
  /\ Tx!Die /\ UNCHANGED lost
  /\ ManagerDies

\* A wrong variant: the account's number is taken for the last one used.
ManagerRestartBehind ==
  /\ Restart /\ Tx!RestartBehind
  /\ failed' = FALSE
  /\ UNCHANGED <<hpc, header4sync, included, mempool>>

ManagerRestart ==
  /\ Restart /\ Tx!Restart
  /\ failed' = FALSE
  /\ UNCHANGED <<hpc, header4sync, included, mempool>>

(***************************************************************************)
(* The bridge chain executes the transactions in the order of their        *)
(* numbers.  A header fails, or extends the chain; those that are known    *)
(* have no effect.                                                         *)
(***************************************************************************)
NextHeader == synced + 1 \in Head(mempool).batch

HeaderComesAgain == \E i \in 2..Len(mempool) : synced + 1 \in mempool[i].batch

HeaderFails ==
  /\ "lost" \in Faults
  /\ IF flight /\ ~HeaderComesAgain THEN LoseHeader ELSE UNCHANGED vars
  /\ failed' = TRUE

ExecuteHeader ==
  \/ NextHeader /\ SyncHeader /\ UNCHANGED failed
  \/ NextHeader /\ HeaderFails
  \/ ~NextHeader /\ UNCHANGED <<vars, failed>>

\* The last header that was sent is the one that is waited for.
WaitedFor ==
  /\ hpc = "confirm" /\ included = 0
  /\ ~Head(mempool).proof
  /\ \A i \in 2..Len(mempool) : mempool[i].proof

(***************************************************************************)
(* Nothing relates the height of its block to the heights of Ethereum.     *)
(***************************************************************************)
BridgeBlock ==
  /\ mempool # <<>>
  /\ Tx!BridgeBlock
  /\ mempool' = Tail(mempool)
  /\ IF Head(mempool).proof THEN Deliver /\ UNCHANGED failed
                            ELSE ExecuteHeader
  /\ IF WaitedFor THEN included' \in 1..MaxBridge ELSE UNCHANGED included
  /\ UNCHANGED <<hpc, header4sync>>

OtherRelayer ==
  /\ "others" \in Faults
  /\ SyncHeader
  /\ UNCHANGED <<txVars, headerVars, mempool>>

ManagerNext ==
  \/ MonitorHeaders \/ ProveDeposits \/ CheckDeposits
  \/ ManagerCrash \/ HeaderPanics \/ ManagerRestart
  \/ BridgeBlock \/ OtherRelayer

ManagerSpec == ManagerInit /\ [][ManagerNext]_allVars

(***************************************************************************)
(* As in the two modules: each goroutine is scheduled, what keeps being    *)
(* broadcast is answered when there is an answer, a proof that can be      *)
(* asked for again and again is had, the process is restarted, and the     *)
(* bridge chain goes on.  Nothing needs to be refused.                     *)
(***************************************************************************)
ManagerFairness ==
  /\ WF_allVars(Scan \/ SendHeader \/ HeaderConfirmed)
  /\ WF_allVars(HeaderTaken \/ (HeaderFailed /\ Tx!TakenAlready("header")))
  /\ WF_allVars(SendProof \/ OneByOne)
  /\ WF_allVars(ProofTaken \/ (ProofFailed /\ Tx!TakenAlready("proof")))
  /\ \A d \in Deposit : SF_allVars(OneByOne /\ GetProof /\ crosstx' = d)
  /\ WF_allVars(CheckDeposits)
  /\ WF_allVars(ManagerRestart)
  /\ WF_allVars(BridgeBlock)

ManagerFairSpec == ManagerSpec /\ ManagerFairness

-----------------------------------------------------------------------------
ManagerTypeOK ==
  /\ TypeOK /\ Tx!TypeOK
  /\ hpc \in {"scan", "commit", "confirm"}
  /\ header4sync \subseteq 1..EthTip
  /\ included \in 0..MaxBridge
  /\ mempool \in Seq([proof : BOOLEAN, batch : SUBSET (1..EthTip)])
  /\ failed \in BOOLEAN

(***************************************************************************)
(* The scan does not leave headers behind: if the bridge chain is behind   *)
(* it, the header it needs next is queued or on its way, whatever fetches  *)
(* fail and other relayers send.  Only a header that was answered with an  *)
(* error, or failed when it was executed, is left behind, and then none    *)
(* follows any more.                                                       *)
(***************************************************************************)
HeaderNotPassed ==
  up /\ ~failed /\ synced < currentHeight =>
    synced + 1 \in header4sync \/ OnItsWay(synced + 1)

(***************************************************************************)
(* The bridge chain can take what is on its way: the next header in the    *)
(* mempool is of a block that the running process has scanned, or was left *)
(* there by a dead one, and none is of a block whose parent is not known.  *)
(***************************************************************************)
FlightAgrees ==
  /\ flight => OnItsWay(synced + 1)
  /\ OnItsWay(synced + 1) => flight \/ (up /\ synced < currentHeight)
  /\ \A h \in 1..EthTip : OnItsWay(h) => h <= synced + 1

(***************************************************************************)
(* A deposit with enough blocks after it, whose block was not passed       *)
(* without it, is executed by the bridge chain in the end, across crashes, *)
(* time-outs and failed proofs, unless                                     *)
(*   - numbers are lost or headers fail again and again, or for good;      *)
(*   - the wait for a header never ends, as it is in a block that is too   *)
(*     high.                                                               *)
(* (With the last number of the bound nothing more is sent.)               *)
(***************************************************************************)
Missed(d) == BlockOf[d] <= currentHeight /\ d \notin recorded

ExecutedFor(d) ==
  \E i \in 1..Len(sent) : sent[i].dep = d /\ sent[i].code # Pending

WaitsInVain == hpc = "confirm" /\ included >= synced

Delivered ==
  \A d \in {k \in Deposit : BlockOf[k] + BlockConfig < EthTip} :
    \/ []<>(lost \/ failed)
    \/ <>[]WaitsInVain
    \/ <>(val = MaxSeq \/ Missed(d) \/ ExecutedFor(d))
=============================================================================
