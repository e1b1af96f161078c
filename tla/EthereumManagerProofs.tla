----------------------- MODULE EthereumManagerProofs -----------------------
(***************************************************************************)
(* EthereumManager as a whole keeps what its parts keep one by one, and    *)
(* the parts agree, for any number of deposits, headers, sequence numbers  *)
(* and crashes.                                                            *)
(***************************************************************************)
EXTENDS EthereumManager, DepositRelayProofs

TxProofs == INSTANCE CosmosTxProofs WITH
  Thread <- {"header", "proof"}, Prover <- {"proof"}, Faults <- NodeFaults

-----------------------------------------------------------------------------
(***************************************************************************)
(* The composition uses CosmosTx within its assumptions.                   *)
(***************************************************************************)
LEMMA TxAssumed ==
  /\ {"proof"} \subseteq {"header", "proof"}
  /\ First \in Nat /\ MaxSeq \in Nat /\ First <= MaxSeq
  /\ NodeFaults \subseteq TxProofs!FaultKinds
  /\ MaxCrash \in Nat
  BY ManagerAssumption, RelayAssumption DEF TxProofs!FaultKinds

LEMMA TxTyped == TxProofs!IInv => Tx!TypeOK
  BY DEF TxProofs!IInv, TxProofs!TypeOK, Tx!TypeOK

(***************************************************************************)
(* For the sequence numbers each step is one of CosmosTx, or the death of  *)
(* the process, for which there are more reasons here.                     *)
(***************************************************************************)
TxStep ==
  \/ [TxProofs!Next]_TxProofs!vars
  \/ TxProofs!Die /\ UNCHANGED <<crashes, lost>>

LEMMA HeaderTxSteps == MonitorHeaders => TxStep
  <1>. SUFFICES ASSUME MonitorHeaders PROVE TxStep
    OBVIOUS
  <1>1. CASE Scan \/ HeaderConfirmed
    BY <1>1
    DEF Scan, HeaderConfirmed, TxStep, FetchEvents, FetchFails, RecordEvent,
        BlockDone, txVars, vars, procVars, TxProofs!vars, TxProofs!node,
        TxProofs!proc, TxProofs!local
  <1>2. CASE SendHeader
    BY <1>2
    DEF SendHeader, TxStep, Tx!SendCosmosTx, TxProofs!SendCosmosTx,
        Tx!GetAndAdd, TxProofs!GetAndAdd, Tx!node, Tx!proc, TxProofs!node,
        TxProofs!proc, TxProofs!Next, TxProofs!Goroutine
  <1>3. CASE HeaderTaken
    BY <1>3
    DEF HeaderTaken, TxStep, Tx!Accepted, TxProofs!Accepted, Tx!Return,
        TxProofs!Return, Tx!proc, TxProofs!proc, TxProofs!Next,
        TxProofs!Goroutine
  <1>4. CASE HeaderFailed
    BY <1>4
    DEF HeaderFailed, TxStep, Tx!Refused, TxProofs!Refused, Tx!TakenAlready,
        TxProofs!TakenAlready, Tx!Failed, TxProofs!Failed, Tx!Return,
        TxProofs!Return, Tx!Die, TxProofs!Die, Tx!node, TxProofs!node,
        TxProofs!Next, TxProofs!Goroutine
  <1>. QED
    BY <1>1, <1>2, <1>3, <1>4 DEF MonitorHeaders

LEMMA ProofTxSteps == ProveDeposits \/ CheckDeposits => TxStep
  <1>. SUFFICES ASSUME ProveDeposits \/ CheckDeposits PROVE TxStep
    OBVIOUS
  <1>1. CASE OneByOne \/ CheckDeposits
    <2>1. UNCHANGED <<txVars, up, crashes>>
      <3>1. CASE CheckDeposits
        BY <3>1
        DEF CheckDeposits, CheckDeposit, CheckTick, CheckEntry, procVars
      <3>2. CASE OneByOne
        BY <3>2
        DEF OneByOne, DepositTick, DepositList, SkipDeposit, GetProof,
            AddCheck, DropRetry, RoundDone, procVars
      <3>. QED
        BY <1>1, <3>1, <3>2
    <2>. QED
      BY <2>1
      DEF txVars, TxStep, TxProofs!vars, TxProofs!node, TxProofs!proc,
          TxProofs!local
  <1>2. CASE SendProof
    BY <1>2
    DEF SendProof, TxStep, Tx!SendCosmosTx, TxProofs!SendCosmosTx,
        Tx!GetAndAdd, TxProofs!GetAndAdd, Tx!node, Tx!proc, TxProofs!node,
        TxProofs!proc, TxProofs!Next, TxProofs!Goroutine
  <1>3. CASE ProofTaken
    BY <1>3
    DEF ProofTaken, TxStep, Tx!Accepted, TxProofs!Accepted, Tx!Return,
        TxProofs!Return, Tx!proc, TxProofs!proc, TxProofs!Next,
        TxProofs!Goroutine
  <1>4. CASE ProofFailed
    BY <1>4
    DEF ProofFailed, TxStep, Tx!Refused, TxProofs!Refused, Tx!TakenAlready,
        TxProofs!TakenAlready, Tx!Failed, TxProofs!Failed, Tx!Return,
        TxProofs!Return, Tx!Die, TxProofs!Die, Tx!node, TxProofs!node,
        TxProofs!Next, TxProofs!Goroutine
  <1>. QED
    BY <1>1, <1>2, <1>3, <1>4 DEF ProveDeposits

LEMMA TxSteps == [ManagerNext]_allVars => TxStep
  <1>. SUFFICES ASSUME [ManagerNext]_allVars PROVE TxStep
    OBVIOUS
  <1>1. CASE ManagerCrash
    BY <1>1
    DEF ManagerCrash, TxStep, Tx!Crash, TxProofs!Crash, Tx!Die, TxProofs!Die,
        Tx!node, TxProofs!node, TxProofs!Next
  <1>2. CASE HeaderPanics
    BY <1>2
    DEF HeaderPanics, CommitHeaderPanics, TxStep, Tx!Die, TxProofs!Die,
        Tx!node, TxProofs!node
  <1>3. CASE ManagerRestart
    BY <1>3
    DEF ManagerRestart, TxStep, Tx!Restart, TxProofs!Restart, Tx!node,
        TxProofs!node, TxProofs!Next
  <1>4. CASE BridgeBlock
    BY <1>4
    DEF BridgeBlock, TxStep, Tx!BridgeBlock, TxProofs!BridgeBlock, Tx!proc,
        TxProofs!proc, Tx!local, TxProofs!local, TxProofs!Next
  <1>5. CASE OtherRelayer \/ UNCHANGED allVars
    BY <1>5
    DEF OtherRelayer, SyncHeader, allVars, vars, procVars, txVars, TxStep,
        TxProofs!vars,
        TxProofs!node, TxProofs!proc, TxProofs!local
  <1>. QED
    BY <1>1, <1>2, <1>3, <1>4, <1>5, HeaderTxSteps, ProofTxSteps
    DEF ManagerNext

LEMMA TxInvStep == TxProofs!IInv /\ [ManagerNext]_allVars => TxProofs!IInv'
  <1>. SUFFICES ASSUME TxProofs!IInv, [ManagerNext]_allVars
       PROVE  TxProofs!IInv'
    OBVIOUS
  <1>1. CASE [TxProofs!Next]_TxProofs!vars
    BY <1>1, TxProofs!StepHolds, TxAssumed
  <1>2. CASE TxProofs!Die /\ UNCHANGED <<crashes, lost>>
    <2>1. TxProofs!TypeOK /\ crashes' \in 0..MaxCrash /\ lost' \in BOOLEAN
      BY <1>2 DEF TxProofs!IInv, TxProofs!TypeOK
    <2>. QED
      BY <1>2, <2>1, TxProofs!Died, TxAssumed
  <1>. QED
    BY <1>1, <1>2, TxSteps DEF TxStep

LEMMA TxInvBegins == Tx!Init => TxProofs!IInv
  <1>1. Tx!Init => TxProofs!Init
    BY DEF Tx!Init, TxProofs!Init
  <1>. QED
    BY <1>1, TxProofs!InitHolds, TxAssumed

-----------------------------------------------------------------------------
(***************************************************************************)
(* For the deposits each step is one of DepositRelay, or the death of the  *)
(* process.                                                                *)
(***************************************************************************)
RelayStep == [Next]_vars \/ (Die /\ UNCHANGED crashes)

LEMMA RelaySteps == [ManagerNext]_allVars => RelayStep
  <1>. SUFFICES ASSUME [ManagerNext]_allVars PROVE RelayStep
    OBVIOUS
  <1>1. CASE MonitorHeaders
    <2>1. [Next]_vars
      BY <1>1
      DEF MonitorHeaders, Scan, SendHeader, HeaderTaken, HeaderFailed,
          HeaderConfirmed, Next, MonitorChain
    <2>. QED
      BY <2>1 DEF RelayStep
  <1>2. CASE ProveDeposits
    <2>1. CASE ProofFailed
      BY <2>1
      DEF ProofFailed, ManagerDies, RelayStep, Tx!Refused, Tx!TakenAlready,
          Tx!Failed
    <2>2. CASE SendProof \/ ProofTaken \/ OneByOne
      <3>1. [Next]_vars
        BY <2>2
        DEF SendProof, ProofTaken, OneByOne, Next, MonitorDeposit
      <3>. QED
        BY <3>1 DEF RelayStep
    <2>. QED
      BY <1>2, <2>1, <2>2 DEF ProveDeposits
  <1>3. CASE CheckDeposits \/ ManagerCrash \/ HeaderPanics \/ ManagerRestart
    <2>1. Next
      BY <1>3
      DEF CheckDeposits, ManagerCrash, HeaderPanics, ManagerRestart, Next
    <2>. QED
      BY <2>1 DEF RelayStep
  <1>4. CASE BridgeBlock
    <2>1. [Next]_vars
      BY <1>4 DEF BridgeBlock, ExecuteHeader, HeaderFails, Next
    <2>. QED
      BY <2>1 DEF RelayStep
  <1>5. CASE OtherRelayer \/ UNCHANGED allVars
    BY <1>5 DEF OtherRelayer, Next, allVars, RelayStep
  <1>. QED
    BY <1>1, <1>2, <1>3, <1>4, <1>5 DEF ManagerNext

LEMMA RelayInvStep == IInv /\ [ManagerNext]_allVars => IInv'
  BY RelaySteps, StepHolds, DeathHolds DEF RelayStep

-----------------------------------------------------------------------------
(***************************************************************************)
(* Where the goroutines are when they send, and what a dead process has    *)
(* left of its headers: nothing.                                           *)
(***************************************************************************)
Places ==
  /\ hpc # "scan" => ~scanning
  /\ "header" \in sending => hpc = "commit"
  /\ "proof" \in sending \ taken => dpc = "commit"
  /\ ~up => hpc = "scan" /\ header4sync = {} /\ ~scanning

Txs ==
  {tx \in [proof : BOOLEAN, batch : SUBSET (1..EthTip)] :
     tx.proof => tx.batch = {}}

HeaderTyping ==
  /\ hpc \in {"scan", "commit", "confirm"}
  /\ header4sync \subseteq 1..EthTip
  /\ included \in 0..MaxBridge
  /\ mempool \in Seq(Txs)
  /\ failed \in BOOLEAN

Base == IInv /\ TxProofs!IInv /\ HeaderTyping /\ Places

LEMMA DeadPlaces ==
  ASSUME ManagerDies, Tx!Die
  PROVE  Places'
  <1>1. /\ hpc' = "scan" /\ header4sync' = {}
        /\ sending' = {} /\ ~scanning'
    BY DEF ManagerDies, Die, Tx!Die
  <1>. QED
    BY <1>1 DEF Places

LEMMA HeaderTypingStep == Base /\ [ManagerNext]_allVars => HeaderTyping'
  <1>. SUFFICES ASSUME Base, [ManagerNext]_allVars PROVE HeaderTyping'
    OBVIOUS
  <1>. 0 \in 0..MaxBridge
    BY ManagerAssumption
  <1>1. CASE Scan
    <2>1. CASE FetchEvents \/ FetchFails
      <3>1. currentHeight + 1 \in 1..EthTip
        BY <2>1, RelayAssumption
        DEF FetchEvents, FetchFails, Base, IInv, TypeOK
      <3>2. header4sync' \subseteq header4sync \cup {currentHeight + 1}
        <4>1. QueueHeader \/ UNCHANGED header4sync
          BY <1>1 DEF Scan
        <4>. QED
          BY <4>1 DEF QueueHeader
      <3>3. /\ UNCHANGED <<mempool, included, failed>>
            /\ hpc' \in {"scan", "commit"}
        BY <1>1 DEF Scan
      <3>. QED
        BY <3>1, <3>2, <3>3 DEF Base, HeaderTyping
    <2>2. CASE RecordEvent \/ BlockDone
      BY <1>1, <2>2
      DEF Scan, FetchEvents, FetchFails, RecordEvent, BlockDone, Base,
          HeaderTyping
    <2>. QED
      BY <1>1, <2>1, <2>2 DEF Scan
  <1>2. CASE HeaderTaken
    <2>1. HeaderTx \in Txs /\ mempool' = Append(mempool, HeaderTx)
      BY <1>2 DEF HeaderTaken, HeaderTx, Txs, Base, HeaderTyping
    <2>2. mempool' \in Seq(Txs)
      BY <2>1, Broadcast DEF Base, HeaderTyping
    <2>. QED
      BY <1>2, <2>2 DEF HeaderTaken, Base, HeaderTyping
  <1>3. CASE ProofTaken
    <2>1. /\ ProofOfDeposit \in Txs
          /\ mempool' = Append(mempool, ProofOfDeposit)
      BY <1>3 DEF ProofTaken, ProofOfDeposit, Txs
    <2>2. mempool' \in Seq(Txs)
      BY <2>1, Broadcast DEF Base, HeaderTyping
    <2>. QED
      BY <1>3, <2>2 DEF ProofTaken, Base, HeaderTyping, headerVars
  <1>4. CASE BridgeBlock
    <2>1. mempool' \in Seq(Txs)
      BY <1>4 DEF BridgeBlock, Base, HeaderTyping
    <2>2. included' \in 0..MaxBridge
      BY <1>4, ManagerAssumption DEF BridgeBlock, Base, HeaderTyping
    <2>3. failed' \in BOOLEAN
      BY <1>4 DEF BridgeBlock, ExecuteHeader, HeaderFails, Base, HeaderTyping
    <2>. QED
      BY <1>4, <2>1, <2>2, <2>3 DEF BridgeBlock, Base, HeaderTyping
  <1>5. CASE ProofFailed
    BY <1>5
    DEF ProofFailed, ManagerDies, Base, HeaderTyping
  <1>6. CASE ManagerCrash \/ HeaderPanics
    BY <1>6 DEF ManagerCrash, HeaderPanics, ManagerDies, Base, HeaderTyping
  <1>7. CASE SendHeader \/ HeaderFailed \/ HeaderConfirmed \/ ManagerRestart
    BY <1>7
    DEF SendHeader, HeaderFailed, HeaderConfirmed, ManagerRestart, headerVars,
        Base, HeaderTyping
  <1>8. CASE \/ SendProof \/ OneByOne \/ CheckDeposits \/ OtherRelayer
             \/ UNCHANGED allVars
    <2>1. UNCHANGED <<headerVars, mempool>>
      BY <1>8
      DEF SendProof, OneByOne, CheckDeposits, OtherRelayer, allVars
    <2>. QED
      BY <2>1 DEF headerVars, Base, HeaderTyping
  <1>. QED
    BY <1>1, <1>2, <1>3, <1>4, <1>5, <1>6, <1>7, <1>8
    DEF ManagerNext, MonitorHeaders, ProveDeposits

LEMMA PlacesStep == Base /\ [ManagerNext]_allVars => Places'
  <1>. SUFFICES ASSUME Base, [ManagerNext]_allVars PROVE Places'
    OBVIOUS
  <1>. USE DEF Base, Places
  <1>1. CASE Scan
    BY <1>1
    DEF Scan, FetchEvents, FetchFails, RecordEvent, BlockDone, txVars,
        procVars, depositVars
  <1>2. CASE SendHeader
    BY <1>2
    DEF SendHeader, Tx!SendCosmosTx, vars, procVars, monitorVars, depositVars,
        headerVars
  <1>3. CASE HeaderTaken
    <2>1. /\ hpc = "commit" /\ up /\ UNCHANGED <<up, scanning, dpc>>
          /\ hpc' = IF "header" \in taken' THEN "commit" ELSE "confirm"
      BY <1>3
      DEF HeaderTaken, Tx!Accepted, vars, procVars, monitorVars, depositVars
    <2>2. \/ /\ sending' = sending \ {"header"}
             /\ taken' = taken \ {"header"}
          \/ taken' = taken \cup {"header"} /\ UNCHANGED sending
      BY <1>3 DEF HeaderTaken, Tx!Accepted, Tx!Return
    <2>. QED
      BY <2>1, <2>2
  <1>4. CASE HeaderFailed
    <2>1. /\ up /\ UNCHANGED <<up, scanning, dpc>> /\ hpc' = "scan"
      BY <1>4
      DEF HeaderFailed, Tx!Refused, Tx!TakenAlready, vars, procVars,
          monitorVars, depositVars
    <2>2. sending' = sending \ {"header"} /\ taken' = taken \ {"header"}
      BY <1>4, <2>1
      DEF HeaderFailed, Tx!Refused, Tx!TakenAlready, Tx!Failed, Tx!Return
    <2>. QED
      BY <2>1, <2>2
  <1>5. CASE HeaderConfirmed
    <2>1. /\ up /\ hpc = "confirm" /\ hpc' = "scan"
          /\ UNCHANGED <<up, scanning, dpc, sending, taken>>
      BY <1>5
      DEF HeaderConfirmed, vars, procVars, monitorVars, depositVars, txVars
    <2>. QED
      BY <2>1
  <1>6. CASE SendProof
    <2>1. /\ up /\ dpc = "commit" /\ sending' = sending \cup {"proof"}
          /\ UNCHANGED <<up, scanning, dpc, hpc, taken>>
      BY <1>6
      DEF SendProof, Tx!SendCosmosTx, Tx!proc, vars, procVars, monitorVars,
          depositVars, headerVars
    <2>. QED
      BY <2>1
  <1>7. CASE ProofTaken
    <2>1. up /\ UNCHANGED <<up, scanning, hpc>>
      BY <1>7
      DEF ProofTaken, CommitProof, procVars, monitorVars, headerVars
    <2>2. \/ /\ sending' = sending \ {"proof"}
             /\ taken' = taken \ {"proof"}
          \/ taken' = taken \cup {"proof"} /\ UNCHANGED sending
      BY <1>7 DEF ProofTaken, Tx!Accepted, Tx!Return
    <2>. QED
      BY <2>1, <2>2
  <1>8. CASE ProofFailed
    BY <1>8, DeadPlaces
    DEF ProofFailed, Tx!Refused, Tx!TakenAlready, Tx!Failed
  <1>9. CASE OneByOne
    <2>1. /\ up /\ "proof" \notin sending
          /\ UNCHANGED <<up, scanning, hpc, sending, taken>>
      BY <1>9
      DEF OneByOne, DepositTick, DepositList, SkipDeposit, GetProof,
          AddCheck, DropRetry, RoundDone, procVars, monitorVars, txVars,
          headerVars
    <2>. QED
      BY <2>1
  <1>10. CASE CheckDeposits
    <2>1. up /\ UNCHANGED <<up, scanning, hpc, sending, taken, dpc>>
      BY <1>10
      DEF CheckDeposits, CheckDeposit, CheckTick, CheckEntry, procVars,
          monitorVars, depositVars, txVars, headerVars
    <2>. QED
      BY <2>1
  <1>11. CASE ManagerCrash \/ HeaderPanics
    BY <1>11, DeadPlaces DEF ManagerCrash, HeaderPanics, Tx!Crash
  <1>12. CASE ManagerRestart
    <2>1. up' /\ UNCHANGED <<scanning, hpc, sending, taken, dpc>>
      BY <1>12 DEF ManagerRestart, Restart, Tx!Restart, depositVars
    <2>. QED
      BY <2>1
  <1>13. CASE BridgeBlock
    <2>1. UNCHANGED <<up, scanning, dpc>>
      BY <1>13
      DEF BridgeBlock, ExecuteHeader, HeaderFails, LoseHeader, Deliver,
          SyncHeader, vars, procVars, monitorVars, depositVars
    <2>2. UNCHANGED <<sending, taken, hpc, header4sync>>
      BY <1>13 DEF BridgeBlock, Tx!BridgeBlock, Tx!local
    <2>. QED
      BY <2>1, <2>2
  <1>14. CASE OtherRelayer \/ UNCHANGED allVars
    BY <1>14
    DEF OtherRelayer, SyncHeader, allVars, vars, procVars, monitorVars,
        depositVars, txVars, headerVars
  <1>. QED
    BY <1>1, <1>2, <1>3, <1>4, <1>5, <1>6, <1>7, <1>8, <1>9, <1>10, <1>11,
       <1>12, <1>13, <1>14
    DEF ManagerNext, MonitorHeaders, ProveDeposits

LEMMA BaseBegins == ManagerInit => Base
  <1>. SUFFICES ASSUME ManagerInit PROVE Base
    OBVIOUS
  <1>1. IInv /\ TxProofs!IInv
    BY InitHolds, TxInvBegins DEF ManagerInit
  <1>2. /\ hpc = "scan" /\ header4sync = {} /\ mempool = <<>>
        /\ sending = {} /\ ~scanning
    BY DEF ManagerInit, Init, Tx!Init
  <1>3. failed \in BOOLEAN /\ included = 0
    BY DEF ManagerInit
  <1>4. HeaderTyping
    BY <1>2, <1>3, ManagerAssumption DEF HeaderTyping
  <1>5. Places
    BY <1>2 DEF Places
  <1>. QED
    BY <1>1, <1>4, <1>5 DEF Base

LEMMA BaseStep == Base /\ [ManagerNext]_allVars => Base'
  BY RelayInvStep, TxInvStep, HeaderTypingStep, PlacesStep DEF Base

LEMMA BaseHolds == ManagerSpec => []Base
  BY BaseBegins, BaseStep, PTL DEF ManagerSpec

LEMMA SeqOfMore ==
  ASSUME NEW S, NEW T, S \subseteq T
  PROVE  Seq(S) \subseteq Seq(T)
  <1>. SUFFICES ASSUME NEW s \in Seq(S) PROVE s \in Seq(T)
    OBVIOUS
  <1>1. Len(s) \in Nat /\ s \in [1..Len(s) -> S]
    OBVIOUS
  <1>2. s \in [1..Len(s) -> T]
    BY <1>1
  <1>. QED
    BY <1>1, <1>2

(***************************************************************************)
(* The variables of the parts and of the composition keep their types.     *)
(***************************************************************************)
THEOREM ManagerTypeCorrect == ManagerSpec => []ManagerTypeOK
  <1>1. Seq(Txs) \subseteq Seq([proof : BOOLEAN, batch : SUBSET (1..EthTip)])
    <2>1. Txs \subseteq [proof : BOOLEAN, batch : SUBSET (1..EthTip)]
      BY DEF Txs
    <2>. QED
      BY <2>1, SeqOfMore
  <1>2. Base => ManagerTypeOK
    BY <1>1, TxTyped DEF Base, IInv, HeaderTyping, ManagerTypeOK
  <1>. QED
    BY <1>2, BaseHolds, PTL

-----------------------------------------------------------------------------
(***************************************************************************)
(* What the parts promise holds of the whole: proofs are made deep enough, *)
(* no recorded deposit is forgotten, the Check bucket names the right      *)
(* deposits.                                                               *)
(***************************************************************************)
THEOREM ManagerRelays ==
  ManagerSpec => [](Confirmed /\ NotForgotten /\ CheckNamesDeposit)
  <1>1. Base => Confirmed /\ NotForgotten /\ CheckNamesDeposit
    BY DEF Base, IInv
  <1>. QED
    BY <1>1, BaseHolds, PTL

(***************************************************************************)
(* When events can be fetched, the database works and no other relayer     *)
(* syncs headers, no deposit below the scan is missed, and what left the   *)
(* Retry bucket is in the Check bucket, although headers and proofs fail,  *)
(* are broadcast again after time-outs, and end the process.               *)
(***************************************************************************)
THEOREM ManagerMissesNone ==
  ASSUME Faults \cap {"fetch", "db", "others"} = {}
  PROVE  ManagerSpec => [](NothingMissed /\ Accounted)
  <1>. DEFINE Inv == ScanInv /\ CheckFirst
  <1>1. Faults \cap {"fetch", "db", "others"} = {}
    OBVIOUS
  <1>2. ManagerInit => Inv
    BY ScanBegins DEF ManagerInit, Init, CheckFirst, Accounted
  <1>3. Base /\ Inv /\ [ManagerNext]_allVars => Inv'
    <2>. SUFFICES ASSUME Base, Inv, [ManagerNext]_allVars PROVE Inv'
      OBVIOUS
    <2>1. TypeOK /\ InProgress /\ IInv
      BY DEF Base, IInv
    <2>2. CASE [Next]_vars
      BY <1>1, <2>1, <2>2, ScanStep, CheckFirstStep
    <2>3. CASE Die
      BY <2>1, <2>3, ScanDeath, CheckFirstDeath
    <2>. QED
      BY <2>2, <2>3, RelaySteps DEF RelayStep
  <1>4. Inv => NothingMissed /\ Accounted
    BY DEF ScanInv, Scanned, NothingMissed, CheckFirst
  <1>. QED
    BY <1>2, <1>3, <1>4, BaseHolds, PTL DEF ManagerSpec

(***************************************************************************)
(* A relayer that starts where the bridge chain is, and is alone, does not *)
(* take up again a deposit that it relayed.                                *)
(***************************************************************************)
THEOREM ManagerClosesForGood ==
  ASSUME ForceHeight = 0, "others" \notin Faults
  PROVE  ManagerSpec => []ClosedStaysClosed
  <1>1. "others" \notin Faults
    OBVIOUS
  <1>2. ManagerInit => ClosedInv
    BY ClosedBegins DEF ManagerInit
  <1>3. Base /\ ClosedInv /\ [ManagerNext]_allVars => ClosedInv'
    <2>. SUFFICES ASSUME Base, ClosedInv, [ManagerNext]_allVars
         PROVE  ClosedInv'
      OBVIOUS
    <2>1. TypeOK /\ InProgress
      BY DEF Base, IInv
    <2>2. CASE [Next]_vars
      BY <1>1, <2>1, <2>2, ClosedStep
    <2>3. CASE Die
      BY <2>3, ClosedDeath
    <2>. QED
      BY <2>2, <2>3, RelaySteps DEF RelayStep
  <1>4. ClosedInv => ClosedStaysClosed
    BY DEF ClosedInv
  <1>. QED
    BY <1>2, <1>3, <1>4, BaseHolds, PTL DEF ManagerSpec

(***************************************************************************)
(* The two goroutines never use the same number, and as long as none was   *)
(* lost each number the node waits for is being sent by one of them.       *)
(***************************************************************************)
THEOREM ManagerNumbers == ManagerSpec => [](Tx!UniqueSeq /\ Tx!NoGap)
  <1>1. ManagerInit => TxProofs!NoGap
    BY TxAssumed DEF ManagerInit, Tx!Init, TxProofs!NoGap
  <1>2. Base /\ TxProofs!NoGap /\ [ManagerNext]_allVars => TxProofs!NoGap'
    <2>. SUFFICES ASSUME Base, TxProofs!NoGap, [ManagerNext]_allVars
         PROVE  TxProofs!NoGap'
      OBVIOUS
    <2>1. CASE [TxProofs!Next]_TxProofs!vars
      BY <2>1, TxProofs!NoGapStep, TxAssumed DEF Base
    <2>2. CASE TxProofs!Die
      BY <2>2 DEF TxProofs!Die, TxProofs!NoGap
    <2>. QED
      BY <2>1, <2>2, TxSteps DEF TxStep
  <1>3. Base /\ TxProofs!NoGap => Tx!UniqueSeq /\ Tx!NoGap
    BY DEF Base, TxProofs!IInv, TxProofs!UniqueSeq, Tx!UniqueSeq,
           TxProofs!NoGap, Tx!NoGap
  <1>. QED
    BY <1>1, <1>2, <1>3, BaseHolds, PTL DEF ManagerSpec

-----------------------------------------------------------------------------
(***************************************************************************)
(* What is in the mempool after one more transaction was broadcast, and    *)
(* after one was executed.                                                 *)
(***************************************************************************)
LEMMA TakenOnItsWay ==
  ASSUME HeaderTyping, NEW tx, mempool' = Append(mempool, tx)
  PROVE  \A h : OnItsWay(h)' <=> OnItsWay(h) \/ h \in tx.batch
  <1>1. /\ Len(mempool') = Len(mempool) + 1 /\ Len(mempool) \in Nat
        /\ \A i \in 1..Len(mempool) : mempool'[i] = mempool[i]
        /\ mempool'[Len(mempool) + 1] = tx
    BY DEF HeaderTyping
  <1>2. ASSUME NEW h, OnItsWay(h)' PROVE OnItsWay(h) \/ h \in tx.batch
    <2>1. PICK i \in 1..Len(mempool') : h \in mempool'[i].batch
      BY <1>2 DEF OnItsWay, Batches
    <2>2. CASE i \in 1..Len(mempool)
      BY <1>1, <2>1, <2>2 DEF OnItsWay, Batches
    <2>3. CASE i = Len(mempool) + 1
      BY <1>1, <2>1, <2>3
    <2>. QED
      BY <1>1, <2>2, <2>3
  <1>3. ASSUME NEW h, OnItsWay(h) PROVE OnItsWay(h)'
    <2>1. PICK i \in 1..Len(mempool) : h \in mempool[i].batch
      BY <1>3 DEF OnItsWay, Batches
    <2>2. i \in 1..Len(mempool') /\ h \in mempool'[i].batch
      BY <1>1, <2>1
    <2>. QED
      BY <2>2 DEF OnItsWay, Batches
  <1>4. ASSUME NEW h, h \in tx.batch PROVE OnItsWay(h)'
    <2>1. Len(mempool') \in 1..Len(mempool')
      BY <1>1
    <2>2. h \in mempool'[Len(mempool')].batch
      BY <1>1, <1>4
    <2>. QED
      BY <2>1, <2>2 DEF OnItsWay, Batches
  <1>. QED
    BY <1>2, <1>3, <1>4

LEMMA ExecutedOnItsWay ==
  ASSUME HeaderTyping, mempool # <<>>, mempool' = Tail(mempool)
  PROVE  \A h : OnItsWay(h) <=> OnItsWay(h)' \/ h \in Head(mempool).batch
  <1>1. /\ Len(mempool) \in Nat \ {0} /\ Len(mempool') = Len(mempool) - 1
        /\ \A i \in 1..Len(mempool') : mempool'[i] = mempool[i + 1]
        /\ Head(mempool) = mempool[1]
    BY DEF HeaderTyping
  <1>2. ASSUME NEW h, OnItsWay(h)
        PROVE  OnItsWay(h)' \/ h \in Head(mempool).batch
    <2>1. PICK i \in 1..Len(mempool) : h \in mempool[i].batch
      BY <1>2 DEF OnItsWay, Batches
    <2>2. CASE i = 1
      BY <1>1, <2>1, <2>2
    <2>3. CASE i # 1
      <3>1. i - 1 \in 1..Len(mempool') /\ (i - 1) + 1 = i
        BY <1>1, <2>3
      <3>2. h \in mempool'[i - 1].batch
        BY <1>1, <2>1, <3>1
      <3>. QED
        BY <3>1, <3>2 DEF OnItsWay, Batches
    <2>. QED
      BY <2>2, <2>3
  <1>3. ASSUME NEW h, OnItsWay(h)' PROVE OnItsWay(h)
    <2>1. PICK i \in 1..Len(mempool') : h \in mempool'[i].batch
      BY <1>3 DEF OnItsWay, Batches
    <2>2. i + 1 \in 1..Len(mempool) /\ h \in mempool[i + 1].batch
      BY <1>1, <2>1
    <2>. QED
      BY <2>2 DEF OnItsWay, Batches
  <1>4. ASSUME NEW h, h \in Head(mempool).batch PROVE OnItsWay(h)
    <2>1. 1 \in 1..Len(mempool) /\ h \in mempool[1].batch
      BY <1>1, <1>4
    <2>. QED
      BY <2>1 DEF OnItsWay, Batches
  <1>. QED
    BY <1>2, <1>3, <1>4

(***************************************************************************)
(* Neither the deposits nor a broadcast that is only begun have to do with *)
(* the headers.                                                            *)
(***************************************************************************)
Aside ==
  UNCHANGED <<up, currentHeight, synced, flight, scanning, headerVars, mempool>>

LEMMA StepsAside ==
  ASSUME \/ SendHeader \/ SendProof \/ OneByOne \/ CheckDeposits
         \/ UNCHANGED allVars
  PROVE  Aside
  <1>1. CASE SendHeader \/ SendProof \/ UNCHANGED allVars
    BY <1>1
    DEF SendHeader, SendProof, allVars, vars, procVars, monitorVars, chainVars,
        Aside
  <1>2. CASE CheckDeposits
    BY <1>2
    DEF CheckDeposits, CheckDeposit, CheckTick, CheckEntry, procVars,
        monitorVars, chainVars, Aside
  <1>3. CASE OneByOne
    BY <1>3
    DEF OneByOne, DepositTick, DepositList, SkipDeposit, GetProof, AddCheck,
        DropRetry, RoundDone, procVars, monitorVars, chainVars, Aside
  <1>. QED
    BY <1>1, <1>2, <1>3

LEMMA AsideKeeps == Aside => \A h : OnItsWay(h)' <=> OnItsWay(h)
  BY DEF Aside, OnItsWay, Batches

-----------------------------------------------------------------------------
(***************************************************************************)
(* When the header that is waited for is in a block, no other is left in   *)
(* the mempool.                                                            *)
(***************************************************************************)
Found == included > 0 => hpc = "confirm" /\ \A h : ~OnItsWay(h)

LEMMA FoundInBlock ==
  ASSUME HeaderTyping, mempool # <<>>, mempool' = Tail(mempool),
         \A i \in 2..Len(mempool) : mempool[i].proof
  PROVE  \A h : ~OnItsWay(h)'
  <1>1. /\ Len(mempool) \in Nat \ {0} /\ Len(mempool') = Len(mempool) - 1
        /\ \A i \in 1..Len(mempool') : mempool'[i] = mempool[i + 1]
    BY DEF HeaderTyping
  <1>2. SUFFICES ASSUME NEW h, OnItsWay(h)' PROVE FALSE
    OBVIOUS
  <1>3. PICK i \in 1..Len(mempool') : h \in mempool'[i].batch
    BY <1>2 DEF OnItsWay, Batches
  <1>4. i + 1 \in 2..Len(mempool) /\ mempool'[i] = mempool[i + 1]
    BY <1>1
  <1>5. mempool[i + 1] \in Txs /\ mempool[i + 1].proof
    BY <1>1, <1>4 DEF HeaderTyping
  <1>. QED
    BY <1>3, <1>4, <1>5 DEF Txs

LEMMA FoundStep == Base /\ Found /\ [ManagerNext]_allVars => Found'
  <1>. SUFFICES ASSUME Base, Found, [ManagerNext]_allVars, included' > 0
       PROVE  Found'
    BY DEF Found
  <1>1. CASE BridgeBlock
    <2>1. /\ mempool # <<>> /\ mempool' = Tail(mempool) /\ UNCHANGED hpc
      BY <1>1 DEF BridgeBlock
    <2>2. CASE WaitedFor
      <3>1. hpc = "confirm" /\ \A i \in 2..Len(mempool) : mempool[i].proof
        BY <2>2 DEF WaitedFor
      <3>. QED
        BY <2>1, <3>1, FoundInBlock DEF Found, Base
    <2>3. CASE ~WaitedFor
      <3>1. UNCHANGED included
        BY <1>1, <2>3 DEF BridgeBlock
      <3>2. \A h : OnItsWay(h)' => OnItsWay(h)
        BY <2>1, ExecutedOnItsWay DEF Base
      <3>. QED
        BY <2>1, <3>1, <3>2 DEF Found
    <2>. QED
      BY <2>2, <2>3
  <1>2. CASE ProofTaken
    <2>1. /\ mempool' = Append(mempool, ProofOfDeposit)
          /\ UNCHANGED <<hpc, included>>
      BY <1>2 DEF ProofTaken, headerVars
    <2>2. \A h : OnItsWay(h)' <=> OnItsWay(h)
      BY <2>1, TakenOnItsWay DEF Base, ProofOfDeposit
    <2>. QED
      BY <2>1, <2>2 DEF Found
  <1>3. CASE HeaderTaken
    <2>1. "header" \in sending /\ UNCHANGED included
      BY <1>3 DEF HeaderTaken, Tx!Accepted
    <2>. QED
      BY <2>1 DEF Base, Places, Found
  <1>4. CASE HeaderFailed
    <2>1. "header" \in sending /\ UNCHANGED included
      BY <1>4
      DEF HeaderFailed, Tx!Refused, Tx!TakenAlready, Base, TxProofs!IInv,
          TxProofs!TypeOK
    <2>. QED
      BY <2>1 DEF Base, Places, Found
  <1>5. CASE Scan
    BY <1>5 DEF Scan, Found
  <1>6. CASE HeaderConfirmed \/ ProofFailed \/ ManagerCrash \/ HeaderPanics
    <2>1. included' = 0
      BY <1>6
      DEF HeaderConfirmed, ProofFailed, ManagerCrash, HeaderPanics, ManagerDies
    <2>. QED
      BY <2>1
  <1>7. CASE \/ SendHeader \/ SendProof \/ OneByOne \/ CheckDeposits
             \/ ManagerRestart \/ OtherRelayer \/ UNCHANGED allVars
    <2>1. UNCHANGED <<hpc, included, mempool>>
      BY <1>7
      DEF SendHeader, SendProof, OneByOne, CheckDeposits, ManagerRestart,
          OtherRelayer, allVars, headerVars
    <2>. QED
      BY <2>1 DEF Found, OnItsWay, Batches
  <1>. QED
    BY <1>1, <1>2, <1>3, <1>4, <1>5, <1>6, <1>7
    DEF ManagerNext, MonitorHeaders, ProveDeposits

-----------------------------------------------------------------------------
(***************************************************************************)
(* While no header was answered with an error or failed when executed, the *)
(* goroutine of the headers scans only up to the bridge chain, and one     *)
(* block further when it has queued the header of that block; it does not  *)
(* go on before the bridge chain has it.                                   *)
(***************************************************************************)
InStep ==
  up /\ ~failed =>
    /\ hpc = "scan" =>
         /\ currentHeight <= synced
         /\ ~scanning => header4sync = {}
         /\ scanning => \/ header4sync = {} /\ currentHeight < synced
                        \/ header4sync = {currentHeight + 1}
    /\ hpc = "commit" =>
         \/ currentHeight <= synced
         \/ currentHeight = synced + 1 /\ currentHeight \in header4sync
    /\ hpc = "confirm" =>
         \/ currentHeight <= synced
         \/ currentHeight = synced + 1 /\ OnItsWay(currentHeight)

(***************************************************************************)
(* What a block of the bridge chain does to the headers.                   *)
(***************************************************************************)
LEMMA Executes ==
  ASSUME Base, BridgeBlock
  PROVE  /\ UNCHANGED <<up, currentHeight, scanning>>
         /\ \/ synced' = synced + 1 /\ flight' = FALSE /\ UNCHANGED failed
            \/ ~NextHeader /\ UNCHANGED <<synced, flight, failed>>
            \/ NextHeader /\ HeaderFails
  <1>1. CASE Head(mempool).proof
    <2>1. Deliver /\ UNCHANGED failed
      BY <1>1 DEF BridgeBlock
    <2>2. mempool # <<>> /\ Head(mempool) \in Txs
      BY DEF BridgeBlock, Base, HeaderTyping
    <2>3. ~NextHeader
      BY <1>1, <2>2 DEF NextHeader, Txs
    <2>. QED
      BY <2>1, <2>3 DEF Deliver, procVars, monitorVars
  <1>2. CASE ExecuteHeader
    BY <1>2
    DEF ExecuteHeader, SyncHeader, HeaderFails, LoseHeader, vars, procVars,
        monitorVars, chainVars
  <1>. QED
    BY <1>1, <1>2 DEF BridgeBlock

LEMMA HeightsTyped == Base => currentHeight \in Nat /\ synced \in Nat
  BY RelayAssumption DEF Base, IInv, TypeOK

LEMMA InStepStep ==
  Base /\ Found /\ InStep /\ [ManagerNext]_allVars => InStep'
  <1>. SUFFICES ASSUME Base, Found, InStep, [ManagerNext]_allVars, up', ~failed'
       PROVE  InStep'
    BY DEF InStep
  <1>1. currentHeight \in Nat /\ synced \in Nat
    BY HeightsTyped
  <1>2. CASE Scan
    <2>1. hpc = "scan" /\ up /\ UNCHANGED <<up, synced, failed, mempool>>
      BY <1>2
      DEF Scan, FetchEvents, FetchFails, RecordEvent, BlockDone, procVars,
          chainVars
    <2>2. ASSUME QueueHeader, ~scanning
          PROVE  /\ currentHeight <= synced
                 /\ \/ header4sync' = {} /\ currentHeight < synced
                    \/ header4sync' = {currentHeight + 1}
      <3>1. currentHeight <= synced /\ header4sync = {}
        BY <2>1, <2>2 DEF InStep
      <3>. QED
        BY <1>1, <2>2, <3>1 DEF QueueHeader, NextWanted
    <2>3. CASE FetchEvents /\ QueueHeader /\ UNCHANGED hpc
      <3>1. ~scanning /\ scanning' /\ UNCHANGED currentHeight
        BY <2>3 DEF FetchEvents
      <3>. QED
        BY <2>1, <2>2, <2>3, <3>1 DEF InStep
    <2>4. CASE RecordEvent /\ UNCHANGED <<hpc, header4sync>>
      BY <2>1, <2>4 DEF RecordEvent, InStep
    <2>5. CASE /\ FetchFails /\ QueueHeader
               /\ hpc' = IF header4sync' = {} THEN "scan" ELSE "commit"
      <3>1. ~scanning /\ ~scanning' /\ currentHeight' = currentHeight + 1
        BY <2>5 DEF FetchFails
      <3>. QED
        BY <1>1, <2>1, <2>2, <2>5, <3>1 DEF InStep
    <2>6. CASE /\ BlockDone /\ UNCHANGED header4sync
               /\ hpc' = IF header4sync' = {} THEN "scan" ELSE "commit"
      <3>1. scanning /\ ~scanning' /\ currentHeight' = currentHeight + 1
        BY <2>6 DEF BlockDone
      <3>. QED
        BY <1>1, <2>1, <2>6, <3>1 DEF InStep
    <2>. QED
      BY <1>2, <2>3, <2>4, <2>5, <2>6 DEF Scan
  <1>3. CASE HeaderTaken
    <2>1. /\ "header" \in sending
          /\ mempool' = Append(mempool, HeaderTx)
          /\ hpc' = IF "header" \in taken' THEN "commit" ELSE "confirm"
          /\ UNCHANGED <<up, failed, synced, currentHeight, scanning,
                         header4sync>>
      BY <1>3
      DEF HeaderTaken, Tx!Accepted, vars, procVars, chainVars, monitorVars
    <2>2. hpc = "commit"
      BY <2>1 DEF Base, Places
    <2>3. \A h \in header4sync : OnItsWay(h)'
      BY <2>1, TakenOnItsWay DEF Base, HeaderTx
    <2>. QED
      BY <2>1, <2>2, <2>3 DEF InStep
  <1>4. CASE HeaderConfirmed
    <2>1. /\ hpc = "confirm" /\ hpc' = "scan" /\ header4sync' = {}
          /\ \A h : ~OnItsWay(h)
          /\ UNCHANGED <<up, failed, synced, currentHeight, scanning>>
      BY <1>4
      DEF HeaderConfirmed, Found, vars, procVars, chainVars, monitorVars
    <2>2. ~scanning
      BY <2>1 DEF Base, Places
    <2>. QED
      BY <2>1, <2>2 DEF InStep
  <1>5. CASE ProofTaken
    <2>1. /\ mempool' = Append(mempool, ProofOfDeposit)
          /\ UNCHANGED <<up, failed, synced, currentHeight, scanning,
                         header4sync, hpc>>
      BY <1>5
      DEF ProofTaken, CommitProof, procVars, monitorVars, headerVars
    <2>2. \A h : OnItsWay(h)' <=> OnItsWay(h)
      BY <2>1, TakenOnItsWay DEF Base, ProofOfDeposit
    <2>. QED
      BY <2>1, <2>2 DEF InStep
  <1>6. CASE BridgeBlock
    <2>1. /\ mempool # <<>> /\ mempool' = Tail(mempool)
          /\ UNCHANGED <<up, currentHeight, scanning, header4sync, hpc>>
      BY <1>6, Executes DEF BridgeBlock
    <2>2. \A h : OnItsWay(h) => OnItsWay(h)' \/ h \in Head(mempool).batch
      BY <2>1, ExecutedOnItsWay DEF Base
    <2>3. CASE synced' = synced + 1 /\ UNCHANGED failed
      BY <1>1, <2>1, <2>3 DEF InStep
    <2>4. CASE ~NextHeader /\ UNCHANGED <<synced, failed>>
      BY <2>1, <2>2, <2>4 DEF InStep, NextHeader
    <2>5. ~HeaderFails
      BY DEF HeaderFails
    <2>. QED
      BY <1>6, <2>3, <2>4, <2>5, Executes
  <1>7. CASE ManagerRestart
    <2>1. /\ currentHeight' = InitHeight
          /\ UNCHANGED <<synced, scanning, header4sync, hpc>>
      BY <1>7 DEF ManagerRestart, Restart, chainVars
    <2>2. InitHeight <= synced
      BY <1>1, RelayAssumption DEF InitHeight
    <2>3. ~up
      BY <1>7 DEF ManagerRestart, Restart
    <2>. QED
      BY <2>1, <2>2, <2>3 DEF InStep, Base, Places
  <1>8. CASE HeaderFailed \/ ProofFailed \/ ManagerCrash \/ HeaderPanics
    BY <1>8
    DEF HeaderFailed, ProofFailed, ManagerCrash, HeaderPanics, ManagerDies,
        Die
  <1>9. CASE \/ SendHeader \/ SendProof \/ OneByOne \/ CheckDeposits
             \/ UNCHANGED allVars
    <2>1. Aside
      BY <1>9, StepsAside
    <2>2. \A h : OnItsWay(h)' <=> OnItsWay(h)
      BY <2>1, AsideKeeps
    <2>. QED
      BY <2>1, <2>2 DEF Aside, InStep, headerVars
  <1>10. CASE OtherRelayer
    <2>1. /\ synced' = synced + 1
          /\ UNCHANGED <<up, currentHeight, scanning, headerVars, mempool>>
      BY <1>10 DEF OtherRelayer, SyncHeader, procVars, monitorVars
    <2>. QED
      BY <1>1, <2>1 DEF InStep, headerVars
  <1>. QED
    BY <1>2, <1>3, <1>4, <1>5, <1>6, <1>7, <1>8, <1>9, <1>10
    DEF ManagerNext, MonitorHeaders, ProveDeposits

(***************************************************************************)
(* The goroutine of the headers never leaves the header behind that the    *)
(* bridge chain needs next, unless one was answered with an error or       *)
(* failed when it was executed: neither in the scan, whose fetches may     *)
(* fail, nor in a restart, nor while it waits or other relayers go ahead.  *)
(***************************************************************************)
THEOREM NoHeaderPassed == ManagerSpec => []HeaderNotPassed
  <1>1. ManagerInit => InStep /\ Found
    BY RelayAssumption DEF ManagerInit, Init, InitHeight, InStep, Found
  <1>2. Base /\ InStep => HeaderNotPassed
    <2>. SUFFICES ASSUME Base, InStep, up, ~failed, synced < currentHeight
         PROVE  synced + 1 \in header4sync \/ OnItsWay(synced + 1)
      BY DEF HeaderNotPassed
    <2>1. currentHeight \in Nat /\ synced \in Nat
      BY HeightsTyped
    <2>2. hpc \in {"scan", "commit", "confirm"}
      BY DEF Base, HeaderTyping
    <2>. QED
      BY <2>1, <2>2 DEF InStep
  <1>. QED
    BY <1>1, <1>2, InStepStep, FoundStep, BaseHolds, PTL DEF ManagerSpec

-----------------------------------------------------------------------------
(***************************************************************************)
(* A header is queued when the bridge chain has its parent, and its block  *)
(* is being scanned or was scanned.                                        *)
(***************************************************************************)
Queued ==
  /\ \A h \in header4sync : h <= synced + 1 /\ h <= currentHeight + 1
  /\ ~scanning => \A h \in header4sync : h <= currentHeight

FlightInv == Queued /\ FlightAgrees

LEMMA OnItsWayTyped == Base => \A h : OnItsWay(h) => h \in 1..EthTip
  <1>. SUFFICES ASSUME Base, NEW h, OnItsWay(h) PROVE h \in 1..EthTip
    OBVIOUS
  <1>1. PICK i \in 1..Len(mempool) : h \in mempool[i].batch
    BY DEF OnItsWay, Batches
  <1>2. mempool[i] \in Txs
    BY DEF Base, HeaderTyping
  <1>. QED
    BY <1>1, <1>2 DEF Txs

(***************************************************************************)
(* With the process its queue is gone, but not what the node has taken.    *)
(***************************************************************************)
LEMMA DeathOnItsWay == FlightAgrees /\ ManagerDies => FlightInv'
  <1>. SUFFICES ASSUME FlightAgrees, ManagerDies PROVE FlightInv'
    OBVIOUS
  <1>1. /\ flight' = OnItsWay(synced + 1)
        /\ header4sync' = {} /\ UNCHANGED <<synced, mempool>>
    BY DEF ManagerDies, Die
  <1>2. \A h : OnItsWay(h)' <=> OnItsWay(h)
    BY <1>1 DEF OnItsWay, Batches
  <1>3. flight' <=> OnItsWay(synced + 1)
    BY <1>1
  <1>. QED
    BY <1>1, <1>2, <1>3 DEF FlightInv, FlightAgrees, Queued

(***************************************************************************)
(* The header that failed may have been sent twice.                        *)
(***************************************************************************)
LEMMA ComesAgain ==
  ASSUME HeaderTyping, mempool # <<>>, mempool' = Tail(mempool),
         UNCHANGED synced
  PROVE  HeaderComesAgain <=> OnItsWay(synced + 1)'
  <1>1. /\ Len(mempool) \in Nat \ {0} /\ Len(mempool') = Len(mempool) - 1
        /\ \A i \in 1..Len(mempool') : mempool'[i] = mempool[i + 1]
    BY DEF HeaderTyping
  <1>2. ASSUME HeaderComesAgain PROVE OnItsWay(synced + 1)'
    <2>1. PICK i \in 2..Len(mempool) : synced + 1 \in mempool[i].batch
      BY <1>2 DEF HeaderComesAgain
    <2>2. i - 1 \in 1..Len(mempool') /\ (i - 1) + 1 = i
      BY <1>1
    <2>3. synced' + 1 \in mempool'[i - 1].batch
      BY <1>1, <2>1, <2>2
    <2>. QED
      BY <2>2, <2>3 DEF OnItsWay, Batches
  <1>3. ASSUME OnItsWay(synced + 1)' PROVE HeaderComesAgain
    <2>1. PICK i \in 1..Len(mempool') : synced' + 1 \in mempool'[i].batch
      BY <1>3 DEF OnItsWay, Batches
    <2>2. i + 1 \in 2..Len(mempool) /\ mempool'[i] = mempool[i + 1]
      BY <1>1
    <2>. QED
      BY <2>1, <2>2 DEF HeaderComesAgain
  <1>. QED
    BY <1>2, <1>3

LEMMA FlightStep == Base /\ FlightInv /\ [ManagerNext]_allVars => FlightInv'
  <1>. SUFFICES ASSUME Base, FlightInv, [ManagerNext]_allVars
       PROVE  FlightInv'
    OBVIOUS
  <1>. USE DEF FlightInv, FlightAgrees
  <1>1. currentHeight \in Nat /\ synced \in Nat
    BY HeightsTyped
  <1>2. CASE Scan
    <2>1. UNCHANGED <<up, synced, flight, mempool>>
      BY <1>2
      DEF Scan, FetchEvents, FetchFails, RecordEvent, BlockDone, procVars,
          chainVars
    <2>2. \A h : OnItsWay(h)' <=> OnItsWay(h)
      BY <2>1 DEF OnItsWay, Batches
    <2>3. CASE (FetchEvents \/ FetchFails) /\ QueueHeader
      <3>1. \/ header4sync' = header4sync
            \/ /\ synced = currentHeight
               /\ header4sync' = header4sync \cup {currentHeight + 1}
        BY <2>3 DEF QueueHeader, NextWanted
      <3>2. /\ ~scanning
            /\ \/ scanning' /\ UNCHANGED currentHeight
               \/ ~scanning' /\ currentHeight' = currentHeight + 1
        BY <2>3 DEF FetchEvents, FetchFails
      <3>3. /\ \A h \in header4sync : h \in Nat /\ h <= synced + 1
            /\ \A h \in header4sync : h <= currentHeight
        BY <3>2, RelayAssumption DEF Queued, Base, HeaderTyping
      <3>4. \A h \in header4sync' : /\ h \in Nat /\ h <= synced + 1
                                   /\ h <= currentHeight + 1
        <4>. HIDE DEF FlightInv, FlightAgrees
        <4>. QED
          BY <1>1, <3>1, <3>3
      <3>5. currentHeight' \in {currentHeight, currentHeight + 1}
        BY <3>2
      <3>6. ~scanning' => currentHeight' = currentHeight + 1
        BY <3>2
      <3>7. Queued'
        <4>. HIDE DEF FlightInv, FlightAgrees
        <4>1. \A h \in header4sync' : /\ h <= synced' + 1
                                     /\ h <= currentHeight' + 1
          BY <1>1, <2>1, <3>4, <3>5
        <4>2. ~scanning' => \A h \in header4sync' : h <= currentHeight'
          BY <1>1, <3>4, <3>6
        <4>. QED
          BY <4>1, <4>2 DEF Queued
      <3>. QED
        BY <1>1, <2>1, <2>2, <3>5, <3>7
    <2>4. CASE RecordEvent /\ UNCHANGED header4sync
      <3>1. UNCHANGED <<header4sync, currentHeight, scanning>>
        BY <2>4 DEF RecordEvent
      <3>. QED
        BY <2>1, <2>2, <3>1 DEF Queued
    <2>5. CASE BlockDone /\ UNCHANGED header4sync
      <3>1. currentHeight' = currentHeight + 1 /\ UNCHANGED header4sync
        BY <2>5 DEF BlockDone
      <3>2. Queued'
        BY <1>1, <2>1, <3>1, RelayAssumption
        DEF Queued, Base, HeaderTyping
      <3>. QED
        BY <1>1, <2>1, <2>2, <3>1, <3>2
    <2>. QED
      BY <1>2, <2>3, <2>4, <2>5 DEF Scan
  <1>3. CASE HeaderTaken
    <2>1. /\ "header" \in sending /\ up
          /\ mempool' = Append(mempool, HeaderTx)
          /\ UNCHANGED <<up, synced, flight, currentHeight, scanning,
                         header4sync>>
      BY <1>3
      DEF HeaderTaken, Tx!Accepted, vars, procVars, chainVars, monitorVars
    <2>2. ~scanning
      BY <2>1 DEF Base, Places
    <2>3. \A h : OnItsWay(h)' <=> OnItsWay(h) \/ h \in header4sync
      BY <2>1, TakenOnItsWay DEF Base, HeaderTx
    <2>4. synced + 1 \in header4sync => synced < currentHeight
      BY <1>1, <2>2 DEF Queued
    <2>. QED
      BY <2>1, <2>3, <2>4 DEF Queued
  <1>4. CASE HeaderConfirmed \/ HeaderFailed
    <2>1. /\ header4sync' \subseteq header4sync
          /\ UNCHANGED <<up, synced, flight, currentHeight, scanning, mempool>>
      BY <1>4
      DEF HeaderConfirmed, HeaderFailed, vars, procVars, chainVars, monitorVars
    <2>2. \A h : OnItsWay(h)' <=> OnItsWay(h)
      BY <2>1 DEF OnItsWay, Batches
    <2>. QED
      BY <2>1, <2>2 DEF Queued
  <1>5. CASE ProofTaken
    <2>1. /\ mempool' = Append(mempool, ProofOfDeposit)
          /\ UNCHANGED <<up, synced, flight, currentHeight, scanning,
                         header4sync>>
      BY <1>5 DEF ProofTaken, CommitProof, procVars, monitorVars, headerVars
    <2>2. \A h : OnItsWay(h)' <=> OnItsWay(h)
      BY <2>1, TakenOnItsWay DEF Base, ProofOfDeposit
    <2>. QED
      BY <2>1, <2>2 DEF Queued
  <1>6. CASE BridgeBlock
    <2>1. /\ mempool # <<>> /\ mempool' = Tail(mempool)
          /\ UNCHANGED <<up, currentHeight, scanning, header4sync>>
      BY <1>6, Executes DEF BridgeBlock
    <2>2. \A h : OnItsWay(h) <=> OnItsWay(h)' \/ h \in Head(mempool).batch
      BY <2>1, ExecutedOnItsWay DEF Base
    <2>3. CASE synced' = synced + 1 /\ flight' = FALSE
      <3>1. \A h : OnItsWay(h) => h \in 1..EthTip /\ h <= synced + 1
        BY OnItsWayTyped
      <3>2. ~OnItsWay(synced + 1)'
        BY <1>1, <2>2, <2>3, <3>1
      <3>3. \A h \in 1..EthTip : OnItsWay(h)' => h <= synced' + 1
        BY <1>1, <2>2, <2>3, <3>1
      <3>4. Queued'
        BY <1>1, <2>1, <2>3, RelayAssumption DEF Queued, Base, HeaderTyping
      <3>. QED
        BY <2>3, <3>2, <3>3, <3>4
    <2>4. CASE ~NextHeader /\ UNCHANGED <<synced, flight>>
      BY <2>1, <2>2, <2>4 DEF Queued, NextHeader
    <2>5. CASE HeaderFails
      <3>1. UNCHANGED synced /\ Queued'
        BY <2>1, <2>5
        DEF HeaderFails, LoseHeader, vars, chainVars, Queued
      <3>2. HeaderComesAgain <=> OnItsWay(synced + 1)'
        BY <2>1, <3>1, ComesAgain DEF Base
      <3>3. flight' => flight /\ HeaderComesAgain
        BY <2>5 DEF HeaderFails, LoseHeader, vars, chainVars
      <3>4. flight /\ HeaderComesAgain => flight'
        BY <2>5 DEF HeaderFails, vars, chainVars
      <3>. QED
        BY <2>1, <2>2, <3>1, <3>2, <3>3, <3>4
    <2>. QED
      BY <1>6, <2>3, <2>4, <2>5, Executes
  <1>7. CASE ManagerRestart
    <2>1. ~up /\ up' /\ UNCHANGED <<synced, flight, header4sync, mempool>>
      BY <1>7 DEF ManagerRestart, Restart, chainVars
    <2>2. \A h : OnItsWay(h)' <=> OnItsWay(h)
      BY <2>1 DEF OnItsWay, Batches
    <2>. QED
      BY <2>1, <2>2 DEF Queued, Base, Places
  <1>8. CASE ProofFailed \/ ManagerCrash \/ HeaderPanics
    BY <1>8, DeathOnItsWay DEF ProofFailed, ManagerCrash, HeaderPanics
  <1>9. CASE \/ SendHeader \/ SendProof \/ OneByOne \/ CheckDeposits
             \/ UNCHANGED allVars
    <2>1. Aside
      BY <1>9, StepsAside
    <2>2. \A h : OnItsWay(h)' <=> OnItsWay(h)
      BY <2>1, AsideKeeps
    <2>. QED
      BY <2>1, <2>2 DEF Aside, headerVars, Queued
  <1>10. CASE OtherRelayer
    <2>1. /\ synced' = synced + 1 /\ flight' = FALSE
          /\ UNCHANGED <<currentHeight, scanning, header4sync, mempool>>
      BY <1>10 DEF OtherRelayer, SyncHeader, monitorVars, headerVars
    <2>2. \A h : OnItsWay(h)' <=> OnItsWay(h)
      BY <2>1 DEF OnItsWay, Batches
    <2>3. \A h : OnItsWay(h) => h \in 1..EthTip /\ h <= synced + 1
      BY OnItsWayTyped
    <2>4. ~OnItsWay(synced + 1)'
      BY <1>1, <2>1, <2>2, <2>3
    <2>5. \A h \in 1..EthTip : OnItsWay(h)' => h <= synced' + 1
      BY <1>1, <2>1, <2>2, <2>3
    <2>6. Queued'
      BY <1>1, <2>1, RelayAssumption DEF Queued, Base, HeaderTyping
    <2>. QED
      BY <2>1, <2>4, <2>5, <2>6
  <1>. QED
    BY <1>2, <1>3, <1>4, <1>5, <1>6, <1>7, <1>8, <1>9, <1>10
    DEF ManagerNext, MonitorHeaders, ProveDeposits

(***************************************************************************)
(* What DepositRelay knows of headers on their way is what is in the       *)
(* mempool, and the bridge chain can take each of them when its turn comes *)
(* or knows it: no header is sent ahead of its block's scan or its parent. *)
(***************************************************************************)
THEOREM FlightsAgree == ManagerSpec => []FlightAgrees
  <1>1. ManagerInit => FlightInv
    <2>. SUFFICES ASSUME ManagerInit PROVE FlightInv
      OBVIOUS
    <2>1. mempool = <<>> /\ header4sync = {} /\ flight = FALSE
      BY DEF ManagerInit, Init
    <2>2. \A h : ~OnItsWay(h)
      BY <2>1 DEF OnItsWay, Batches
    <2>. QED
      BY <2>1, <2>2 DEF FlightInv, FlightAgrees, Queued
  <1>2. FlightInv => FlightAgrees
    BY DEF FlightInv
  <1>. QED
    BY <1>1, <1>2, FlightStep, BaseHolds, PTL DEF ManagerSpec
=============================================================================
