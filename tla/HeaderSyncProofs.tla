-------------------------- MODULE HeaderSyncProofs --------------------------
(***************************************************************************)
(* The scan of the Ethereum chain and its headers, for chains of any       *)
(* length, any batch size, faults and crashes; and that it implements the  *)
(* scan of DepositRelay.                                                   *)
(***************************************************************************)
EXTENDS HeaderSync, Arithmetic, SequenceTheorems

LEMMA MinusRange ==
  ASSUME NEW a \in Int, NEW b \in Int
  PROVE  Minus(a, b) \in 0..Word - 1
  BY ModRange, HeaderAssumption DEF Minus

(***************************************************************************)
(* What the goroutine has read is behind the chain, and the block it is at *)
(* exists; it is confirmed when the difference of heights does not wrap.   *)
(* A process that died is at the beginning.                                *)
(***************************************************************************)
Ahead ==
  /\ height <= ethHeight
  /\ ~up => pc = "idle"
  /\ pc = "events" =>
       /\ currentHeight + 1 <= ethHeight
       /\ height >= USEFUL => currentHeight + 1 + USEFUL <= ethHeight

IInv == TypeOK /\ Ahead

LEMMA InitHeightTyped ==
  ASSUME synced \in Genesis..MaxEth
  PROVE  InitHeight \in 0..MaxEth
  BY HeaderAssumption DEF InitHeight, EthTip, USEFUL

(***************************************************************************)
(* The bridge chain never goes back, and gets no header Ethereum has not.  *)
(***************************************************************************)
LEMMA AbsorbedTyped ==
  ASSUME synced \in Genesis..MaxEth, NEW batch \in SUBSET (1..MaxEth)
  PROVE  /\ Absorbed(batch) \in synced..MaxEth
         /\ (synced + 1)..Absorbed(batch) \subseteq batch
         /\ Absorbed(batch) + 1 \notin batch
  <1>. USE HeaderAssumption DEF EthTip, USEFUL
  <1>. DEFINE Ends == {n \in synced..MaxEth : n + 1 \notin batch}
  <1>1. Ends \subseteq Nat /\ MaxEth \in Ends
    OBVIOUS
  <1>2. PICK n \in Ends : \A m \in Ends : n <= m
    <2>. HIDE DEF Ends
    <2>. QED
      BY <1>1, Least
  <1>3. (synced + 1)..n \subseteq batch
    <2>. SUFFICES ASSUME NEW h \in (synced + 1)..n PROVE h \in batch
      OBVIOUS
    <2>1. h - 1 \in synced..MaxEth /\ h - 1 < n /\ (h - 1) + 1 = h
      BY <1>2
    <2>2. h - 1 \notin Ends
      <3>1. n \in Int /\ h - 1 \in Int /\ ~(n <= h - 1)
        BY <2>1
      <3>. HIDE DEF Ends
      <3>. QED
        BY <1>2, <3>1
    <2>. QED
      BY <2>1, <2>2
  <1>4. \E m \in synced..MaxEth :
          (synced + 1)..m \subseteq batch /\ m + 1 \notin batch
    BY <1>2, <1>3
  <1>. QED
    BY <1>4 DEF Absorbed

LEMMA InitHolds == Init => IInv
  <1>. SUFFICES ASSUME Init PROVE IInv
    OBVIOUS
  <1>. USE HeaderAssumption DEF EthTip, USEFUL
  <1>1. up \in BOOLEAN
    BY DEF Init
  <1>2. /\ ethHeight \in Genesis..MaxEth /\ synced \in Genesis..MaxEth
        /\ bridgeHeight \in BridgeStart..MaxBridge
        /\ crashes \in 0..MaxCrash
        /\ height = 0 /\ header4sync = {} /\ pc = "idle" /\ included = 0
    BY DEF Init
  <1>3. mempool \in Seq(SUBSET (1..MaxEth)) /\ Len(mempool) <= MaxPool
    BY DEF Init
  <1>4. currentHeight \in 0..MaxEth /\ scanned \in 0..MaxEth
    BY <1>2, InitHeightTyped DEF Init
  <1>. QED
    BY <1>1, <1>2, <1>3, <1>4 DEF IInv, TypeOK, Ahead

LEMMA Died ==
  ASSUME IInv, Die, crashes' \in 0..MaxCrash
  PROVE  IInv'
  <1>1. up' \in BOOLEAN
    BY DEF Die
  <1>. QED
    BY <1>1, HeaderAssumption
    DEF Die, IInv, TypeOK, Ahead, chain, EthTip, USEFUL

LEMMA StepHolds == IInv /\ [Next]_vars => IInv'
  <1>. SUFFICES ASSUME IInv, [Next]_vars PROVE IInv'
    OBVIOUS
  <1>. USE HeaderAssumption DEF EthTip, USEFUL
  <1>1. CASE Tick
    <2>1. /\ height' \in 0..ethHeight
          /\ pc' \in {"idle", "loop"}
      BY <1>1 DEF Tick, Reported, IInv, TypeOK, Ahead
    <2>. QED
      BY <1>1, <2>1 DEF Tick, IInv, TypeOK, Ahead, chain, proc
  <1>2. CASE HandleBlockHeader
    <2>1. CASE pc' = "idle" /\ UNCHANGED header4sync
      BY <1>2, <2>1 DEF HandleBlockHeader, IInv, TypeOK, Ahead, chain, proc
    <2>2. CASE /\ pc' = "events" /\ currentHeight + 1 <= ethHeight
               /\ header4sync' \subseteq header4sync \cup {currentHeight + 1}
      <3>1. header4sync' \in SUBSET (1..MaxEth)
        BY <2>2 DEF IInv, TypeOK
      <3>2. height >= USEFUL => currentHeight + 1 + USEFUL <= ethHeight
        <4>. SUFFICES ASSUME height >= 3
                      PROVE  currentHeight + 1 + 3 <= ethHeight
          OBVIOUS
        <4>1. height \in Nat /\ height <= ethHeight /\ ethHeight \in 0..MaxEth
              /\ currentHeight \in Nat
          BY DEF IInv, TypeOK, Ahead
        <4>2. Minus(height, 3) = height - 3
          <5>1. height - 3 \in 0..Word - 1 /\ Word \in Nat \ {0}
            BY <4>1
          <5>. QED
            BY <5>1, ModSmall DEF Minus
        <4>3. currentHeight < height - 3
          BY <1>2, <4>2 DEF HandleBlockHeader, MoreBlocks
        <4>. QED
          BY <4>1, <4>3
      <3>. QED
        BY <1>2, <2>2, <3>1, <3>2
        DEF HandleBlockHeader, IInv, TypeOK, Ahead, chain, proc
    <2>. QED
      BY <1>2, <2>1, <2>2 DEF HandleBlockHeader
  <1>3. CASE BlockHandled
    <2>1. currentHeight + 1 \in 0..MaxEth
      BY <1>3 DEF BlockHandled, IInv, TypeOK, Ahead
    <2>2. pc' \in {"commit", "loop"}
      BY <1>3 DEF BlockHandled
    <2>. QED
      BY <1>3, <2>1, <2>2 DEF BlockHandled, IInv, TypeOK, Ahead, chain, proc
  <1>4. CASE LoopDone
    <2>1. pc' \in {"idle", "commit"}
      BY <1>4 DEF LoopDone
    <2>. QED
      BY <1>4, <2>1 DEF LoopDone, IInv, TypeOK, Ahead, chain, proc
  <1>5. CASE CommitHeader
    <2>1. /\ pc' \in {"confirm", "idle", "rollback"}
          /\ included' \in 0..MaxBridge
      BY <1>5 DEF CommitHeader, IInv, TypeOK
    <2>2. mempool' \in Seq(SUBSET (1..MaxEth)) /\ Len(mempool') <= MaxPool
      <3>1. CASE UNCHANGED mempool
        BY <3>1 DEF IInv, TypeOK
      <3>2. CASE /\ Len(mempool) < MaxPool
                 /\ mempool' = Append(mempool, header4sync)
        BY <3>2 DEF IInv, TypeOK
      <3>. QED
        BY <1>5, <3>1, <3>2 DEF CommitHeader
    <2>. QED
      BY <1>5, <2>1, <2>2 DEF CommitHeader, IInv, TypeOK, Ahead, proc
  <1>6. CASE ConfirmHeader
    <2>1. /\ header4sync' \in SUBSET (1..MaxEth)
          /\ pc' \in {"loop", "confirm"}
          /\ included' \in 0..MaxBridge
      <3>1. CASE synced > included
        <4>1. header4sync' = {} /\ pc' = "loop" /\ included' = 0
          BY <1>6, <3>1 DEF ConfirmHeader
        <4>. QED
          BY <4>1
      <3>2. CASE ~(synced > included)
        <4>1. UNCHANGED <<header4sync, pc, included>> /\ pc = "confirm"
          BY <1>6, <3>2 DEF ConfirmHeader
        <4>. QED
          BY <4>1 DEF IInv, TypeOK
      <3>. QED
        BY <3>1, <3>2
    <2>2. up /\ UNCHANGED up
      BY <1>6 DEF ConfirmHeader, proc
    <2>. QED
      BY <1>6, <2>1, <2>2 DEF ConfirmHeader, IInv, TypeOK, Ahead, chain, proc
  <1>7. CASE CommitHeaderPanics
    BY <1>7, Died DEF CommitHeaderPanics, IInv, TypeOK
  <1>8. CASE RollBack
    <2>1. currentHeight' \in 0..Word - 1 /\ pc = "rollback"
      <3>1. currentHeight \in Int
        BY DEF IInv, TypeOK
      <3>2. Minus(currentHeight, 1) \in 0..Word - 1
        BY <3>1, MinusRange
      <3>. QED
        BY <1>8, <3>2 DEF RollBack, IInv, TypeOK
    <2>. QED
      BY <1>8, <2>1 DEF RollBack, IInv, TypeOK, Ahead, chain, proc
  <1>9. CASE Crash
    BY <1>9, Died DEF Crash, IInv, TypeOK
  <1>10. CASE Restart
    <2>1. up' \in BOOLEAN
      BY <1>10 DEF Restart
    <2>2. currentHeight' \in 0..MaxEth /\ scanned' \in 0..MaxEth
      BY <1>10, InitHeightTyped DEF Restart, IInv, TypeOK
    <2>3. pc # "events"
      BY <1>10 DEF Restart, IInv, Ahead
    <2>. QED
      BY <1>10, <2>1, <2>2, <2>3 DEF Restart, IInv, TypeOK, Ahead, chain
  <1>11. CASE EthBlock
    BY <1>11 DEF EthBlock, IInv, TypeOK, Ahead, proc, local
  <1>12. CASE BridgeBlock
    <2>1. Head(mempool) \in SUBSET (1..MaxEth)
          /\ mempool' \in Seq(SUBSET (1..MaxEth)) /\ Len(mempool') <= MaxPool
      BY <1>12 DEF BridgeBlock, IInv, TypeOK
    <2>2. synced' \in Genesis..MaxEth
      BY <1>12, <2>1, AbsorbedTyped DEF BridgeBlock, IInv, TypeOK
    <2>3. bridgeHeight' \in BridgeStart..MaxBridge
      BY <1>12 DEF BridgeBlock, IInv, TypeOK
    <2>4. included' \in 0..MaxBridge
      BY <1>12, <2>3 DEF BridgeBlock, IInv, TypeOK
    <2>. QED
      BY <1>12, <2>1, <2>2, <2>3, <2>4
      DEF BridgeBlock, IInv, TypeOK, Ahead, proc
  <1>13. CASE OtherRelayer
    BY <1>13 DEF OtherRelayer, IInv, TypeOK, Ahead, proc, local
  <1>14. CASE UNCHANGED vars
    BY <1>14 DEF IInv, TypeOK, Ahead, vars, chain, proc, local
  <1>. QED
    BY <1>1, <1>2, <1>3, <1>4, <1>5, <1>6, <1>7, <1>8, <1>9, <1>10, <1>11,
       <1>12, <1>13, <1>14 DEF Next, MonitorChain

LEMMA Invariance == Spec => []IInv
  BY InitHolds, StepHolds, PTL DEF Spec

(***************************************************************************)
(* The heights stay words and the headers those of the chain, although the *)
(* node may be behind, differences wrap and the roll back goes below 0.    *)
(***************************************************************************)
THEOREM TypeCorrect == Spec => []TypeOK
  <1>1. IInv => TypeOK
    BY DEF IInv
  <1>. QED
    BY <1>1, Invariance, PTL

(***************************************************************************)
(* Only confirmed blocks are passed, whatever the node reports, as long as *)
(* its height does not wrap.                                               *)
(***************************************************************************)
THEOREM ConfirmedOnly == Spec => OnlyConfirmedBlocks
  <1>1. ASSUME IInv, BlockHandled, height >= USEFUL
        PROVE  currentHeight' + USEFUL <= ethHeight
    BY <1>1 DEF BlockHandled, IInv, Ahead
  <1>2. IInv /\ [Next]_vars =>
          [BlockHandled /\ height >= USEFUL
             => currentHeight' + USEFUL <= ethHeight]_vars
    BY <1>1
  <1>. QED
    BY <1>2, Invariance, PTL DEF Spec, OnlyConfirmedBlocks
-----------------------------------------------------------------------------
(***************************************************************************)
(* The bridge chain knows the parent of each header queued or sent, for    *)
(* any batch size: the only one that is queued follows what it knows, and  *)
(* it does not go back.                                                    *)
(***************************************************************************)
THEOREM AllLinkable == Spec => []Linkable
  <1>. USE HeaderAssumption DEF EthTip, USEFUL
  <1>1. Init => Linkable
    BY DEF Init, Linkable, ToSet
  <1>2. ASSUME IInv, Linkable, [Next]_vars PROVE Linkable'
    <2>1. synced \in Nat /\ synced' \in Nat /\ synced <= synced'
      <3>1. synced \in Nat /\ synced' \in Nat
        <4>1. IInv'
          BY <1>2, StepHolds
        <4>2. synced \in Genesis..MaxEth /\ synced' \in Genesis..MaxEth
          BY <1>2, <4>1 DEF IInv, TypeOK
        <4>. QED
          BY <4>2
      <3>2. CASE BridgeBlock
        <4>1. Head(mempool) \in SUBSET (1..MaxEth)
          BY <1>2, <3>2 DEF BridgeBlock, IInv, TypeOK
        <4>2. Absorbed(Head(mempool)) \in synced..MaxEth
          BY <1>2, <4>1, AbsorbedTyped DEF IInv, TypeOK
        <4>. QED
          BY <3>1, <3>2, <4>2 DEF BridgeBlock
      <3>3. CASE OtherRelayer
        BY <3>1, <3>3 DEF OtherRelayer
      <3>4. CASE UNCHANGED synced
        BY <3>1, <3>4
      <3>. QED
        BY <1>2, <3>2, <3>3, <3>4
        DEF Next, MonitorChain, Tick, HandleBlockHeader, BlockHandled,
            LoopDone, CommitHeader, ConfirmHeader, CommitHeaderPanics, Die,
            RollBack, Crash, Restart, EthBlock, vars, chain
    <2>2. \A batch \in {header4sync} \cup ToSet(mempool) :
            \A h \in batch : h <= synced' + 1
      <3>. SUFFICES ASSUME NEW batch \in {header4sync} \cup ToSet(mempool),
                           NEW h \in batch
                    PROVE  h <= synced' + 1
        OBVIOUS
      <3>1. batch \subseteq 1..MaxEth
        BY <1>2 DEF IInv, TypeOK, ToSet
      <3>2. h \in Nat /\ h <= synced + 1
        BY <1>2, <3>1 DEF Linkable
      <3>3. \A m, n, k \in Nat : m <= n + 1 /\ n <= k => m <= k + 1
        OBVIOUS
      <3>. QED
        BY <2>1, <3>2, <3>3, Zenon
    <2>3. CASE HandleBlockHeader
      <3>1. /\ UNCHANGED <<synced, mempool>>
            /\ \A h \in header4sync' : h \in header4sync \/ h = synced + 1
        BY <1>2, <2>3 DEF HandleBlockHeader, NextWanted, chain, IInv, TypeOK
      <3>. QED
        BY <2>1, <2>2, <3>1 DEF Linkable
    <2>4. CASE CommitHeader
      <3>1. UNCHANGED <<synced, header4sync>>
        BY <2>4 DEF CommitHeader
      <3>2. ToSet(mempool') \subseteq {header4sync} \cup ToSet(mempool)
        <4>1. mempool \in Seq(SUBSET (1..MaxEth))
          BY <1>2 DEF IInv, TypeOK
        <4>2. CASE UNCHANGED mempool
          BY <4>2 DEF ToSet
        <4>3. CASE mempool' = Append(mempool, header4sync)
          BY <1>2, <4>1, <4>3 DEF ToSet, IInv, TypeOK
        <4>. QED
          BY <2>4, <4>2, <4>3 DEF CommitHeader
      <3>. QED
        BY <2>2, <3>1, <3>2 DEF Linkable
    <2>5. CASE BridgeBlock
      <3>1. ToSet(mempool') \subseteq ToSet(mempool) /\ UNCHANGED header4sync
        <4>1. mempool \in Seq(SUBSET (1..MaxEth)) /\ mempool # <<>>
              /\ mempool' = Tail(mempool) /\ UNCHANGED header4sync
          BY <1>2, <2>5 DEF BridgeBlock, IInv, TypeOK
        <4>. QED
          BY <4>1 DEF ToSet
      <3>. QED
        BY <2>2, <3>1 DEF Linkable
    <2>6. CASE UNCHANGED mempool /\ header4sync' \in {{}, header4sync}
      BY <2>2, <2>6 DEF Linkable
    <2>. QED
      BY <1>2, <2>3, <2>4, <2>5, <2>6
      DEF Next, MonitorChain, Tick, BlockHandled, LoopDone, ConfirmHeader,
          CommitHeaderPanics, Die, RollBack, Crash, Restart, EthBlock,
          OtherRelayer, vars, chain, local
  <1>. QED
    BY <1>1, <1>2, Invariance, PTL DEF Spec

-----------------------------------------------------------------------------
(***************************************************************************)
(* Which headers may be queued at each point: while the events of a block  *)
(* are fetched its own as well, and after a roll back any.                 *)
(***************************************************************************)
Fetched ==
  /\ ~up => header4sync = {}
  /\ pc = "events" => \A h \in header4sync : h <= currentHeight + 1
  /\ pc \notin {"events", "rollback"} =>
       \A h \in header4sync : h <= currentHeight

LEMMA QueuedFetched == Spec => []Fetched
  <1>1. Init => Fetched
    BY DEF Init, Fetched
  <1>2. ASSUME IInv, Fetched, [Next]_vars PROVE Fetched'
    <2>1. currentHeight \in Nat /\ \A h \in header4sync : h \in Nat
      BY <1>2, HeaderAssumption DEF IInv, TypeOK
    <2>2. CASE HandleBlockHeader
      <3>1. pc = "loop" /\ pc' \in {"events", "idle"} /\ UNCHANGED currentHeight
        BY <2>2 DEF HandleBlockHeader
      <3>2. /\ pc' = "idle" => header4sync' = header4sync
            /\ \A h \in header4sync' :
                 h \in header4sync \/ h = currentHeight + 1
        BY <2>2 DEF HandleBlockHeader
      <3>3. up /\ up'
        BY <2>2 DEF HandleBlockHeader, proc
      <3>. QED
        BY <1>2, <2>1, <3>1, <3>2, <3>3 DEF Fetched
    <2>3. CASE BlockHandled
      <3>1. /\ pc = "events" /\ pc' \in {"commit", "loop"}
            /\ currentHeight' = currentHeight + 1 /\ UNCHANGED header4sync
        BY <2>3 DEF BlockHandled
      <3>2. up /\ up'
        BY <2>3 DEF BlockHandled, proc
      <3>. QED
        BY <1>2, <2>1, <3>1, <3>2 DEF Fetched
    <2>4. CASE Tick \/ LoopDone \/ CommitHeader
      <3>1. /\ pc \in {"idle", "loop", "commit"}
            /\ pc' \notin {"events"}
            /\ UNCHANGED <<currentHeight, header4sync>>
        BY <2>4 DEF Tick, LoopDone, CommitHeader
      <3>2. up /\ up'
        BY <2>4 DEF Tick, LoopDone, CommitHeader, proc
      <3>. QED
        BY <1>2, <3>1, <3>2 DEF Fetched
    <2>5. CASE header4sync' = {}
      BY <2>5 DEF Fetched
    <2>6. CASE UNCHANGED <<up, pc, header4sync>>
               /\ (pc = "rollback" \/ UNCHANGED currentHeight)
      BY <1>2, <2>6 DEF Fetched
    <2>7. CASE Restart
      <3>1. header4sync' = {}
        BY <1>2, <2>7 DEF Restart, Fetched
      <3>. QED
        BY <2>5, <3>1
    <2>8. CASE ConfirmHeader
      <3>1. \/ header4sync' = {}
            \/ UNCHANGED <<up, pc, header4sync, currentHeight>>
        BY <2>8 DEF ConfirmHeader, proc
      <3>. QED
        BY <2>5, <2>6, <3>1
    <2>. QED
      BY <1>2, <2>2, <2>3, <2>4, <2>5, <2>6, <2>7, <2>8
      DEF Next, MonitorChain, CommitHeaderPanics, Die, RollBack, Crash,
          EthBlock, BridgeBlock, OtherRelayer, vars, proc, local
  <1>. QED
    BY <1>1, <1>2, Invariance, PTL DEF Spec

(***************************************************************************)
(* No header is on its way before the deposits of its block were fetched,  *)
(* also when batches are refused, kept and filled up later.                *)
(***************************************************************************)
THEOREM FetchedBefore == Spec => []FetchedFirst
  <1>1. Fetched => FetchedFirst
    BY DEF Fetched, FetchedFirst
  <1>. QED
    BY <1>1, QueuedFetched, PTL

-----------------------------------------------------------------------------
(***************************************************************************)
(* The goroutine of the headers implements the scan of DepositRelay: what  *)
(* is proved about deposits holds with the goroutine as it is.             *)
(***************************************************************************)

(***************************************************************************)
(* The scan is where the goroutine is, except in a roll back; and the      *)
(* batch it waits for is the last one in the mempool.                      *)
(***************************************************************************)
ScanHere == up /\ pc # "rollback" => scanned = currentHeight

WaitsForLast == Waiting /\ mempool # <<>> => Last(mempool) = header4sync

LEMMA ScanHereHolds ==
  ASSUME IInv, ScanHere, [Next]_vars
  PROVE  ScanHere'
  <1>1. CASE /\ UNCHANGED <<scanned, currentHeight, up>>
             /\ pc = "rollback" => pc' = "rollback"
    BY <1>1 DEF ScanHere
  <1>2. CASE BlockHandled
    BY <1>2 DEF BlockHandled, ScanHere
  <1>3. CASE RollBack
    BY <1>3 DEF RollBack, ScanHere
  <1>4. CASE Restart
    BY <1>4 DEF Restart, ScanHere
  <1>5. CASE ~up'
    BY <1>5 DEF ScanHere
  <1>. QED
    BY <1>1, <1>2, <1>3, <1>4, <1>5
    DEF Next, MonitorChain, Tick, HandleBlockHeader, LoopDone, CommitHeader,
        ConfirmHeader, CommitHeaderPanics, Die, Crash, EthBlock, BridgeBlock,
        OtherRelayer, vars, proc, local

LEMMA WaitsForLastHolds ==
  ASSUME IInv, WaitsForLast, [Next]_vars
  PROVE  WaitsForLast'
  <1>1. mempool \in Seq(SUBSET (1..MaxEth)) /\ up \in BOOLEAN
        /\ header4sync \in SUBSET (1..MaxEth)
    BY DEF IInv, TypeOK
  <1>2. CASE CommitHeader
    <2>1. ASSUME mempool' = Append(mempool, header4sync)
          PROVE  Last(mempool') = header4sync
      BY <1>1, <2>1 DEF Last
    <2>. QED
      BY <1>2, <2>1 DEF CommitHeader, WaitsForLast, Waiting
  <1>3. CASE BridgeBlock
    <2>1. SUFFICES ASSUME Waiting', mempool' # <<>>
                   PROVE  Last(mempool') = header4sync'
      BY DEF WaitsForLast
    <2>2. Len(mempool) # 1 /\ mempool # <<>> /\ mempool' = Tail(mempool)
          /\ header4sync' = header4sync
      BY <1>1, <1>3, <2>1 DEF BridgeBlock
    <2>3. Waiting
      BY <1>3, <2>1, <2>2 DEF BridgeBlock, Waiting, proc
    <2>4. Last(mempool') = Last(mempool)
      <3>1. Len(mempool) \in Nat /\ Len(mempool) > 1
        <4>1. Len(mempool) \in Nat /\ Len(Tail(mempool)) \in Nat
          BY <1>1, <2>2, HeadTailProperties, LenProperties
        <4>2. Len(Tail(mempool)) = Len(mempool) - 1
          BY <1>1, <2>2, HeadTailProperties
        <4>. QED
          BY <2>2, <4>1, <4>2
      <3>2. /\ Len(mempool') = Len(mempool) - 1
            /\ \A i \in 1..Len(mempool') : mempool'[i] = mempool[i + 1]
        BY <1>1, <2>2, HeadTailProperties
      <3>3. mempool'[Len(mempool')] = mempool[Len(mempool)]
        BY <3>1, <3>2
      <3>. QED
        BY <3>3 DEF Last
    <2>. QED
      BY <2>2, <2>3, <2>4 DEF WaitsForLast
  <1>4. CASE UNCHANGED <<up, pc, included, mempool, header4sync>>
    BY <1>4 DEF WaitsForLast, Waiting
  <1>5. CASE pc' # "confirm"
    BY <1>5 DEF WaitsForLast, Waiting
  <1>6. CASE Restart
    BY <1>6 DEF Restart, IInv, Ahead, WaitsForLast, Waiting
  <1>7. CASE ConfirmHeader
    BY <1>7, <1>4, <1>5 DEF ConfirmHeader, chain, proc
  <1>. QED
    BY <1>2, <1>3, <1>4, <1>5, <1>6, <1>7
    DEF Next, MonitorChain, Tick, HandleBlockHeader, BlockHandled, LoopDone,
        CommitHeaderPanics, Die, RollBack, Crash, EthBlock, OtherRelayer,
        vars, proc, local, chain

-----------------------------------------------------------------------------
(***************************************************************************)
(* A header that a process which no longer waits for it left behind.       *)
(***************************************************************************)
Flight == \E batch \in LeftBehind : synced + 1 \in batch

LEMMA FrontElements ==
  ASSUME NEW S, NEW s \in Seq(S)
  PROVE  ToSet(Front(s)) = {s[i] : i \in 1..Len(s) - 1}
  <1>1. Len(s) \in Nat
    BY LenProperties
  <1>2. Front(s) = [i \in 1..Len(s) - 1 |-> s[i]]
    BY <1>1 DEF Front
  <1>3. DOMAIN Front(s) = 1..Len(s) - 1
    BY <1>2
  <1>. QED
    BY <1>2, <1>3 DEF ToSet

LEMMA NothingAhead ==
  ASSUME IInv, Linkable, NEW batch \in ToSet(mempool), NEW n \in Nat,
         n > synced
  PROVE  n + 1 \notin batch
  BY HeaderAssumption DEF Linkable, IInv, TypeOK, EthTip, USEFUL

LEMMA LeftInMempool ==
  ASSUME IInv
  PROVE  LeftBehind \subseteq ToSet(mempool)
  <1>1. mempool \in Seq(SUBSET (1..MaxEth))
    BY DEF IInv, TypeOK
  <1>2. ToSet(Front(mempool)) \subseteq ToSet(mempool)
    BY <1>1 DEF Front, ToSet
  <1>. QED
    BY <1>2 DEF LeftBehind

(***************************************************************************)
(* A block of the bridge chain leaves nothing behind that was not before.  *)
(***************************************************************************)
LEMMA LeftShrinks ==
  ASSUME IInv, BridgeBlock
  PROVE  LeftBehind' \subseteq LeftBehind
  <1>1. /\ mempool \in Seq(SUBSET (1..MaxEth)) /\ mempool # <<>>
        /\ mempool' = Tail(mempool)
    BY DEF BridgeBlock, IInv, TypeOK
  <1>2. /\ Len(mempool') = Len(mempool) - 1
        /\ Len(mempool) \in Nat /\ Len(mempool') \in Nat
        /\ \A i \in 1..Len(mempool') : mempool'[i] = mempool[i + 1]
    BY <1>1, HeadTailProperties, LenProperties
  <1>3. ToSet(mempool') \subseteq ToSet(mempool)
    BY <1>1 DEF ToSet
  <1>4. ToSet(Front(mempool')) \subseteq ToSet(Front(mempool))
    <2>1. mempool' \in Seq(SUBSET (1..MaxEth))
      BY <1>1, HeadTailProperties
    <2>2. ToSet(Front(mempool)) = {mempool[i] : i \in 1..Len(mempool) - 1}
      BY <1>1, FrontElements
    <2>3. ToSet(Front(mempool')) = {mempool'[i] : i \in 1..Len(mempool') - 1}
      BY <2>1, FrontElements
    <2>4. ASSUME NEW i \in 1..Len(mempool') - 1
          PROVE  /\ i + 1 \in 1..Len(mempool) - 1
                 /\ mempool'[i] = mempool[i + 1]
      BY <1>2
    <2>. QED
      BY <2>2, <2>3, <2>4
  <1>5. CASE ~Waiting
    <2>1. ToSet(Front(mempool')) \subseteq ToSet(mempool')
      BY <1>1 DEF Front, ToSet
    <2>. QED
      BY <1>3, <1>5, <2>1 DEF LeftBehind
  <1>6. CASE Waiting /\ Waiting'
    BY <1>4, <1>6 DEF LeftBehind
  <1>7. CASE Waiting /\ ~Waiting'
    <2>1. Len(mempool) = 1
      BY <1>7 DEF BridgeBlock, Waiting, proc
    <2>2. ToSet(mempool') = {}
      BY <1>2, <2>1 DEF ToSet
    <2>. QED
      BY <1>7, <2>2 DEF LeftBehind
  <1>. QED
    BY <1>5, <1>6, <1>7

-----------------------------------------------------------------------------
(***************************************************************************)
(* The steps of DepositRelay, as far as this goroutine goes.               *)
(***************************************************************************)
LEMMA Stutter ==
  ASSUME UNCHANGED <<synced, proc, scanned>>,
         pc' = "events" <=> pc = "events", Flight' <=> Flight
  PROVE  UNCHANGED Relay!vars
  BY DEF Flight, proc, Relay!vars, Relay!chainVars, Relay!procVars,
         Relay!monitorVars, Relay!depositVars, Relay!history

LEMMA Fetching ==
  ASSUME UNCHANGED <<synced, proc, scanned>>, Flight' <=> Flight,
         up, pc # "events", scanned < MaxEth, pc' = "events"
  PROVE  Relay!FetchEvents
  BY DEF Flight, proc, Relay!FetchEvents, Relay!DepositsIn, Relay!chainVars,
         Relay!procVars, Relay!depositVars, Relay!history

LEMMA BlockPassed ==
  ASSUME UNCHANGED <<synced, proc>>, Flight' <=> Flight,
         up, pc = "events", scanned' = scanned + 1, pc' # "events"
  PROVE  Relay!BlockDone
  BY DEF Flight, proc, Relay!BlockDone, Relay!chainVars,
         Relay!procVars, Relay!depositVars, Relay!history

LEMMA Dying ==
  ASSUME UNCHANGED <<synced, scanned>>, ~up', pc' # "events",
         Flight => Flight', Flight' => Flight \/ synced < scanned
  PROVE  Relay!Die
  BY DEF Flight, Relay!Die, Relay!history

LEMMA Synced ==
  ASSUME UNCHANGED <<proc, scanned>>, pc' = "events" <=> pc = "events",
         synced < MaxEth, synced' = synced + 1, ~Flight',
         (up /\ synced < scanned) \/ Flight \/ "others" \in Faults
  PROVE  Relay!SyncHeader
  BY DEF Flight, proc, Relay!SyncHeader, Relay!procVars, Relay!monitorVars,
         Relay!depositVars, Relay!history

LEMMA Losing ==
  ASSUME UNCHANGED <<synced, proc, scanned>>,
         pc' = "events" <=> pc = "events", Flight, ~Flight'
  PROVE  Relay!LoseHeader
  BY DEF Flight, proc, Relay!LoseHeader, Relay!procVars, Relay!monitorVars,
         Relay!depositVars, Relay!history

LEMMA Restarting ==
  ASSUME UNCHANGED <<synced, crashes>>, ~up, up' = TRUE,
         pc' = "events" <=> pc = "events", Flight' <=> Flight,
         scanned' = InitHeight
  PROVE  Relay!Restart
  BY DEF Flight, InitHeight, Relay!InitHeight, Relay!Restart,
         Relay!chainVars, Relay!depositVars, Relay!history

LEMMA ScanBegins == Init => Relay!Init
  <1>. SUFFICES ASSUME Init PROVE Relay!Init
    OBVIOUS
  <1>1. LeftBehind = {}
    BY DEF Init, LeftBehind, Waiting, ToSet
  <1>2. ~Flight
    BY <1>1 DEF Flight
  <1>. QED
    BY <1>2 DEF Flight, Init, Relay!Init, InitHeight, Relay!InitHeight

(***************************************************************************)
(* What the proof of a step relies on.                                     *)
(***************************************************************************)
Inv == IInv /\ Linkable /\ Fetched /\ ScanHere /\ WaitsForLast

(***************************************************************************)
(* A process that dies may leave a header behind, of a block it scanned.   *)
(***************************************************************************)
LEMMA DeathImplements ==
  ASSUME Inv, up, Die
  PROVE  Relay!Die
  <1>1. mempool \in Seq(SUBSET (1..MaxEth)) /\ synced \in Nat
    BY HeaderAssumption DEF Inv, IInv, TypeOK, EthTip, USEFUL
  <1>2. LeftBehind' = ToSet(mempool) /\ UNCHANGED <<synced, scanned>>
    BY DEF Die, LeftBehind, Waiting, chain, ToSet
  <1>3. LeftBehind \subseteq ToSet(mempool)
    BY LeftInMempool DEF Inv
  <1>4. Flight => Flight'
    BY <1>2, <1>3 DEF Flight
  <1>5. ASSUME Flight', ~Flight PROVE synced < scanned
    <2>1. PICK batch \in ToSet(mempool) : synced + 1 \in batch
      BY <1>2, <1>5 DEF Flight
    <2>2. Waiting /\ mempool # <<>>
      BY <1>1, <1>5, <2>1 DEF Flight, LeftBehind, ToSet
    <2>3. batch = Last(mempool)
      <3>1. PICK i \in 1..Len(mempool) : batch = mempool[i]
        BY <1>1, <2>1 DEF ToSet
      <3>2. Len(mempool) \in Nat
        BY <1>1, LenProperties
      <3>3. ASSUME i # Len(mempool) PROVE FALSE
        <4>1. i \in 1..Len(mempool) - 1
          BY <3>2, <3>3
        <4>2. batch \in ToSet(Front(mempool))
          BY <1>1, <3>1, <4>1, FrontElements
        <4>. QED
          BY <1>5, <2>1, <2>2, <4>2 DEF Flight, LeftBehind
      <3>. QED
        BY <3>1, <3>3 DEF Last
    <2>4. synced + 1 \in header4sync
      BY <2>1, <2>2, <2>3 DEF Inv, WaitsForLast
    <2>5. synced + 1 <= currentHeight /\ currentHeight = scanned
      BY <2>2, <2>4 DEF Inv, Fetched, ScanHere, Waiting
    <2>. QED
      BY <1>1, <2>5 DEF Inv, IInv, TypeOK
  <1>. QED
    BY <1>2, <1>4, <1>5, Dying DEF Die

(***************************************************************************)
(* When the bridge chain takes a header, no later one is left behind.      *)
(***************************************************************************)
LEMMA TakenAlone ==
  ASSUME Inv, LeftBehind' \subseteq ToSet(mempool), synced' = synced + 1
  PROVE  ~Flight'
  <1>1. synced \in Nat /\ synced' \in Nat /\ synced' > synced
    BY HeaderAssumption DEF Inv, IInv, TypeOK, EthTip, USEFUL
  <1>2. \A batch \in ToSet(mempool) : synced' + 1 \notin batch
    BY <1>1, NothingAhead DEF Inv
  <1>. QED
    BY <1>2 DEF Flight

LEMMA BridgeBlockImplements ==
  ASSUME Inv, BridgeBlock
  PROVE  Relay!SyncHeader \/ Relay!LoseHeader \/ UNCHANGED Relay!vars
  <1>1. /\ mempool \in Seq(SUBSET (1..MaxEth)) /\ mempool # <<>>
        /\ synced \in Genesis..MaxEth /\ synced \in Nat /\ MaxEth \in Nat
    BY HeaderAssumption DEF Inv, IInv, TypeOK, BridgeBlock, EthTip, USEFUL
  <1>2. Head(mempool) \in SUBSET (1..MaxEth) /\ Head(mempool) \in ToSet(mempool)
    <2>1. Head(mempool) = mempool[1] /\ Len(mempool) \in Nat /\ Len(mempool) > 0
      BY <1>1, LenProperties, EmptySeq
    <2>. QED
      BY <1>1, <2>1 DEF ToSet
  <1>3. LeftBehind' \subseteq LeftBehind /\ LeftBehind \subseteq ToSet(mempool)
    BY LeftShrinks, LeftInMempool DEF Inv
  <1>4. UNCHANGED <<proc, scanned, pc>>
    BY DEF BridgeBlock
  <1>5. CASE synced' = synced
    <2>1. Flight' => Flight
      BY <1>3, <1>5 DEF Flight
    <2>2. CASE Flight' <=> Flight
      BY <1>4, <1>5, <2>2, Stutter
    <2>3. CASE Flight /\ ~Flight'
      BY <1>4, <1>5, <2>3, Losing
    <2>. QED
      BY <2>1, <2>2, <2>3
  <1>6. CASE synced' # synced
    <2>. DEFINE n == Absorbed(Head(mempool))
    <2>1. synced' = n /\ n \in synced..MaxEth
          /\ (synced + 1)..n \subseteq Head(mempool)
      BY <1>1, <1>2, <1>6, AbsorbedTyped DEF BridgeBlock
    <2>. HIDE DEF n
    <2>2. n \in Head(mempool) /\ synced + 1 \in Head(mempool) /\ n > synced
      BY <1>1, <1>6, <2>1
    <2>3. n <= synced + 1
      BY <1>2, <2>2 DEF Inv, Linkable
    <2>4. synced' = synced + 1 /\ synced < MaxEth
      BY <1>1, <2>1, <2>2, <2>3
    <2>5. ~Flight'
      BY <1>3, <2>4, TakenAlone
    <2>6. Flight \/ (up /\ synced < scanned)
      <3>1. CASE Head(mempool) \in LeftBehind
        BY <2>2, <3>1 DEF Flight
      <3>2. CASE Head(mempool) \notin LeftBehind
        <4>1. Waiting
          BY <1>2, <3>2 DEF LeftBehind
        <4>2. Len(mempool) = 1
          <5>1. Len(mempool) \in Nat /\ Len(mempool) > 0
                /\ Head(mempool) = mempool[1]
            BY <1>1, LenProperties, EmptySeq
          <5>2. ASSUME Len(mempool) # 1 PROVE FALSE
            <6>1. 1 \in 1..Len(mempool) - 1
              <7>1. \A k \in Nat : k > 0 /\ k # 1 => 1 \in 1..k - 1
                OBVIOUS
              <7>. QED
                BY <5>1, <5>2, <7>1, Zenon
            <6>2. Head(mempool) \in ToSet(Front(mempool))
              BY <1>1, <5>1, <6>1, FrontElements
            <6>. QED
              BY <3>2, <4>1, <6>2 DEF LeftBehind
          <5>. QED
            BY <5>2
        <4>3. Head(mempool) = header4sync
          BY <1>1, <4>1, <4>2 DEF Inv, WaitsForLast, Last
        <4>4. synced + 1 <= currentHeight /\ currentHeight = scanned
          BY <2>2, <4>1, <4>3 DEF Inv, Fetched, ScanHere, Waiting
        <4>5. scanned \in Nat
          BY HeaderAssumption DEF Inv, IInv, TypeOK
        <4>. QED
          BY <1>1, <4>1, <4>4, <4>5 DEF Waiting
      <3>. QED
        BY <3>1, <3>2
    <2>. QED
      BY <1>4, <2>4, <2>5, <2>6, Synced
  <1>. QED
    BY <1>5, <1>6

LEMMA FlightKept ==
  ASSUME UNCHANGED <<synced, mempool>>, Waiting' <=> Waiting
  PROVE  Flight' <=> Flight
  BY DEF Flight, LeftBehind

(***************************************************************************)
(* A batch that is sent is not left behind as long as its sender waits.    *)
(***************************************************************************)
LEMMA CommitImplements ==
  ASSUME Inv, CommitHeader
  PROVE  UNCHANGED Relay!vars
  <1>1. /\ mempool \in Seq(SUBSET (1..MaxEth))
        /\ header4sync \in SUBSET (1..MaxEth)
    BY DEF Inv, IInv, TypeOK
  <1>2. /\ UNCHANGED <<synced, proc, scanned>> /\ ~Waiting
        /\ pc' # "events" /\ pc # "events"
    BY DEF CommitHeader, Waiting
  <1>3. CASE mempool' = mempool /\ pc' # "confirm"
    BY <1>2, <1>3, FlightKept, Stutter DEF Waiting
  <1>4. CASE mempool' = Append(mempool, header4sync) /\ Waiting'
    <2>1. /\ mempool' \in Seq(SUBSET (1..MaxEth)) /\ Len(mempool) \in Nat
          /\ Len(mempool') = Len(mempool) + 1
          /\ \A i \in 1..Len(mempool) : mempool'[i] = mempool[i]
      BY <1>1, <1>4, AppendProperties, LenProperties
    <2>2. ToSet(Front(mempool')) = {mempool'[i] : i \in 1..Len(mempool') - 1}
      BY <2>1, FrontElements
    <2>3. ToSet(mempool) = {mempool[i] : i \in 1..Len(mempool)}
      BY <1>1 DEF ToSet
    <2>4. 1..Len(mempool') - 1 = 1..Len(mempool)
      BY <2>1
    <2>5. ToSet(Front(mempool')) = ToSet(mempool)
      BY <2>1, <2>2, <2>3, <2>4
    <2>6. LeftBehind' = LeftBehind
      BY <1>2, <1>4, <2>5 DEF LeftBehind
    <2>. QED
      BY <1>2, <2>6, Stutter DEF Flight
  <1>. QED
    BY <1>2, <1>3, <1>4 DEF CommitHeader, Waiting, proc, Inv, IInv, TypeOK

LEMMA MonitorImplements ==
  ASSUME Inv, MonitorChain
  PROVE  [Relay!Next]_(Relay!vars)
  <1>1. up
    BY DEF MonitorChain, Tick, HandleBlockHeader, BlockHandled, LoopDone,
           CommitHeader, ConfirmHeader, CommitHeaderPanics, RollBack
  <1>2. CASE Tick \/ LoopDone \/ RollBack \/ ConfirmHeader
    <2>1. /\ UNCHANGED <<synced, mempool, proc, scanned>>
          /\ ~Waiting /\ ~Waiting' /\ pc # "events" /\ pc' # "events"
      <3>1. CASE Tick
        BY <3>1 DEF Tick, chain, Waiting
      <3>2. CASE LoopDone
        BY <3>2 DEF LoopDone, chain, Waiting
      <3>3. CASE RollBack
        BY <3>3 DEF RollBack, chain, Waiting
      <3>4. CASE ConfirmHeader
        <4>1. included > 0 /\ included \in Nat
          BY <3>4, HeaderAssumption
          DEF ConfirmHeader, Inv, IInv, TypeOK, EthTip, USEFUL
        <4>2. \/ pc' = "loop"
              \/ UNCHANGED <<pc, included>>
          BY <3>4 DEF ConfirmHeader
        <4>. QED
          BY <3>4, <4>1, <4>2 DEF ConfirmHeader, chain, Waiting
      <3>. QED
        BY <1>2, <3>1, <3>2, <3>3, <3>4
    <2>. QED
      BY <2>1, FlightKept, Stutter
  <1>3. CASE HandleBlockHeader
    <2>1. /\ UNCHANGED <<synced, mempool, proc, scanned>>
          /\ ~Waiting /\ ~Waiting' /\ pc = "loop"
      BY <1>3 DEF HandleBlockHeader, chain, Waiting
    <2>2. CASE pc' = "idle"
      BY <2>1, <2>2, FlightKept, Stutter
    <2>3. CASE pc' = "events"
      <3>1. scanned = currentHeight /\ currentHeight + 1 <= ethHeight
        BY <1>1, <1>3, <2>1, <2>3 DEF HandleBlockHeader, Inv, ScanHere
      <3>2. scanned < MaxEth
        BY <3>1, HeaderAssumption DEF Inv, IInv, TypeOK, EthTip, USEFUL
      <3>3. Relay!FetchEvents
        BY <1>1, <2>1, <2>3, <3>2, FlightKept, Fetching
      <3>. QED
        BY <3>3 DEF Relay!Next, Relay!MonitorChain
    <2>. QED
      BY <1>3, <2>2, <2>3 DEF HandleBlockHeader
  <1>4. CASE BlockHandled
    <2>1. /\ UNCHANGED <<synced, mempool, proc>>
          /\ ~Waiting /\ ~Waiting' /\ pc = "events" /\ pc' # "events"
          /\ scanned' = scanned + 1
      BY <1>1, <1>4 DEF BlockHandled, chain, Waiting, Inv, ScanHere
    <2>2. Relay!BlockDone
      BY <1>1, <2>1, FlightKept, BlockPassed
    <2>. QED
      BY <2>2 DEF Relay!Next, Relay!MonitorChain
  <1>5. CASE CommitHeader
    BY <1>5, CommitImplements
  <1>6. CASE CommitHeaderPanics
    <2>1. Relay!Die /\ UNCHANGED crashes /\ pc # "events"
      BY <1>1, <1>6, DeathImplements DEF CommitHeaderPanics
    <2>2. Relay!CommitHeaderPanics
      BY <1>1, <2>1 DEF Relay!CommitHeaderPanics
    <2>. QED
      BY <2>2 DEF Relay!Next
  <1>. QED
    BY <1>2, <1>3, <1>4, <1>5, <1>6 DEF MonitorChain

LEMMA StepImplements ==
  ASSUME Inv, [Next]_vars
  PROVE  [Relay!Next]_(Relay!vars)
  <1>1. CASE MonitorChain
    BY <1>1, MonitorImplements
  <1>2. CASE Crash
    <2>1. up /\ crashes < MaxCrash /\ crashes' = crashes + 1 /\ Die
      BY <1>2 DEF Crash
    <2>2. Relay!Crash
      BY <2>1, DeathImplements DEF Relay!Crash
    <2>. QED
      BY <2>2 DEF Relay!Next
  <1>3. CASE Restart
    <2>1. pc = "idle" /\ pc' = pc /\ ~Waiting /\ ~Waiting'
      BY <1>3 DEF Restart, Inv, IInv, Ahead, Waiting
    <2>2. Flight' <=> Flight
      BY <1>3, <2>1, FlightKept DEF Restart, chain
    <2>3. Relay!Restart
      BY <1>3, <2>1, <2>2, Restarting DEF Restart, chain
    <2>. QED
      BY <2>3 DEF Relay!Next
  <1>4. CASE EthBlock
    <2>1. UNCHANGED <<synced, mempool, proc, scanned, pc, included, up>>
      BY <1>4 DEF EthBlock, local, proc
    <2>. QED
      BY <2>1, FlightKept, Stutter DEF Waiting
  <1>5. CASE BridgeBlock
    BY <1>5, BridgeBlockImplements DEF Relay!Next
  <1>6. CASE OtherRelayer
    <2>1. /\ UNCHANGED <<mempool, proc, scanned, pc, included, up>>
          /\ synced' = synced + 1 /\ "others" \in Faults
      BY <1>6 DEF OtherRelayer, local, proc
    <2>2. LeftBehind' \subseteq ToSet(mempool)
      <3>1. LeftBehind' = LeftBehind
        BY <2>1 DEF LeftBehind, Waiting
      <3>. QED
        BY <3>1, LeftInMempool DEF Inv
    <2>3. synced < MaxEth
      BY <1>6, HeaderAssumption
      DEF OtherRelayer, Inv, IInv, TypeOK, EthTip, USEFUL
    <2>4. Relay!SyncHeader
      BY <2>1, <2>2, <2>3, TakenAlone, Synced
    <2>. QED
      BY <2>4 DEF Relay!Next
  <1>7. CASE UNCHANGED vars
    <2>1. UNCHANGED <<synced, mempool, proc, scanned, pc, included, up>>
      BY <1>7 DEF vars, chain, local, proc
    <2>. QED
      BY <2>1, FlightKept, Stutter DEF Waiting
  <1>. QED
    BY <1>1, <1>2, <1>3, <1>4, <1>5, <1>6, <1>7 DEF Next

LEMMA InvHolds == Spec => []Inv
  <1>1. Init => ScanHere /\ WaitsForLast
    BY DEF Init, ScanHere, WaitsForLast
  <1>2. IInv /\ ScanHere /\ WaitsForLast /\ [Next]_vars
          => ScanHere' /\ WaitsForLast'
    BY ScanHereHolds, WaitsForLastHolds
  <1>3. Spec => [](ScanHere /\ WaitsForLast)
    BY <1>1, <1>2, Invariance, PTL DEF Spec
  <1>4. IInv /\ Linkable /\ Fetched /\ ScanHere /\ WaitsForLast => Inv
    BY DEF Inv
  <1>. QED
    BY <1>3, <1>4, Invariance, AllLinkable, QueuedFetched, PTL

(***************************************************************************)
(* MonitorChain with its headers, batches, refusals and roll backs does    *)
(* nothing to the scan, and to what the bridge chain knows, that           *)
(* DepositRelay does not allow: a header reaches the bridge chain only     *)
(* after its block was scanned, also from a transaction that outlives its  *)
(* sender.                                                                 *)
(***************************************************************************)
THEOREM ScanImplements == Spec => ImplementsScan
  <1>1. Inv /\ [Next]_vars => [Relay!Next]_(Relay!vars)
    BY StepImplements
  <1>. QED
    BY <1>1, ScanBegins, InvHolds, PTL DEF Spec, ImplementsScan, Relay!Spec
=============================================================================
