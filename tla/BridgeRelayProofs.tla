------------------------- MODULE BridgeRelayProofs -------------------------
(***************************************************************************)
(* Headers to Ethereum, for chains of any length, any accounts, faults and *)
(* crashes.                                                                *)
(***************************************************************************)
EXTENDS BridgeRelay, Arithmetic

(***************************************************************************)
(* Differences of heights are words, and exact when they are not negative. *)
(***************************************************************************)
LEMMA MinusRange ==
  ASSUME NEW a \in Int, NEW b \in Int
  PROVE  Minus(a, b) \in 0..Word - 1
  BY ModRange, BridgeAssumption DEF Minus

LEMMA MinusSmall ==
  ASSUME NEW a \in 0..Word - 1, NEW b \in 0..a
  PROVE  Minus(a, b) = a - b
  BY ModSmall, BridgeAssumption DEF Minus

(***************************************************************************)
(* While a block is handled its height is one of the chain's, and an       *)
(* account is chosen.                                                      *)
(***************************************************************************)
InHand == {"prepare", "nonce", "send", "confirm"}

Working ==
  pc \in InHand => currentHeight \in 1..bridgeHeight /\ sender \in Sender

IInv == TypeOK /\ Working

LEMMA PendingNonceTyped ==
  ASSUME TypeOK, NEW s \in Sender
  PROVE  PendingNonceAt(s) \in 0..MaxNonce
  <1>. DEFINE Pending(n) == \E e \in pool[s] : e[1] = n
              Free == {n \in ethNonce[s]..MaxNonce :
                         n = MaxNonce \/ ~Pending(n)}
  <1>1. ethNonce[s] \in 0..MaxNonce /\ MaxNonce \in Nat
    BY BridgeAssumption DEF TypeOK
  <1>2. Free \subseteq Nat /\ MaxNonce \in Free
    BY <1>1
  <1>3. PICK n \in Free : \A m \in Free : n <= m
    <2>. HIDE DEF Free
    <2>. QED
      BY <1>2, Least
  <1>4. \A k \in ethNonce[s]..n - 1 : Pending(k)
    <2>. TAKE k \in ethNonce[s]..n - 1
    <2>1. k \in ethNonce[s]..MaxNonce /\ k < n
      BY <1>1, <1>3
    <2>2. k \notin Free
      BY <1>3, <2>1
    <2>. QED
      BY <2>1, <2>2
  <1>5. \E m \in ethNonce[s]..MaxNonce :
          /\ \A k \in ethNonce[s]..m - 1 : Pending(k)
          /\ m = MaxNonce \/ ~Pending(m)
    BY <1>3, <1>4
  <1>6. PendingNonceAt(s) \in ethNonce[s]..MaxNonce
    BY <1>5 DEF PendingNonceAt
  <1>. QED
    BY <1>1, <1>6

LEMMA NonceTyped ==
  ASSUME TypeOK, NEW s \in Sender, NEW n \in CachedOrAsked(s)
  PROVE  n \in 0..MaxNonce /\ NextNonce(n) \in 0..MaxNonce
  <1>1. MaxNonce \in Nat
    BY BridgeAssumption
  <1>2. n \in 0..MaxNonce
    BY <1>1, PendingNonceTyped DEF CachedOrAsked, TypeOK
  <1>. QED
    BY <1>1, <1>2 DEF NextNonce

LEMMA InitHolds == Init => IInv
  <1>. SUFFICES ASSUME Init PROVE IInv
    OBVIOUS
  <1>1. /\ bridgeHeight \in FirstHeight..MaxBridge
        /\ bridgeHeightDB \in 0..Word32 - 1
    BY BridgeAssumption DEF Init
  <1>2. up \in BOOLEAN
    BY DEF Init
  <1>3. crashes \in 0..MaxCrash /\ nonce \in 0..MaxNonce
    BY BridgeAssumption DEF Init
  <1>4. /\ ethNonce \in [Sender -> 0..MaxNonce]
        /\ pool \in [Sender -> SUBSET ((0..MaxNonce) \X (1..MaxBridge))]
        /\ addressNonce \in [Sender -> {Unknown} \cup 0..MaxNonce]
    BY BridgeAssumption DEF Init
  <1>5. currentHeight \in 0..Word - 1 /\ latestheight \in 0..Word - 1
    BY BridgeAssumption DEF Init
  <1>6. pc = "init" /\ sender = NoSender /\ handled = {} /\ relayed = {}
    BY DEF Init
  <1>. QED
    BY <1>1, <1>2, <1>3, <1>4, <1>5, <1>6 DEF IInv, TypeOK, Working, InHand

LEMMA Died ==
  ASSUME IInv, Die, crashes' \in 0..MaxCrash
  PROVE  IInv'
  <1>1. up' \in BOOLEAN
    BY DEF Die
  <1>2. addressNonce' \in [Sender -> {Unknown} \cup 0..MaxNonce]
    BY DEF Die
  <1>3. /\ pc' = "init" /\ sender' = NoSender
        /\ currentHeight' \in 0..Word - 1 /\ latestheight' \in 0..Word - 1
        /\ nonce' \in 0..MaxNonce
        /\ UNCHANGED <<bridgeHeight, bridgeHeightDB, ethNonce, pool, handled,
                       relayed>>
    BY BridgeAssumption DEF Die, chains
  <1>. QED
    BY <1>1, <1>2, <1>3 DEF IInv, TypeOK, Working, InHand

LEMMA StepHolds == IInv /\ [Next]_vars => IInv'
  <1>. SUFFICES ASSUME IInv, [Next]_vars PROVE IInv'
    OBVIOUS
  <1>. USE BridgeAssumption
  <1>1. CASE InitManager
    <2>1. currentHeight' \in 0..Word - 1
      BY <1>1 DEF InitManager, LatestHeight, IInv, TypeOK
    <2>2. pc' = "idle"
      BY <1>1 DEF InitManager
    <2>. QED
      BY <1>1, <2>1, <2>2
      DEF InitManager, IInv, TypeOK, Working, InHand, chains, proc
  <1>2. CASE Tick
    <2>1. latestheight' \in 0..Word - 1
      BY <1>2, MinusRange DEF Tick, IInv, TypeOK
    <2>2. pc' \in {"idle", "loop"}
      BY <1>2 DEF Tick
    <2>. QED
      BY <1>2, <2>1, <2>2 DEF Tick, IInv, TypeOK, Working, InHand, chains, proc
  <1>3. CASE HandleDepositTxs
    <2>1. /\ pc' \in {"prepare", "save"}
          /\ pc' = "prepare" => currentHeight \in 1..bridgeHeight
                                /\ sender' \in Sender
          /\ sender' \in Sender \cup {NoSender}
      BY <1>3 DEF HandleDepositTxs, HasBlock, IInv, TypeOK
    <2>. QED
      BY <1>3, <2>1
      DEF HandleDepositTxs, IInv, TypeOK, Working, InHand, chains, proc
  <1>4. CASE PrepareHeader
    <2>1. /\ pc = "prepare"
          /\ \/ pc' = "nonce" /\ UNCHANGED sender
             \/ pc' = "save" /\ sender' = NoSender
      BY <1>4 DEF PrepareHeader
    <2>. QED
      BY <1>4, <2>1
      DEF PrepareHeader, IInv, TypeOK, Working, InHand, chains, proc
  <1>5. CASE GetAddressNonce
    <2>1. pc = "nonce" /\ pc' = "send" /\ sender \in Sender
      BY <1>5 DEF GetAddressNonce, IInv, Working, InHand
    <2>2. PICK n \in CachedOrAsked(sender) :
            /\ nonce' = n
            /\ addressNonce' = [addressNonce EXCEPT ![sender] = NextNonce(n)]
      BY <1>5 DEF GetAddressNonce
    <2>3. /\ nonce' \in 0..MaxNonce
          /\ addressNonce' \in [Sender -> {Unknown} \cup 0..MaxNonce]
      BY <2>1, <2>2, NonceTyped DEF IInv, TypeOK
    <2>. QED
      BY <1>5, <2>1, <2>3
      DEF GetAddressNonce, IInv, TypeOK, Working, InHand, chains, proc
  <1>6. CASE SendTransaction
    <2>1. CASE pc' = "confirm"
      <3>1. /\ sender \in Sender /\ currentHeight \in 1..MaxBridge
            /\ nonce \in 0..MaxNonce
        BY <1>6 DEF SendTransaction, IInv, TypeOK, Working, InHand
      <3>2. /\ pool' = [pool EXCEPT ![sender] =
                          @ \cup {<<nonce, currentHeight>>}]
            /\ UNCHANGED <<sender, nonce>>
        BY <1>6, <2>1 DEF SendTransaction
      <3>3. pool' \in [Sender -> SUBSET ((0..MaxNonce) \X (1..MaxBridge))]
        BY <3>1, <3>2 DEF IInv, TypeOK
      <3>. QED
        BY <1>6, <2>1, <3>2, <3>3
        DEF SendTransaction, IInv, TypeOK, Working, InHand, proc
    <2>2. CASE pc' = "save" /\ sender' = NoSender /\ nonce' = 0
               /\ UNCHANGED pool
      BY <1>6, <2>2 DEF SendTransaction, IInv, TypeOK, Working, InHand, proc
    <2>. QED
      BY <1>6, <2>1, <2>2 DEF SendTransaction
  <1>7. CASE ConfirmTransaction
    <2>1. CASE nonce < ethNonce[sender]
      <3>1. currentHeight \in 1..MaxBridge
        BY <1>7 DEF ConfirmTransaction, IInv, TypeOK, Working, InHand
      <3>2. /\ handled' = handled \cup {currentHeight}
            /\ currentHeight' = currentHeight + 1
            /\ pc' = "loop" /\ sender' = NoSender /\ nonce' = 0
        BY <1>7, <2>1 DEF ConfirmTransaction
      <3>3. currentHeight' \in 0..Word - 1 /\ handled' \subseteq 1..MaxBridge
        BY <3>1, <3>2 DEF IInv, TypeOK
      <3>. QED
        BY <1>7, <3>2, <3>3
        DEF ConfirmTransaction, IInv, TypeOK, Working, InHand, chains, proc
    <2>2. CASE ~(nonce < ethNonce[sender])
      BY <1>7, <2>2
      DEF ConfirmTransaction, IInv, TypeOK, Working, InHand, chains, proc
    <2>. QED
      BY <2>1, <2>2
  <1>8. CASE LoopDone
    BY <1>8 DEF LoopDone, IInv, TypeOK, Working, InHand, chains, proc
  <1>9. CASE UpdateBridgeHeight
    <2>1. bridgeHeightDB' \in 0..Word32 - 1
      <3>1. SavedHeight \in 0..Word32 - 1
        <4>1. Minus(currentHeight, 1) \in 0..Word - 1
          <5>1. currentHeight \in Int
            BY DEF IInv, TypeOK
          <5>. QED
            BY <5>1, MinusRange
        <4>2. Minus(currentHeight, 1) \in Int /\ Word32 \in Nat \ {0}
          BY <4>1
        <4>. QED
          BY <4>2, ModRange DEF SavedHeight
      <3>. QED
        BY <1>9, <3>1 DEF UpdateBridgeHeight, IInv, TypeOK
    <2>. QED
      BY <1>9, <2>1 DEF UpdateBridgeHeight, IInv, TypeOK, Working, InHand, proc
  <1>10. CASE Crash
    BY <1>10, Died DEF Crash, IInv, TypeOK
  <1>11. CASE PackPanics
    BY <1>11, Died DEF PackPanics, IInv, TypeOK
  <1>12. CASE Restart
    <2>1. up' \in BOOLEAN
      BY <1>12 DEF Restart
    <2>. QED
      BY <1>12, <2>1
      DEF Restart, IInv, TypeOK, Working, InHand, chains, local
  <1>13. CASE BridgeBlock
    BY <1>13 DEF BridgeBlock, IInv, TypeOK, Working, InHand, proc, local
  <1>14. CASE EthBlock
    <2>1. PICK s \in Sender : \E e \in pool[s] :
            /\ ethNonce[s] < MaxNonce
            /\ ethNonce' = [ethNonce EXCEPT ![s] = @ + 1]
            /\ pool' = [pool EXCEPT ![s] = @ \ {e}]
            /\ relayed' = relayed \cup {e[2]} \/ UNCHANGED relayed
      BY <1>14 DEF EthBlock
    <2>2. PICK e \in pool[s] :
            /\ ethNonce[s] < MaxNonce
            /\ ethNonce' = [ethNonce EXCEPT ![s] = @ + 1]
            /\ pool' = [pool EXCEPT ![s] = @ \ {e}]
            /\ relayed' = relayed \cup {e[2]} \/ UNCHANGED relayed
      BY <2>1
    <2>3. e[2] \in 1..MaxBridge
      BY <2>2 DEF IInv, TypeOK
    <2>4. ethNonce' \in [Sender -> 0..MaxNonce]
      BY <2>2 DEF IInv, TypeOK
    <2>5. pool' \in [Sender -> SUBSET ((0..MaxNonce) \X (1..MaxBridge))]
      BY <2>2 DEF IInv, TypeOK
    <2>6. relayed' \subseteq 1..MaxBridge
      BY <2>2, <2>3 DEF IInv, TypeOK
    <2>. QED
      BY <1>14, <2>4, <2>5, <2>6
      DEF EthBlock, IInv, TypeOK, Working, InHand, proc, local
  <1>15. CASE UNCHANGED vars
    BY <1>15 DEF IInv, TypeOK, Working, InHand, vars, chains, proc, local
  <1>. QED
    BY <1>1, <1>2, <1>3, <1>4, <1>5, <1>6, <1>7, <1>8, <1>9, <1>10, <1>11,
       <1>12, <1>13, <1>14, <1>15 DEF Next, MonitorChain

LEMMA Invariance == Spec => []IInv
  BY InitHolds, StepHolds, PTL DEF Spec

(***************************************************************************)
(* The heights, nonces and headers stay what their types say: no height    *)
(* in memory leaves its word, and a nonce asked for anew is a nonce.       *)
(***************************************************************************)
THEOREM TypeCorrect == Spec => []TypeOK
  <1>1. IInv => TypeOK
    BY DEF IInv
  <1>. QED
    BY <1>1, Invariance, PTL

-----------------------------------------------------------------------------
(***************************************************************************)
(* The height read by a tick is at least one block behind, also later in   *)
(* the loop, since the chain only grows.                                   *)
(***************************************************************************)
Behind ==
  /\ pc \in InHand \cup {"loop"} => latestheight \in 1..bridgeHeight - 1
  /\ pc \in InHand => currentHeight + 2 <= bridgeHeight

LEMMA BehindHolds ==
  ASSUME FirstHeight >= 2
  PROVE  IInv /\ Behind /\ [Next]_vars => Behind'
  <1>. SUFFICES ASSUME IInv, Behind, [Next]_vars PROVE Behind'
    OBVIOUS
  <1>. USE BridgeAssumption
  <1>1. CASE Tick
    <2>1. bridgeHeight \in 2..Word - 1
      BY DEF IInv, TypeOK
    <2>2. latestheight' = bridgeHeight - 1
      <3>1. Minus(bridgeHeight, 1) = bridgeHeight - 1
        BY <2>1, MinusSmall
      <3>. QED
        BY <1>1, <3>1 DEF Tick
    <2>3. UNCHANGED <<bridgeHeight, currentHeight>>
          /\ pc' \in {"idle", "loop"}
      BY <1>1 DEF Tick, chains
    <2>. QED
      BY <2>1, <2>2, <2>3 DEF Behind, InHand
  <1>2. CASE HandleDepositTxs
    <2>1. pc = "loop" /\ MoreBlocks
          /\ UNCHANGED <<bridgeHeight, currentHeight, latestheight>>
          /\ pc' \in {"prepare", "save"}
      BY <1>2 DEF HandleDepositTxs, chains
    <2>2. latestheight \in 1..bridgeHeight - 1 /\ bridgeHeight \in 2..MaxBridge
      BY <2>1 DEF Behind, IInv, TypeOK
    <2>3. Minus(latestheight, 1) = latestheight - 1
      <3>1. latestheight \in 0..Word - 1 /\ 1 \in 0..latestheight
        BY <2>2
      <3>. QED
        BY <3>1, MinusSmall
    <2>4. currentHeight <= latestheight - 1 /\ currentHeight \in Nat
      BY <2>1, <2>3 DEF MoreBlocks, IInv, TypeOK
    <2>. QED
      BY <2>1, <2>2, <2>4 DEF Behind, InHand
  <1>3. CASE InitManager \/ LoopDone \/ UpdateBridgeHeight
    <2>1. pc' \in {"idle", "save"}
      BY <1>3 DEF InitManager, LoopDone, UpdateBridgeHeight
    <2>. QED
      BY <2>1 DEF Behind, InHand
  <1>4. CASE PrepareHeader \/ GetAddressNonce \/ SendTransaction
    <2>1. /\ pc \in InHand
          /\ pc' \in InHand \cup {"save"}
          /\ UNCHANGED <<bridgeHeight, currentHeight, latestheight>>
      BY <1>4 DEF PrepareHeader, GetAddressNonce, SendTransaction, InHand,
                  chains
    <2>. QED
      BY <2>1 DEF Behind, InHand
  <1>5. CASE ConfirmTransaction
    <2>1. UNCHANGED <<bridgeHeight, latestheight>> /\ pc = "confirm"
      BY <1>5 DEF ConfirmTransaction, chains
    <2>2. pc' = "loop" \/ UNCHANGED <<pc, currentHeight>>
      BY <1>5 DEF ConfirmTransaction
    <2>. QED
      BY <2>1, <2>2 DEF Behind, InHand
  <1>6. CASE Die
    BY <1>6 DEF Die, Behind, InHand
  <1>7. CASE Restart \/ EthBlock \/ UNCHANGED vars
    BY <1>7 DEF Restart, EthBlock, Behind, vars, chains, local
  <1>8. CASE BridgeBlock
    <2>1. bridgeHeight \in Nat
      BY DEF IInv, TypeOK
    <2>2. bridgeHeight' = bridgeHeight + 1
          /\ UNCHANGED <<pc, currentHeight, latestheight>>
      BY <1>8 DEF BridgeBlock, local
    <2>3. currentHeight \in Nat /\ latestheight \in Nat
      BY DEF IInv, TypeOK
    <2>. QED
      BY <2>1, <2>2, <2>3 DEF Behind
  <1>. QED
    BY <1>1, <1>2, <1>3, <1>4, <1>5, <1>6, <1>7, <1>8
    DEF Next, MonitorChain, Crash, PackPanics

(***************************************************************************)
(* Only confirmed blocks are sent, whatever fails, when the bridge chain   *)
(* has two blocks at the start: the height of a chain of one block, less   *)
(* one twice, wraps.                                                       *)
(***************************************************************************)
THEOREM ConfirmedOnly ==
  ASSUME FirstHeight >= 2
  PROVE  Spec => []OnlyConfirmedBlocks
  <1>. USE BridgeAssumption
  <1>1. Init => Behind /\ OnlyConfirmedBlocks
    BY DEF Init, Behind, OnlyConfirmedBlocks, InHand
  <1>2. ASSUME IInv, Behind, OnlyConfirmedBlocks, [Next]_vars
        PROVE  OnlyConfirmedBlocks'
    <2>1. bridgeHeight \in Nat /\ bridgeHeight' \in Nat
      BY <1>2, StepHolds DEF IInv, TypeOK
    <2>2. bridgeHeight' >= bridgeHeight
      BY <1>2, <2>1
      DEF Next, MonitorChain, InitManager, Tick, HandleDepositTxs,
          PrepareHeader, GetAddressNonce, SendTransaction, ConfirmTransaction,
          LoopDone, UpdateBridgeHeight, Crash, PackPanics, Die, Restart,
          BridgeBlock, EthBlock, vars, chains
    <2>3. ASSUME NEW s \in Sender, NEW e \in pool'[s], e \in pool[s]
          PROVE  e[2] + 2 <= bridgeHeight'
      <3>1. e[2] \in Nat
        BY <1>2, <2>3 DEF IInv, TypeOK
      <3>. QED
        BY <1>2, <2>1, <2>2, <2>3, <3>1 DEF OnlyConfirmedBlocks
    <2>4. CASE SendTransaction
      <3>1. UNCHANGED bridgeHeight
        BY <2>4 DEF SendTransaction
      <3>2. CASE UNCHANGED pool
        BY <1>2, <3>1, <3>2 DEF OnlyConfirmedBlocks
      <3>3. CASE pool' = [pool EXCEPT ![sender] =
                            @ \cup {<<nonce, currentHeight>>}]
        <4>1. currentHeight + 2 <= bridgeHeight
          BY <1>2, <2>4 DEF SendTransaction, Behind, InHand
        <4>2. \A s \in Sender : \A e \in pool'[s] :
                e \in pool[s] \/ e = <<nonce, currentHeight>>
          BY <1>2, <3>3 DEF IInv, TypeOK
        <4>. QED
          BY <2>3, <3>1, <4>1, <4>2 DEF OnlyConfirmedBlocks
      <3>. QED
        BY <2>4, <3>2, <3>3 DEF SendTransaction
    <2>5. CASE EthBlock
      <3>1. \A s \in Sender : pool'[s] \subseteq pool[s]
        BY <1>2, <2>5 DEF EthBlock, IInv, TypeOK
      <3>. QED
        BY <2>3, <3>1 DEF OnlyConfirmedBlocks
    <2>6. CASE UNCHANGED pool
      BY <2>3, <2>6 DEF OnlyConfirmedBlocks
    <2>. QED
      BY <1>2, <2>4, <2>5, <2>6
      DEF Next, MonitorChain, InitManager, Tick, HandleDepositTxs,
          PrepareHeader, GetAddressNonce, ConfirmTransaction, LoopDone,
          UpdateBridgeHeight, Crash, PackPanics, Die, Restart, BridgeBlock,
          vars, chains
  <1>. QED
    BY <1>1, <1>2, BehindHolds, Invariance, PTL DEF Spec

-----------------------------------------------------------------------------
(***************************************************************************)
(* The height in memory is one a block may have, once it is set, and that  *)
(* of the flag before.                                                     *)
(***************************************************************************)
Positive ==
  /\ pc # "init" => currentHeight > 0
  /\ pc = "init" => currentHeight = StartFlag

EpochKnown == StartFlag > 0 \/ (Epoch > 0 /\ "epoch" \notin Faults)

(***************************************************************************)
(* No block is left out, whatever else fails, when the height at the start *)
(* is one a block may have: given by the flag, or by an epoch whose query  *)
(* does not fail.                                                          *)
(***************************************************************************)
THEOREM NoBlockSkipped ==
  ASSUME EpochKnown
  PROVE  Spec => []NoneSkipped
  <1>. USE BridgeAssumption
  <1>. DEFINE Inv == Positive /\ NoneSkipped
  <1>1. Init => Inv
    BY DEF Init, Positive, NoneSkipped, Start, EpochKnown
  <1>2. Start \in Nat /\ Start > 0
    BY DEF Start, EpochKnown
  <1>3. ASSUME IInv, Inv, [Next]_vars PROVE Inv'
    <2>. USE <1>2
    <2>1. /\ currentHeight \in Nat /\ bridgeHeightDB \in Nat
          /\ handled \subseteq 1..MaxBridge
      BY <1>3 DEF IInv, TypeOK
    <2>2. CASE InitManager
      <3>1. UNCHANGED <<bridgeHeightDB, handled>> /\ pc' = "idle"
        BY <2>2 DEF InitManager, chains
      <3>2. CASE StartFlag > 0
        <4>1. currentHeight' = currentHeight
          BY <2>2, <3>2 DEF InitManager
        <4>2. currentHeight = StartFlag
          BY <1>3, <2>2 DEF InitManager, Positive
        <4>. QED
          BY <1>3, <2>1, <3>1, <3>2, <4>1, <4>2
          DEF Positive, NoneSkipped, Start
      <3>3. CASE StartFlag = 0
        <4>1. currentHeight' = IF Epoch > bridgeHeightDB THEN Epoch
                               ELSE bridgeHeightDB
          BY <2>2, <3>3 DEF InitManager, LatestHeight, EpochKnown
        <4>2. currentHeight' \in Nat /\ currentHeight' > 0
          BY <2>1, <3>3, <4>1 DEF EpochKnown
        <4>3. \A h \in Start..MaxBridge :
                h < currentHeight' => h <= bridgeHeightDB
          BY <2>1, <3>3, <4>1 DEF Start
        <4>. QED
          BY <1>3, <2>1, <3>1, <4>2, <4>3 DEF Positive, NoneSkipped
      <3>. QED
        BY <3>2, <3>3
    <2>3. CASE UpdateBridgeHeight
      <3>1. /\ UNCHANGED <<currentHeight, handled>>
            /\ pc = "save" /\ pc' = "idle"
            /\ bridgeHeightDB' \in {bridgeHeightDB, SavedHeight}
        BY <2>3 DEF UpdateBridgeHeight
      <3>2. currentHeight \in 1..Word - 1 /\ currentHeight - 1 \in Nat
        BY <1>3, <3>1 DEF Positive, IInv, TypeOK
      <3>3. Minus(currentHeight, 1) = currentHeight - 1
        <4>1. currentHeight \in 0..Word - 1 /\ 1 \in 0..currentHeight
          BY <3>2
        <4>. QED
          BY <4>1, MinusSmall
      <3>4. SavedHeight \in Nat /\ SavedHeight < currentHeight
        <4>1. Word32 \in Nat \ {0}
          OBVIOUS
        <4>2. (currentHeight - 1) % Word32 \in 0..Word32 - 1
          BY <3>2, <4>1, ModRange
        <4>3. (currentHeight - 1) % Word32 <= currentHeight - 1
          BY <3>2, <4>1, ModLess
        <4>. QED
          BY <3>2, <3>3, <4>2, <4>3 DEF SavedHeight
      <3>5. \A h \in Start..MaxBridge :
              h <= bridgeHeightDB' => h <= bridgeHeightDB \/ h < currentHeight
        BY <2>1, <3>1, <3>4
      <3>. QED
        BY <1>3, <3>1, <3>5 DEF Positive, NoneSkipped
    <2>4. CASE ConfirmTransaction
      <3>1. UNCHANGED bridgeHeightDB /\ pc = "confirm"
        BY <2>4 DEF ConfirmTransaction, chains
      <3>2. CASE /\ handled' = handled \cup {currentHeight}
                 /\ currentHeight' = currentHeight + 1
                 /\ pc' = "loop"
        <4>1. \A h \in Start..MaxBridge :
                h < currentHeight' => h < currentHeight \/ h = currentHeight
          BY <2>1, <3>2
        <4>. QED
          BY <1>3, <2>1, <3>1, <3>2, <4>1 DEF Positive, NoneSkipped
      <3>3. CASE UNCHANGED <<handled, currentHeight, pc>>
        BY <1>3, <3>1, <3>3 DEF Positive, NoneSkipped
      <3>. QED
        BY <2>4, <3>2, <3>3 DEF ConfirmTransaction
    <2>5. CASE Die
      <3>1. /\ UNCHANGED <<bridgeHeightDB, handled>>
            /\ pc' = "init" /\ currentHeight' = StartFlag
        BY <2>5 DEF Die, chains
      <3>. QED
        BY <1>3, <3>1 DEF Positive, NoneSkipped
    <2>6. CASE /\ UNCHANGED <<bridgeHeightDB, handled, currentHeight>>
               /\ UNCHANGED pc \/ (pc # "init" /\ pc' # "init")
      BY <1>3, <2>6 DEF Positive, NoneSkipped
    <2>. QED
      BY <1>3, <2>2, <2>3, <2>4, <2>5, <2>6
      DEF Next, MonitorChain, Tick, HandleDepositTxs, PrepareHeader,
          GetAddressNonce, SendTransaction, LoopDone, Crash, PackPanics,
          Restart, BridgeBlock, EthBlock, vars, chains, local
  <1>. QED
    BY <1>1, <1>3, Invariance, PTL DEF Spec
=============================================================================
