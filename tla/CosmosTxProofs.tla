--------------------------- MODULE CosmosTxProofs ---------------------------
(***************************************************************************)
(* Sequence numbers for any number of goroutines, any faults and crashes.  *)
(***************************************************************************)
EXTENDS CosmosTx, TLAPS

(***************************************************************************)
(* A dead process sends nothing, so that no number of its predecessor is   *)
(* in use when the next one reads the account.                             *)
(***************************************************************************)
DeadSilent == ~up => sending = {}

IInv == TypeOK /\ UniqueSeq /\ DeadSilent

LEMMA InitHolds == Init => IInv
  <1>. SUFFICES ASSUME Init PROVE IInv
    OBVIOUS
  <1>1. up \in BOOLEAN /\ lost \in BOOLEAN
    BY DEF Init
  <1>2. seq \in [Thread -> 0..MaxSeq]
    BY TxAssumption DEF Init
  <1>3. /\ committed \in First..MaxSeq /\ expected \in First..MaxSeq
        /\ committed <= expected /\ val \in First..MaxSeq
        /\ crashes \in 0..MaxCrash
    BY TxAssumption DEF Init
  <1>4. sending = {} /\ taken = {}
    BY DEF Init
  <1>. QED
    BY <1>1, <1>2, <1>3, <1>4 DEF IInv, TypeOK, UniqueSeq, DeadSilent

(***************************************************************************)
(* What a goroutine is left with when its broadcast is over.               *)
(***************************************************************************)
LEMMA Returned ==
  ASSUME TypeOK, NEW t \in Thread, Return(t)
  PROVE  /\ sending' \subseteq sending
         /\ taken' \subseteq sending'
         /\ seq' \in [Thread -> 0..MaxSeq]
         /\ \A u \in sending' : seq'[u] = seq[u]
  BY TxAssumption DEF TypeOK, Return

LEMMA Died ==
  ASSUME TypeOK, Die, crashes' \in 0..MaxCrash, lost' \in BOOLEAN
  PROVE  IInv'
  <1>1. up' \in BOOLEAN
    BY DEF Die
  <1>2. seq' \in [Thread -> 0..MaxSeq]
    BY TxAssumption DEF Die
  <1>3. sending' = {} /\ taken' = {} /\ UNCHANGED <<committed, expected, val>>
    BY DEF Die, node
  <1>. QED
    BY <1>1, <1>2, <1>3 DEF TypeOK, IInv, UniqueSeq, DeadSilent

LEMMA StepHolds == IInv /\ [Next]_vars => IInv'
  <1>. SUFFICES ASSUME IInv, [Next]_vars PROVE IInv'
    OBVIOUS
  <1>. USE TxAssumption
  <1>1. ASSUME NEW t \in Thread, SendCosmosTx(t) PROVE IInv'
    <2>1. /\ seq' = [seq EXCEPT ![t] = val] /\ val' = val + 1
          /\ sending' = sending \cup {t}
          /\ UNCHANGED <<committed, expected, up, crashes, taken, lost>>
          /\ val < MaxSeq /\ up
      BY <1>1 DEF SendCosmosTx, GetAndAdd, node, proc
    <2>2. TypeOK'
      BY <2>1 DEF IInv, TypeOK
    <2>3. UniqueSeq'
      BY <2>1 DEF IInv, TypeOK, UniqueSeq
    <2>. QED
      BY <2>1, <2>2, <2>3 DEF IInv, DeadSilent
  <1>2. ASSUME NEW t \in Thread, Accepted(t) PROVE IInv'
    <2>1. /\ expected' = expected + 1 /\ t \in sending \ taken
          /\ seq[t] = expected /\ up
          /\ UNCHANGED <<committed, up, crashes, val, lost>>
      BY <1>2 DEF Accepted, proc
    <2>2. expected' \in First..MaxSeq /\ committed' <= expected'
      BY <2>1 DEF IInv, TypeOK, UniqueSeq
    <2>3. CASE Return(t)
      BY <2>1, <2>2, <2>3, Returned DEF IInv, TypeOK, UniqueSeq, DeadSilent
    <2>4. CASE taken' = taken \cup {t} /\ UNCHANGED <<sending, seq>>
      BY <2>1, <2>2, <2>4 DEF IInv, TypeOK, UniqueSeq, DeadSilent
    <2>. QED
      BY <1>2, <2>3, <2>4 DEF Accepted
  <1>3. ASSUME NEW t \in Thread, Failed(t), up, lost' \in BOOLEAN
        PROVE  IInv'
    <2>1. UNCHANGED crashes
      BY <1>3 DEF Failed
    <2>2. CASE Die
      BY <1>3, <2>1, <2>2, Died DEF IInv, TypeOK
    <2>3. CASE Return(t) /\ UNCHANGED <<node, val, up>>
      BY <1>3, <2>1, <2>3, Returned
      DEF IInv, TypeOK, UniqueSeq, DeadSilent, node
    <2>. QED
      BY <1>3, <2>2, <2>3 DEF Failed
  <1>4. CASE Crash
    <2>1. crashes' \in 0..MaxCrash /\ lost' \in BOOLEAN
      BY <1>4 DEF Crash, IInv, TypeOK
    <2>. QED
      BY <1>4, <2>1, Died DEF Crash, IInv
  <1>5. CASE Restart
    BY <1>5 DEF Restart, IInv, TypeOK, UniqueSeq, DeadSilent, node
  <1>6. CASE BridgeBlock
    BY <1>6 DEF BridgeBlock, IInv, TypeOK, UniqueSeq, DeadSilent, proc, local
  <1>7. CASE ForgetMempool
    BY <1>7 DEF ForgetMempool, IInv, TypeOK, UniqueSeq, DeadSilent, proc, local
  <1>8. CASE UNCHANGED vars
    BY <1>8 DEF IInv, TypeOK, UniqueSeq, DeadSilent, vars, node, proc, local
  <1>9. ASSUME NEW t \in Thread, Refused(t) \/ TakenAlready(t) PROVE IInv'
    BY <1>3, <1>9 DEF Refused, TakenAlready, IInv, TypeOK
  <1>. QED
    BY <1>1, <1>2, <1>4, <1>5, <1>6, <1>7, <1>8, <1>9
    DEF Next, Goroutine, BroadcastAgain, NothingToSend

THEOREM Invariance == Spec => []IInv
  BY InitHolds, StepHolds, PTL DEF Spec

(***************************************************************************)
(* The variables keep their types, and what the node has in blocks never   *)
(* overtakes what it has seen.                                             *)
(***************************************************************************)
THEOREM TypeCorrect == Spec => []TypeOK
  <1>1. IInv => TypeOK
    BY DEF IInv
  <1>. QED
    BY <1>1, Invariance, PTL

(***************************************************************************)
(* No number is used by two goroutines at a time, across any number of     *)
(* restarts, refusals, time-outs and lost mempools.                        *)
(***************************************************************************)
THEOREM NumbersUnique == Spec => []UniqueSeq
  <1>1. IInv => UniqueSeq
    BY DEF IInv
  <1>. QED
    BY <1>1, Invariance, PTL

-----------------------------------------------------------------------------
LEMMA NoGapStep == IInv /\ NoGap /\ [Next]_vars => NoGap'
  <1>. USE TxAssumption
  <1>. SUFFICES ASSUME IInv, NoGap, [Next]_vars, up', ~lost'
                PROVE  /\ expected' <= val'
                       /\ \A n \in expected'..val' - 1 :
                            \E t \in sending' \ taken' : seq'[t] = n
    BY DEF NoGap
  <1>1. ASSUME NEW t \in Thread, SendCosmosTx(t) PROVE NoGap'
    <2>1. /\ seq' = [seq EXCEPT ![t] = val] /\ val' = val + 1
          /\ sending' = sending \cup {t} /\ t \notin sending
          /\ UNCHANGED <<expected, up, taken, lost>>
      BY <1>1 DEF SendCosmosTx, GetAndAdd, node, proc
    <2>2. t \notin taken
      BY <2>1 DEF IInv, TypeOK
    <2>3. \A n \in expected..val : \E u \in sending' \ taken : seq'[u] = n
      <3>. TAKE n \in expected..val
      <3>1. CASE n = val
        BY <2>1, <2>2, <3>1 DEF IInv, TypeOK
      <3>2. CASE n # val
        <4>1. n \in expected..val - 1
          BY <3>2 DEF IInv, TypeOK
        <4>2. PICK u \in sending \ taken : seq[u] = n
          BY <2>1, <4>1 DEF NoGap
        <4>. QED
          BY <2>1, <4>2 DEF IInv, TypeOK
      <3>. QED
        BY <3>1, <3>2
    <2>4. val' - 1 = val /\ expected <= val'
      BY <2>1 DEF IInv, TypeOK, NoGap
    <2>. QED
      BY <2>1, <2>3, <2>4 DEF NoGap
  <1>2. ASSUME NEW t \in Thread, Accepted(t) PROVE NoGap'
    <2>1. /\ expected' = expected + 1 /\ seq[t] = expected
          /\ t \in sending \ taken /\ UNCHANGED <<val, up, lost>>
      BY <1>2 DEF Accepted, proc
    <2>2. \A u \in sending \ taken :
            u # t => u \in sending' \ taken' /\ seq'[u] = seq[u]
      BY <1>2 DEF Accepted, Return, IInv, TypeOK
    <2>3. expected' <= val
      BY <2>1 DEF IInv, TypeOK, UniqueSeq
    <2>4. \A n \in expected'..val - 1 :
            \E u \in sending' \ taken' : seq'[u] = n
      BY <2>1, <2>2 DEF NoGap, IInv, TypeOK
    <2>. QED
      BY <2>1, <2>3, <2>4 DEF NoGap
  <1>3. ASSUME NEW t \in Thread, TakenAlready(t) PROVE NoGap'
    <2>1. t \in taken /\ up /\ UNCHANGED lost
      BY <1>3 DEF TakenAlready
    <2>2. t \notin Prover
      BY <1>3 DEF TakenAlready, Failed, Die
    <2>3. Return(t) /\ UNCHANGED <<committed, expected, val, up>>
      BY <1>3, <2>2 DEF TakenAlready, Failed, node
    <2>4. \A u \in sending \ taken :
            u \in sending' \ taken' /\ seq'[u] = seq[u]
      BY <2>1, <2>3 DEF Return, IInv, TypeOK
    <2>. QED
      BY <2>1, <2>3, <2>4 DEF NoGap
  <1>4. ~Crash /\ ~ForgetMempool /\ \A t \in Thread : ~Refused(t)
    BY DEF Crash, Die, ForgetMempool, Refused
  <1>5. ASSUME Restart PROVE NoGap'
    <2>1. lost' = (committed < expected)
      BY <1>5 DEF Restart
    <2>2. ~(committed < expected)
      BY <2>1
    <2>3. committed = expected
      BY <2>2 DEF IInv, TypeOK
    <2>4. val' = expected /\ expected' = expected
      BY <1>5, <2>3 DEF Restart, node
    <2>5. expected' <= val' /\ expected'..val' - 1 = {}
      BY <2>4 DEF IInv, TypeOK
    <2>. QED
      BY <2>5 DEF NoGap
  <1>6. ASSUME BridgeBlock PROVE NoGap'
    BY <1>6 DEF BridgeBlock, NoGap, proc, local
  <1>7. ASSUME UNCHANGED vars PROVE NoGap'
    BY <1>7 DEF NoGap, vars, node, proc, local
  <1>8. NoGap'
    BY <1>1, <1>2, <1>3, <1>4, <1>5, <1>6, <1>7
    DEF Next, Goroutine, BroadcastAgain, NothingToSend
  <1>. QED
    BY <1>8 DEF NoGap

(***************************************************************************)
(* The numbers without a gap: as long as no number was lost, every number  *)
(* the node waits for is being sent, so that no goroutine waits for one    *)
(* that nobody sends.                                                      *)
(***************************************************************************)
THEOREM NumbersWithoutGap == Spec => []NoGap
  <1>1. Init => NoGap
    BY TxAssumption DEF Init, NoGap
  <1>. QED
    BY <1>1, NoGapStep, Invariance, PTL DEF Spec
=============================================================================
