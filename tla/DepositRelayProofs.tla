------------------------- MODULE DepositRelayProofs -------------------------
(***************************************************************************)
(* What DepositRelay keeps for every set of deposits, every choice of      *)
(* faults and any number of crashes.                                       *)
(***************************************************************************)
EXTENDS DepositRelay, TLAPS

(***************************************************************************)
(* What the goroutines know half-way: the deposit being proved was deep    *)
(* enough at the height read at the beginning of the round, and the bridge *)
(* chain does not go back; the last broadcast is the one for the deposit   *)
(* about to be moved; the block being scanned exists.                      *)
(***************************************************************************)
InProgress ==
  /\ refHeight <= synced
  /\ dpc \in {"commit", "check", "delete"} =>
       crosstx \in Deposit /\ DeepEnough(crosstx)
  /\ dpc \in {"check", "delete"} =>
       Len(sent) > 0 /\ sent[Len(sent)].dep = crosstx
  /\ scanning => up /\ currentHeight < EthTip

IInv ==
  TypeOK /\ InProgress /\ Confirmed /\ CheckNamesDeposit /\ NotForgotten

(***************************************************************************)
(* A broadcast adds a transaction behind the others.                       *)
(***************************************************************************)
LEMMA Broadcast ==
  ASSUME NEW T, NEW s \in Seq(T), NEW t \in T
  PROVE  /\ Append(s, t) \in Seq(T)
         /\ Len(Append(s, t)) = Len(s) + 1
         /\ \A i \in 1..Len(s) : Append(s, t)[i] = s[i]
         /\ Append(s, t)[Len(s) + 1] = t
  OBVIOUS

(***************************************************************************)
(* Executing a transaction changes its code and nothing else.              *)
(***************************************************************************)
LEMMA Execution ==
  ASSUME sent \in Seq(ProofTxs), NEW i \in 1..Len(sent),
         NEW c \in {Executed, 1, 2}, sent' = [sent EXCEPT ![i].code = c]
  PROVE  /\ sent' \in Seq(ProofTxs)
         /\ Len(sent') = Len(sent)
         /\ \A j \in 1..Len(sent) :
              sent'[j].dep = sent[j].dep /\ sent'[j].at = sent[j].at
  <1>1. \A j \in 1..Len(sent) : sent[j] \in ProofTxs
    OBVIOUS
  <1>2. /\ DOMAIN sent' = 1..Len(sent)
        /\ \A j \in 1..Len(sent) :
             sent'[j] = IF j = i THEN [sent[i] EXCEPT !.code = c] ELSE sent[j]
    OBVIOUS
  <1>3. \A j \in 1..Len(sent) : sent'[j] \in ProofTxs
    BY <1>1, <1>2 DEF ProofTxs
  <1>4. \A j \in 1..Len(sent) :
          sent'[j].dep = sent[j].dep /\ sent'[j].at = sent[j].at
    BY <1>1, <1>2 DEF ProofTxs
  <1>5. sent' \in Seq(ProofTxs) /\ Len(sent') = Len(sent)
    BY <1>2, <1>3
  <1>. QED
    BY <1>4, <1>5

LEMMA InitHolds == Init => IInv
  <1>. SUFFICES ASSUME Init PROVE IInv
    OBVIOUS
  <1>1. sent \in Seq(ProofTxs) /\ Len(sent) = 0
    BY DEF Init
  <1>2. currentHeight \in 0..EthTip /\ synced \in Genesis..EthTip
    BY RelayAssumption DEF Init, InitHeight
  <1>3. /\ flight \in BOOLEAN /\ up \in BOOLEAN /\ scanning \in BOOLEAN
        /\ dpc \in Steps /\ crosstx \in Deposit \cup {NoDeposit}
    BY DEF Init, Steps
  <1>4. TypeOK
    BY <1>1, <1>2, <1>3, RelayAssumption DEF Init, TypeOK
  <1>. QED
    BY <1>1, <1>4, RelayAssumption
    DEF Init, IInv, InProgress, Confirmed, CheckNamesDeposit, NotForgotten

(***************************************************************************)
(* CheckDeposit takes what it looks at from the Check bucket and, as no    *)
(* answer passes its early exits, changes neither bucket.                  *)
(***************************************************************************)
LEMMA CheckedSubset == \A S \in GetAllCheck : S \subseteq checkBkt
  BY DEF GetAllCheck

LEMMA NothingSettles == \A res : ~Settles(res)
  BY DEF Settles

LEMMA CheckChangesNothing ==
  CheckEntry => UNCHANGED <<retryBkt, checkBkt>> /\ checkMap' \subseteq checkMap
  BY NothingSettles DEF CheckEntry

(***************************************************************************)
(* A process that dies leaves everything in its type.                      *)
(***************************************************************************)
LEMMA DieTyping == TypeOK /\ Die /\ crashes' \in 0..MaxCrash => TypeOK'
  <1>. SUFFICES ASSUME TypeOK, Die, crashes' \in 0..MaxCrash PROVE TypeOK'
    OBVIOUS
  <1>. USE DEF history
  <1>1. flight' \in BOOLEAN /\ up' \in BOOLEAN /\ scanning' \in BOOLEAN
    BY DEF Die, TypeOK
  <1>2. dpc' \in Steps /\ crosstx' \in Deposit \cup {NoDeposit}
    BY DEF Die, Steps
  <1>3. refHeight' \in 0..EthTip
    BY RelayAssumption DEF Die
  <1>4. /\ retryList' = {} /\ checkMap' = {} /\ events' = {}
        /\ UNCHANGED <<retryBkt, checkBkt, synced, sent, currentHeight,
                       recorded, closed>>
    BY DEF Die
  <1>. QED
    BY <1>1, <1>2, <1>3, <1>4 DEF TypeOK

LEMMA TypingStep == TypeOK /\ InProgress /\ [Next]_vars => TypeOK'
  <1>. SUFFICES ASSUME TypeOK, InProgress, [Next]_vars PROVE TypeOK'
    OBVIOUS
  <1>. USE RelayAssumption
       DEF Steps, chainVars, monitorVars, depositVars, procVars, history
  <1>1. CASE FetchEvents
    BY <1>1 DEF FetchEvents, DepositsIn, TypeOK
  <1>2. CASE FetchFails
    BY <1>2 DEF FetchFails, TypeOK
  <1>3. CASE RecordEvent
    BY <1>3 DEF RecordEvent, PutRetry, TypeOK
  <1>4. CASE BlockDone
    <2>1. currentHeight < EthTip
      BY <1>4 DEF BlockDone, InProgress
    <2>2. currentHeight' \in 0..EthTip
      BY <1>4, <2>1 DEF BlockDone, TypeOK
    <2>. QED
      BY <1>4, <2>2 DEF BlockDone, TypeOK
  <1>5. CASE LoseHeader
    BY <1>5 DEF LoseHeader, TypeOK
  <1>6. CASE DepositTick
    BY <1>6 DEF DepositTick, TypeOK
  <1>7. CASE DepositList
    BY <1>7 DEF DepositList, GetAllRetry, TypeOK
  <1>8. CASE SkipDeposit
    BY <1>8 DEF SkipDeposit, TypeOK
  <1>9. CASE GetProof
    BY <1>9 DEF GetProof, TypeOK
  <1>10. CASE CommitProof
    <2>1. ProofTx(crosstx) \in ProofTxs
      <3>1. crosstx \in Deposit /\ DeepEnough(crosstx)
        BY <1>10 DEF CommitProof, InProgress
      <3>2. refHeight - BlockConfig \in Nat
        BY <3>1 DEF DeepEnough, TypeOK
      <3>. QED
        BY <3>1, <3>2 DEF ProofTx, ProofTxs
    <2>2. sent' \in Seq(ProofTxs) /\ Len(sent') <= MaxTx
      BY <1>10, <2>1, Broadcast DEF CommitProof, TypeOK
    <2>. QED
      BY <1>10, <2>2 DEF CommitProof, TypeOK
  <1>11. CASE CommitProofPanics \/ CommitHeaderPanics
    <2>1. Die /\ crashes' \in 0..MaxCrash
      BY <1>11 DEF CommitProofPanics, CommitHeaderPanics, TypeOK
    <2>. QED
      BY <2>1, DieTyping
  <1>12. CASE AddCheck
    BY <1>12 DEF AddCheck, PutCheck, InProgress, TypeOK
  <1>13. CASE DropRetry
    <2>1. crosstx \in Deposit
      BY <1>13 DEF DropRetry, InProgress
    <2>. QED
      BY <1>13, <2>1 DEF DropRetry, DeleteRetry, TypeOK
  <1>14. CASE RoundDone
    BY <1>14 DEF RoundDone, TypeOK
  <1>15. CASE CheckTick
    BY <1>15, CheckedSubset DEF CheckTick, TypeOK
  <1>16. CASE CheckEntry
    <2>1. UNCHANGED <<chainVars, procVars, monitorVars, depositVars, history>>
      BY <1>16 DEF CheckEntry
    <2>. QED
      BY <2>1, <1>16, CheckChangesNothing DEF TypeOK
  <1>17. CASE Crash
    <2>1. Die /\ crashes' \in 0..MaxCrash
      BY <1>17 DEF Crash, TypeOK
    <2>. QED
      BY <2>1, DieTyping
  <1>18. CASE Restart
    BY <1>18 DEF Restart, InitHeight, TypeOK
  <1>19. CASE SyncHeader
    <2>1. synced' \in Genesis..EthTip
      BY <1>19 DEF SyncHeader, TypeOK
    <2>. QED
      BY <1>19, <2>1 DEF SyncHeader, TypeOK
  <1>20. CASE Deliver
    <2>1. PICK i \in 1..Len(sent), c \in {Executed, 1, 2} :
            sent' = [sent EXCEPT ![i].code = c]
      BY <1>20 DEF Deliver
    <2>2. sent \in Seq(ProofTxs) /\ Len(sent) <= MaxTx
      BY DEF TypeOK
    <2>3. sent' \in Seq(ProofTxs) /\ Len(sent') = Len(sent)
      BY <2>1, <2>2, Execution
    <2>. QED
      BY <1>20, <2>2, <2>3 DEF Deliver, TypeOK
  <1>21. CASE UNCHANGED vars
    BY <1>21 DEF vars, TypeOK
  <1>. QED
    BY <1>1, <1>2, <1>3, <1>4, <1>5, <1>6, <1>7, <1>8, <1>9, <1>10, <1>11,
       <1>12, <1>13, <1>14, <1>15, <1>16, <1>17, <1>18, <1>19, <1>20, <1>21
    DEF Next, MonitorChain, MonitorDeposit, CheckDeposit

(***************************************************************************)
(* Nothing that reached the bridge chain is taken back: its height does    *)
(* not fall, and the transactions keep their places, deposits and blocks.  *)
(***************************************************************************)
ChainKept ==
  /\ synced <= synced'
  /\ Len(sent) <= Len(sent')
  /\ \A j \in 1..Len(sent) :
       sent'[j].dep = sent[j].dep /\ sent'[j].at = sent[j].at

(***************************************************************************)
(* Only a broadcast adds a transaction, and it adds the proof of crosstx.  *)
(***************************************************************************)
LEMMA ChainGrows ==
  TypeOK /\ [Next]_vars =>
    ChainKept /\ (UNCHANGED Len(sent) \/ CommitProof)
  <1>. SUFFICES ASSUME TypeOK, [Next]_vars
       PROVE  ChainKept /\ (UNCHANGED Len(sent) \/ CommitProof)
    OBVIOUS
  <1>. USE RelayAssumption
       DEF Steps, chainVars, monitorVars, depositVars, procVars, history
  <1>1. CASE FetchEvents
    BY <1>1 DEF FetchEvents, TypeOK, ChainKept
  <1>2. CASE FetchFails
    BY <1>2 DEF FetchFails, TypeOK, ChainKept
  <1>3. CASE RecordEvent
    BY <1>3 DEF RecordEvent, TypeOK, ChainKept
  <1>4. CASE BlockDone
    BY <1>4 DEF BlockDone, TypeOK, ChainKept
  <1>5. CASE LoseHeader
    BY <1>5 DEF LoseHeader, TypeOK, ChainKept
  <1>6. CASE DepositTick
    BY <1>6 DEF DepositTick, TypeOK, ChainKept
  <1>7. CASE DepositList
    BY <1>7 DEF DepositList, TypeOK, ChainKept
  <1>8. CASE SkipDeposit
    BY <1>8 DEF SkipDeposit, TypeOK, ChainKept
  <1>9. CASE GetProof
    BY <1>9 DEF GetProof, TypeOK, ChainKept
  <1>10. CASE CommitProof
    <2>1. /\ Len(sent') = Len(sent) + 1
          /\ \A j \in 1..Len(sent) : sent'[j] = sent[j]
      BY <1>10 DEF CommitProof, TypeOK
    <2>. QED
      BY <1>10, <2>1 DEF CommitProof, TypeOK, ChainKept
  <1>11. CASE CommitProofPanics \/ CommitHeaderPanics
    BY <1>11 DEF CommitProofPanics, CommitHeaderPanics, Die, TypeOK,
               ChainKept
  <1>12. CASE AddCheck
    BY <1>12 DEF AddCheck, TypeOK, ChainKept
  <1>13. CASE DropRetry
    BY <1>13 DEF DropRetry, TypeOK, ChainKept
  <1>14. CASE RoundDone
    BY <1>14 DEF RoundDone, TypeOK, ChainKept
  <1>15. CASE CheckTick
    BY <1>15 DEF CheckTick, TypeOK, ChainKept
  <1>16. CASE CheckEntry
    <2>1. UNCHANGED <<synced, sent>>
      BY <1>16 DEF CheckEntry
    <2>. QED
      BY <2>1 DEF TypeOK, ChainKept
  <1>17. CASE Crash
    BY <1>17 DEF Crash, Die, TypeOK, ChainKept
  <1>18. CASE Restart
    BY <1>18 DEF Restart, TypeOK, ChainKept
  <1>19. CASE SyncHeader
    <2>1. synced <= synced' /\ UNCHANGED sent
      BY <1>19 DEF SyncHeader, TypeOK
    <2>. QED
      BY <2>1 DEF TypeOK, ChainKept
  <1>20. CASE Deliver
    <2>1. PICK i \in 1..Len(sent), c \in {Executed, 1, 2} :
            sent' = [sent EXCEPT ![i].code = c]
      BY <1>20 DEF Deliver
    <2>2. sent \in Seq(ProofTxs)
      BY DEF TypeOK
    <2>3. /\ Len(sent') = Len(sent)
          /\ \A j \in 1..Len(sent) :
               sent'[j].dep = sent[j].dep /\ sent'[j].at = sent[j].at
      BY <2>1, <2>2, Execution
    <2>4. UNCHANGED synced
      BY <1>20 DEF Deliver
    <2>. QED
      BY <2>3, <2>4 DEF TypeOK, ChainKept
  <1>21. CASE UNCHANGED vars
    BY <1>21 DEF vars, TypeOK, ChainKept
  <1>. QED
    BY <1>1, <1>2, <1>3, <1>4, <1>5, <1>6, <1>7, <1>8, <1>9, <1>10, <1>11,
       <1>12, <1>13, <1>14, <1>15, <1>16, <1>17, <1>18, <1>19, <1>20, <1>21
    DEF Next, MonitorChain, MonitorDeposit, CheckDeposit

(***************************************************************************)
(* A goroutine's knowledge outlives what the others do meanwhile.          *)
(***************************************************************************)
LEMMA InProgressStep == TypeOK /\ InProgress /\ [Next]_vars => InProgress'
  <1>. SUFFICES ASSUME TypeOK, InProgress, [Next]_vars
       PROVE  InProgress'
    OBVIOUS
  <1>. USE DEF Steps, chainVars, monitorVars, depositVars, procVars, history
  <1>1. CASE FetchEvents
    BY <1>1 DEF FetchEvents, InProgress, DeepEnough
  <1>2. CASE FetchFails
    <2>1. ~scanning' /\ UNCHANGED <<chainVars, depositVars>>
      BY <1>2 DEF FetchFails
    <2>. QED
      BY <2>1 DEF InProgress, DeepEnough
  <1>3. CASE RecordEvent
    BY <1>3 DEF RecordEvent, InProgress, DeepEnough
  <1>4. CASE BlockDone
    <2>1. ~scanning' /\ UNCHANGED <<chainVars, depositVars>>
      BY <1>4 DEF BlockDone
    <2>. QED
      BY <2>1 DEF InProgress, DeepEnough
  <1>5. CASE LoseHeader
    BY <1>5 DEF LoseHeader, InProgress, DeepEnough
  <1>6. CASE DepositTick
    <2>1. /\ refHeight' = synced /\ dpc' = "list"
          /\ UNCHANGED <<chainVars, procVars, monitorVars>>
      BY <1>6 DEF DepositTick
    <2>. QED
      BY <2>1, RelayAssumption DEF InProgress, TypeOK
  <1>7. CASE DepositList
    BY <1>7 DEF DepositList, InProgress, DeepEnough
  <1>8. CASE SkipDeposit
    BY <1>8 DEF SkipDeposit, InProgress, DeepEnough
  <1>9. CASE GetProof
    BY <1>9 DEF GetProof, InProgress, DeepEnough
  <1>10. CASE CommitProof
    <2>1. Len(sent') = Len(sent) + 1 /\ sent'[Len(sent) + 1] = ProofTx(crosstx)
      BY <1>10 DEF CommitProof, TypeOK
    <2>2. Len(sent') > 0 /\ sent'[Len(sent')].dep = crosstx
      BY <2>1 DEF ProofTx, TypeOK
    <2>3. dpc = "commit" /\ UNCHANGED <<refHeight, crosstx, synced, procVars,
                                     monitorVars>>
      BY <1>10 DEF CommitProof
    <2>. QED
      BY <2>2, <2>3 DEF InProgress, DeepEnough
  <1>11. CASE CommitProofPanics \/ CommitHeaderPanics
    <2>1. /\ refHeight' = 0 /\ dpc' = "idle" /\ scanning' = FALSE
          /\ UNCHANGED synced
      BY <1>11 DEF CommitProofPanics, CommitHeaderPanics, Die
    <2>2. refHeight' <= synced'
      BY <2>1, RelayAssumption DEF TypeOK
    <2>. QED
      BY <2>1, <2>2 DEF InProgress
  <1>12. CASE AddCheck
    BY <1>12 DEF AddCheck, InProgress, DeepEnough
  <1>13. CASE DropRetry
    BY <1>13 DEF DropRetry, InProgress, DeepEnough
  <1>14. CASE RoundDone
    <2>1. /\ refHeight' = 0 /\ dpc' = "idle"
          /\ UNCHANGED <<chainVars, procVars, monitorVars>>
      BY <1>14 DEF RoundDone
    <2>2. refHeight' <= synced'
      BY <2>1, RelayAssumption DEF TypeOK
    <2>. QED
      BY <2>1, <2>2 DEF InProgress
  <1>15. CASE CheckTick
    BY <1>15 DEF CheckTick, InProgress, DeepEnough
  <1>16. CASE CheckEntry
    <2>1. UNCHANGED <<chainVars, procVars, monitorVars, depositVars>>
      BY <1>16 DEF CheckEntry
    <2>. QED
      BY <2>1 DEF InProgress, DeepEnough
  <1>17. CASE Crash
    <2>1. /\ refHeight' = 0 /\ dpc' = "idle" /\ scanning' = FALSE
          /\ UNCHANGED synced
      BY <1>17 DEF Crash, Die
    <2>2. refHeight' <= synced'
      BY <2>1, RelayAssumption DEF TypeOK
    <2>. QED
      BY <2>1, <2>2 DEF InProgress
  <1>18. CASE Restart
    <2>1. ~up /\ UNCHANGED <<chainVars, scanning, depositVars>>
      BY <1>18 DEF Restart
    <2>. QED
      BY <2>1 DEF InProgress, DeepEnough
  <1>19. CASE SyncHeader
    <2>1. /\ synced' = synced + 1
          /\ UNCHANGED <<sent, procVars, depositVars, monitorVars>>
      BY <1>19 DEF SyncHeader
    <2>2. refHeight' <= synced'
      BY <2>1, RelayAssumption DEF TypeOK, InProgress
    <2>. QED
      BY <2>1, <2>2 DEF InProgress, DeepEnough
  <1>20. CASE Deliver
    <2>1. UNCHANGED <<synced, procVars, depositVars, monitorVars>>
      BY <1>20 DEF Deliver
    <2>2. PICK i \in 1..Len(sent), c \in {Executed, 1, 2} :
            sent' = [sent EXCEPT ![i].code = c]
      BY <1>20 DEF Deliver
    <2>3. sent \in Seq(ProofTxs)
      BY DEF TypeOK
    <2>4. /\ Len(sent') = Len(sent)
          /\ \A j \in 1..Len(sent) : sent'[j].dep = sent[j].dep
      BY <2>2, <2>3, Execution
    <2>. QED
      BY <2>1, <2>3, <2>4 DEF InProgress, DeepEnough
  <1>21. CASE UNCHANGED vars
    BY <1>21 DEF vars, InProgress, DeepEnough
  <1>. QED
    BY <1>1, <1>2, <1>3, <1>4, <1>5, <1>6, <1>7, <1>8, <1>9, <1>10, <1>11,
       <1>12, <1>13, <1>14, <1>15, <1>16, <1>17, <1>18, <1>19, <1>20, <1>21
    DEF Next, MonitorChain, MonitorDeposit, CheckDeposit

(***************************************************************************)
(* A proof is broadcast only for a block in the window between its deposit *)
(* and the height of the bridge chain, and stays in it.                    *)
(***************************************************************************)
LEMMA ConfirmedStep ==
  TypeOK /\ InProgress /\ Confirmed /\ [Next]_vars => Confirmed'
  <1>. SUFFICES ASSUME TypeOK, InProgress, Confirmed, [Next]_vars,
                       NEW j \in 1..Len(sent')
       PROVE  BlockOf[sent'[j].dep] < sent'[j].at
              /\ sent'[j].at + BlockConfig <= synced'
    BY DEF Confirmed
  <1>1. ChainKept /\ (UNCHANGED Len(sent) \/ CommitProof)
    BY ChainGrows
  <1>2. CASE j \in 1..Len(sent)
    <2>1. /\ BlockOf[sent[j].dep] < sent[j].at
          /\ sent[j].at + BlockConfig <= synced
      BY <1>2 DEF Confirmed
    <2>2. sent[j] \in ProofTxs
      BY <1>2 DEF TypeOK
    <2>3. TypeOK'
      BY TypingStep
    <2>4. synced <= synced' /\ synced \in Nat /\ synced' \in Nat
      BY <1>1, <2>3, RelayAssumption DEF ChainKept, TypeOK
    <2>. QED
      BY <1>1, <1>2, <2>1, <2>2, <2>4, RelayAssumption DEF ChainKept, ProofTxs
  <1>3. CASE j \notin 1..Len(sent)
    <2>1. CommitProof
      BY <1>1, <1>3
    <2>2. sent' = Append(sent, ProofTx(crosstx)) /\ UNCHANGED synced
      BY <2>1 DEF CommitProof
    <2>3. sent'[j] = ProofTx(crosstx)
      BY <1>3, <2>2 DEF TypeOK
    <2>4. crosstx \in Deposit /\ DeepEnough(crosstx) /\ refHeight <= synced
      BY <2>1 DEF CommitProof, InProgress
    <2>. QED
      BY <2>2, <2>3, <2>4, RelayAssumption DEF ProofTx, DeepEnough, TypeOK
  <1>. QED
    BY <1>2, <1>3

(***************************************************************************)
(* Entries are added for the last broadcast only, and broadcasts keep      *)
(* their deposits.                                                         *)
(***************************************************************************)
LEMMA CheckNamesStep ==
  TypeOK /\ InProgress /\ CheckNamesDeposit /\ [Next]_vars => CheckNamesDeposit'
  <1>. SUFFICES ASSUME TypeOK, InProgress, CheckNamesDeposit, [Next]_vars,
                       NEW e \in checkBkt'
       PROVE  e[1] <= Len(sent') /\ sent'[e[1]].dep = e[2]
    BY DEF CheckNamesDeposit
  <1>1. ChainKept
    BY ChainGrows
  <1>2. e \in checkBkt \/ AddCheck
    <2>1. CASE CheckEntry
      BY <2>1, CheckChangesNothing
    <2>. QED
      BY <2>1
      DEF Next, MonitorChain, MonitorDeposit, CheckDeposit, vars, FetchEvents,
          FetchFails, RecordEvent, BlockDone, LoseHeader, DepositTick,
          DepositList, SkipDeposit, GetProof, CommitProof, CommitProofPanics,
          CommitHeaderPanics, DropRetry, RoundDone, CheckTick, Crash, Die,
          Restart, SyncHeader, Deliver
  <1>3. CASE e \in checkBkt
    <2>1. e[1] \in 1..MaxTx /\ e[1] <= Len(sent) /\ sent[e[1]].dep = e[2]
      BY <1>3 DEF TypeOK, CheckNamesDeposit
    <2>. QED
      BY <1>1, <2>1 DEF ChainKept, TypeOK
  <1>4. CASE e \notin checkBkt
    <2>1. AddCheck
      BY <1>2, <1>4
    <2>2. e = <<Len(sent), crosstx>> /\ UNCHANGED sent
      BY <1>4, <2>1 DEF AddCheck, PutCheck, chainVars
    <2>3. sent[Len(sent)].dep = crosstx
      BY <2>1 DEF AddCheck, InProgress
    <2>. QED
      BY <2>2, <2>3 DEF TypeOK
  <1>. QED
    BY <1>3, <1>4

(***************************************************************************)
(* A deposit leaves the Retry bucket only behind its own broadcast.        *)
(***************************************************************************)
LEMMA NotForgottenStep ==
  TypeOK /\ InProgress /\ NotForgotten /\ [Next]_vars => NotForgotten'
  <1>. SUFFICES ASSUME TypeOK, InProgress, NotForgotten, [Next]_vars,
                       NEW d \in recorded'
       PROVE  d \in retryBkt' \/ SentFor(d)'
    BY DEF NotForgotten
  <1>1. SentFor(d) => SentFor(d)'
    BY ChainGrows DEF ChainKept, SentFor, TypeOK
  <1>2. CASE RecordEvent
    BY <1>1, <1>2 DEF RecordEvent, PutRetry, NotForgotten
  <1>3. CASE DropRetry
    <2>1. SentFor(crosstx)
      BY <1>3 DEF DropRetry, InProgress, SentFor, TypeOK
    <2>. QED
      BY <1>1, <1>3, <2>1 DEF DropRetry, DeleteRetry, NotForgotten
  <1>4. CASE CheckEntry
    <2>1. UNCHANGED <<retryBkt, recorded>>
      BY <1>4, CheckChangesNothing DEF CheckEntry, history
    <2>. QED
      BY <1>1, <2>1 DEF NotForgotten
  <1>5. CASE UNCHANGED <<retryBkt, recorded>>
    BY <1>1, <1>5 DEF NotForgotten
  <1>. QED
    BY <1>2, <1>3, <1>4, <1>5
    DEF Next, MonitorChain, MonitorDeposit, CheckDeposit, vars, history,
        FetchEvents, FetchFails, BlockDone, LoseHeader, DepositTick,
        DepositList, SkipDeposit, GetProof, CommitProof, CommitProofPanics,
        CommitHeaderPanics, AddCheck, RoundDone, CheckTick, Crash, Die,
        Restart, SyncHeader, Deliver

LEMMA StepHolds == IInv /\ [Next]_vars => IInv'
  BY TypingStep, InProgressStep, ConfirmedStep, CheckNamesStep,
     NotForgottenStep DEF IInv

(***************************************************************************)
(* A process may die anywhere, also for reasons this module does not know. *)
(***************************************************************************)
LEMMA DeathHolds ==
  ASSUME IInv, Die, UNCHANGED crashes
  PROVE  IInv'
  <1>1. TypeOK'
    BY DieTyping DEF IInv, TypeOK
  <1>2. /\ refHeight' = 0 /\ dpc' = "idle" /\ scanning' = FALSE
        /\ UNCHANGED <<retryBkt, checkBkt, synced, sent, recorded>>
    BY DEF Die, history
  <1>3. InProgress'
    BY <1>1, <1>2, RelayAssumption DEF InProgress, TypeOK
  <1>. QED
    BY <1>1, <1>2, <1>3
    DEF IInv, Confirmed, CheckNamesDeposit, NotForgotten, SentFor

THEOREM Invariance == Spec => []IInv
  BY InitHolds, StepHolds, PTL DEF Spec

(***************************************************************************)
(* The model keeps its types (DepositRelay!TypeOK).                        *)
(***************************************************************************)
THEOREM TypeCorrect == Spec => []TypeOK
  <1>1. IInv => TypeOK
    BY DEF IInv
  <1>. QED
    BY <1>1, Invariance, PTL

(***************************************************************************)
(* Proofs are made BlockConfig blocks below the bridge chain and above the *)
(* deposit's block (handleLockDepositEvents), for any interleaving, number *)
(* of crashes and faults.                                                  *)
(***************************************************************************)
THEOREM ProofsConfirmed == Spec => []Confirmed
  <1>1. IInv => Confirmed
    BY DEF IInv
  <1>. QED
    BY <1>1, Invariance, PTL

(***************************************************************************)
(* A recorded deposit is in the Retry bucket or was broadcast, whatever    *)
(* write fails and wherever the process dies.                              *)
(***************************************************************************)
THEOREM NothingForgotten == Spec => []NotForgotten
  <1>1. IInv => NotForgotten
    BY DEF IInv
  <1>. QED
    BY <1>1, Invariance, PTL

(***************************************************************************)
(* The Check bucket maps a transaction to the deposit it proves.           *)
(***************************************************************************)
THEOREM ChecksNamed == Spec => []CheckNamesDeposit
  <1>1. IInv => CheckNamesDeposit
    BY DEF IInv
  <1>. QED
    BY <1>1, Invariance, PTL

-----------------------------------------------------------------------------
(***************************************************************************)
(* With a database that works, PutCheck comes before DeleteRetry: once at  *)
(* "delete", the entry is there.                                           *)
(***************************************************************************)
CheckFirst == Accounted /\ (dpc = "delete" => CheckedFor(crosstx))

LEMMA CheckedStays ==
  ASSUME "db" \notin Faults, IInv, [Next]_vars, NEW d \in Deposit, CheckedFor(d)
  PROVE  CheckedFor(d)'
  <1>1. CASE AddCheck
    <2>1. /\ checkBkt' = {e \in checkBkt : e[1] # Len(sent)}
                           \cup {<<Len(sent), crosstx>>}
          /\ sent[Len(sent)].dep = crosstx
      BY <1>1 DEF AddCheck, PutCheck, IInv, InProgress
    <2>2. PICK e \in checkBkt : e[2] = d
      BY DEF CheckedFor
    <2>3. CASE e[1] = Len(sent)
      <3>1. crosstx = d
        BY <2>1, <2>2, <2>3 DEF IInv, CheckNamesDeposit
      <3>2. <<Len(sent), d>> \in checkBkt'
        BY <2>1, <3>1
      <3>. QED
        BY <3>2 DEF CheckedFor
    <2>4. CASE e[1] # Len(sent)
      BY <2>1, <2>2, <2>4 DEF CheckedFor
    <2>. QED
      BY <2>3, <2>4
  <1>2. CASE CheckEntry
    BY <1>2, CheckChangesNothing DEF CheckedFor
  <1>3. CASE UNCHANGED checkBkt
    BY <1>3 DEF CheckedFor
  <1>. QED
    BY <1>1, <1>2, <1>3
    DEF Next, MonitorChain, MonitorDeposit, CheckDeposit, vars, FetchEvents,
        FetchFails, RecordEvent, BlockDone, LoseHeader, DepositTick,
        DepositList, SkipDeposit, GetProof, CommitProof, CommitProofPanics,
        CommitHeaderPanics, DropRetry, RoundDone, CheckTick, Crash, Die,
        Restart, SyncHeader, Deliver

LEMMA CheckFirstStep ==
  ASSUME "db" \notin Faults, IInv, CheckFirst, [Next]_vars
  PROVE  CheckFirst'
  <1>. USE DEF chainVars, monitorVars, depositVars, procVars, history
  <1>1. recorded \subseteq Deposit /\ crosstx \in Deposit \cup {NoDeposit}
    BY DEF IInv, TypeOK
  <1>2. CASE RecordEvent
    BY <1>1, <1>2, CheckedStays
    DEF RecordEvent, PutRetry, CheckFirst, Accounted, CheckedFor
  <1>3. CASE AddCheck
    <2>1. UNCHANGED crosstx /\ <<Len(sent), crosstx>> \in checkBkt'
      BY <1>3 DEF AddCheck, PutCheck
    <2>2. CheckedFor(crosstx)'
      BY <2>1 DEF CheckedFor
    <2>. QED
      BY <1>1, <1>3, <2>2, CheckedStays DEF AddCheck, CheckFirst, Accounted
  <1>4. CASE DropRetry
    BY <1>1, <1>4, CheckedStays
    DEF DropRetry, DeleteRetry, CheckFirst, Accounted
  <1>5. CASE CheckEntry
    BY <1>1, <1>5, CheckedStays, CheckChangesNothing
    DEF CheckEntry, CheckFirst, Accounted, IInv, InProgress
  <1>6. CASE /\ UNCHANGED <<retryBkt, recorded>>
             /\ dpc' # "delete" \/ UNCHANGED <<dpc, crosstx>>
    BY <1>1, <1>6, CheckedStays
    DEF CheckFirst, Accounted, IInv, InProgress
  <1>. QED
    BY <1>2, <1>3, <1>4, <1>5, <1>6
    DEF Next, MonitorChain, MonitorDeposit, CheckDeposit, vars, FetchEvents,
        FetchFails, BlockDone, LoseHeader, DepositTick, DepositList,
        SkipDeposit, GetProof, CommitProof, CommitProofPanics,
        CommitHeaderPanics, RoundDone, CheckTick, Crash, Die, Restart,
        SyncHeader, Deliver

LEMMA CheckFirstDeath == CheckFirst /\ Die => CheckFirst'
  BY DEF Die, CheckFirst, Accounted, CheckedFor, history

(***************************************************************************)
(* While database writes succeed, a deposit that left the Retry bucket is  *)
(* found in the Check bucket, wherever the process died.                   *)
(***************************************************************************)
THEOREM AllAccounted ==
  ASSUME "db" \notin Faults
  PROVE  Spec => []Accounted
  <1>1. Init => CheckFirst
    BY DEF Init, CheckFirst, Accounted
  <1>2. IInv /\ CheckFirst /\ [Next]_vars => CheckFirst'
    BY CheckFirstStep
  <1>3. CheckFirst => Accounted
    BY DEF CheckFirst
  <1>. QED
    BY <1>1, <1>2, <1>3, Invariance, PTL DEF Spec

-----------------------------------------------------------------------------
(***************************************************************************)
(* Not only the blocks below the relayer's own scan were recorded but also *)
(* those below the bridge chain's height, where a restart resumes, counting*)
(* the header a dead process left behind.                                  *)
(***************************************************************************)
Scanned(h) ==
  \A d \in Deposit : Genesis < BlockOf[d] /\ BlockOf[d] <= h => d \in recorded

ScanInv ==
  /\ Scanned(currentHeight)
  /\ Scanned(synced)
  /\ flight => Scanned(synced + 1)
  /\ scanning =>
       \A d \in DepositsIn(currentHeight + 1) : d \in recorded \cup events

LEMMA ScannedNext ==
  ASSUME NEW h \in Int, Scanned(h), \A d \in DepositsIn(h + 1) : d \in recorded
  PROVE  Scanned(h + 1)
  BY RelayAssumption DEF Scanned, DepositsIn

LEMMA ScannedBelow ==
  ASSUME NEW h \in Int, NEW k \in Int, k <= h, Scanned(h)
  PROVE  Scanned(k)
  BY RelayAssumption DEF Scanned

(***************************************************************************)
(* A bridge transaction never has the hash of an Ethereum transaction, so  *)
(* every event found is put into the Retry bucket.                         *)
(***************************************************************************)
LEMMA NeverOnBridge == TypeOK => \A d \in Deposit : ~OnBridge(d)
  BY HashAssumption DEF OnBridge, TypeOK

LEMMA ScanBegins == Init => ScanInv
  <1>. SUFFICES ASSUME Init PROVE ScanInv
    OBVIOUS
  <1>1. currentHeight <= Genesis /\ synced = Genesis /\ ~flight /\ ~scanning
    BY RelayAssumption DEF Init, InitHeight
  <1>2. currentHeight \in Int
    BY RelayAssumption DEF Init, InitHeight
  <1>. QED
    BY <1>1, <1>2, RelayAssumption DEF ScanInv, Scanned

(***************************************************************************)
(* A dead process leaves at most the header of a block that it scanned.    *)
(***************************************************************************)
LEMMA ScanDeath ==
  ASSUME TypeOK, ScanInv, Die
  PROVE  ScanInv'
  <1>1. ~scanning' /\ UNCHANGED <<synced, currentHeight, recorded>>
    BY DEF Die, history
  <1>2. flight' => Scanned(synced + 1)
    <2>1. CASE UNCHANGED flight
      BY <2>1 DEF ScanInv
    <2>2. CASE synced < currentHeight
      BY <2>2, ScannedBelow, RelayAssumption DEF ScanInv, TypeOK
    <2>. QED
      BY <2>1, <2>2 DEF Die
  <1>. QED
    BY <1>1, <1>2 DEF ScanInv, Scanned

LEMMA ScanStep ==
  ASSUME Faults \cap {"fetch", "db", "others"} = {},
         TypeOK, InProgress, ScanInv, [Next]_vars
  PROVE  ScanInv'
  <1>. USE DEF chainVars, monitorVars, depositVars, procVars, history
  <1>1. currentHeight \in Int /\ synced \in Int
    BY RelayAssumption DEF TypeOK
  <1>2. CASE FetchEvents
    BY <1>2 DEF FetchEvents, ScanInv, Scanned, DepositsIn
  <1>3. CASE RecordEvent
    <2>1. PICK d \in events : /\ events' = events \ {d}
                              /\ recorded' = recorded \cup {d}
      BY <1>3, NeverOnBridge DEF RecordEvent, TypeOK
    <2>2. UNCHANGED <<synced, flight, currentHeight, scanning>>
      BY <1>3 DEF RecordEvent
    <2>. QED
      BY <2>1, <2>2 DEF ScanInv, Scanned, DepositsIn
  <1>4. CASE BlockDone
    <2>1. \A d \in DepositsIn(currentHeight + 1) : d \in recorded
      BY <1>4 DEF BlockDone, ScanInv
    <2>2. Scanned(currentHeight + 1)
      BY <1>1, <2>1, ScannedNext DEF ScanInv
    <2>3. /\ currentHeight' = currentHeight + 1 /\ ~scanning'
          /\ UNCHANGED <<synced, flight, recorded>>
      BY <1>4 DEF BlockDone
    <2>. QED
      BY <2>2, <2>3 DEF ScanInv, Scanned
  <1>5. CASE LoseHeader
    BY <1>5 DEF LoseHeader, ScanInv, Scanned
  <1>6. CASE Die
    BY <1>6, ScanDeath
  <1>7. CASE Restart
    <2>1. ~scanning' /\ UNCHANGED <<synced, flight, recorded>>
      BY <1>7 DEF Restart, InProgress
    <2>2. currentHeight' = InitHeight
      BY <1>7 DEF Restart
    <2>3. InitHeight \in Int /\ InitHeight <= synced
      BY <1>1, RelayAssumption DEF InitHeight
    <2>4. Scanned(InitHeight)
      BY <1>1, <2>3, ScannedBelow DEF ScanInv
    <2>. QED
      BY <2>1, <2>2, <2>4 DEF ScanInv, Scanned
  <1>8. CASE SyncHeader
    <2>1. /\ flight \/ synced < currentHeight
          /\ synced' = synced + 1 /\ flight' = FALSE
          /\ UNCHANGED <<currentHeight, scanning, events, recorded>>
      BY <1>8 DEF SyncHeader
    <2>2. Scanned(synced + 1)
      BY <1>1, <2>1, ScannedBelow DEF ScanInv
    <2>. QED
      BY <2>1, <2>2 DEF ScanInv, Scanned
  <1>9. CASE UNCHANGED <<synced, flight, currentHeight, scanning, events,
                         recorded>>
    BY <1>9 DEF ScanInv, Scanned
  <1>10. ~FetchFails
    BY DEF FetchFails
  <1>. QED
    BY <1>2, <1>3, <1>4, <1>5, <1>6, <1>7, <1>8, <1>9, <1>10
    DEF Next, MonitorChain, MonitorDeposit, CheckDeposit, vars, DepositTick,
        DepositList, SkipDeposit, GetProof, CommitProof, CommitProofPanics,
        CommitHeaderPanics, AddCheck, DropRetry, RoundDone, CheckTick,
        CheckEntry, Crash, Deliver

(***************************************************************************)
(* While event queries and database writes succeed and no other relayer    *)
(* moves the bridge chain, no deposit above Genesis and below the scan is  *)
(* missed, although each restart skips to the bridge chain's height.       *)
(***************************************************************************)
THEOREM NoneMissed ==
  ASSUME Faults \cap {"fetch", "db", "others"} = {}
  PROVE  Spec => []NothingMissed
  <1>2. TypeOK /\ InProgress /\ ScanInv /\ [Next]_vars => ScanInv'
    BY ScanStep
  <1>3. ScanInv => NothingMissed
    BY DEF ScanInv, Scanned, NothingMissed
  <1>4. IInv => TypeOK /\ InProgress
    BY DEF IInv
  <1>. QED
    BY <1>2, <1>3, <1>4, ScanBegins, Invariance, PTL DEF Spec

-----------------------------------------------------------------------------
(***************************************************************************)
(* The scan is at most one block behind the bridge chain, so the blocks it *)
(* has still to scan are above those of the deposits closed already, which *)
(* were deep enough to be proved.                                          *)
(***************************************************************************)
ClosedInv ==
  /\ ClosedStaysClosed
  /\ \A d \in closed : BlockOf[d] < synced
  /\ scanning => \A d \in events : BlockOf[d] = currentHeight + 1
  /\ up => synced <= currentHeight + 1
  /\ up /\ flight => synced <= currentHeight

LEMMA ClosedBegins == ForceHeight = 0 /\ Init => ClosedInv
  BY RelayAssumption DEF Init, InitHeight, ClosedInv, ClosedStaysClosed

LEMMA ClosedDeath == ClosedInv /\ Die => ClosedInv'
  BY DEF Die, ClosedInv, ClosedStaysClosed, history

LEMMA ClosedStep ==
  ASSUME "others" \notin Faults, ForceHeight = 0,
         TypeOK, InProgress, ClosedInv, [Next]_vars
  PROVE  ClosedInv'
  <1>. USE DEF chainVars, monitorVars, depositVars, procVars, history
  <1>1. /\ currentHeight \in Int /\ synced \in Int /\ closed \subseteq Deposit
        /\ \A d \in Deposit : BlockOf[d] \in Int
    BY RelayAssumption DEF TypeOK
  <1>2. CASE FetchEvents
    BY <1>2 DEF FetchEvents, DepositsIn, ClosedInv, ClosedStaysClosed
  <1>3. CASE RecordEvent
    <2>1. /\ scanning /\ up
          /\ UNCHANGED <<synced, flight, up, currentHeight, scanning, closed>>
      BY <1>3 DEF RecordEvent
    <2>2. events' \subseteq events
      BY <1>3 DEF RecordEvent
    <2>3. \A d \in events : d \notin closed
      BY <1>1, <2>1 DEF ClosedInv
    <2>4. \A d \in retryBkt' : d \in retryBkt \/ d \in events
      BY <1>3 DEF RecordEvent, PutRetry
    <2>5. ClosedStaysClosed'
      BY <2>1, <2>3, <2>4 DEF ClosedInv, ClosedStaysClosed
    <2>. QED
      BY <2>1, <2>2, <2>5 DEF ClosedInv
  <1>4. CASE BlockDone \/ FetchFails
    <2>1. /\ currentHeight' = currentHeight + 1 /\ ~scanning'
          /\ UNCHANGED <<retryBkt, synced, flight, up, closed>>
      BY <1>4 DEF BlockDone, FetchFails
    <2>. QED
      BY <1>1, <2>1 DEF ClosedInv, ClosedStaysClosed
  <1>5. CASE DropRetry
    <2>1. BlockOf[crosstx] < synced
      BY <1>1, <1>5, RelayAssumption
      DEF DropRetry, InProgress, DeepEnough, TypeOK
    <2>. QED
      BY <1>5, <2>1 DEF DropRetry, DeleteRetry, ClosedInv, ClosedStaysClosed
  <1>6. CASE CheckEntry
    BY <1>6, CheckChangesNothing DEF CheckEntry, ClosedInv, ClosedStaysClosed
  <1>7. CASE Die
    BY <1>7, ClosedDeath
  <1>8. CASE Restart
    <2>1. /\ currentHeight' = synced /\ ~scanning'
          /\ UNCHANGED <<retryBkt, synced, closed>>
      BY <1>8 DEF Restart, InitHeight, InProgress
    <2>. QED
      BY <1>1, <2>1 DEF ClosedInv, ClosedStaysClosed
  <1>9. CASE SyncHeader
    <2>1. /\ (up /\ synced < currentHeight) \/ flight
          /\ synced' = synced + 1 /\ flight' = FALSE
          /\ UNCHANGED <<retryBkt, up, currentHeight, scanning, events,
                         closed>>
      BY <1>9 DEF SyncHeader
    <2>2. up' => synced' <= currentHeight' + 1
      BY <1>1, <2>1 DEF ClosedInv
    <2>. QED
      BY <1>1, <2>1, <2>2 DEF ClosedInv, ClosedStaysClosed
  <1>10. CASE LoseHeader
    BY <1>10 DEF LoseHeader, ClosedInv, ClosedStaysClosed
  <1>11. CASE UNCHANGED <<retryBkt, synced, flight, up, currentHeight,
                          scanning, events, closed>>
    BY <1>11 DEF ClosedInv, ClosedStaysClosed
  <1>. QED
    BY <1>2, <1>3, <1>4, <1>5, <1>6, <1>7, <1>8, <1>9, <1>10, <1>11
    DEF Next, MonitorChain, MonitorDeposit, CheckDeposit, vars, DepositTick,
        DepositList, SkipDeposit, GetProof, CommitProof, CommitProofPanics,
        CommitHeaderPanics, AddCheck, RoundDone, CheckTick, Crash, Deliver

(***************************************************************************)
(* While this relayer alone moves the bridge chain, and starts where the   *)
(* bridge chain is, a deposit that was relayed and left the Retry bucket   *)
(* does not come back, although every restart scans blocks again.          *)
(***************************************************************************)
THEOREM ClosedForGood ==
  ASSUME "others" \notin Faults, ForceHeight = 0
  PROVE  Spec => []ClosedStaysClosed
  <1>2. TypeOK /\ InProgress /\ ClosedInv /\ [Next]_vars => ClosedInv'
    BY ClosedStep
  <1>3. ClosedInv => ClosedStaysClosed
    BY DEF ClosedInv
  <1>4. IInv => TypeOK /\ InProgress
    BY DEF IInv
  <1>. QED
    BY <1>2, <1>3, <1>4, ClosedBegins, Invariance, PTL DEF Spec
=============================================================================
