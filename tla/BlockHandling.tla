--------------------------- MODULE BlockHandling ---------------------------
(***************************************************************************)
(* BridgeManager.handleDepositTxs query by query (manager/bridgeManager.go *)
(* and tools/tendermint.go), inside the loop of BridgeRelay: the header    *)
(* with its validators, page after page; the transactions, page after      *)
(* page, with a proof for each; then selectSender, once per transaction,   *)
(* which is otherwise ignored, and once for the header.  BridgeRelay has   *)
(* all this as the one step HandleDepositTxs.                              *)
(***************************************************************************)
EXTENDS BridgeRelay, Sequences, SequencesExt

CONSTANTS
  Senders,    \* BridgeManager.senders, a sequence
  TxsOf,      \* how many transactions of a block the search finds
  ValsOf,     \* how many validators sign a block
  PerPage,    \* entries per page
  Balances,   \* the balances an account may have
  Int64,      \* the number of values of an int64
  MaxFail     \* bound: how many queries for a block fail

ASSUME HandlingAssumption ==
  /\ Senders \in Seq(Sender) /\ IsInjective(Senders)
  /\ Range(Senders) = Sender /\ Sender # {}
  /\ TxsOf \in [1..MaxBridge -> Nat] /\ ValsOf \in [1..MaxBridge -> Nat]
  /\ PerPage \in Nat \ {0}
  /\ Balances \subseteq Nat
  /\ Int64 \in Nat \ {0} /\ Int64 % 2 = 0
  /\ MaxFail \in Nat

VARIABLES
  query,      \* what handleDepositTxs does next
  page,       \* the page it asks for
  pages,      \* how many pages of transactions there are
  valsets,    \* the validators it has got
  unproved,   \* transactions of the page without a proof so far
  txs,        \* the transactions it has got, with their proofs
  selections, \* how many senders it has still to select
  balances,   \* the balances selectSender has read
  failures    \* how many queries have failed

handling == <<query, page, pages, valsets, unproved, txs, selections,
              balances>>
allVars  == <<vars, handling, failures>>

Queries == {"none", "validators", "search", "proof", "select"}

Count(n) == [i \in 1..n |-> i]

NotHandling ==
  /\ query = "none" /\ page = 1 /\ pages = 0 /\ valsets = <<>>
  /\ unproved = <<>> /\ txs = <<>> /\ selections = 0 /\ balances = <<>>

Finish ==
  /\ query' = "none" /\ page' = 1 /\ pages' = 0 /\ valsets' = <<>>
  /\ unproved' = <<>> /\ txs' = <<>> /\ selections' = 0 /\ balances' = <<>>

HandlingInit == Init /\ NotHandling /\ failures = 0

PageOf(n, p) == SubSeq(Count(n), (p - 1) * PerPage + 1,
                       IF p * PerPage < n THEN p * PerPage ELSE n)

(***************************************************************************)
(* Any failed query fails the block, and ends the tick.                    *)
(***************************************************************************)
Fail == failures < MaxFail /\ failures' = failures + 1

QueryFails ==
  /\ up /\ query \in {"validators", "search", "proof"}
  /\ "rpc" \in Faults /\ Fail
  /\ pc' = "save"
  /\ Finish
  /\ UNCHANGED <<chains, proc, currentHeight, latestheight, sender, nonce,
                 addressNonce, handled, relayed>>

-----------------------------------------------------------------------------
(***************************************************************************)
(* tools.GetBridgeHdr.                                                     *)
(***************************************************************************)
GetCommit ==
  /\ up /\ pc = "loop" /\ query = "none" /\ MoreBlocks
  /\ \/ /\ HasBlock
        /\ query' = "validators"
        /\ UNCHANGED <<pc, page, pages, valsets, unproved, txs, selections,
                       balances, failures>>
     \/ /\ ~HasBlock
        /\ pc' = "save"
        /\ UNCHANGED <<handling, failures>>
     \/ /\ "rpc" \in Faults /\ Fail
        /\ pc' = "save"
        /\ UNCHANGED handling
  /\ UNCHANGED <<chains, proc, currentHeight, latestheight, sender, nonce,
                 addressNonce, handled, relayed>>

\* A wrong variant: an empty page is not taken for the end.
LastValidatorsNever(p) == FALSE

(***************************************************************************)
(* GetValidators asks for one page after the other until the answer is     *)
(* that there is no such page, or an empty page.                           *)
(***************************************************************************)
LastValidators(p) == PageOf(ValsOf[currentHeight], p) = <<>>

GetValidators ==
  /\ up /\ query = "validators"
  /\ IF LastValidators(page)
     THEN /\ query' = "search" /\ page' = 1
          /\ UNCHANGED valsets
     ELSE /\ valsets' = valsets \o PageOf(ValsOf[currentHeight], page)
          /\ page' = page + 1
          /\ UNCHANGED query
  /\ UNCHANGED <<vars, pages, unproved, txs, selections, balances>>

\* A wrong variant: a last page that is not full is not counted.
PageCountFloor(total) == total \div PerPage

\* The division of Go rounds towards zero.
PageCount(total) == IF total = 0 THEN 1 ELSE (total - 1) \div PerPage + 1

(***************************************************************************)
(* getBridgeTxs: the number of pages is computed from the first one.       *)
(***************************************************************************)
TxSearch ==
  /\ up /\ query = "search"
  /\ pages' = IF page = 1 THEN PageCount(TxsOf[currentHeight]) ELSE pages
  /\ unproved' = PageOf(TxsOf[currentHeight], page)
  /\ query' = "proof"
  /\ UNCHANGED <<vars, page, valsets, txs, selections, balances>>

(***************************************************************************)
(* A transaction is kept only with its proof.                              *)
(***************************************************************************)
QueryProof ==
  /\ up /\ query = "proof" /\ unproved # <<>>
  /\ txs' = Append(txs, Head(unproved))
  /\ unproved' = Tail(unproved)
  /\ UNCHANGED <<vars, query, page, pages, valsets, selections, balances>>

PageDone ==
  /\ up /\ query = "proof" /\ unproved = <<>>
  /\ IF page < pages
     THEN /\ page' = page + 1 /\ query' = "search"
          /\ UNCHANGED selections
     ELSE /\ page' = 1 /\ query' = "select"
          /\ selections' = Len(txs) + 1
  /\ UNCHANGED <<vars, pages, valsets, unproved, txs, balances>>

-----------------------------------------------------------------------------
(***************************************************************************)
(* selectSender: the balance of each sender is asked for until there is an *)
(* answer.  The sums of the first balances are cut to an int64; a number   *)
(* below the whole sum is drawn, which is not cut; and the first sender    *)
(* whose sum is not below it is taken, or the first one of all.            *)
(***************************************************************************)
ReadBalance ==
  /\ up /\ query = "select" /\ Len(balances) < Len(Senders)
  /\ \E b \in Balances : balances' = Append(balances, b)
  /\ UNCHANGED <<vars, query, page, pages, valsets, unproved, txs,
                 selections>>

\* The sum of the first i balances.
Sum[i \in 0..Len(balances)] ==
  IF i = 0 THEN 0 ELSE Sum[i - 1] + balances[i]

ToInt64(n) == ((n + Int64 \div 2) % Int64) - (Int64 \div 2)

Drawable ==
  LET all == Sum[Len(Senders)]
  IN  0..(IF all = 0 THEN 0 ELSE all - 1)

\* A wrong variant: the comparison is the other way round.
ChosenBelow(r) ==
  LET reached == {i \in 1..Len(Senders) : ToInt64(Sum[i]) <= r} IN
  IF reached = {} THEN 1 ELSE CHOOSE i \in reached : \A k \in reached : i <= k

Chosen(r) ==
  LET reached == {i \in 1..Len(Senders) : ToInt64(Sum[i]) >= r} IN
  IF reached = {} THEN 1 ELSE CHOOSE i \in reached : \A k \in reached : i <= k

\* A wrong variant: the sender chosen for a transaction stays chosen.
SelectSenderEach ==
  /\ up /\ query = "select" /\ Len(balances) = Len(Senders)
  /\ \E r \in Drawable :
       /\ sender' = Senders[Chosen(r)]
       /\ IF selections > 1
          THEN /\ selections' = selections - 1 /\ balances' = <<>>
               /\ UNCHANGED <<pc, query, page, pages, valsets, unproved, txs>>
          ELSE pc' = "prepare" /\ Finish
  /\ UNCHANGED <<chains, proc, currentHeight, latestheight, nonce,
                 addressNonce, handled, relayed>>

SelectSender ==
  /\ up /\ query = "select" /\ Len(balances) = Len(Senders)
  /\ \E r \in Drawable :
       IF selections > 1
       THEN /\ selections' = selections - 1 /\ balances' = <<>>
            /\ UNCHANGED <<pc, sender, query, page, pages, valsets,
                           unproved, txs>>
       ELSE /\ sender' = Senders[Chosen(r)]
            /\ pc' = "prepare"
            /\ Finish
  /\ UNCHANGED <<chains, proc, currentHeight, latestheight, nonce,
                 addressNonce, handled, relayed>>

-----------------------------------------------------------------------------
(***************************************************************************)
(* Everything else is as in BridgeRelay.                                   *)
(***************************************************************************)
HandleBlock ==
  \/ GetCommit \/ QueryFails
  \/ /\ GetValidators \/ TxSearch \/ QueryProof \/ PageDone
        \/ ReadBalance \/ SelectSender
     /\ UNCHANGED failures

PrepareOrFail ==
  /\ PrepareHeader
  /\ IF pc' = "save" THEN Fail ELSE UNCHANGED failures

OtherSteps ==
  /\ \/ PrepareOrFail
     \/ /\ InitManager \/ Tick \/ GetAddressNonce \/ SendTransaction
           \/ ConfirmTransaction \/ LoopDone \/ UpdateBridgeHeight
        /\ UNCHANGED failures
  /\ UNCHANGED handling

BridgeManager == HandleBlock \/ OtherSteps

HandlingNext ==
  \/ BridgeManager
  \/ Crash /\ Finish /\ UNCHANGED failures
  \/ /\ PackPanics \/ Restart \/ BridgeBlock \/ EthBlock
     /\ UNCHANGED <<handling, failures>>

HandlingSpec == HandlingInit /\ [][HandlingNext]_allVars

(***************************************************************************)
(* The goroutine is scheduled, the process restarted, both chains go on.   *)
(***************************************************************************)
HandlingFairness ==
  /\ WF_allVars(BridgeManager)
  /\ WF_allVars(Restart /\ UNCHANGED <<handling, failures>>)
  /\ WF_allVars(BridgeBlock /\ UNCHANGED <<handling, failures>>)
  /\ WF_allVars(EthBlock /\ UNCHANGED <<handling, failures>>)

HandlingFairSpec == HandlingSpec /\ HandlingFairness

-----------------------------------------------------------------------------
MaxPages == 1 + Max({0} \cup Range(TxsOf) \cup Range(ValsOf))

HandlingTypeOK ==
  /\ TypeOK
  /\ query \in Queries
  /\ page \in 1..MaxPages /\ pages \in 0..MaxPages
  /\ valsets \in Seq(1..MaxPages) /\ txs \in Seq(1..MaxPages)
  /\ unproved \in Seq(1..MaxPages) /\ Len(unproved) <= PerPage
  /\ selections \in 0..MaxPages
  /\ failures \in 0..MaxFail
  /\ balances \in Seq(Balances) /\ Len(balances) <= Len(Senders)

(***************************************************************************)
(* When the block is relayed, all its validators and all its transactions  *)
(* were read, in order and each once, whatever the number of pages, and a  *)
(* failed page fails the block.                                            *)
(***************************************************************************)
BlockComplete ==
  query = "select" =>
    /\ valsets = Count(ValsOf[currentHeight])
    /\ txs = Count(TxsOf[currentHeight])

(***************************************************************************)
(* The chance of an account to be chosen is its share of the balances,     *)
(* give or take one, and an empty one other than the first is not chosen.  *)
(* It holds when the sum of the balances is an int64.                      *)
(***************************************************************************)
ChoiceByBalance ==
  LET n   == Len(Senders)
      won == [i \in 1..n |-> Cardinality({r \in Drawable : Chosen(r) = i})]
  IN  Len(balances) = n /\ Sum[n] > 0 /\ ToInt64(Sum[n]) = Sum[n] =>
        \A i \in 1..n :
          /\ won[i] \in balances[i] - 1..balances[i] + 1
          /\ balances[i] = 0 /\ i > 1 => won[i] = 0

(***************************************************************************)
(* The handling of a block, query by query, is the one step of BridgeRelay *)
(* that chooses a sender or ends the tick.                                 *)
(***************************************************************************)
ImplementsBridgeRelay == Spec
=============================================================================
