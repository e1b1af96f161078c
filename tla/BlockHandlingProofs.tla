------------------------ MODULE BlockHandlingProofs ------------------------
(***************************************************************************)
(* The handling of a block implements the one step it is in BridgeRelay,   *)
(* for any number of accounts, pages, transactions and failures.           *)
(***************************************************************************)
EXTENDS BlockHandling, BridgeRelayProofs, SequenceTheorems,
        FiniteSetTheorems

(***************************************************************************)
(* The sender that is drawn is one of the list, however the sums wrap.     *)
(***************************************************************************)
LEMMA ChosenIsSender ==
  ASSUME NEW r
  PROVE  Senders[Chosen(r)] \in Sender
  <1>. DEFINE Reached == {i \in 1..Len(Senders) : ToInt64(Sum[i]) >= r}
  <1>1. Senders \in Seq(Sender) /\ Senders # <<>>
    BY HandlingAssumption DEF Range
  <1>2. Len(Senders) \in Nat /\ Len(Senders) # 0
    BY <1>1
  <1>3. Chosen(r) \in 1..Len(Senders)
    <2>1. CASE Reached = {}
      BY <1>2, <2>1 DEF Chosen
    <2>2. CASE Reached # {}
      <3>1. Reached \subseteq Nat
        OBVIOUS
      <3>2. \E i \in Reached : \A k \in Reached : i <= k
        <4>. HIDE DEF Reached
        <4>. QED
          BY <2>2, <3>1, Least
      <3>3. Chosen(r) = CHOOSE i \in Reached : \A k \in Reached : i <= k
        BY <2>2 DEF Chosen
      <3>4. Chosen(r) \in Reached
        <4>. HIDE DEF Reached
        <4>. QED
          BY <3>2, <3>3
      <3>. QED
        BY <3>4
    <2>. QED
      BY <2>1, <2>2
  <1>. QED
    BY <1>1, <1>3

(***************************************************************************)
(* A block is handled in the loop only, by a running process, and it is a  *)
(* block of the chain.                                                     *)
(***************************************************************************)
InLoop ==
  query # "none" => up /\ pc = "loop" /\ MoreBlocks /\ HasBlock

(***************************************************************************)
(* The queries before the last change nothing BridgeRelay knows of.        *)
(***************************************************************************)
LEMMA HandleBlockImplements ==
  ASSUME InLoop, HandleBlock
  PROVE  [Next]_vars /\ InLoop'
  <1>1. CASE GetCommit
    <2>1. CASE HasBlock /\ query' = "validators" /\ UNCHANGED pc
      <3>1. UNCHANGED vars
        BY <1>1, <2>1 DEF GetCommit, vars, chains, proc, local
      <3>2. up /\ pc = "loop" /\ MoreBlocks
        BY <1>1 DEF GetCommit
      <3>. QED
        BY <2>1, <3>1, <3>2
        DEF InLoop, MoreBlocks, HasBlock, vars, chains, proc, local
    <2>2. CASE /\ pc' = "save" /\ UNCHANGED query
               /\ ~HasBlock \/ "rpc" \in Faults
      <3>1. HandleDepositTxs
        BY <1>1, <2>2 DEF GetCommit, HandleDepositTxs
      <3>2. query' = "none"
        BY <1>1, <2>2 DEF GetCommit
      <3>. QED
        BY <3>1, <3>2 DEF Next, MonitorChain, InLoop
    <2>. QED
      BY <1>1, <2>1, <2>2 DEF GetCommit, handling
  <1>2. CASE QueryFails
    <2>1. query # "none" /\ "rpc" \in Faults /\ pc' = "save" /\ query' = "none"
      BY <1>2 DEF QueryFails, Finish
    <2>2. HandleDepositTxs
      BY <1>2, <2>1 DEF QueryFails, InLoop, HandleDepositTxs
    <2>. QED
      BY <2>1, <2>2 DEF Next, MonitorChain, InLoop
  <1>3. CASE GetValidators \/ TxSearch \/ QueryProof \/ PageDone \/ ReadBalance
    <2>1. query # "none" /\ UNCHANGED vars
      BY <1>3 DEF GetValidators, TxSearch, QueryProof, PageDone, ReadBalance
    <2>. QED
      BY <2>1 DEF InLoop, MoreBlocks, HasBlock, vars, chains, proc, local
  <1>4. CASE SelectSender
    <2>1. query = "select"
      BY <1>4 DEF SelectSender
    <2>2. CASE UNCHANGED <<pc, sender, query>>
      <3>1. UNCHANGED vars
        BY <1>4, <2>2 DEF SelectSender, vars, chains, proc, local
      <3>. QED
        BY <2>2, <3>1
        DEF InLoop, MoreBlocks, HasBlock, vars, chains, proc, local
    <2>3. CASE /\ \E r \in Drawable : sender' = Senders[Chosen(r)]
               /\ pc' = "prepare" /\ query' = "none"
      <3>1. sender' \in Sender
        BY <2>3, ChosenIsSender
      <3>2. HandleDepositTxs
        BY <1>4, <2>1, <2>3, <3>1 DEF SelectSender, InLoop, HandleDepositTxs
      <3>. QED
        BY <2>3, <3>2 DEF Next, MonitorChain, InLoop
    <2>. QED
      BY <1>4, <2>2, <2>3 DEF SelectSender, Finish
  <1>. QED
    BY <1>1, <1>2, <1>3, <1>4 DEF HandleBlock

LEMMA StepImplements ==
  ASSUME IInv, InLoop, [HandlingNext]_allVars
  PROVE  [Next]_vars /\ InLoop'
  <1>1. CASE HandleBlock
    BY <1>1, HandleBlockImplements
  <1>2. ASSUME UNCHANGED handling, query = "none", [Next]_vars
        PROVE  [Next]_vars /\ InLoop'
    BY <1>2 DEF InLoop, handling
  <1>3. CASE OtherSteps
    <2>1. MonitorChain /\ UNCHANGED handling
      BY <1>3 DEF OtherSteps, PrepareOrFail, MonitorChain
    <2>2. pc # "loop" \/ ~MoreBlocks
      BY <1>3 DEF OtherSteps, PrepareOrFail, PrepareHeader, InitManager, Tick,
        GetAddressNonce, SendTransaction, ConfirmTransaction, LoopDone,
        UpdateBridgeHeight
    <2>. QED
      BY <1>2, <2>1, <2>2 DEF InLoop, Next
  <1>4. CASE Crash /\ Finish
    BY <1>4 DEF Next, InLoop, Finish
  <1>5. CASE (PackPanics \/ Restart) /\ UNCHANGED handling
    <2>1. query = "none"
      BY <1>5 DEF PackPanics, Restart, InLoop
    <2>. QED
      BY <1>2, <1>5, <2>1 DEF Next
  <1>6. CASE (BridgeBlock \/ EthBlock \/ UNCHANGED vars) /\ UNCHANGED handling
    <2>1. UNCHANGED <<up, pc, currentHeight, latestheight>>
      BY <1>6 DEF BridgeBlock, EthBlock, vars, proc, local
    <2>2. /\ bridgeHeight \in Nat
          /\ bridgeHeight' \in {bridgeHeight, bridgeHeight + 1}
      BY <1>6, BridgeAssumption
      DEF BridgeBlock, EthBlock, vars, chains, IInv, TypeOK
    <2>3. HasBlock => HasBlock'
      BY <2>1, <2>2 DEF HasBlock
    <2>4. MoreBlocks => MoreBlocks'
      BY <2>1 DEF MoreBlocks
    <2>5. query' = query
      BY <1>6 DEF handling
    <2>. QED
      BY <1>6, <2>1, <2>3, <2>4, <2>5 DEF Next, InLoop
  <1>. QED
    BY <1>1, <1>3, <1>4, <1>5, <1>6
    DEF HandlingNext, BridgeManager, allVars

(***************************************************************************)
(* Whatever BridgeRelay promises holds when the queries of a block fail    *)
(* one by one, pages are read in between and senders drawn by balances.    *)
(***************************************************************************)
THEOREM HandlingImplements == HandlingSpec => ImplementsBridgeRelay
  <1>1. HandlingInit => Init /\ InLoop
    BY DEF HandlingInit, NotHandling, InLoop
  <1>2. IInv /\ InLoop /\ [HandlingNext]_allVars => [Next]_vars /\ InLoop'
    BY StepImplements
  <1>. QED
    BY <1>1, <1>2, InitHolds, StepHolds, PTL
    DEF HandlingSpec, ImplementsBridgeRelay, Spec

-----------------------------------------------------------------------------
(***************************************************************************)
(* How many of n entries the first p pages hold.                           *)
(***************************************************************************)
InPages(n, p) == IF p * PerPage < n THEN p * PerPage ELSE n

LEMMA Counting ==
  ASSUME NEW n \in Nat
  PROVE  /\ Count(n) \in Seq(Nat) /\ Len(Count(n)) = n
         /\ \A i \in 1..n : Count(n)[i] = i
  BY DEF Count

LEMMA PerPageTimes ==
  ASSUME NEW p \in Nat \ {0}
  PROVE  /\ (p - 1) * PerPage \in Nat /\ p * PerPage \in Nat
         /\ p * PerPage = (p - 1) * PerPage + PerPage
         /\ PerPage \in Nat \ {0}
  BY HandlingAssumption

LEMMA PageAppended ==
  ASSUME NEW n \in Nat, NEW p \in Nat \ {0}
  PROVE  /\ PageOf(n, p) \in Seq(Nat)
         /\ PageOf(n, p) \in Seq(1..n) /\ Len(PageOf(n, p)) <= PerPage
         /\ Len(PageOf(n, p)) = InPages(n, p) - InPages(n, p - 1)
         /\ Count(InPages(n, p - 1)) \o PageOf(n, p) = Count(InPages(n, p))
  <1>. DEFINE a == InPages(n, p - 1)
              b == InPages(n, p)
              from == (p - 1) * PerPage + 1
  <1>1. /\ a \in Nat /\ b \in Nat /\ a <= b /\ b <= n
        /\ from \in Nat \ {0} /\ b - a <= PerPage
        /\ IF a < n THEN from = a + 1 ELSE from > n /\ a = n /\ b = n
    BY PerPageTimes DEF InPages
  <1>2. PageOf(n, p) = SubSeq(Count(n), from, b)
    BY DEF PageOf, InPages
  <1>. HIDE DEF a, b, from
  <1>3. /\ Count(n) \in Seq(Nat) /\ Len(Count(n)) = n
        /\ \A i \in 1..n : Count(n)[i] = i
    BY Counting
  <1>4. /\ Count(a) \in Seq(Nat) /\ Len(Count(a)) = a
        /\ \A i \in 1..a : Count(a)[i] = i
    BY <1>1, Counting
  <1>5. /\ Count(b) \in Seq(Nat) /\ Len(Count(b)) = b
        /\ \A i \in 1..b : Count(b)[i] = i
    BY <1>1, Counting
  <1>6. /\ PageOf(n, p) \in Seq(Nat) /\ Len(PageOf(n, p)) = b - a
        /\ \A i \in 1..b - a : PageOf(n, p)[i] = a + i
    <2>. DEFINE s == Count(n)
    <2>. HIDE DEF s
    <2>1. s \in Seq(Nat) /\ Len(s) = n /\ \A i \in 1..n : s[i] = i
      BY <1>3 DEF s
    <2>2. /\ SubSeq(s, from, b) \in Seq(Nat)
          /\ Len(SubSeq(s, from, b)) = b - a
          /\ \A i \in 1..b - a : SubSeq(s, from, b)[i] = a + i
      BY <1>1, <2>1
    <2>. QED
      BY <1>2, <2>2 DEF s
  <1>7. PageOf(n, p) \in Seq(1..n)
    <2>. DEFINE s == PageOf(n, p)
    <2>. HIDE DEF s
    <2>1. /\ s \in Seq(Nat) /\ Len(s) = b - a
          /\ \A i \in 1..Len(s) : s[i] \in 1..n
      BY <1>1, <1>6 DEF s
    <2>2. s \in Seq(1..n)
      BY <2>1
    <2>. QED
      BY <2>2 DEF s
  <1>8. Count(a) \o PageOf(n, p) = Count(b)
    <2>. DEFINE s == Count(a)
                t == PageOf(n, p)
                u == Count(b)
    <2>. HIDE DEF s, t, u
    <2>1. s \in Seq(Nat) /\ t \in Seq(Nat) /\ u \in Seq(Nat)
      BY <1>4, <1>5, <1>6 DEF s, t, u
    <2>2. Len(s) = a /\ Len(t) = b - a /\ Len(u) = b
      BY <1>4, <1>5, <1>6 DEF s, t, u
    <2>3. /\ \A i \in 1..a : s[i] = i
          /\ \A i \in 1..b - a : t[i] = a + i
          /\ \A i \in 1..b : u[i] = i
      BY <1>4, <1>5, <1>6 DEF s, t, u
    <2>4. /\ s \o t \in Seq(Nat) /\ Len(s \o t) = Len(s) + Len(t)
          /\ \A i \in 1..Len(s) + Len(t) :
               (s \o t)[i] = IF i <= Len(s) THEN s[i] ELSE t[i - Len(s)]
      BY <2>1, ConcatProperties
    <2>5. Len(s) + Len(t) = b
      BY <1>1, <2>2
    <2>6. \A i \in 1..b : (s \o t)[i] = u[i]
      <3>. TAKE i \in 1..b
      <3>1. (s \o t)[i] = IF i <= a THEN s[i] ELSE t[i - a]
        BY <2>2, <2>4, <2>5
      <3>2. i <= a \/ i - a \in 1..b - a
        BY <1>1
      <3>. QED
        BY <1>1, <2>3, <3>1, <3>2
    <2>7. s \o t = u
      BY <2>1, <2>2, <2>4, <2>5, <2>6, SeqEqual
    <2>. QED
      BY <2>7 DEF s, t, u
  <1>. QED
    BY <1>1, <1>6, <1>7, <1>8 DEF a, b

(***************************************************************************)
(* An empty page is the end, and as many pages as are counted are all.     *)
(***************************************************************************)
LEMMA EmptyPageIsEnd ==
  ASSUME NEW n \in Nat, NEW p \in Nat \ {0}, PageOf(n, p) = <<>>
  PROVE  InPages(n, p - 1) = n
  <1>. DEFINE from == (p - 1) * PerPage + 1
              b == InPages(n, p)
  <1>1. SUFFICES ASSUME (p - 1) * PerPage < n PROVE FALSE
    BY PerPageTimes DEF InPages
  <1>2. from \in 1..n /\ b \in from..n
    <2>. DEFINE before == (p - 1) * PerPage
                all == p * PerPage
    <2>1. before \in Nat /\ all = before + PerPage /\ PerPage \in Nat \ {0}
      BY PerPageTimes
    <2>2. before < n /\ from = before + 1 /\ b = IF all < n THEN all ELSE n
      BY <1>1 DEF InPages
    <2>. HIDE DEF before, all, from, b
    <2>. QED
      BY <2>1, <2>2
  <1>3. PageOf(n, p) = SubSeq(Count(n), from, b)
    BY DEF PageOf, InPages
  <1>. HIDE DEF from, b
  <1>4. \A i \in from..b : Count(n)[i] \in Nat
    BY <1>2, Counting
  <1>5. Len(PageOf(n, p)) = b - from + 1
    BY <1>2, <1>3, <1>4, SubSeqProperties
  <1>. QED
    BY <1>2, <1>5

LEMMA PagesCounted ==
  ASSUME NEW n \in Nat, NEW p \in Nat \ {0}, p >= PageCount(n)
  PROVE  InPages(n, p) = n
  <1>1. CASE n = 0
    BY <1>1, PerPageTimes DEF InPages
  <1>2. CASE n > 0
    <2>1. PerPage \in Nat \ {0} /\ n - 1 \in Nat
      BY <1>2, HandlingAssumption
    <2>2. n - 1 < ((n - 1) \div PerPage + 1) * PerPage
          /\ (n - 1) \div PerPage \in Nat
      BY <2>1
    <2>3. (n - 1) \div PerPage + 1 <= p
      BY <1>2 DEF PageCount
    <2>4. ((n - 1) \div PerPage + 1) * PerPage <= p * PerPage
      BY <2>1, <2>2, <2>3
    <2>5. n <= p * PerPage
      BY <2>1, <2>2, <2>4
    <2>. QED
      BY <2>1, <2>5 DEF InPages
  <1>. QED
    BY <1>1, <1>2

(***************************************************************************)
(* How far the reading of a block has got.                                 *)
(***************************************************************************)
ReadSoFar ==
  LET vals == ValsOf[currentHeight]
      all  == TxsOf[currentHeight]
  IN  /\ page \in Nat \ {0}
      /\ query = "none" => page = 1 /\ valsets = <<>> /\ txs = <<>>
      /\ query = "validators" =>
           valsets = Count(InPages(vals, page - 1)) /\ txs = <<>>
      /\ query \in {"search", "proof", "select"} => valsets = Count(vals)
      /\ query = "search" =>
           /\ txs = Count(InPages(all, page - 1))
           /\ page = 1 \/ pages = PageCount(all)
      /\ query = "proof" =>
           /\ txs \in Seq(Nat) /\ unproved \in Seq(Nat)
           /\ txs \o unproved = Count(InPages(all, page))
           /\ pages = PageCount(all)
      /\ query = "select" => txs = Count(all)

LEMMA NothingRead == ASSUME NEW n \in Nat PROVE Count(InPages(n, 0)) = <<>>
  <1>1. 0 * PerPage = 0
    BY HandlingAssumption
  <1>2. InPages(n, 0) = 0
    BY <1>1 DEF InPages
  <1>. QED
    BY <1>2 DEF Count

LEMMA HandlingReads ==
  ASSUME IInv, InLoop, ReadSoFar, HandleBlock
  PROVE  ReadSoFar'
  <1>. DEFINE vals == ValsOf[currentHeight]
              all  == TxsOf[currentHeight]
  <1>1. ASSUME query # "none" \/ HasBlock PROVE vals \in Nat /\ all \in Nat
    <2>1. currentHeight \in 1..MaxBridge
      BY <1>1, BridgeAssumption DEF InLoop, HasBlock, IInv, TypeOK
    <2>. QED
      BY <2>1, HandlingAssumption
  <1>2. UNCHANGED currentHeight
    BY DEF HandleBlock, GetCommit, QueryFails, GetValidators, TxSearch,
      QueryProof, PageDone, ReadBalance, SelectSender, vars, local
  <1>3. CASE GetCommit
    <2>1. CASE HasBlock /\ query' = "validators"
               /\ UNCHANGED <<page, valsets, txs>>
      <3>1. query = "none" /\ page = 1 /\ valsets = <<>> /\ txs = <<>>
        BY <1>3 DEF GetCommit, ReadSoFar
      <3>2. Count(InPages(vals, page' - 1)) = <<>>
        BY <1>1, <2>1, <3>1, NothingRead
      <3>. QED
        BY <1>2, <2>1, <3>1, <3>2 DEF ReadSoFar
    <2>2. CASE UNCHANGED handling
      BY <1>2, <1>3, <2>2 DEF GetCommit, ReadSoFar, handling
    <2>. QED
      BY <1>3, <2>1, <2>2 DEF GetCommit
  <1>4. CASE Finish
    BY <1>4 DEF Finish, ReadSoFar
  <1>5. CASE GetValidators
    <2>1. query = "validators" /\ page \in Nat \ {0} /\ UNCHANGED txs
          /\ vals \in Nat /\ all \in Nat
      BY <1>1, <1>5 DEF GetValidators, ReadSoFar
    <2>2. valsets = Count(InPages(vals, page - 1)) /\ txs = <<>>
      BY <2>1 DEF ReadSoFar
    <2>3. CASE LastValidators(page)
      <3>1. query' = "search" /\ page' = 1 /\ UNCHANGED valsets
        BY <1>5, <2>3 DEF GetValidators
      <3>2. InPages(vals, page - 1) = vals
        BY <2>1, <2>3, EmptyPageIsEnd DEF LastValidators
      <3>3. Count(InPages(all, page' - 1)) = <<>>
        BY <2>1, <3>1, NothingRead
      <3>. QED
        BY <1>2, <2>1, <2>2, <3>1, <3>2, <3>3 DEF ReadSoFar
    <2>4. CASE ~LastValidators(page)
      <3>1. /\ valsets' = valsets \o PageOf(vals, page)
            /\ page' = page + 1 /\ UNCHANGED query
        BY <1>5, <2>4 DEF GetValidators
      <3>2. valsets' = Count(InPages(vals, page))
        BY <2>1, <2>2, <3>1, PageAppended
      <3>3. page' \in Nat \ {0} /\ page' - 1 = page
        BY <2>1, <3>1
      <3>. QED
        BY <1>2, <2>1, <2>2, <3>1, <3>2, <3>3 DEF ReadSoFar
    <2>. QED
      BY <2>3, <2>4
  <1>6. CASE TxSearch
    <2>1. /\ query = "search" /\ query' = "proof"
          /\ unproved' = PageOf(all, page)
          /\ UNCHANGED <<page, valsets, txs>>
          /\ vals \in Nat /\ all \in Nat
      BY <1>1, <1>6 DEF TxSearch
    <2>2. /\ page \in Nat \ {0} /\ valsets = Count(vals)
          /\ txs = Count(InPages(all, page - 1))
      BY <2>1 DEF ReadSoFar
    <2>3. pages' = PageCount(all)
      BY <1>6, <2>1 DEF TxSearch, ReadSoFar
    <2>4. txs' \o unproved' = Count(InPages(all, page))
      BY <2>1, <2>2, PageAppended
    <2>5. InPages(all, page - 1) \in Nat
      BY <2>1, <2>2, PerPageTimes DEF InPages
    <2>6. txs' \in Seq(Nat)
      BY <2>1, <2>2, <2>5, Counting
    <2>7. unproved' \in Seq(Nat)
      BY <2>1, <2>2, PageAppended
    <2>. QED
      BY <1>2, <2>1, <2>2, <2>3, <2>4, <2>6, <2>7 DEF ReadSoFar
  <1>7. CASE QueryProof
    <2>1. /\ query = "proof" /\ unproved # <<>>
          /\ txs' = Append(txs, Head(unproved)) /\ unproved' = Tail(unproved)
          /\ UNCHANGED <<query, page, pages, valsets>>
      BY <1>7 DEF QueryProof
    <2>2. /\ txs \in Seq(Nat) /\ unproved \in Seq(Nat)
          /\ txs \o unproved = Count(InPages(all, page))
      BY <2>1 DEF ReadSoFar
    <2>3. /\ txs' \in Seq(Nat) /\ unproved' \in Seq(Nat)
          /\ txs' \o unproved' = txs \o unproved
      BY <2>1, <2>2
    <2>. QED
      BY <1>2, <2>1, <2>2, <2>3 DEF ReadSoFar
  <1>8. CASE PageDone
    <2>1. /\ query = "proof" /\ unproved = <<>> /\ all \in Nat
          /\ UNCHANGED <<valsets, txs, pages>>
      BY <1>1, <1>8 DEF PageDone
    <2>2. /\ page \in Nat \ {0} /\ valsets = Count(vals)
          /\ txs \in Seq(Nat) /\ txs \o unproved = Count(InPages(all, page))
          /\ pages = PageCount(all)
      BY <2>1 DEF ReadSoFar
    <2>3. txs = Count(InPages(all, page))
      BY <2>1, <2>2
    <2>4. CASE page < pages
      <3>1. page' = page + 1 /\ query' = "search"
        BY <1>8, <2>4 DEF PageDone
      <3>2. page' \in Nat \ {0} /\ page' - 1 = page
        BY <2>2, <3>1
      <3>. QED
        BY <1>2, <2>1, <2>2, <2>3, <3>1, <3>2 DEF ReadSoFar
    <2>5. CASE ~(page < pages)
      <3>1. page' = 1 /\ query' = "select"
        BY <1>8, <2>5 DEF PageDone
      <3>2. PageCount(all) \in Int
        BY <2>1, HandlingAssumption DEF PageCount
      <3>3. InPages(all, page) = all
        BY <2>1, <2>2, <2>5, <3>2, PagesCounted
      <3>. QED
        BY <1>2, <2>1, <2>2, <2>3, <3>1, <3>3 DEF ReadSoFar
    <2>. QED
      BY <2>4, <2>5
  <1>9. CASE /\ query = "select" /\ UNCHANGED <<query, page, valsets, txs>>
    BY <1>2, <1>9 DEF ReadSoFar
  <1>. QED
    BY <1>3, <1>4, <1>5, <1>6, <1>7, <1>8, <1>9
    DEF HandleBlock, QueryFails, ReadBalance, SelectSender

LEMMA StepReads ==
  ASSUME IInv, InLoop, ReadSoFar, [HandlingNext]_allVars
  PROVE  ReadSoFar'
  <1>1. CASE HandleBlock
    BY <1>1, HandlingReads
  <1>2. CASE Finish
    BY <1>2 DEF Finish, ReadSoFar
  <1>3. CASE UNCHANGED handling /\ (query = "none" \/ UNCHANGED currentHeight)
    BY <1>3 DEF handling, ReadSoFar
  <1>4. CASE OtherSteps
    <2>1. UNCHANGED handling /\ (pc # "loop" \/ ~MoreBlocks)
      BY <1>4 DEF OtherSteps, PrepareOrFail, PrepareHeader, InitManager, Tick,
        GetAddressNonce, SendTransaction, ConfirmTransaction, LoopDone,
        UpdateBridgeHeight
    <2>. QED
      BY <1>3, <2>1 DEF InLoop
  <1>5. CASE /\ \/ PackPanics \/ Restart \/ BridgeBlock \/ EthBlock
                \/ UNCHANGED vars
             /\ UNCHANGED handling
    <2>1. pc = "prepare" \/ UNCHANGED currentHeight
      BY <1>5
      DEF PackPanics, Restart, BridgeBlock, EthBlock, vars, local
    <2>. QED
      BY <1>3, <1>5, <2>1 DEF InLoop
  <1>. QED
    BY <1>1, <1>2, <1>4, <1>5 DEF HandlingNext, BridgeManager, allVars

(***************************************************************************)
(* A block is relayed only when all its validators and transactions were   *)
(* read, whatever their number and the size of a page.                     *)
(***************************************************************************)
THEOREM BlocksComplete == HandlingSpec => []BlockComplete
  <1>1. HandlingInit => Init /\ InLoop /\ ReadSoFar
    BY DEF HandlingInit, NotHandling, InLoop, ReadSoFar
  <1>2. IInv /\ InLoop /\ ReadSoFar /\ [HandlingNext]_allVars =>
          [Next]_vars /\ InLoop' /\ ReadSoFar'
    BY StepImplements, StepReads
  <1>3. ReadSoFar => BlockComplete
    BY DEF ReadSoFar, BlockComplete
  <1>. QED
    BY <1>1, <1>2, <1>3, InitHolds, StepHolds, PTL DEF HandlingSpec
-----------------------------------------------------------------------------
(***************************************************************************)
(* The sums of the first balances exist, whatever the balances are: a      *)
(* shortest list without them would be one balance longer than one with    *)
(* them.                                                                   *)
(***************************************************************************)
LEMMA SumsExist ==
  ASSUME NEW N \in Nat, NEW b \in [1..N -> Nat]
  PROVE  \E F \in [0..N -> Nat] :
           F = [x \in 0..N |-> IF x = 0 THEN 0 ELSE F[x - 1] + b[x]]
  <1>. DEFINE Sums(n) == {F \in [0..n -> Nat] :
                            /\ F[0] = 0
                            /\ \A x \in 1..n : F[x] = F[x - 1] + b[x]}
              Without == {n \in 0..N : Sums(n) = {}}
  <1>1. Without = {}
    <2>1. SUFFICES ASSUME Without # {} PROVE FALSE
      OBVIOUS
    <2>2. Without \subseteq Nat
      OBVIOUS
    <2>3. PICK m \in Without : \A n \in Without : m <= n
      <3>. HIDE DEF Without
      <3>. QED
        BY <2>1, <2>2, Least
    <2>4. CASE m = 0
      <3>1. [x \in 0..0 |-> 0] \in Sums(0)
        OBVIOUS
      <3>. QED
        BY <2>3, <2>4, <3>1
    <2>5. CASE m # 0
      <3>1. m \in 1..N /\ m - 1 \in 0..N
        BY <2>3, <2>5
      <3>2. m - 1 \notin Without
        <4>. HIDE DEF Without
        <4>. QED
          BY <2>3, <3>1
      <3>3. PICK F : F \in Sums(m - 1)
        <4>. HIDE DEF Sums
        <4>. QED
          BY <3>1, <3>2
      <3>. DEFINE G == [x \in 0..m |-> IF x = m THEN F[m - 1] + b[m]
                                       ELSE F[x]]
      <3>4. /\ F \in [0..m - 1 -> Nat] /\ F[0] = 0
            /\ \A x \in 1..m - 1 : F[x] = F[x - 1] + b[x]
        BY <3>3
      <3>5. G \in [0..m -> Nat] /\ G[0] = 0
        BY <3>1, <3>4
      <3>6. ASSUME NEW x \in 1..m PROVE G[x] = G[x - 1] + b[x]
        BY <3>1, <3>4
      <3>7. G \in Sums(m)
        BY <3>5, <3>6
      <3>. QED
        BY <2>3, <3>7
    <2>. QED
      BY <2>4, <2>5
  <1>2. PICK F : F \in Sums(N)
    <2>. HIDE DEF Sums
    <2>. QED
      BY <1>1
  <1>3. F \in [0..N -> Nat]
    BY <1>2
  <1>4. F = [x \in 0..N |-> IF x = 0 THEN 0 ELSE F[x - 1] + b[x]]
    <2>1. \A x \in 0..N : F[x] = IF x = 0 THEN 0 ELSE F[x - 1] + b[x]
      BY <1>2
    <2>. QED
      BY <1>3, <2>1
  <1>. QED
    BY <1>3, <1>4

LEMMA SumsAdd ==
  ASSUME balances \in Seq(Nat)
  PROVE  /\ Sum \in [0..Len(balances) -> Nat] /\ Sum[0] = 0
         /\ \A i \in 1..Len(balances) : Sum[i] = Sum[i - 1] + balances[i]
  <1>. DEFINE N == Len(balances)
  <1>1. N \in Nat /\ balances \in [1..N -> Nat]
    OBVIOUS
  <1>2. \E F : F = [x \in 0..N |-> IF x = 0 THEN 0
                                   ELSE F[x - 1] + balances[x]]
               /\ F \in [0..N -> Nat]
    <2>. HIDE DEF N
    <2>. QED
      BY <1>1, SumsExist
  <1>3. Sum = [x \in 0..N |-> IF x = 0 THEN 0 ELSE Sum[x - 1] + balances[x]]
    BY <1>2 DEF Sum
  <1>4. \A x \in 0..N :
          Sum[x] = IF x = 0 THEN 0 ELSE Sum[x - 1] + balances[x]
    BY <1>3
  <1>5. Sum[0] = 0 /\ \A i \in 1..N : Sum[i] = Sum[i - 1] + balances[i]
    BY <1>1, <1>4
  <1>. DEFINE NotNat == {i \in 0..N : Sum[i] \notin Nat}
  <1>6. NotNat = {}
    <2>1. SUFFICES ASSUME NotNat # {} PROVE FALSE
      OBVIOUS
    <2>2. NotNat \subseteq Nat
      BY <1>1
    <2>3. PICK m \in NotNat : \A n \in NotNat : m <= n
      <3>. HIDE DEF NotNat
      <3>. QED
        BY <2>1, <2>2, Least
    <2>4. m \in 1..N /\ m - 1 \in 0..N
      BY <1>1, <1>5, <2>3
    <2>5. Sum[m - 1] \in Nat
      BY <2>3, <2>4
    <2>6. Sum[m] = Sum[m - 1] + balances[m] /\ balances[m] \in Nat
      BY <1>1, <1>5, <2>4
    <2>. QED
      BY <2>3, <2>5, <2>6
  <1>7. Sum \in [0..N -> Nat]
    BY <1>3, <1>6
  <1>. QED
    BY <1>5, <1>7

LEMMA SumsGrow ==
  ASSUME balances \in Seq(Nat),
         NEW i \in 0..Len(balances), NEW j \in i..Len(balances)
  PROVE  Sum[i] <= Sum[j]
  <1>. DEFINE N == Len(balances)
              Less == {k \in i..N : Sum[k] < Sum[i]}
  <1>1. /\ N \in Nat /\ i \in 0..N /\ j \in i..N
        /\ Sum \in [0..N -> Nat]
        /\ \A k \in 1..N : Sum[k] = Sum[k - 1] + balances[k]
                           /\ balances[k] \in Nat
    <2>1. N \in Nat /\ \A k \in 1..N : balances[k] \in Nat
      OBVIOUS
    <2>. QED
      BY <2>1, SumsAdd
  <1>. HIDE DEF N
  <1>2. SUFFICES ASSUME Less # {} PROVE FALSE
    <2>1. Sum[i] \in Nat /\ Sum[j] \in Nat
      BY <1>1
    <2>2. ASSUME Less = {} PROVE ~(Sum[j] < Sum[i])
      BY <1>1, <2>2
    <2>. QED
      BY <2>1, <2>2
  <1>3. Less \subseteq Nat
    BY <1>1
  <1>4. PICK m \in Less : \A n \in Less : m <= n
    <2>. HIDE DEF Less
    <2>. QED
      BY <1>2, <1>3, Least
  <1>5. m \in i..N /\ Sum[m] < Sum[i]
    BY <1>4
  <1>6. m - 1 \in i..N /\ m \in 1..N
    BY <1>1, <1>5
  <1>7. m - 1 \notin Less
    <2>. HIDE DEF Less
    <2>. QED
      BY <1>1, <1>4, <1>6
  <1>8. ~(Sum[m - 1] < Sum[i])
    BY <1>6, <1>7
  <1>9. Sum[m] \in Nat /\ Sum[m - 1] \in Nat /\ Sum[i] \in Nat
    BY <1>1, <1>6
  <1>10. Sum[m] = Sum[m - 1] + balances[m] /\ balances[m] \in Nat
    BY <1>1, <1>6
  <1>. QED
    BY <1>5, <1>8, <1>9, <1>10
(***************************************************************************)
(* A natural number that an int64 holds is not cut, nor is a smaller one.  *)
(***************************************************************************)
LEMMA NotCut ==
  ASSUME NEW n \in Nat, ToInt64(n) = n, NEW k \in 0..n
  PROVE  ToInt64(k) = k
  <1>. DEFINE half == Int64 \div 2
  <1>1. half \in Nat \ {0} /\ Int64 = 2 * half
    BY HandlingAssumption
  <1>2. \A a \in Nat : ToInt64(a) = ((a + half) % (2 * half)) - half
    BY <1>1 DEF ToInt64
  <1>. HIDE DEF half
  <1>3. (n + half) % (2 * half) \in 0..2 * half - 1
    BY <1>1, ModRange
  <1>4. n < half
    <2>1. n = ((n + half) % (2 * half)) - half
      BY <1>2
    <2>. QED
      BY <1>1, <1>3, <2>1
  <1>5. k + half \in 0..2 * half - 1
    BY <1>1, <1>4
  <1>6. (k + half) % (2 * half) = k + half
    BY <1>1, <1>5, ModSmall
  <1>. QED
    BY <1>1, <1>2, <1>6

(***************************************************************************)
(* With sums that are not cut, an account is chosen by the numbers above   *)
(* the sum before it, up to its own sum.                                   *)
(***************************************************************************)
LEMMA ChosenInterval ==
  ASSUME balances \in Seq(Nat), Len(balances) = Len(Senders),
         ToInt64(Sum[Len(Senders)]) = Sum[Len(Senders)],
         NEW r \in Nat, r <= Sum[Len(Senders)],
         NEW i \in 1..Len(Senders)
  PROVE  Chosen(r) = i <=> /\ r <= Sum[i]
                           /\ i = 1 \/ Sum[i - 1] < r
  <1>. DEFINE n == Len(Senders)
              Reached == {k \in 1..n : ToInt64(Sum[k]) >= r}
  <1>1. n \in Nat /\ i \in 1..n /\ n = Len(balances)
    BY HandlingAssumption
  <1>2. Sum \in [0..n -> Nat]
    BY <1>1, SumsAdd
  <1>3. \A k \in 0..n : \A l \in k..n : Sum[k] <= Sum[l]
    BY <1>1, SumsGrow
  <1>4. \A k \in 1..n : ToInt64(Sum[k]) = Sum[k]
    <2>. TAKE k \in 1..n
    <2>1. Sum[n] \in Nat /\ Sum[k] \in 0..Sum[n]
      BY <1>1, <1>2, <1>3
    <2>. QED
      BY <2>1, NotCut
  <1>5. ToInt64(Sum[n]) = Sum[n] /\ r <= Sum[n]
    OBVIOUS
  <1>6. Chosen(r) = IF Reached = {} THEN 1
                    ELSE CHOOSE k \in Reached : \A l \in Reached : k <= l
    BY DEF Chosen
  <1>. HIDE DEF n
  <1>7. Reached = {k \in 1..n : r <= Sum[k]}
    BY <1>2, <1>4
  <1>. HIDE DEF Reached
  <1>8. n \in Reached /\ Reached \subseteq Nat
    BY <1>1, <1>5, <1>7
  <1>9. \E k \in Reached : \A l \in Reached : k <= l
    BY <1>8, Least
  <1>10. /\ Chosen(r) \in Reached
         /\ \A l \in Reached : Chosen(r) <= l
    BY <1>6, <1>8, <1>9
  <1>. DEFINE c == Chosen(r)
  <1>. HIDE DEF c
  <1>11. c \in 1..n /\ r <= Sum[c] /\ \A l \in 1..n : r <= Sum[l] => c <= l
    BY <1>7, <1>10 DEF c
  <1>12. ASSUME c = i PROVE r <= Sum[i] /\ (i = 1 \/ Sum[i - 1] < r)
    <2>1. CASE i # 1
      <3>1. i - 1 \in 1..n /\ ~(i <= i - 1)
        BY <1>1, <2>1
      <3>2. ~(r <= Sum[i - 1])
        BY <1>11, <1>12, <3>1
      <3>3. Sum[i - 1] \in Nat
        BY <1>2, <3>1
      <3>. QED
        BY <1>11, <1>12, <3>2, <3>3
    <2>. QED
      BY <1>11, <1>12, <2>1
  <1>13. ASSUME r <= Sum[i], i = 1 \/ Sum[i - 1] < r PROVE c = i
    <2>1. c <= i
      BY <1>1, <1>11, <1>13
    <2>2. ASSUME c < i PROVE FALSE
      <3>1. i - 1 \in c..n /\ c \in 0..n /\ i # 1
        BY <1>1, <1>11, <2>2
      <3>2. Sum[c] <= Sum[i - 1]
        BY <1>3, <3>1
      <3>3. Sum[c] \in Nat /\ Sum[i - 1] \in Nat
        <4>1. i - 1 \in 0..n
          BY <1>1, <3>1
        <4>. QED
          BY <1>2, <3>1, <4>1
      <3>. QED
        BY <1>11, <1>13, <3>1, <3>2, <3>3
    <2>. QED
      BY <1>1, <1>11, <2>1, <2>2
  <1>. QED
    BY <1>12, <1>13 DEF c

(***************************************************************************)
(* The numbers drawn are those below the whole sum, so that the last       *)
(* account that is not empty loses one of them to the first.               *)
(***************************************************************************)
LEMMA ChoiceFair ==
  ASSUME balances \in Seq(Nat)
  PROVE  ChoiceByBalance
  <1>. DEFINE n == Len(Senders)
              won == [i \in 1..n |->
                        Cardinality({r \in Drawable : Chosen(r) = i})]
  <1>1. SUFFICES ASSUME Len(balances) = n, Sum[n] > 0,
                        ToInt64(Sum[n]) = Sum[n], NEW i \in 1..n
                 PROVE  /\ won[i] \in balances[i] - 1..balances[i] + 1
                        /\ balances[i] = 0 /\ i > 1 => won[i] = 0
    BY DEF ChoiceByBalance
  <1>. DEFINE from == IF i = 1 THEN 0 ELSE Sum[i - 1] + 1
              upto == IF Sum[i] < Sum[n] THEN Sum[i] ELSE Sum[n] - 1
  <1>2. /\ Sum \in [0..n -> Nat] /\ Sum[0] = 0
        /\ Sum[i] = Sum[i - 1] + balances[i]
    BY <1>1, SumsAdd
  <1>3. Sum[i] <= Sum[n]
    <2>1. i \in 0..Len(balances) /\ Len(balances) \in i..Len(balances)
      BY <1>1
    <2>. QED
      BY <1>1, <2>1, SumsGrow
  <1>4. /\ Sum[n] \in Nat \ {0} /\ Sum[i] \in Nat /\ Sum[i - 1] \in Nat
        /\ balances[i] \in Nat /\ i \in Nat \ {0}
        /\ i = 1 => Sum[i - 1] = 0
    BY <1>1, <1>2
  <1>5. Drawable = 0..Sum[n] - 1
    BY <1>1, <1>4 DEF Drawable
  <1>6. {r \in Drawable : Chosen(r) = i} = from..upto
    <2>1. ASSUME NEW r \in 0..Sum[n] - 1
          PROVE  Chosen(r) = i <=> r <= Sum[i] /\ (i = 1 \/ Sum[i - 1] < r)
      <3>1. r \in Nat /\ r <= Sum[n]
        BY <1>4, <2>1
      <3>. QED
        BY <1>1, <3>1, ChosenInterval
    <2>2. \A r : r \in from..upto <=>
             /\ r \in 0..Sum[n] - 1
             /\ r <= Sum[i] /\ (i = 1 \/ Sum[i - 1] < r)
      <3>. DEFINE all == Sum[n]
                  mine == Sum[i]
                  less == Sum[i - 1]
      <3>1. all \in Nat \ {0} /\ mine \in Nat /\ less \in Nat /\ mine <= all
        BY <1>3, <1>4
      <3>2. /\ from = IF i = 1 THEN 0 ELSE less + 1
            /\ upto = IF mine < all THEN mine ELSE all - 1
        OBVIOUS
      <3>. HIDE DEF all, mine, less, from, upto
      <3>3. \A r : r \in from..upto <=>
               /\ r \in 0..all - 1
               /\ r <= mine /\ (i = 1 \/ less < r)
        BY <3>1, <3>2
      <3>. QED
        BY <3>3 DEF all, mine, less
    <2>. HIDE DEF from, upto
    <2>. QED
      BY <1>5, <2>1, <2>2
  <1>7. from \in Int /\ upto \in Int
    BY <1>4
  <1>8. won[i] = IF from > upto THEN 0 ELSE upto - from + 1
    <2>1. won[i] = Cardinality({r \in Drawable : Chosen(r) = i})
      BY <1>1
    <2>. HIDE DEF won, from, upto
    <2>. QED
      BY <1>6, <1>7, <2>1, FS_Interval
  <1>9. /\ won[i] \in balances[i] - 1..balances[i] + 1
        /\ balances[i] = 0 /\ i > 1 => won[i] = 0
    <2>. DEFINE all == Sum[n]
                mine == Sum[i]
                less == Sum[i - 1]
                b == balances[i]
    <2>1. /\ all \in Nat \ {0} /\ mine \in Nat /\ less \in Nat
          /\ b \in Nat /\ mine <= all /\ mine = less + b
          /\ i \in Nat \ {0} /\ (i = 1 => less = 0)
      BY <1>2, <1>3, <1>4
    <2>2. /\ from = IF i = 1 THEN 0 ELSE less + 1
          /\ upto = IF mine < all THEN mine ELSE all - 1
      OBVIOUS
    <2>. HIDE DEF all, mine, less, b, from, upto, won
    <2>3. won[i] \in b - 1..b + 1 /\ (b = 0 /\ i > 1 => won[i] = 0)
      BY <1>8, <2>1, <2>2
    <2>. QED
      BY <2>3 DEF b
  <1>. QED
    BY <1>9

-----------------------------------------------------------------------------
(***************************************************************************)
(* Finitely many numbers have a bound: a first number that all bounds miss *)
(* would add itself to the bound of those before it.                       *)
(***************************************************************************)
LEMMA Bounded ==
  ASSUME NEW N \in Nat, NEW f \in [1..N -> Nat]
  PROVE  \E b \in Nat : \A i \in 1..N : f[i] <= b
  <1>. DEFINE Bound(b, n) == \A i \in 1..n : f[i] <= b
              Without == {n \in 0..N : ~ \E b \in Nat : Bound(b, n)}
  <1>1. SUFFICES ASSUME Without # {} PROVE FALSE
    <2>1. ASSUME Without = {} PROVE \E b \in Nat : Bound(b, N)
      <3>1. N \notin Without
        <4>. HIDE DEF Without
        <4>. QED
          BY <2>1
      <3>. HIDE DEF Bound
      <3>2. N \in Without <=> N \in 0..N /\ ~ \E b \in Nat : Bound(b, N)
        OBVIOUS
      <3>3. N \in 0..N
        OBVIOUS
      <3>. QED
        BY <3>1, <3>2, <3>3
    <2>. QED
      BY <2>1
  <1>2. Without \subseteq Nat
    OBVIOUS
  <1>3. PICK m \in Without : \A n \in Without : m <= n
    <2>. HIDE DEF Without
    <2>. QED
      BY <1>1, <1>2, Least
  <1>4. m # 0
    <2>1. Bound(0, 0)
      OBVIOUS
    <2>. QED
      BY <1>3, <2>1
  <1>5. m \in 1..N /\ m - 1 \in 0..N
    BY <1>3, <1>4
  <1>6. m - 1 \notin Without
    <2>. HIDE DEF Without
    <2>. QED
      BY <1>3, <1>5
  <1>7. PICK b \in Nat : Bound(b, m - 1)
    BY <1>5, <1>6
  <1>8. f[m] \in Nat /\ b + f[m] \in Nat
    BY <1>5
  <1>9. Bound(b + f[m], m)
    <2>. TAKE i \in 1..m
    <2>1. CASE i = m
      BY <1>8, <2>1
    <2>2. CASE i # m
      <3>1. i \in 1..m - 1 /\ i \in 1..N
        BY <1>5, <2>2
      <3>2. f[i] <= b /\ f[i] \in Nat
        BY <1>7, <3>1
      <3>. QED
        BY <1>8, <3>2
    <2>. QED
      BY <2>1, <2>2
  <1>. QED
    BY <1>3, <1>8, <1>9

(***************************************************************************)
(* No block has as many entries as MaxPages.                               *)
(***************************************************************************)
LEMMA MaxPagesBound ==
  /\ MaxPages \in Nat \ {0}
  /\ \A h \in 1..MaxBridge : TxsOf[h] < MaxPages /\ ValsOf[h] < MaxPages
  <1>. DEFINE S == {0} \cup Range(TxsOf) \cup Range(ValsOf)
              Bounds == {b \in Nat : \A x \in S : x <= b}
  <1>1. /\ MaxBridge \in Nat
        /\ TxsOf \in [1..MaxBridge -> Nat] /\ ValsOf \in [1..MaxBridge -> Nat]
    BY BridgeAssumption, HandlingAssumption
  <1>2. PICK a \in Nat : \A i \in 1..MaxBridge : TxsOf[i] <= a
    BY <1>1, Bounded
  <1>3. PICK b \in Nat : \A i \in 1..MaxBridge : ValsOf[i] <= b
    BY <1>1, Bounded
  <1>4. /\ S \subseteq Nat /\ 0 \in S
        /\ \A h \in 1..MaxBridge : TxsOf[h] \in S /\ ValsOf[h] \in S
        /\ \A x \in S : x = 0 \/ \E h \in 1..MaxBridge :
                                   x = TxsOf[h] \/ x = ValsOf[h]
    BY <1>1 DEF Range
  <1>. HIDE DEF S
  <1>5. a + b \in Bounds
    <2>1. ASSUME NEW x \in S PROVE x <= a + b
      BY <1>1, <1>2, <1>3, <1>4
    <2>. QED
      BY <2>1
  <1>6. PICK u \in Bounds : \A v \in Bounds : u <= v
    <2>1. Bounds # {} /\ Bounds \subseteq Nat
      BY <1>5
    <2>. HIDE DEF Bounds
    <2>. QED
      BY <2>1, Least
  <1>7. u \in Nat /\ \A x \in S : x <= u
    BY <1>6
  <1>8. u \in S
    <2>1. SUFFICES ASSUME u \notin S PROVE FALSE
      OBVIOUS
    <2>2. u - 1 \in Nat
      BY <1>4, <1>7, <2>1
    <2>3. \A x \in S : x <= u - 1
      BY <1>4, <1>7, <2>1
    <2>4. u - 1 \in Bounds
      BY <2>2, <2>3
    <2>. HIDE DEF Bounds
    <2>. QED
      BY <1>6, <1>7, <2>4
  <1>9. \E x \in S : \A y \in S : x >= y
    BY <1>4, <1>7, <1>8
  <1>10. Max(S) \in S /\ \A y \in S : Max(S) >= y
    BY <1>9 DEF Max
  <1>11. MaxPages = 1 + Max(S)
    BY DEF MaxPages, S
  <1>. DEFINE top == Max(S)
  <1>12. top \in Nat /\ \A y \in S : top >= y /\ y \in Nat
    BY <1>4, <1>10
  <1>. HIDE DEF top
  <1>13. MaxPages = 1 + top
    BY <1>11 DEF top
  <1>14. \A y \in S : y < 1 + top
    BY <1>12
  <1>15. MaxPages \in Nat \ {0}
    BY <1>12, <1>13
  <1>16. ASSUME NEW h \in 1..MaxBridge
         PROVE  TxsOf[h] < MaxPages /\ ValsOf[h] < MaxPages
    <2>1. TxsOf[h] \in S /\ ValsOf[h] \in S
      BY <1>4
    <2>. QED
      BY <1>13, <1>14, <2>1
  <1>. QED
    BY <1>15, <1>16

(***************************************************************************)
(* The types of what the handling of a block keeps.                        *)
(***************************************************************************)
HandlingTyping ==
  /\ query \in Queries
  /\ page \in 1..MaxPages /\ pages \in 0..MaxPages
  /\ valsets \in Seq(1..MaxPages) /\ txs \in Seq(1..MaxPages)
  /\ unproved \in Seq(1..MaxPages) /\ Len(unproved) <= PerPage
  /\ selections \in 0..MaxPages
  /\ failures \in 0..MaxFail
  /\ balances \in Seq(Balances) /\ Len(balances) <= Len(Senders)

LEMMA IdleTyped ==
  ASSUME NotHandling, failures \in 0..MaxFail
  PROVE  HandlingTyping
  <1>1. MaxPages \in Nat \ {0} /\ PerPage \in Nat \ {0}
    BY MaxPagesBound, HandlingAssumption
  <1>2. Len(Senders) \in Nat
    BY HandlingAssumption
  <1>. QED
    BY <1>1, <1>2 DEF NotHandling, HandlingTyping, Queries

LEMMA PageOfMany ==
  ASSUME NEW n \in Nat, NEW p \in Nat \ {0}, PageOf(n, p) # <<>>
  PROVE  p <= n
  <1>. DEFINE before == (p - 1) * PerPage
  <1>1. SUFFICES ASSUME p > n PROVE Len(PageOf(n, p)) = 0
    BY PageAppended
  <1>2. before \in Nat /\ before >= p - 1
    <2>1. \A a \in Nat, b \in Nat \ {0} : a * b \in Nat /\ a <= a * b
      OBVIOUS
    <2>. QED
      BY <2>1, HandlingAssumption
  <1>3. p * PerPage \in Nat /\ p * PerPage >= before
    BY PerPageTimes
  <1>. HIDE DEF before
  <1>4. ~(before < n) /\ ~(p * PerPage < n)
    BY <1>1, <1>2, <1>3
  <1>5. InPages(n, p) = n /\ InPages(n, p - 1) = n
    BY <1>4 DEF InPages, before
  <1>. QED
    BY <1>5, PageAppended

LEMMA PagesFew ==
  ASSUME NEW n \in Nat, n < MaxPages
  PROVE  PageCount(n) \in 0..MaxPages
  <1>1. \A a \in Nat, b \in Nat \ {0} : a \div b \in Nat /\ a \div b <= a
    OBVIOUS
  <1>. QED
    BY <1>1, MaxPagesBound, HandlingAssumption DEF PageCount

LEMMA SeqWider ==
  ASSUME NEW m \in Nat, NEW n \in m..MaxPages, NEW s \in Seq(1..m)
  PROVE  s \in Seq(1..n)
  <1>1. 1..m \subseteq 1..n
    OBVIOUS
  <1>. QED
    BY <1>1

LEMMA HandlingTypes ==
  ASSUME IInv, InLoop, ReadSoFar, HandlingTyping, HandleBlock
  PROVE  HandlingTyping'
  <1>. DEFINE vals == ValsOf[currentHeight]
              all  == TxsOf[currentHeight]
              Typed(s) == s \in Seq(1..MaxPages)
  <1>1. MaxPages \in Nat \ {0} /\ PerPage \in Nat \ {0} /\ MaxFail \in Nat
        /\ Len(Senders) \in Nat
    BY MaxPagesBound, HandlingAssumption
  <1>2. ASSUME query # "none"
        PROVE  /\ vals \in Nat /\ all \in Nat
               /\ vals < MaxPages /\ all < MaxPages
    <2>1. currentHeight \in 1..MaxBridge
      BY <1>2, BridgeAssumption DEF InLoop, HasBlock, IInv, TypeOK
    <2>. QED
      BY <2>1, HandlingAssumption, MaxPagesBound
  <1>3. ASSUME NEW n \in Nat, n < MaxPages, NEW p \in Nat \ {0}
        PROVE  Typed(PageOf(n, p)) /\ Len(PageOf(n, p)) <= PerPage
    <2>1. PageOf(n, p) \in Seq(1..n)
      BY <1>3, PageAppended
    <2>2. MaxPages \in n..MaxPages
      BY <1>1, <1>3
    <2>3. Typed(PageOf(n, p))
      BY <2>1, <2>2, SeqWider
    <2>. QED
      BY <1>3, <2>3, PageAppended
  <1>4. Fail => failures' \in 0..MaxFail
    BY <1>1 DEF Fail, HandlingTyping
  <1>5. ASSUME Finish, failures' \in 0..MaxFail PROVE HandlingTyping'
    BY <1>1, <1>5 DEF Finish, HandlingTyping, Queries
  <1>6. CASE GetCommit
    <2>1. failures' \in 0..MaxFail
      BY <1>4, <1>6 DEF GetCommit, HandlingTyping
    <2>2. query' \in Queries
      BY <1>6 DEF GetCommit, Queries, HandlingTyping, handling
    <2>. QED
      BY <1>6, <2>1, <2>2 DEF GetCommit, HandlingTyping, handling
  <1>7. CASE QueryFails
    BY <1>4, <1>5, <1>7 DEF QueryFails
  <1>8. CASE GetValidators /\ UNCHANGED failures
    <2>1. /\ query = "validators"
          /\ UNCHANGED <<pages, unproved, txs, selections, balances, failures>>
          /\ page \in Nat \ {0} /\ page \in 1..MaxPages /\ Typed(valsets)
      BY <1>1, <1>8 DEF GetValidators, HandlingTyping
    <2>2. CASE LastValidators(page)
      <3>1. query' = "search" /\ page' = 1 /\ UNCHANGED valsets
        BY <1>8, <2>2 DEF GetValidators
      <3>. QED
        BY <1>1, <2>1, <3>1 DEF HandlingTyping, Queries
    <2>3. CASE ~LastValidators(page)
      <3>1. /\ valsets' = valsets \o PageOf(vals, page)
            /\ page' = page + 1 /\ UNCHANGED query
            /\ PageOf(vals, page) # <<>>
        BY <1>8, <2>3 DEF GetValidators, LastValidators
      <3>2. page <= vals /\ Typed(PageOf(vals, page)) /\ vals < MaxPages
            /\ vals \in Nat
        BY <1>2, <1>3, <2>1, <3>1, PageOfMany
      <3>3. Typed(valsets \o PageOf(vals, page))
        <4>. DEFINE s == PageOf(vals, page)
        <4>. HIDE DEF s
        <4>1. Typed(s)
          BY <3>2 DEF s
        <4>2. Typed(valsets \o s)
          BY <2>1, <4>1
        <4>. QED
          BY <4>2 DEF s
      <3>4. page' \in 1..MaxPages
        BY <1>1, <2>1, <3>1, <3>2
      <3>. QED
        BY <2>1, <3>1, <3>3, <3>4 DEF HandlingTyping
    <2>. QED
      BY <2>2, <2>3
  <1>9. CASE TxSearch /\ UNCHANGED failures
    <2>1. /\ query = "search" /\ query' = "proof"
          /\ unproved' = PageOf(all, page)
          /\ pages' = pages \/ pages' = PageCount(all)
          /\ UNCHANGED <<page, valsets, txs, selections, balances, failures>>
          /\ page \in Nat \ {0}
      BY <1>1, <1>9 DEF TxSearch, HandlingTyping
    <2>2. Typed(unproved') /\ Len(unproved') <= PerPage
      BY <1>2, <1>3, <2>1
    <2>3. pages' \in 0..MaxPages
      BY <1>2, <2>1, PagesFew DEF HandlingTyping
    <2>. QED
      BY <2>1, <2>2, <2>3 DEF HandlingTyping, Queries
  <1>10. CASE QueryProof /\ UNCHANGED failures
    <2>1. /\ unproved # <<>>
          /\ txs' = Append(txs, Head(unproved)) /\ unproved' = Tail(unproved)
          /\ UNCHANGED <<query, page, pages, valsets, selections, balances,
                         failures>>
      BY <1>10 DEF QueryProof
    <2>2. Typed(txs) /\ Typed(unproved) /\ Len(unproved) <= PerPage
      BY DEF HandlingTyping
    <2>3. Typed(txs') /\ Typed(unproved') /\ Len(unproved') <= PerPage
      BY <1>1, <2>1, <2>2
    <2>. QED
      BY <2>1, <2>3 DEF HandlingTyping
  <1>11. CASE PageDone /\ UNCHANGED failures
    <2>1. /\ query = "proof" /\ unproved = <<>>
          /\ UNCHANGED <<pages, valsets, unproved, txs, balances, failures>>
          /\ page \in Nat \ {0} /\ page \in 1..MaxPages
          /\ pages \in 0..MaxPages
      BY <1>1, <1>11 DEF PageDone, HandlingTyping
    <2>2. CASE page < pages
      <3>1. page' = page + 1 /\ query' = "search" /\ UNCHANGED selections
        BY <1>11, <2>2 DEF PageDone
      <3>2. page' \in 1..MaxPages
        BY <1>1, <2>1, <2>2, <3>1
      <3>. QED
        BY <2>1, <3>1, <3>2 DEF HandlingTyping, Queries
    <2>3. CASE ~(page < pages)
      <3>1. page' = 1 /\ query' = "select" /\ selections' = Len(txs) + 1
        BY <1>11, <2>3 DEF PageDone
      <3>2. txs \in Seq(Nat) /\ txs \o <<>> = Count(InPages(all, page))
        BY <2>1 DEF ReadSoFar
      <3>3. InPages(all, page) \in 0..all /\ all \in Nat /\ all < MaxPages
        <4>1. all \in Nat /\ all < MaxPages /\ page * PerPage \in Nat
          BY <1>2, <2>1, PerPageTimes
        <4>. HIDE DEF all
        <4>. QED
          BY <4>1 DEF InPages
      <3>4. Len(txs) = InPages(all, page)
        <4>1. txs = Count(InPages(all, page))
          BY <3>2
        <4>. QED
          BY <3>3, <4>1, Counting
      <3>5. selections' \in 0..MaxPages
        BY <1>1, <3>1, <3>3, <3>4
      <3>. QED
        BY <1>1, <2>1, <3>1, <3>5 DEF HandlingTyping, Queries
    <2>. QED
      BY <2>2, <2>3
  <1>12. CASE ReadBalance /\ UNCHANGED failures
    <2>1. /\ Len(balances) < Len(Senders)
          /\ \E b \in Balances : balances' = Append(balances, b)
          /\ UNCHANGED <<query, page, pages, valsets, unproved, txs,
                         selections, failures>>
      BY <1>12 DEF ReadBalance
    <2>2. balances \in Seq(Balances)
      BY DEF HandlingTyping
    <2>3. balances' \in Seq(Balances) /\ Len(balances') <= Len(Senders)
      BY <1>1, <2>1, <2>2
    <2>. QED
      BY <2>1, <2>3 DEF HandlingTyping
  <1>13. CASE SelectSender /\ UNCHANGED failures
    <2>1. CASE Finish
      BY <1>5, <1>13, <2>1 DEF HandlingTyping
    <2>2. CASE /\ selections > 1 /\ selections' = selections - 1
               /\ balances' = <<>>
               /\ UNCHANGED <<query, page, pages, valsets, unproved, txs>>
      <3>1. selections' \in 0..MaxPages
        BY <1>1, <2>2 DEF HandlingTyping
      <3>2. balances' \in Seq(Balances) /\ Len(balances') <= Len(Senders)
        BY <1>1, <2>2
      <3>. QED
        BY <1>13, <2>2, <3>1, <3>2 DEF HandlingTyping
    <2>. QED
      BY <1>13, <2>1, <2>2 DEF SelectSender
  <1>. QED
    BY <1>6, <1>7, <1>8, <1>9, <1>10, <1>11, <1>12, <1>13 DEF HandleBlock

LEMMA StepTyped ==
  ASSUME IInv, InLoop, ReadSoFar, HandlingTyping, [HandlingNext]_allVars
  PROVE  HandlingTyping'
  <1>1. CASE HandleBlock
    BY <1>1, HandlingTypes
  <1>2. MaxPages \in Nat \ {0} /\ PerPage \in Nat \ {0} /\ MaxFail \in Nat
        /\ Len(Senders) \in Nat
    BY MaxPagesBound, HandlingAssumption
  <1>3. CASE Finish /\ UNCHANGED failures
    BY <1>2, <1>3 DEF Finish, HandlingTyping, Queries
  <1>4. CASE UNCHANGED handling /\ failures' \in 0..MaxFail
    BY <1>4 DEF handling, HandlingTyping
  <1>5. failures \in 0..MaxFail
    BY DEF HandlingTyping
  <1>6. OtherSteps => UNCHANGED handling /\ failures' \in 0..MaxFail
    BY <1>2, <1>5 DEF OtherSteps, PrepareOrFail, Fail
  <1>. QED
    BY <1>1, <1>3, <1>4, <1>5, <1>6
    DEF HandlingNext, BridgeManager, allVars

-----------------------------------------------------------------------------
(***************************************************************************)
(* What is kept of a block that is handled has its types.  GetValidators   *)
(* and getBridgeTxs ask for no page whose number exceeds the entries of    *)
(* the largest block by more than one.                                     *)
(***************************************************************************)
THEOREM HandlingTypeCorrect == HandlingSpec => []HandlingTypeOK
  <1>1. HandlingInit => /\ Init /\ InLoop /\ ReadSoFar /\ HandlingTyping
    <2>1. HandlingInit => failures \in 0..MaxFail
      BY HandlingAssumption DEF HandlingInit
    <2>. QED
      BY <2>1, IdleTyped
      DEF HandlingInit, NotHandling, InLoop, ReadSoFar
  <1>2. IInv /\ InLoop /\ ReadSoFar /\ HandlingTyping
        /\ [HandlingNext]_allVars =>
          [Next]_vars /\ InLoop' /\ ReadSoFar' /\ HandlingTyping'
    BY StepImplements, StepReads, StepTyped
  <1>3. IInv /\ HandlingTyping => HandlingTypeOK
    BY DEF IInv, HandlingTyping, HandlingTypeOK
  <1>. QED
    BY <1>1, <1>2, <1>3, InitHolds, StepHolds, PTL DEF HandlingSpec

(***************************************************************************)
(* Whatever the balances are that selectSender reads, as long as their sum *)
(* is an int64, an account is drawn by its share of them.                  *)
(***************************************************************************)
THEOREM AccountsDrawnByBalance == HandlingSpec => []ChoiceByBalance
  <1>1. HandlingTypeOK => ChoiceByBalance
    <2>1. Balances \subseteq Nat
      BY HandlingAssumption
    <2>2. HandlingTypeOK => balances \in Seq(Balances)
      BY DEF HandlingTypeOK
    <2>3. ASSUME balances \in Seq(Balances) PROVE balances \in Seq(Nat)
      <3>1. \A i \in 1..Len(balances) : balances[i] \in Balances
        BY <2>3
      <3>2. \A i \in 1..Len(balances) : balances[i] \in Nat
        BY <2>1, <3>1, Zenon
      <3>. QED
        BY <2>3, <3>2
    <2>. QED
      BY <2>2, <2>3, ChoiceFair
  <1>. QED
    BY <1>1, HandlingTypeCorrect, PTL

=============================================================================
