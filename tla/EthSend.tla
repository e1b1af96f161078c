------------------------------ MODULE EthSend ------------------------------
(***************************************************************************)
(* One EthSender: an account that sends transactions to Ethereum in two    *)
(* ways (manager/bridgeManager.go, tools/nouncmanager.go).                 *)
(*                                                                         *)
(*   commitDepositEventsWithHeader  hands a transaction of the bridge      *)
(*       chain to the channel of a route, where a goroutine takes it       *)
(*       (sendTxToEth); the caller is blocked while the channel is full;   *)
(*   commitHeader                   sends a header itself and waits.       *)
(*                                                                         *)
(* All of them draw on one NonceManager.  The first has no caller yet (the *)
(* call in handleDepositTxs is commented out); the caller modelled here is *)
(* MonitorChain with that call made.  Transactions are not told apart: a   *)
(* channel is the number of those in it.                                   *)
(***************************************************************************)
EXTENDS Integers, FiniteSets, Sequences, SequencesExt

CONSTANTS
  Route,      \* the routes, 0..RoutineNum-1 in the code
  Monitor,    \* the goroutine of MonitorChain
  ChanLen,    \* capacity of a channel
  MaxNonce,   \* bound: nonces below it are given out
  Faults,     \* the external failures that may happen
  MaxCrash    \* bound: how often the process may crash

FaultKinds ==
  {"sign",   \* the key store does not sign
   "send",   \* a transaction is not taken by the Ethereum node
   "answer", \* the node takes it, and the answer is an error
   "nonce"   \* the query for the pending nonce fails
  }

ASSUME SendAssumption ==
  /\ Monitor \notin Route /\ Route # {}
  /\ ChanLen \in Nat \ {0} /\ MaxNonce \in Nat
  /\ Faults \subseteq FaultKinds
  /\ MaxCrash \in Nat

Thread == Route \cup {Monitor}

VARIABLES
  ethNonce,      \* the nonce Ethereum executes next
  pool,          \* the nonces of the transactions it has not executed
  up,            \* the relayer's process is running
  crashes,       \* how often it has crashed
  pc,            \* where each goroutine is
  nonce,         \* the nonce each of them has got
  route,         \* the route of the transaction the monitor hands over
  queue,         \* per route: how many transactions are in its channel
  addressNonce,  \* NonceManager.addressNonce of the account
  returnedNonce, \* NonceManager.returnedNonce of the account, sorted
  gone,          \* history: nonces a failed header took with it
  mixed          \* history: a nonce that is in use counts as unused

node    == <<ethNonce, pool>>
proc    == <<up, crashes>>
manager == <<addressNonce, returnedNonce>>
history == <<gone, mixed>>
vars    == <<node, proc, pc, nonce, route, queue, manager, history>>

Unknown == -1

Holding == {"send", "confirm"}

TypeOK ==
  /\ ethNonce \in 0..MaxNonce
  /\ pool \subseteq 0..MaxNonce - 1
  /\ up \in BOOLEAN
  /\ crashes \in 0..MaxCrash
  /\ pc \in [Thread -> {"none", "idle", "put", "nonce"} \cup Holding]
  /\ nonce \in [Thread -> 0..MaxNonce]
  /\ route \in Route
  /\ queue \in [Route -> 0..ChanLen]
  /\ addressNonce \in {Unknown} \cup 0..MaxNonce
  /\ returnedNonce \in Seq(0..MaxNonce - 1)
  /\ gone \subseteq 0..MaxNonce - 1
  /\ mixed \in BOOLEAN

NoRoute == CHOOSE r \in Route : TRUE

Init ==
  /\ ethNonce = 0 /\ pool = {}
  /\ up = TRUE /\ crashes = 0
  /\ pc = [p \in Thread |-> IF p = Monitor THEN "idle" ELSE "none"]
  /\ nonce = [p \in Thread |-> 0]
  /\ route = NoRoute
  /\ queue = [r \in Route |-> 0]
  /\ addressNonce = Unknown /\ returnedNonce = <<>>
  /\ gone = {} /\ mixed = FALSE

At(p, step) == pc' = [pc EXCEPT ![p] = step]

-----------------------------------------------------------------------------
(***************************************************************************)
(* Bound: no more is begun than there are nonces left for.                 *)
(***************************************************************************)
Taken(n) == n < ethNonce \/ n \in pool

PendingNonceAt ==
  CHOOSE n \in ethNonce..MaxNonce :
    ~Taken(n) /\ \A k \in ethNonce..n - 1 : Taken(k)

NoncesLeft ==
  LET fresh == IF addressNonce = Unknown THEN PendingNonceAt ELSE addressNonce
  IN  MaxNonce - fresh + Len(returnedNonce)

NoncesWanted ==
  FoldFunction(+, Cardinality({p \in Thread : pc[p] = "nonce"}), queue)

Room == NoncesWanted < NoncesLeft

\* A wrong variant: only the first channel that is made gets a goroutine.
GetRouterFirst ==
  /\ up /\ pc[Monitor] = "idle" /\ Room
  /\ \E r \in Route :
       /\ route' = r
       /\ pc' = [pc EXCEPT ![Monitor] = "put",
                           ![r] = IF \A q \in Route : pc[q] = "none"
                                  THEN "idle" ELSE @]
  /\ UNCHANGED <<node, proc, nonce, queue, manager, history>>

(***************************************************************************)
(* commitDepositEventsWithHeader: the data is prepared, which may fail and *)
(* changes nothing then; a route is drawn, whose channel and goroutine are *)
(* made when they are needed first; the transaction is put in the channel. *)
(***************************************************************************)
GetRouter ==
  /\ up /\ pc[Monitor] = "idle" /\ Room
  /\ \E r \in Route :
       /\ route' = r
       /\ pc' = [pc EXCEPT ![Monitor] = "put",
                           ![r] = IF @ = "none" THEN "idle" ELSE @]
  /\ UNCHANGED <<node, proc, nonce, queue, manager, history>>

\* A wrong variant: more than the channel holds.
PutInChannelFull ==
  /\ up /\ pc[Monitor] = "put"
  /\ queue' = [queue EXCEPT ![route] = @ + 1]
  /\ route' = NoRoute
  /\ At(Monitor, "idle")
  /\ UNCHANGED <<node, proc, nonce, manager, history>>

PutInChannel ==
  /\ up /\ pc[Monitor] = "put"
  /\ queue[route] < ChanLen
  /\ queue' = [queue EXCEPT ![route] = @ + 1]
  /\ route' = NoRoute
  /\ At(Monitor, "idle")
  /\ UNCHANGED <<node, proc, nonce, manager, history>>

(***************************************************************************)
(* commitHeader, once its data is prepared.                                *)
(***************************************************************************)
CommitHeader ==
  /\ up /\ pc[Monitor] = "idle" /\ Room
  /\ At(Monitor, "nonce")
  /\ UNCHANGED <<node, proc, nonce, route, queue, manager, history>>

(***************************************************************************)
(* The goroutine of a route takes the next transaction.                    *)
(***************************************************************************)
TakeFromChannel(r) ==
  /\ up /\ pc[r] = "idle"
  /\ queue[r] > 0
  /\ queue' = [queue EXCEPT ![r] = @ - 1]
  /\ At(r, "nonce")
  /\ UNCHANGED <<node, proc, nonce, route, manager, history>>

-----------------------------------------------------------------------------
(***************************************************************************)
(* The nonce manager, each operation under its lock.  A nonce that was     *)
(* returned is handed out again, the smallest first; otherwise the next    *)
(* one is, which is at first the one Ethereum expects behind those that    *)
(* are pending without a gap, or 0 when the query fails.                   *)
(***************************************************************************)
Asked ==
  IF addressNonce # Unknown THEN {addressNonce}
  ELSE {PendingNonceAt} \cup (IF "nonce" \in Faults THEN {0} ELSE {})

\* A wrong variant: the nonce stays in the array.
ReuseNonceKept(p) ==
  /\ returnedNonce # <<>>
  /\ nonce' = [nonce EXCEPT ![p] = Head(returnedNonce)]
  /\ UNCHANGED <<returnedNonce, addressNonce, mixed>>

ReuseNonce(p) ==
  /\ returnedNonce # <<>>
  /\ nonce' = [nonce EXCEPT ![p] = Head(returnedNonce)]
  /\ returnedNonce' = Tail(returnedNonce)
  /\ UNCHANGED <<addressNonce, mixed>>

NewNonce(p) ==
  /\ returnedNonce = <<>>
  /\ \E n \in Asked :
       /\ n < MaxNonce
       /\ nonce' = [nonce EXCEPT ![p] = n]
       /\ addressNonce' = n + 1
       /\ mixed' = (mixed \/ \E k \in n..MaxNonce : Taken(k))
  /\ UNCHANGED returnedNonce

GetAddressNonce(p) ==
  /\ up /\ pc[p] = "nonce"
  /\ ReuseNonce(p) \/ NewNonce(p)
  /\ At(p, "send")
  /\ UNCHANGED <<node, proc, route, queue, gone>>

\* A wrong variant: the returned nonces are not sorted.
ReturnedUnsorted(n) == <<n>> \o returnedNonce

\* A wrong variant: the nonce is dropped.
ReturnedNot(n) == returnedNonce

Sorts(p, s) == \A i, j \in DOMAIN s : i < j => s[p[i]] <= s[p[j]]

(***************************************************************************)
(* ReturnNonce: the nonce is appended and the array sorted.                *)
(***************************************************************************)
Returned(n) ==
  LET s == Append(returnedNonce, n)
      p == CHOOSE q \in Bijection(DOMAIN s, DOMAIN s) : Sorts(q, s)
  IN  [i \in DOMAIN s |-> s[p[i]]]

-----------------------------------------------------------------------------
(***************************************************************************)
(* A transaction that could not be signed or sent is given up: the         *)
(* goroutine of a route returns its nonce, commitHeader does not.          *)
(***************************************************************************)
GiveUp(p) ==
  /\ returnedNonce' = IF p = Monitor THEN returnedNonce
                      ELSE Returned(nonce[p])
  /\ nonce' = [nonce EXCEPT ![p] = 0]
  /\ At(p, "idle")
  /\ UNCHANGED <<ethNonce, proc, route, queue, addressNonce>>

NotSent(p) ==
  /\ up /\ pc[p] = "send"
  /\ "sign" \in Faults \/ "send" \in Faults \/ Taken(nonce[p])
  /\ GiveUp(p)
  /\ gone' = IF p = Monitor /\ ~Taken(nonce[p]) THEN gone \cup {nonce[p]}
             ELSE gone
  /\ UNCHANGED <<pool, mixed>>

SentWithoutAnswer(p) ==
  /\ "answer" \in Faults
  /\ up /\ pc[p] = "send" /\ ~Taken(nonce[p])
  /\ pool' = pool \cup {nonce[p]}
  /\ GiveUp(p)
  /\ mixed' = (mixed \/ p # Monitor)
  /\ UNCHANGED gone

SendTransaction(p) ==
  /\ up /\ pc[p] = "send" /\ ~Taken(nonce[p])
  /\ pool' = pool \cup {nonce[p]}
  /\ At(p, "confirm")
  /\ UNCHANGED <<ethNonce, proc, nonce, route, queue, manager, history>>

(***************************************************************************)
(* waitTransactionConfirm asks again and again, until the transaction was  *)
(* executed; whether it succeeded is only logged.                          *)
(***************************************************************************)
ConfirmTransaction(p) ==
  /\ up /\ pc[p] = "confirm"
  /\ IF nonce[p] < ethNonce
     THEN At(p, "idle") /\ nonce' = [nonce EXCEPT ![p] = 0]
     ELSE UNCHANGED <<pc, nonce>>
  /\ UNCHANGED <<node, proc, route, queue, manager, history>>

SendTxToEth(p) ==
  \/ GetAddressNonce(p)
  \/ NotSent(p) \/ SentWithoutAnswer(p) \/ SendTransaction(p)
  \/ ConfirmTransaction(p)

-----------------------------------------------------------------------------
(***************************************************************************)
(* The process.  What is in the channels is lost with it, and so is what   *)
(* the nonce manager knows; what Ethereum has taken stays.                 *)
(***************************************************************************)
Crash ==
  /\ up /\ crashes < MaxCrash
  /\ up' = FALSE /\ crashes' = crashes + 1
  /\ pc' = [p \in Thread |-> "none"]
  /\ nonce' = [p \in Thread |-> 0]
  /\ route' = NoRoute
  /\ queue' = [r \in Route |-> 0]
  /\ addressNonce' = Unknown /\ returnedNonce' = <<>>
  /\ gone' = {} /\ mixed' = FALSE
  /\ UNCHANGED node

Restart ==
  /\ ~up
  /\ up' = TRUE
  /\ At(Monitor, "idle")
  /\ UNCHANGED <<node, crashes, nonce, route, queue, manager, history>>

(***************************************************************************)
(* Ethereum executes the transactions of the account by their nonces.      *)
(***************************************************************************)
EthBlock ==
  /\ ethNonce \in pool
  /\ ethNonce' = ethNonce + 1
  /\ pool' = pool \ {ethNonce}
  /\ UNCHANGED <<proc, pc, nonce, route, queue, manager, history>>

(***************************************************************************)
(* MonitorChain need not have anything to send, and waits at a full        *)
(* channel.                                                                *)
(***************************************************************************)
Wait ==
  /\ up /\ pc[Monitor] \in {"idle", "put"}
  /\ UNCHANGED vars

Next ==
  \/ GetRouter \/ PutInChannel \/ CommitHeader \/ Wait
  \/ \E r \in Route : TakeFromChannel(r)
  \/ \E p \in Thread : SendTxToEth(p)
  \/ Crash \/ Restart
  \/ EthBlock

Spec == Init /\ [][Next]_vars

(***************************************************************************)
(* Goroutines are scheduled, the process is restarted, Ethereum goes on,   *)
(* and does not refuse whatever a goroutine sends for ever.                *)
(***************************************************************************)
Fairness ==
  /\ WF_vars(PutInChannel)
  /\ \A r \in Route : WF_vars(TakeFromChannel(r))
  /\ \A p \in Thread :
       WF_vars(SendTxToEth(p)) /\ SF_vars(SendTransaction(p))
  /\ WF_vars(Restart)
  /\ WF_vars(EthBlock)

FairSpec == Spec /\ Fairness

-----------------------------------------------------------------------------
(***************************************************************************)
(* No nonce is lost and none is in two places: each one that was given out *)
(* is taken by Ethereum, or is on its way there, or was returned, or went  *)
(* with a header that could not be sent.  This is what Ethereum needs to   *)
(* execute anything; it fails once a nonce that Ethereum has taken counts  *)
(* as unused, after an answer was lost, a query failed, or a restart found *)
(* transactions behind a gap.                                              *)
(***************************************************************************)
Sending == {p \in Thread : pc[p] = "send"}

NoncesConserved ==
  addressNonce # Unknown /\ ~mixed =>
    LET used == {n \in 0..MaxNonce - 1 : Taken(n)} IN
    /\ used \cup gone \cup Range(returnedNonce) \cup {nonce[p] : p \in Sending}
         = 0..addressNonce - 1
    /\ Cardinality(used) + Cardinality(gone) + Len(returnedNonce)
         + Cardinality(Sending) = addressNonce

\* The goroutines that have a nonce.
Holders == {p \in Thread : pc[p] \in Holding}

(***************************************************************************)
(* No nonce has two holders, and none is held and at the same time waits   *)
(* to be handed out, or waits twice, also when a nonce that Ethereum has   *)
(* taken counts as unused.                                                 *)
(***************************************************************************)
OneHolder ==
  /\ \A p, q \in Holders : nonce[p] = nonce[q] => p = q
  /\ \A p \in Holders : nonce[p] \notin Range(returnedNonce)
  /\ IsInjective(returnedNonce)

(***************************************************************************)
(* The nonce manager implements the allocator, whatever fails: nobody gets *)
(* a nonce another goroutine has, and returned ones go first.              *)
(***************************************************************************)
Allocator ==
  INSTANCE NonceAllocator WITH
    next <- addressNonce,
    free <- Range(returnedNonce),
    held <- {nonce[p] : p \in Holders}

ImplementsAllocator == Allocator!AllocSpec

(***************************************************************************)
(* The wait for a transaction ends, unless a nonce before it is not used:  *)
(* one a header took with it, or one that was returned and that nobody     *)
(* fetches any more.                                                       *)
(***************************************************************************)
Spoilt == gone # {} \/ mixed

NobodyFetches == <>[](returnedNonce # <<>>)

WaitsEnd ==
  NobodyFetches \/
    \A p \in Thread : pc[p] = "confirm" ~> pc[p] # "confirm" \/ Spoilt

(***************************************************************************)
(* With the same exceptions the full channel of a route does not block     *)
(* MonitorChain for ever ("could be blocked", bridgeManager.go:424).       *)
(***************************************************************************)
MonitorGoesOn ==
  NobodyFetches \/ (pc[Monitor] = "put" ~> pc[Monitor] # "put" \/ Spoilt)
=============================================================================
