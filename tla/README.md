# eth-relayer: a verification development

The relayer carries deposits made on Ethereum to a Cosmos-based bridge chain,
and the headers of both chains to each other. This directory holds TLA+ models
of it, the TLC configurations that check them on small instances, and proofs
that TLAPS checks for every value of the constants. The reference is the Go
code under `src/`; line numbers are those of its files.

`PROJECT.json` maps each definition to the lines it models, and lists the runs,
the deliberately wrong variants each property catches, the findings, the
hazards and the theorems.

## The system

One process (`main.go`) starts four goroutines that never end. Nothing is ever
sent to their exit channels, so the process ends by a signal or by a panic in
any of them, and an operator or a supervisor starts it again.

| Part | State | Operations | Interacts with |
| --- | --- | --- | --- |
| Database (`db/db.go`) | buckets Retry, Check and Height, durable | put, delete, list up to `MAX_NUM` entries, get and set a height; each under one lock and in one bolt transaction | all goroutines |
| EthereumManager: headers | `currentHeight`, `header4sync` | `MonitorChain`: per tick, per block: `handleBlockHeader`, `fetchLockDepositEvents`, `commitHeader` | Ethereum node, bridge node, Retry |
| EthereumManager: deposits | the listing of a round | `MonitorDeposit`/`handleLockDepositEvents`: prove, broadcast, move from Retry to Check | Ethereum node, bridge node, both buckets |
| EthereumManager: checks | the listing of a round | `CheckDeposit`/`checkLockDepositEvents`: look at what became of the proofs | bridge node, both buckets |
| Sequence numbers (`CosmosSeq`, `sendCosmosTx`) | the next number, under a lock | take a number, broadcast until there is an answer | the first two goroutines, bridge node |
| BridgeManager: headers | `currentHeight`, a nonce manager per sender | `MonitorChain`, `handleDepositTxs` (paging of validators and transactions, `selectSender`), `commitHeader` | bridge node, Ethereum node, Height |
| BridgeManager: transactions | channels per route, the same nonce manager | `commitDepositEventsWithHeader`, `sendTxToEth` | Ethereum node; no caller yet |
| Nonce manager (`tools/nouncmanager.go`) | per address: the next nonce, the returned ones | `GetAddressNonce`, `ReturnNonce` | Ethereum node |
| Pure code | none | the target filter, fees, encodings | |
| Surroundings | none | configuration, flags, log, REST client, key store | |

What is hard, and what makes each part correct:

* **Deposits.** Three goroutines, a database that survives a crash and a memory
  that does not. The scan resumes where the *bridge chain* is, so the order of
  "deposits into Retry" and "header to the bridge chain" is what keeps a
  deposit from being missed. Right: no deposit is missed, a recorded one is
  never in neither bucket unless a write failed, proofs are for confirmed
  blocks, a relayed deposit does not come back, each is broadcast in the end.
* **Headers.** Unsigned heights that wrap, a batch that links to the bridge
  chain, a wait in a loop. Right: headers go out in order, after the deposits
  of their block; only confirmed blocks are scanned; headers arrive in the end.
* **Sequence numbers.** Two goroutines take numbers, and the node wants them
  in order. Right: no number twice, none missing, every broadcast ends.
* **Headers to Ethereum.** A cached nonce per sender, a height written once
  per tick and cut to 32 bits, a block read in many queries of which any may
  fail. Right: no block is left out across crashes or goes out with a part of
  its transactions, Ethereum gets every confirmed header.
* **Transactions to Ethereum.** Goroutines for the routes and the goroutine of
  the headers draw nonces of one account, send in any order, and give a nonce
  back when they could not send; a full channel blocks the headers. Right: a
  nonce is neither lost nor shared, nobody waits for ever.
* **The manager as a whole.** A header that is refused holds up the proofs, a
  proof that is refused ends the process with the headers. Right: every deposit
  is executed by the bridge chain in the end, whatever happens a finite number
  of times.

## The modules

| Module | What it models |
| --- | --- |
| `BoltDB` | The Retry and Check buckets. A deposit stands for one serialised `CrossTransfer`; the listing in key order and its cut-off are kept. |
| `DepositRelay` | Extends `BoltDB`: the three goroutines of a deposit, the process, and the bridge chain as far as they see it. `MCDepositRelay` gives it two deposits. |
| `HeaderSync` | `MonitorChain` of the EthereumManager in full: loop, batch, wait, panic, roll back. It implements `DepositRelay` (`ImplementsScan`). |
| `CosmosTx` | `CosmosSeq` and `sendCosmosTx`, used by several goroutines against a node that wants numbers in order. `MCCosmosTx` names the two goroutines. |
| `EthereumManager` | The composition: `DepositRelay` (extended), whose proofs and headers go out through `CosmosTx` (instantiated, with the two goroutines as threads), and the queue of headers. `MCEthereumManager` gives it one deposit. |
| `BridgeRelay` | `MonitorChain` of the BridgeManager with the nonce manager, the Height bucket and Ethereum's view of nonces; the handling of a block is one step. |
| `BlockHandling` | Extends `BridgeRelay`: that step query by query, with the pages of validators and transactions, their proofs, the balances and the draw of `selectSender`. It implements `BridgeRelay` (`ImplementsBridgeRelay`). `MCBlockHandling` gives it two accounts and blocks of all lengths that matter for pages of two. |
| `NonceAllocator` | What a nonce manager promises, in terms of nonces that are new, held or given back. |
| `EthSend` | One account with its routes, channels, goroutines and headers on one `NonceManager`, which implements `NonceAllocator` (`ImplementsAllocator`). `MCEthSend` names two routes. |
| `Arithmetic` | Facts about `%` and least elements, for the proofs. |
| `DepositRelayProofs`, `HeaderSyncProofs`, `CosmosTxProofs`, `EthereumManagerProofs`, `BridgeRelayProofs`, `BlockHandlingProofs`, `EthSendProofs` | The theorems. |

How code and model correspond. A goroutine is a program counter (`dpc`, `pc`)
or a set of the work it has left; one action stands for the code between two
points at which another goroutine, the chain or a crash can interfere: a query,
a database write, a broadcast. A failure of the surroundings is a member of
`Faults`, so that a run names the failures it allows; without it the disjunct
is disabled. `Die` is what is lost with the memory, `Restart` is the
constructor and `init`. History variables (`recorded`, `closed`, `handled`,
`relayed`, `scanned`, `lost`, `failed`, `gone`, `mixed`) are written only, and
read by properties, by the refinements and, in the proofs, by invariants.

The two sides of a boundary are kept apart: actions such as `SyncHeader`,
`Deliver`, `BridgeBlock`, `EthBlock` and `ForgetMempool` are the chains, modelled from what the
code expects of them, and are marked external in the map.

Three abstractions deserve a word. In `DepositRelay` the bridge chain may take
the header of a block once that block was scanned, or, after a crash, once
more for the header the dead process left in the mempool (`flight`). That this
is all `HeaderSync` ever does is the refinement `ImplementsScan`: there
`flight` is "some batch nobody waits for would extend the chain" and the scan is
at `scanned`, which a roll back does not move; a node that is behind may let
the scan pass blocks that are not confirmed, so that the last block of
`DepositRelay` is the last one of the chain there. And the transactions on the
bridge chain are numbered in the order of their broadcast, which stands for
their hashes; a query with something that is not such a hash finds nothing.
`EthereumManager` joins steps of `DepositRelay` and `CosmosTx` that the code
takes together: that the node takes a proof is `CommitProof` and `Accepted`,
that the process dies is `Die` of both. Its mempool holds what the two of them
only count, and `FlightAgrees` says that the header `DepositRelay` expects is
the one on its way. A header in it may fail when it is executed
(`HeaderFails`, the fault `lost`: for `DepositRelay` the header is lost), and
the wait of `:412` compares what the code compares: the height of the bridge
block the header is in (`included`) with the Ethereum height the bridge chain
knows. Nothing relates the heights of the two chains, so `included` is any
height up to `MaxBridge`. What it leaves to `HeaderSync` are batches of more
than one, the roll back and a node that is behind, and to `CosmosTx` the loss
of the mempool.

Three details are simpler than the code and make no difference to what is
stated. Heights are taken for 32-bit numbers at `:541` and `:574` and modelled
as they are, since Ethereum's fit. A transaction that is broadcast again after
it was executed is answered with an error of its sequence number and not with
"already in cache"; `TakenAlready` has one error for both. And the iterator of
the events does not stop in the middle of a block: a query fails as a whole
(`FetchFails`) or gives all events.

The models start from a manager that was constructed. As the code stands,
`NewEthereumManager` never sets the field `CMCdc` that `init` uses
(`ethereumManager.go:165-184`, `:213`).

## The runs

| Run | Question | Result |
| --- | --- | --- |
| `DepositRelay_crash` | two crashes anywhere, header transactions late or lost, proofs that fail, a listing cut off at one | holds: nothing missed, nothing lost, nothing relayed twice, proofs confirmed; every recorded deposit is broadcast once the bridge chain knows enough blocks after it and after those listed in front of it |
| `DepositRelay_faults` | every failure at once, a forced height, a cut-off listing | holds: nothing forgotten, buckets consistent, proofs confirmed |
| `DepositRelay_failed` | is a failed proof put back (`:625`) | violated |
| `HeaderSync_scan` | every failure at once, two crashes: order of headers, confirmations, and does the goroutine do what `DepositRelay` assumes | holds |
| `HeaderSync_live` | do headers arrive, batches of one, with a bridge chain that may be higher than Ethereum | holds, unless the wait of `:412` never ends (`WaitsInVain`) |
| `HeaderSync_batch` | the same, batches of two (`:257`) | violated: stalls |
| `CosmosTx_faults` | refusals, time-outs, lost mempool, two crashes | holds: numbers unique; no gap and every send answered unless a number was lost |
| `EthereumManager_faults` | the whole manager with refusals, time-outs, failed event queries, proofs and headers that fail when executed, other relayers and a crash | holds: no header left behind unless one was answered with an error or failed; the header the bridge chain may take is the one in the mempool; a deposit that was not missed is executed in the end, unless numbers are lost or headers fail again and again, or the wait of `:412` never ends |
| `BridgeRelay_faults` | failures and a crash anywhere | holds: no block left out, only confirmed ones |
| `BridgeRelay_nonce` | a transaction that is not sent (`:528`) | violated: gap |
| `BlockHandling_live` | query by query, with failed queries and a crash: is a block complete, the sender drawn by balance, the handling the one step of `BridgeRelay`; does Ethereum execute the header of every confirmed block | holds |
| `EthSend_faults` | two routes and the headers, with transactions not signed, not sent or sent without an answer, a failed nonce query and a crash | holds: no nonce with two holders, none lost unless spoilt, and no wait for ever unless a nonce before it is not used |

Every property of a passing run has a wrong variant of a definition, next to
it in the module ("A wrong variant: ..."), under which the run fails.

### Where the code does not do what it says

Three runs show a disagreement of the code with what it says of itself:
`DepositRelay_failed`, `HeaderSync_batch` and `BridgeRelay_nonce`;
`PROJECT.json` quotes the lines. The models have the
following ones too, as the code has them, and the properties are stated so
that they say what is left. Of `ethereumManager.go`:

* `:363` looks for a deposit among the transactions of the bridge chain by its
  Ethereum hash and never finds it, so that after a restart with
  `-ethereumforce` relayed deposits are queued again (`OnBridge`; hence no
  `ClosedStaysClosed` with a forced height).
* `:560` logs a failed `PutCheck`, and the deposit is deleted from Retry all
  the same (`AddCheck`, `DropRetry`; hence no `Accounted` with failed writes).
* `:281` counts a failed fetch of events as a success, and the block is passed
  (`FetchFails`; hence no `NothingMissed` with failed fetches).
* `:582` panics on every refused proof, so that the handling of refusals at
  `:543-552` is dead and the deposit is tried first again after the restart
  (`CommitProofPanics`).
* `:412` compares the height of a bridge block with an Ethereum height: when
  the block of the header is not below what the bridge chain knows of Ethereum,
  the wait goes on until another relayer sends headers, and without one for
  ever (`ConfirmHeader`, `HeaderConfirmed`). Both live runs reach this and
  their properties name it, `WaitsInVain`.
* `:405-418` do not look at the result of the transaction: a header that failed
  when it was executed is cleared from the queue like one that arrived. The scan
  has passed its block, and no header follows until the process is started
  again (`execute` in `HeaderSync`, `HeaderFails` in `EthereumManager`, where
  `failed` says that it happened; hence the conditions in `HeaderNotPassed` and
  `Delivered`).
* `:257` and `:297`: with more than one header per batch headers stall
  (`HeaderSync_batch`), and with them the proofs of deposits, which need the
  headers of later blocks. The configuration in the repository asks for 500 per
  batch. The liveness of deposits is therefore about what the bridge chain
  knows (`TooYoung` in `EventuallySubmitted`) or about batches of one
  (`EthereumManager`).
* `db.go:180` with `:527`: a listing that is full of deposits that are not deep
  enough hides the deposits behind them, which wait although they could be
  proved (`EventuallySubmitted` looks at the deposits in front).
* `:410` reads the height of an answer that is nil when the transaction is in
  no block yet (`CommitHeaderPanics`).
* `:433` compares the hash of an Ethereum header with the data hash of a
  bridge block, which never agree, so that the search for the common ancestor
  never ends (`RollBack`).
* `:243` and `:248` subtract unsigned heights: with a node height below 3 the
  scan runs to the end of the chain (`Minus`; hence the condition in
  `OnlyConfirmedBlocks`).
* `:442` and `:475`: a refused transaction keeps its sequence number, and the
  next one waits for ever behind the gap (`Refused`, `lost`).
* `:261`: a header that is answered with an error stays queued, but the scan
  has passed its block, and the headers of the blocks after it do not follow
  the synced one. It is sent again with the next block that is scanned, or
  stays for good if that fails too at the end of the chain (`HeaderFailed`,
  `failed`).
* `:156`: after a restart with transactions of the process before in the
  mempool the number is behind, and the first transaction is broadcast for
  ever, as the error is taken for "not yet" (`Restart`, `lost`).
* `:464`: after a time-out an accepted transaction is broadcast again and
  reported as failed (`TakenAlready`).

Of `bridgeManager.go`:

* `:191` takes a failed query of the epoch for height 0, which no block has, so
  that the manager stays there; it writes 0 - 1, cut to 32 bits, to the database
  (`:234`), and after a restart it starts at that height and skips every block
  (`LatestHeight`, `SavedHeight`; hence no `NoneSkipped` when that query fails,
  nor with an epoch that starts at 0).
* `:221`: on a chain of one block the confirmed height wraps around (`Tick`;
  the runs start with two blocks).
* `:505` reads an error that is nil when packing fails (`PackPanics`).
* `:536` counts a reverted header as handled (`ConfirmTransaction`, `EthBlock`).
* `:528` loses the nonce of a header that could not be sent (`BridgeRelay_nonce`;
  in `EthSend` the nonce is `gone`).
* `:449` returns a nonce although the node may have the transaction, only its
  answer was lost; the nonce is handed out first of all and is refused
  (`SentWithoutAnswer`, `mixed`).
* `:414`: transactions in the channels are in memory only, while
  `MonitorChain` has passed their block; a crash loses them (`Crash`).
* `:346` compares sums cut to an int64 with a draw that is not cut. A draw of 0
  selects the first sender even if its balance is 0, and with sums that wrap
  the first one is taken (`Chosen`; hence the conditions in
  `ChoiceByBalance`).
* `tools.GetBridgeTxs`, a copy of the paging without the check of the proofs,
  has no caller.

### Bounds

Two deposits are enough for what the deposit properties tell apart: one in
front of the other in the listing, one before or behind the other on the
chain, and both in one block. The chain is long enough for one block to be
confirmed and another to be still too young for a proof. `MaxTx` allows as
many broadcasts as there are deposits in `DepositRelay_faults`, and one more
where a crash between broadcast and bucket makes a second one of a deposit.
Words have at least one value more than the chains have heights, so that a
wrapped difference is a height as well or far beyond the chain. Nonces saturate
(`MaxNonce`) where more of them add nothing. The height of the bridge chain in
`HeaderSync` saturates at `MaxBridge`; in `HeaderSync_live` that is the height
at which Ethereum ends, so that the comparison of `:412` has the outcome it has
without the bound, and both outcomes occur. In
`CosmosTx`, two goroutines and five numbers let each overtake the other many
times.

`EthereumManager` has one deposit, since with two the run takes many times as
long; what two deposits do to each other is `DepositRelay`'s. Three blocks of
Ethereum, three broadcasts of proofs and five numbers (`MaxTx`, and `First` up
to `MaxSeq`) leave room for two headers that arrive, one of them sent again, a
proof that is sent twice after a time-out or a crash, and a header that fails
before or after it. With `MaxBridge` 2 the header of a block is waited for in
vain or not, whichever of the three heights the bridge chain knows. Failed
writes are left to the runs of `DepositRelay`.
`BlockHandling` has pages of two and blocks with none, one page, and more than
a page of transactions and validators; `MaxFail` failed queries, so that the
same block fails twice; and `Int64` is so small that the sum of two balances
wraps. In `EthSend` channels hold one transaction and there are three nonces
(`ChanLen`, `MaxNonce`), enough for each of three goroutines to have one
and for two of them to be given back in either order.

Deadlock is checked in every run; a goroutine that waits or polls takes a step
that changes nothing.

### Fairness

Goroutines are scheduled and their tickers fire: weak fairness of each
goroutine. The process is restarted: weak fairness of `Restart`. The chains go
on producing blocks: weak fairness of these. A block executes the next
transaction of the mempool, but the transaction may fail, and nothing makes a
header reach the bridge chain: `DepositRelay` assumes no fairness of
`SyncHeader`, and a header fails or is refused in `EthereumManager` as often as
it likes. Strong
fairness is assumed in two places: `GetProof` of each deposit in `DepositRelay`
and `EthereumManager`, a query that is repeated in every round and that does
not fail for ever succeeds, although the round goes on to other deposits in
between; and `SendTransaction` in `EthSend`, a transaction the node can take
again and again is taken, although its nonce may be given back in between. In `CosmosTx` a goroutine that keeps broadcasting is answered when it
is its number's turn; nothing is assumed to be refused, or sent.
Failures are never forced by fairness: a crash, a lost answer or a reverted
transaction may happen and need not. One exception in `DepositRelay`:
`CommitProofPanics` belongs to `MonitorDeposit`, as a refused broadcast is the
goroutine's own step. In `EthereumManager` no refusal is forced at all.

## The proofs

`DepositRelayProofs` proves, from the assumptions on the constants alone, for
any number of deposits, crashes and broadcasts and every set of faults:

* `TypeCorrect`, `ProofsConfirmed`, `NothingForgotten`, `ChecksNamed`. These
  are not inductive one by one. `IInv` joins them with `InProgress`, what a
  goroutine knows half-way: the deposit being proved was deep enough at the
  height read at the beginning of the round (which the chain has not gone back
  from), and the last broadcast is the one about to be moved.
* `AllAccounted`, when no database write fails: between `PutCheck` and
  `DeleteRetry` the deposit is in both buckets.
* `NoneMissed`, when events can be fetched, writes work and no other relayer
  syncs headers: the invariant adds that all up to `currentHeight` and, while
  a dead process's header is on its way, the next block as well was recorded.
  The theorem is why the restart at the bridge chain's height is right.
* `ClosedForGood`, without a forced height and without other relayers: a block
  below the synced height is never scanned again, and a deposit is broadcast
  only when its block is below it.

`CosmosTxProofs` proves for any number of goroutines, restarts and failures
`TypeCorrect`, `NumbersUnique` and `NumbersWithoutGap`. The last one is why no
goroutine waits for a number nobody sends, as long as no number was lost; it
needs `UniqueSeq`, since the node's next number must not pass the next one
given out, and `DeadSilent`, that a dead process sends nothing.

`HeaderSyncProofs` proves, for chains of any length, any batch size, faults and
crashes:

* `TypeCorrect` and `ConfirmedOnly`. The invariant is `Ahead`: what the
  goroutine has read is behind the chain, and the block it is at exists; the
  rest is the arithmetic of differences that wrap.
* `AllLinkable`: each header queued or sent follows a header the bridge chain
  knows, since the only one queued follows what it knew and it never goes back.
* `FetchedBefore`, from `Fetched`, which says at each point which headers may
  be queued: while the events of a block are fetched its own as well.

It also proves the refinement, `ScanImplements`: every step of `HeaderSync`
is a step of `DepositRelay` without deposits, or changes nothing of it. With
`NoneMissed` this is why no deposit is missed by the goroutine as it is. It needs
two more invariants: the scan is where the goroutine is, except in a roll back
(`ScanHere`), and the batch that is waited for is the last one of the mempool
(`WaitsForLast`). From these and `Linkable` it follows that a block of the bridge
chain extends it by at most one header, whose block was scanned if its sender
lives, and that is `flight` if it does not (`BridgeBlockImplements`,
`DeathImplements`).

`EthereumManagerProofs` proves of the composition, for any number of deposits,
broadcasts, numbers and crashes and every set of its faults:

* `ManagerTypeCorrect`, `ManagerRelays`, `ManagerMissesNone` (when events can
  be fetched, writes work and no other relayer syncs headers),
  `ManagerClosesForGood` (without a forced height and without other relayers)
  and `ManagerNumbers`: what `DepositRelay` and `CosmosTx` promise, under the
  same conditions, is still true when they share a process. Each step of the composition is a step of
  `DepositRelay` or the death of its process (`RelaySteps`), and a step of
  `CosmosTx` or its death (`TxSteps`); the modules' own lemmas, which treat a
  step and a death apart, are then used as they are. The composition conjoins
  the actions of the modules, so that what one of them does not allow would
  simply not happen; the next two theorems show that they do not get in each
  other's way.
* `NoHeaderPassed`, from `InStep`, which says of each point of the loop that
  the scan is not ahead of the bridge chain unless the next header is queued, on
  its way, or failed. It needs `Found`: when the header that is waited for is
  in a block, no other header is left in the mempool, since the last one sent is
  the one waited for.
* `FlightsAgree`, from `Queued`: a header is queued only when the bridge chain
  has its parent, and its block is being scanned or was. So whenever the
  mempool holds the next header, `DepositRelay` lets the bridge chain take it.
  A header that fails is lost for `DepositRelay` only when it is not in the
  mempool a second time (`ComesAgain`).

`BridgeRelayProofs` proves `TypeCorrect`, `ConfirmedOnly` (for
`FirstHeight >= 2`: on a chain of one block the height wraps) and
`NoBlockSkipped` (when the epoch is known, `EpochKnown`), for any number of
blocks below the width of the words, senders and crashes. The invariant of the
last one relates four heights: what is in the database, after the cut to 32
bits, is below all that was not handled. `BlockHandlingProofs` proves that the
handling query by query implements the one step (`HandlingImplements`), so that
these theorems hold of it, and that a block goes out complete
(`BlocksComplete`) for any number of entries and any size of a page: what was
read is the first pages, and the number of pages covers all entries. From the
same invariant follow the types, with a bound on the pages asked for
(`HandlingTypeCorrect`). `AccountsDrawnByBalance` holds for any number of
accounts and any balances: sums below half the width are not cut (`NotCut`), so
the numbers that choose an account are those above the sum before it, up to its
own (`ChosenInterval`), and an interval has as many numbers as it is long. That
the sums exist and grow is shown by a smallest counterexample (`SumsExist`,
`SumsGrow`, `Least`), since the induction theorems of the library are out of
reach.

`EthSendProofs` proves, for any number of routes, of nonces and of transactions
in a channel, and for all failures and crashes:

* `TypeCorrect` and the refinement `NonceManagerImplements`. The invariant is
  `Owned`: a nonce that was given out has one holder or waits once among the
  returned ones, which are in ascending order. The code sorts the array after
  each return; the model says that some permutation sorts it, and the lemma
  `SorterExists` gives one, so that the array stays sorted without a
  repetition (`ReturnedSorted`).
* `NoncesUnshared`, that no nonce has two holders, which `NonceAllocator` with
  its *set* of held nonces does not say of the goroutines; it is a part of
  `Owned`, and holds also after a nonce was given back that Ethereum has taken.
* `NothingLost`, that is `NoncesConserved`. It holds because of `Parts`: as long
  as no nonce in use counts as unused, the nonces given out fall into four
  disjoint parts; with `Owned` each part has as many nonces as places, so that
  the numbers add up (`Counts`).

Every invariant and every safety property of the passing runs is a theorem.
Only model-checked are the liveness properties (`EventuallySubmitted`,
`HeadersFlow`, `ConfirmEnds`, `AllRelayed`, `SendsEnd`, `Delivered`, `WaitsEnd`,
`MonitorGoesOn`): fairness rests on ENABLED, which is out of the prover's reach.

## Not modelled, and the plan

1. Proofs about the larger composition below, and of what the allocator of
   `EthSend` promises in terms of the order in which nonces are handed out.
2. A larger composition: two deposits and a lost mempool in `EthereumManager`,
   and a run of it with failed writes.
3. Pure code as functions against reference definitions: the target filter
   (`ethereumManager.go:337-360`), `EncodeBigInt`, `CalcCosmosFees`.
4. Start of the program: flags that are read and not registered, `-ethereum`
   overwritten by `init`, the field `CMCdc`.

`DecreaseAddressNonce` and `clearNonce` of the nonce manager, `GetBridgeTxs`, and
`UpdatePolyHeight` and `GetPolyHeight` of the database have no caller and are
not modelled.

Left out for good: log, configuration files, REST and JSON, key store and
signatures, which are pure input and output or cryptography; their failures
are faults of the modules.
