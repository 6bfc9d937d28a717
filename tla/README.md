# Nogrod: a TLA+ model of the pool

Nogrod is a mining pool for Burstcoin, written in Go. Miners (or nodes that
collect for miners) submit nonces; the pool computes the deadline of each one,
keeps the best of every block round, submits it to its wallets when it comes
due, credits the rewards of won blocks to its miners and pays them out. This
directory holds TLA+ models of the parts that carry this logic, the TLC
configurations that check them on small instances, and TLAPS proofs of the
properties that matter most.

## 1. Inventory

### Components, state, operations

| Component | Source | State | Operations | Model |
|---|---|---|---|---|
| Deadline request handler | `pkg/burstmath/burstmath.go` | the collector's slots, `pending` and timer; a bounded channel of batches; the lanes of each worker | `CalcDeadline`, `collectDeadlineReqsAVX2` and `...SSE4`, `processReqs`, `Stop` | `DeadlineHandler` |
| Block windows | `pkg/modelx/cache.go` | two sorted linked lists of heights with an index each | `AddBlock`, `WasSlowBlock` | `BlockWindow`, `TopWindow` |
| Rounds and deadlines | `pkg/modelx/modelx.go` | current block, block rows, nonce rows, cached `Miner` objects, `newBlockMu`, one `dbMu` per miner | `MaybeSwitchOrNewBlock`, `newBlock`, `UpdateOrCreateNonceSubmission`, `FirstOrCreateMiner` | `Rounds` |
| Forge loop and handlers | `pkg/pool/pool.go` | best submission, submit timer, unbuffered channel; `block.best_nonce_submission_id` | `processSubmitNonceRequest`, `nodeServer.SubmitNonce`, `forge`, `submitNonce`, `checkAndAddNewBlock`, restart | `Forge` |
| Rewards and payout | `pkg/modelx/modelx.go`, jobs goroutine of `pkg/pool/pool.go` | `account`, `transaction`, `transaction_recipient`, `block.winner_verified` | `RewardBlocks`, `SetMinPayout`, `rewardBlock`, `createTransactions`, `validateTransactions`, `sendMoney` | `RewardSplit`, `Payout`, `Payments` |
| Wallet handler | `pkg/wallethandler/wallethandler.go` | none between calls; the goroutines and answers of a running request | `reqAll`, `reqRandom`, `GetMiningInfo`, `GetGenerationTime`, `SendPayment(s)`, `GetTransaction`, `WonBlock`, `SubmitNonce`, ... | `WalletHandler`; what `GetTransaction` and `WonBlock` tell, in `Payout`; `SubmitNonce` in `Forge` |
| Database cleanup | `pkg/modelx/modelx.go` | `block`, `nonce_submission`, `miner`, `account`, `transaction_recipient` rows and their foreign keys | `CleanDB` | `Cleanup` |
| Web server, websocket clients | `pkg/webserver` | the block info shown, the set of clients, per client one channel, a reader, a writer and a subscription | `cacheUpdateJobs`, `webSocketJobs`, `webSocketHandler`, `read`, `write`, `subscribe`, `QueueMsg` | `WebSocket` |
| Reed-Solomon addresses | `pkg/rsencoding/encoding.go` | none | `Encode`, `Decode` | `RSEncoding` |
| Wallet HTTP client, configuration, main, logger, mocks, generated protobuf code, Shabal kernels, migrations | | | | not modelled, section 8 |

### How they interact

```
 miners --HTTP--> processSubmitNonceRequest --+--> DeadlineHandler (CalcDeadline)
 nodes  --gRPC--> nodeServer.SubmitNonce -----+--> UpdateOrCreateNonceSubmission (dbMu)
                                              |        '-> MaybeSwitchOrNewBlock (newBlockMu)
 poller --ticker--> checkAndAddNewBlock ------|--------------'   '-> block windows
                                              '--> channel --> forge --> wallets
 jobs   --ticker--> RewardBlocks, Payout, CleanDB ------------------> database, wallets

 cache --ticker--> cacheUpdateJobs --channels--> webSocketJobs --msgs--> clients
```

Everything left of `forge` runs concurrently: one goroutine per request, the
poller, the jobs goroutine, forge, the two goroutines of the web server and
three for each of its clients. Every request to "the wallet" is one goroutine
per wallet, or a walk over the wallets in random order. Memory (`Cache`, the `Miner` objects,
forge's best submission) and the database hold overlapping facts; only the
database survives a restart.

### What is hard

* *Interleavings*: the current block is read before `newBlockMu` is taken; the
  windows and miners' maps are read under no lock; the node handler reads the
  round twice; a handler holds a `dbMu` while it waits for `newBlockMu`; three
  goroutines send on a client's channel and a fourth closes it; submissions
  come in between the statements of `CleanDB`, whose deletes cascade.
* *Order*: heights and submissions arrive out of order; a late submission, or a
  wallet that lags, may open a block below the current one; a client is greeted with a block info
  read before it is registered for updates.
* *Failure*: crashes between a payment and its record; broadcasts whose errors
  are ignored; wallets that fail, lag behind or are on different forks; a
  restart in mid-round; connections that stall or break; a cleanup that stops
  half way.
* *Time*: a stale batching timer, a submit timer that comes due during retries,
  payments retried after the deadline of the chain transaction.
* *Bounds*: full batches and a full batch channel, full windows, rows with a
  maximal number of recipients, rounding of shares, balances equal to a fee, a
  full message channel, account ids up to the greatest uint64.

`PROJECT.json` lists each of these under "hazards", with its line and the
property that would catch it going wrong.

## 2. Modules

| Module | Role |
|---|---|
| `DeadlineHandler` | batching request handler |
| `TopWindow` | abstract specification of a window: the `Size` greatest heights seen |
| `BlockWindow` | the linked lists of `cache.go`, which implement two `TopWindow`s |
| `Rounds` | opening of rounds against concurrent submissions, using `TopWindow` for the windows; `MCRounds` adds the symmetry |
| `Forge` | handlers, forge loop, poller, restart |
| `RewardSplit` | the arithmetic of `rewardBlock` |
| `Payments` | abstract specification of a ledger: amounts are fixed, a payment is made once and closed after that |
| `Payout` | the money path, which implements `Payments`; `MCPayout` gives capacities and symmetry |
| `WalletHandler` | requests to several wallets; `MCWalletHandler` gives the timestamps of two forks |
| `Cleanup` | `CleanDB` against the other goroutines; `MCCleanup` adds the symmetry |
| `WebSocket` | the live part of the web server |
| `RSEncoding` | addresses and their errors; `MCRSEncoding` gives the ids and messages |
| `DeadlineHandlerProofs`, `BlockWindowProofs`, `RoundsProofs`, `ForgeProofs`, `PayoutProofs`, `WalletHandlerProofs`, `CleanupProofs`, `WebSocketProofs` | the theorems about the module of that name, section 7 |

Definitions whose comment starts with "Mutant" are deliberate faults: each
replaces one definition to show that a property is sensitive to it.

### DeadlineHandler

`caller[r]` follows one `CalcDeadline` call; `slots`, `pending`, `armed` and
`coll` are the locals of `collectDeadlineReqsAVX2` (and `...SSE4`); `queue` is `batchReqs`; `wpc`,
`batch`, `lane` and `creqs` are the locals of `processReqs`. A send on an
unbuffered channel is one joint step of sender and receiver (`Collect`,
`Answer`, `StopWorker`, `StopCollector`). Requests are pointers: slots, queued
batches and lanes may still point to an answered request, as in the code, where
neither the slots nor the timer are cleared after a full batch. `native[r]`
says whether the kernel has written the deadline of `r`. The hash is abstracted
to the set of lanes it writes.

### BlockWindow and TopWindow

`heights[k]` is the list of a window, `index[k]` the keys of its map. The walk
from the back of the list is `PositionOf`; `Insert` and `PushFront` are the two
branches of `add`, `Known` its early return. `removed` is the returned height,
which `newBlock` takes out of every miner. `offered` is a history variable.

### Rounds

`call[p]` is a running `MaybeSwitchOrNewBlock` (`read` the old block, `lock`,
add a block to a window, insert the `row`, then `range` over the miners),
`req[r]` a running submission. Handlers look at the windows between any two of
these steps; one that finds a height whose row is still to come skips the
opening and fails at the foreign key. The poller asks for any height the chain
has reached: `GetMiningInfo` is the greatest of the wallets that answered, which
may be below the current block. `obj` are the
`Miner` objects and `cache` the map that points to them: an object dropped from
the cache lives on in the handlers that hold it. The unique key of
`nonce_submission` and its foreign key guard the INSERT; the primary key of
`block` decides whether `MustExec` panics. Results of `WasSlowBlock` are taken
in the order the code takes them. `switchBlock` is the error it always returns
(its UPDATE names a column that does not exist), so signatures carry no state.
`weightDeadline` is the deadline (one base target). `lost` is a history
variable: the heights that ended while no wallet told their generation time, and
so are in no window.

### Forge

`req[r]` is a handler between its steps; `rows`, `dbBest` are the database;
`best`, `timer`, `tries` the locals of `forge` and of a running `submitNonce`.
`height` and `sig` of a submission are its labels, `of` the round the deadline
was computed for. A wallet accepts a deadline only while it mines on that
round. `tries` counts the attempts of one `submitNonce`. `Restart` keeps the
database and calls `NewPool`: the best submission is
restored without its signature, since the query does not select it. Time is
abstract: an armed timer may fire at any moment.

### Payout, Payments and RewardSplit

`jobs` is the phase of the jobs goroutine, `todo` what its loop has still to
handle. Each action is one database transaction or one wallet call, so `Crash`
can fall between any two. A row is `unsent`, `sent`, `confirmed` (it got a
block height) or `deleted`; `aged` says its `created` is more than a day old.
The chain knows a transaction as `dead`, in the `pool` of unconfirmed ones or
`mined`; `DayPasses` kills what was not mined, because `sendMoney` gives
transactions a deadline of 1440 minutes. Ids of dead transactions no row holds
may be used again, which keeps the model finite; `recorded` then forgets the
old use. Shares are exact fractions rounded to planck, as `round` does it.

Seen as `Payments`, a row is booked when it is not `unused`, paid by the recorded
transactions of its own that are mined (before they are recorded or later), and
closed when it is confirmed or deleted. What creates, sends, loses, validates and
sends again in between are stuttering steps.

### WalletHandler

`view[w]` is the chain of a wallet, its fork and last height; forks share the
blocks up to `ForkPoint`. Two goroutines use the handler at once: `poll` is the
request the poller waits for, `pay` that of the jobs goroutine. A request
holds the wallets that have not answered yet and the answers in the order of
their arrival, which is what `reqAll` collects under its mutex; in `reqRandom`
the wallets still to be asked take the place of the random order. An answer is
taken from the wallet's chain at the moment it is given, so the two timestamps
of `GetGenerationTime`, which are two requests, may come from different wallets
or from one that has moved to another fork. `genTime` is the column
`newBlock` writes: the new row starts with the time of its predecessor, or 0,
and is corrected one block later if a wallet answers then. When the wallets that
answer lag, the height is below the current block: `newBlock` refuses what is in
a window or too old, opens a block that was skipped, with its own time or the
fallback of four minutes, and panics over a row that is there. `window` are the
heights that were ever added to one, since `newBlock` refuses a height that a
window has dropped as too old (`RoundsProofs`, `DroppedIsOld`). `SendPayment` has
every wallet create a transaction without a broadcast and broadcasts the first.

### Cleanup

`CleanDB` is three steps, `CleanBlocks`, `CleanMiners` and `CleanAccounts` (or
`CleanFails`, the rollback of the last), each one statement or one transaction.
`nonce`, `miner`, `account`, `owed` are the tables as sets of keys; the
cascades of the schema are part of the step that deletes. `req[m]` is a
submission between `FirstOrCreateMiner`, its INSERT and forge's update of the
block's best submission. `Credit`, `Book` and `Paid` are what the jobs goroutine
does with money between two cleanups; `Payout` has them in detail. `total`,
`settled` and `forfeit` are history variables: what was credited and not paid
out, the miners a cleanup found submissions of, and the accounts it deleted while
a payment to them was booked and not sent.

### WebSocket

`updater` is `cacheUpdateJobs`: in its select, or blocked in one of its two
sends. `jobs` is `webSocketJobs`; the set `todo` are the clients
`sendToClients` has still to serve. `client[c]` holds the four goroutines of a
connection (the HTTP handler, `read`, `write`, `subscribe`), its channel and
what the network does to it. `QueueMsg` is a check of the length and a send,
two steps, as in the code; the send waits for room and panics on a closed
channel, which ends the process. `ReadMessage` may fail at any time, over a good
connection too: the peer sends a closing or a malformed frame. The reader then
closes the connection and ends. Tickers may fire at any moment. What the
cache holds when `cacheUpdateJobs` looks is any block and any best submission.

### RSEncoding

`Encode` and `Decode` are operators on symbol numbers, with the tables of the
source. The two conversions between bases are long division, digit by digit, as
in the code, since an account id does not fit TLC's integers; both directions
are `Divide`. The address is then mistyped, cut or doubled and read again.

## 3. Runs

| Run | Configuration | Bounds | Shows |
|---|---|---|---|
| `deadline` | `MCDeadlineHandler.cfg` | 4 requests, 2 workers, 3 lanes | answers meet their own callers, lanes are never nil, no array is freed in use, every call returns |
| `window` | `BlockWindow.cfg` | 6 heights, windows of 3 | lists and index agree, refinement of `TopWindow`, drops are reported |
| `rounds` | `MCRounds.cfg` | 1 HTTP and 2 node submissions, 1 miner, 3 heights, windows of 1 | memory and rows agree, rows only improve, no deadlock, `newBlock` meets a row in two ways only |
| `forge` | `Forge.cfg` | 3 requests, 2 miners, 2 rounds, 2 deadlines, 1 restart | best of what was delivered, restart finds it, it is sent, handlers return |
| `payout` | `MCPayout.cfg` | 2 miners, 2 blocks, 2 rows, 2 chain ids, 1 crash | conservation of money, one credit per block, one payment per row, refinement of `Payments` |
| `payout_live` | `MCPayoutLive.cfg` | 2 rows, 3 chain ids, 1 crash | a payable row is eventually paid and closed |
| `wallethandler` | `MCWalletHandler.cfg` | 2 wallets, 2 forks that part after block 1, 3 heights, 1 change of fork, 1 payment | a payment is broadcast once, only a block without a generation time makes the poller panic, the round catches up |
| `cleanup` | `MCCleanup.cfg` | 2 miners, 3 heights, 1 block kept, 2 planck | no planck is doubled, one is lost only with an account that has a payment booked, settled miners keep their accounts |
| `websocket` | `WebSocket.cfg` | 1 client, a channel of 1 message, 2 heights, 2 deadlines | clients see time go forward, no goroutine outlives its client, a send panics only while its client is closing, updates flow |
| `rsencoding` | `MCRSEncoding.cfg` | ids of 1 to 20 digits, up to 4 wrong symbols | decoding undoes encoding, errors are refused, addresses are unique |
| `rounds_race`, `cleanup_active` | `RoundsRace.cfg`, `CleanupActive.cfg` | smaller | the disagreements of section 6 |

Why the bounds are enough for the cases of interest:

* `deadline`: four requests make a full batch of three and a rest that needs the
  timer, or two timed-out batches for two workers; a stale timer then dispatches
  an empty batch; the queue holds `WorkerCount` batches, so a full queue blocks
  the collector.
* `window`: six heights over a window of three, in every order, drop from the
  front, refuse at the front and insert in the middle.
* `rounds`: with windows of one block, the second round already drops one. Two
  node submissions and the poller compete for one block, and two objects of the
  miner can exist at once, one of them dropped from the cache, so that the walk
  over the miners is interrupted. More miners are left to the proofs.
  `First >= NAVG + InactiveAfter` is assumed: below such heights unsigned
  differences wrap, far below the real chain. Both
  panics that `PanicExplained` names happen within these bounds.
* `forge`: two deadlines tell better from worse; two rounds and a node
  submission for either give every order of arrival; `Retries` is 3 as in the
  code. The deadline limit is off, it only removes requests.
* `payout`: both miners fit in one row; a daily message, a threshold message
  and days passing give every kind of due date; height 2 is one nobody submitted for.
  With two chain ids a row can be sent, lost and sent again. `MaxRows` bounds the
  payouts that are made; once it is reached the phase ends without one, as it
  does in the code when the transaction is rolled back.
* `wallethandler`: the two wallets can differ in height and in fork, and either
  may answer first or not at all; three heights let the round skip one, and a
  wallet that lags ask for the one skipped or for one whose time was lost. A second
  payment would start from the state the first one found.
* `cleanup`: keeping one block behind the current one and dropping miners after
  one block makes both limits bite at the third height. Two miners are enough
  for a cascade that takes the block of one and the submission of the other.
* `websocket`: clients share only `webSocketJobs`, which serves them one after
  the other, so a second client adds no interleaving on the first one's channel.
  A channel of one message is full after one, and its three senders meet at its
  last place. Deadline 0 means that there is none yet.
* `rsencoding`: ids of every length with one odd digit at every place, and the
  greatest uint64; messages on both sides of 2^64. Wrong symbols are taken at
  all places with eight deltas for one or two errors, two deltas for three or
  four. The code is linear, so what is tried on one address stands for all.

Deadlock is checked where the system must go on (`window`, `payout`,
`payout_live`, `cleanup`). `wallethandler` and `rounds` stop in the panic of
section 6. The handler models stop when all
bounded requests are served; there, hanging is excluded by `EveryCallReturns`,
`HandlersReturn` and `NobodyHangs` instead. In `WebSocket` a stalled
peer can hold everything up for ever, see section 6, and an address is read once.

## 4. Properties

* `AnswerFindsCaller`, `OwnDeadline`, `NoNilLane`, `TimerCoversPending`,
  `NoUseAfterFree`, `EveryCallReturns`: the request handler answers everyone
  once, with a deadline computed for that request.
* `ListMatchesIndex`, `RemembersGreatest`, `WindowsRefine`,
  `RemovedIsReported`: the window holds the greatest heights of the whole
  history, and the caller hears of exactly what leaves.
* `MemoryMatchesRows`, `RowsImprove`, `WindowsConsistent`, `NobodyHangs`: what
  memory keeps is what the database keeps, nothing is lost or worsened, a height
  of a window has a row or is the one about to be inserted, and the lock order
  deadlocks nobody. `NobodyHangs` is stated with the guards of the
  steps instead of ENABLED, so that it can be proved.
* `PanicExplained`: an INSERT of `newBlock` that fails has one of two causes, a
  stale read or a lost generation time.
* `BestCoversDelivered`, `RestartFindsBest`, `BestIsTried`, `HandlersReturn`:
  forge keeps the best of what reached it, the database can restore it, it is
  tried, and no handler is stuck on the channel.
* `MoneyConserved`, `CreditBounded`, `NoDoublePayout`, `PaymentsRefine`,
  `RowsSettle`: every planck credited is pending or
  on exactly one row, no block is credited twice, no row paid twice; the rows
  implement the ledger of `Payments`, whose steps also keep the amounts of what
  is booked.
* `OnePayment`, `PanicNeedsLostTime`, `RoundCatchesUp`: of the transactions all
  wallets create for one payment the network sees at most the one whose id is
  recorded; the poller inserts a row that is there only for a block that ended
  while no wallet told its time, however wallets lag, fail and fork; and unless
  that happens, lagging wallets do not hold the round back.
* `MoneyKept`, `SettledKept`: a cleanup moves balances, doubles nothing and loses
  no pending planck; what is booked and not sent is lost with the account it is
  for, and only then. It never deletes the account of a registered miner whose submissions it found, whatever
  cascades and submissions come in between.
* `EndedIsSilent`, `PanicWhileClosing`, `ShownForward`, `UpdatesFlow`: a client
  that was removed has no sender left; the server sends on a closed channel only
  between the reader's `close(msgs)` and the removal of the client, or if the
  client was registered after its reader had ended; no client is shown an older round or a worse
  deadline than before; and while connections take data, `webSocketJobs` is
  never blocked for good behind the other senders.
* `RoundTrip`, `ErrorsDetected`, `OneAddress`: an address is read as the account
  it was written for, or refused.

`NoDoublePayout` excepts payments whose id was never recorded: the comment in
`sendMoney` concedes the crash between payment and UPDATE.

## 5. Fairness

* `DeadlineHandler`: weak fairness of the collector, each worker and Stop; the
  Go scheduler runs what can run and timers fire. Nobody is obliged to call.
* `Forge`: weak fairness of handlers between their steps and of the attempts of
  `submitNonce`; strong fairness of `TimerFires` and of `Deliver`, because a
  select with several ready cases chooses at random and senders on a channel
  queue first in, first out. New rounds and restarts are not fair.
* `Payout`: weak fairness of the jobs goroutine (tickers) and of days. Strong
  fairness of the outside world: a payment tried again and again is sent, one
  broadcast again and again is mined, a query repeated is answered. Without
  these a pool can never pay, whatever its code does.
* `WalletHandler`: weak fairness of the poller and of every request, which ends
  with an answer or with the client's timeout; strong fairness of an answer to
  `GetMiningInfo` from each wallet, since a wallet that fails for ever tells the
  pool nothing. Wallets need not learn blocks, and payments need not be made.
* `WebSocket`: weak fairness of `sendToClients` and of the writers, strong
  fairness of the receive of an update and of the send to a client: selects
  choose at random among ready cases, and the senders of a channel queue first
  in, first out. Peers, tickers and the network owe nothing.
* `Cleanup` and `RSEncoding` state no liveness. `Rounds` states none; `NobodyHangs` is an
  invariant.

## 6. Findings

Two are runs that are expected to be violated.

1. `rounds_race` (`modelx.go:441`): the poller and a node submission may open
   the same block; the second INSERT panics. There is a second way to the same
   panic: a block that ends while no wallet tells its generation time
   (`modelx.go:489`) is in no window, so that a late node submission opens it
   again, or a wallet that lags makes the poller do so. `PanicExplained` shows
   that these two are all. The run checks `OnlyLostPanics`, which excepts the
   second: the race needs no failure of a wallet.
2. `cleanup_active` (`modelx.go:358`): an account with a recent submission is
   deleted if its miner row is missing. That happens when the submission comes
   between the statements of `CleanDB`, and after a cleanup whose last
   transaction failed: `FirstOrCreateMiner` then finds the account and never
   creates the miner row again.

The models also reach the following. The first five are stated as definitions
in the modules, which no configuration lists; add the name to see the trace.

* `AmountsPositive` in `MCPayout.cfg` (`modelx.go:1087`): a balance equal to
  `MinerTxFee` with a due date becomes a payment of 0, which wallets refuse,
  with its whole row.
* `NeverWorse` in `Forge.cfg` (`pool.go:101`): the best submission a restart
  restores has no signature, so a worse deadline of the same round replaces it.
* `BestOfItsRound` in `Forge.cfg` (`pool.go:341`): a node's deadline may be
  labelled with the round after the one it was computed for.
* `OnlySlowCounted` in `MCRounds.cfg` (`modelx.go:722`): the swapped results of
  `WasSlowBlock` let a late submission for a fast block count for its miner's
  capacity.
* `NoDoublePayout` in `MCPayout.cfg` with a wallet in `Lagging`
  (`wallethandler.go:287`): one wallet that says "Unknown transaction" is
  believed for all; if it lags behind, a mined payment is sent again.
* A send on a closed channel (`client.go:50`): `webSocketJobs` or `subscribe`
  have checked for room, or check afterwards, while the reader closes the
  channel, after the connection broke or its peer closed it.
  `PanicWhileClosing` bounds it.
* `webSocketJobs` blocked behind one stalled client (`client.go:79`): `QueueMsg`
  drops messages only if the channel is full when it checks. `UpdatesFlow`
  excepts it.
* A row that keeps the generation time of the block before it when no wallet
  answered (`modelx.go:489`), and a generation time whose two timestamps are of
  different forks (`wallethandler.go:228`), which may be negative; `TimesTold`
  says what the column does hold.
* A payment that is booked and not sent, deleted with its recipient's account by
  `CleanDB` (`modelx.go:358`): the balance is gone and nobody gets the amount.
  `MoneyKept` excepts it.
* `Stop` blocked for ever behind a collector that is blocked in its send
  (`burstmath.go:234`); a `WeightedDeadlineSum` that drifts after an improved
  current deadline (`modelx.go:716`); and a second "now" message taken for one
  already served (`modelx.go:1334`).

## 7. Proofs

All theorems hold for every value of the constants that meets the ASSUMEs; the
bounds of section 3 play no part. Each module states an inductive invariant,
proves that every action keeps it, and derives the properties the runs check
from it. TLC has checked the invariants on the instances of section 3 as well.
The assumptions are what the code or its configuration grants: finitely many
miners and heights, amounts and timestamps that are natural numbers, a batch of
at least two lanes, shares between 0 and 1, at least one recipient per row, and
values like `Null` that are none of the others.

**`DeadlineHandlerProofs`** (any set of requests, any number of workers, at
least two lanes):

* `TypeCorrect`: `Spec => []TypeOK`. `TypeOK` is not inductive: a worker might
  count past its batch. `TypeInv` adds where `lane` stands in each state of a
  worker.
* `PendingTimed`, `LanesReal`, `FreedUnused`: `TimerCoversPending`, `NoNilLane`
  and `NoUseAfterFree`. `LaneInv` adds that slot 0 holds a request as soon as
  anything was collected or a timer armed (this is what makes the empty batch of
  a stale timer harmless), that slots below `pending` and batch positions below
  `total` are requests, and that workers Stop has passed are stopped.
* `AnswersFind`, `OwnAnswers`: `AnswerFindsCaller` and `OwnDeadline`. `OwnInv`
  says that an accepted request has exactly one live position among the
  collector's slots, the queued batches and the workers' batches, though stale
  pointers to it may be anywhere; `AnswerInv` that what a worker hands out is
  computed.

**`BlockWindowProofs`** (any heights, any length of the windows):

* `ListsMatch`, `Remembers`, `RemovalsReported`: `ListMatchesIndex`,
  `RemembersGreatest`, `RemovedIsReported`. `BlockWindowInv` says of each window
  that its list is ascending, has the members of the index, as many as there
  are, and that these are the `NAVG` greatest of all heights offered.
* `WindowsImplement`: the specification implements two `TopWindow`s. The heart
  is a lemma on sets: the greatest of a set and a new member are the greatest of
  the greatest of the set and that member, so a window may forget what it
  dropped. A step of one list is a step of its window and a stutter of the
  other.

**`RoundsProofs`** (any submissions, miners, heights, objects and windows):

* `RoundsTypes`: `TypeOK`; `ProcInv` adds that a running submission has a miner,
  an object, a height and a deadline, and that a running call belongs to the
  poller or to a submission that waits for it.
* `WindowsAgree`, `RoundNeverBack`: `WindowsConsistent` and `RoundAdvances`.
  `WindowInv` adds that the current block has its row and is in no window unless
  a block is just being opened, and what then holds of the two blocks: a window
  is filled before the row is inserted, and the height without a row is the one
  of the call that holds `newBlockMu`. `RoundAdvances` is only
  proved: no run lists it.
* `MemoryAgrees`, `RowsOnlyImprove`: `MemoryMatchesRows` and `RowsImprove`. The
  cache may drop an object that a handler still writes through, and a second
  object for the same miner may then exist. `MemoryInv` says why they do not
  disagree: an object keeps a deadline only for rows it inserted itself, and the
  unique key lets only one of them insert.
* `NobodyEverHangs`: `NobodyHangs`. `WaitInv` adds that a submission that
  waits for a call has one, that the holder of `newBlockMu` is opening a block,
  and that a miner it has still to see is still in the cache: nobody else
  deletes one meanwhile. So a chain of waiting ends at a caller with something to
  do, whatever the number of submissions.
* `PanicsExplained`: `PanicExplained`. `LostInv` says where a block row can be: it
  is of the current block (or of the one being opened to be it), in a window, in
  `lost`, or more than `NAVG` below. The last is the lemma `DroppedIsOld`: what a
  full window of heights below `R` drops has `NAVG` heights between itself and
  `R`, so `newBlock` refuses it as too old.
* `PollerPanicsOnLostOnly`: if `NodeReqs = {}`, `OnlyLostPanics`. `PollerInv` says
  that only the poller opens blocks, so the current block is still the one it has
  read when it gets `newBlockMu`; of the two ways of `PanicExplained` the stale
  read is then impossible. The other remains, since a lagging wallet may ask
  for a block that ended without a generation time. `rounds_race` shows that
  one node is enough to break the property.

**`ForgeProofs`** (any requests, miners, rounds, deadlines, restarts):

* `ForgeTypes`, `BestCovers`, `RestartFinds`: `TypeOK`, `BestCoversDelivered`,
  `RestartFindsBest`. `ForgeInv` adds that a handler past its checks carries a
  real deadline, whose row is at least as good once it is stored; that the best
  submission has the signature of its round unless it was restored, and then
  forge was handed nothing yet; and that a block row names only a nonce row
  there is. `TypeOK` bounds the attempts of a `submitNonce` by `Retries`, which
  its last attempt must respect, and the round by the chain.

**`PayoutProofs`** (any number of miners, blocks, rows, chain ids, wallets and
crashes, any fees, shares and capacities):

* `ClosedPaid`: `ClosedIsPaid`, lagging wallets or not. `BookInv` says that rows
  are used in order (`RowOrder`) and linked to their own transactions
  (`RowLink`), that what is old enough to be validated is not in the pool any
  more (`AgedSettled`), and that what is about to be recorded is fresh
  (`SendingFresh`). `ClosedIsPaid` is only proved; what the run checks instead,
  `PaymentsRefine`, implies it.
* `PayoutOnce`: if `Lagging = {}`, `NoDoublePayout`. `LiveLink` adds that a
  recorded transaction that is not dead is the one its row points to: without it
  nothing is said of one that is still unconfirmed while its row is validated.
  The assumption is needed: with a lagging wallet TLC finds a row paid twice.
* `PayoutImplementsPayments`: if `Lagging = {}`, the specification implements
  `Payments`. A payout books new rows, the validation that finds a transaction
  closes its row, and the step that pays is either `Mine`, for a recorded
  transaction, or `RecordTransaction`, for one that was mined before; `LiveLink`
  shows that it is the first one of its row. All other steps, resending included,
  leave the ledger alone.
* `CreditsBounded`: `CreditBounded`. `MoneyType` adds that a block that is not
  verified has no credit and that the loop has only such blocks left, so a block
  is credited once. The bound comes from `SharesFacts`: pool fee, winner's part
  and remainder make up the reward, and rounding `n / d` adds at most `d / 2` to
  `d` times the result, for each miner.
* `MoneyIsConserved`: `MoneyConserved`. Messages move their fee, a reward adds
  the same sum to balances and credit, and of a payout the lemmas show that the
  recipients are distributed over exactly the new rows, each in one of them
  (`RecipientsPartition`), so what the rows hold with their fees is what the
  payees lose less what the fee account keeps.
* `PayoutTypes`: `TypeOK`, with the type of `todo` and `sending` per phase.

The sums are `SumFunctionOnSet` over finite sets. The module begins with the
lemmas on it (one value changes, two functions are added, a set falls into two
parts or into the fibres of a function), which are proved by induction over the
subsets of a finite set, the property given as a set of sets.

**`WalletHandlerProofs`** (any wallets, forks, timestamps, payments):

* `PaidOnce`: `OnePayment`. `PayInv` adds that all a running call has created
  carries its number and that what is on the network was returned by its call or
  is what the running call broadcasts.
* `PollerPanicsExplained`: `PanicNeedsLostTime`. `RowInv` says that a row is of
  the current block, of one that went through a window, or of one that was lost;
  `PollInv` that the height being opened is neither the current one nor in a
  window, from the answer of the wallets to the INSERT.
* `TimesKept`: `TimesTold`, that the row of a block that went through a window
  holds the difference of a timestamp told for it and one told for the block
  before, or the fallback, whatever is written to the column later. The two may
  be of different forks. `PollInv` keeps where the first of them comes from. No
  run lists it.

**`CleanupProofs`** (any set of miners, any heights and limits):

* `SettledAccountsKept`: `Spec => []SettledKept`. The accounts deleted are those
  without a miner row, so the argument goes through the miner rows: `SettledInv`
  adds that miner rows have accounts; that before the second statement the
  settled miners still have a submission and a miner row, for new blocks and
  submissions only add; and that before the third they have kept the miner row.
  After that the accounts are deleted and nothing else takes one away.
* `OnlyForfeitsLost`: `Spec => []MoneyKept`, for finitely many miners. `MoneyInv`
  adds that amounts are natural numbers and that only accounts of miners are
  deleted. In the third statement the fee account gets the sum over the deleted
  accounts and itself, which is what these accounts held together; what was
  booked for them is lost, and they are in `forfeit` then. The lemmas on sums are
  those of `PayoutProofs`.

**`WebSocketProofs`** (any clients, any capacity of their channels):

* `ShownOnlyForward`: `ShownForward`. `FlowInv` orders everything on its way to
  a client: what it was shown, what its writer holds, its queue from front to
  back, what `webSocketJobs` is about to send it, and the current block info,
  none of which comes before the one named before it.
* `EndedSilent`, `PanicsWhileClosing`: `EndedIsSilent` and `PanicWhileClosing`,
  from the life of a connection (`Life`): its channel is closed only by its
  ending reader, and its client removed only after the subscription ended; and
  `webSocketJobs` serves registered clients only, since clients leave when it is
  back in its select.

Only model-checked:

* the liveness properties (`EveryCallReturns`, `BestIsTried`, `HandlersReturn`,
  `RowsSettle`, `RoundCatchesUp`, `UpdatesFlow`): fairness is outside of the
  prover;
* `RoundTrip`, `ErrorsDetected`, `OneAddress`: `RSEncoding` uses recursive
  operators and exclusive or, for which the prover has no backend.

## 8. Not modelled

* `wallet.go`: request and reply structs and one HTTP call; its outcomes are the
  environment of `WalletHandler`, `Payout` and `Forge`.
* `config.go`, `main.go`, logging, mocks, generated protobuf code: no state of
  their own. Bounds the configuration enforces appear as ASSUMEs.
* The Shabal kernels: a hash function in C and assembler.
* Migrations: their keys are guards of the INSERTs, their cascades parts of the
  deletes.
* Rate limiting, JSON, templates, the HTML pages: no effect on the state that is
  modelled.
* In `Rounds`: the restart path (`loadCurrentBlock`, `cacheMiners`,
  `cacheBlocks`), and forks at one height, for which `switchBlock` always fails.
* `RereadMinerNames` and the getters of the web server: they copy values from
  one place to another and no guard reads them.
* In `WalletHandler`: `GetIncomingMsgsSince`, `GetRewardRecipients`,
  `CalcOptimalTxFee`: one request to any wallet, whose answer is an input of
  `Payout`.

## 9. Plan

All invariants and action properties of the runs that the prover can express
are proved. Left to model:

* `Rounds`: the restart, with the map a restarted pool rebuilds compared to the
  one it lost.

## 10. Use

```
tlc -workers 2 -config MCPayout.cfg MCPayout     # any run of PROJECT.json
tlapm PayoutProofs.tla                           # the proofs
```
