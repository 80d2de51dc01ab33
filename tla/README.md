# tradebin-mm in TLA+

`tradebin-mm` is a market-making bot for the BeeZee DEX, a Cosmos chain with an
on-chain order book.  Every thirty seconds it fills a ladder of buy and sell orders
around a start price and then trades a small volume with itself.  Two further
commands of the same binary cancel all orders and withdraw all balances.  This
directory holds models of its control, the TLC runs that check them, and proofs.

Paths below are relative to `src/`.

## 1. The system

| component | state it keeps | operations | interacts with |
|---|---|---|---|
| Broadcaster (`app/service/broadcaster.go`) | `cachedSequence`, `sequenceValid`, `accountNumber`, mutex `mu` | `Broadcast` | every writer calls it; node: account query, simulation, BroadcastTx |
| Order service, sender (`app/service/orders.go`, `sender.go`) | none | `AddOrders`, `CancelOrders`, `Send` | Broadcaster |
| Order filler (`app/orders.go`) | none between rounds | `FillOrderBook`, `fillOrders`, `cancelExtraOrders`, start price | order provider, balances, order service |
| Volume maker (`app/volume.go`, `app/dto/volume_strategy.go`) | `strategy` (direction, what remains, last run, trades) | `MakeVolume` | order provider, balances, order service, lock |
| Order provider (`app/data_provider/order.go`) | cache of orders by id, 240 minutes | queries of both sides, own orders, last trade | gRPC client, memory cache |
| Memory cache (`app/cache/memory_cache.go`) | entries with an expiry timer | `Get`, `Set` | order provider |
| Balance, market, history (`app/data_provider/`) | none | queries | gRPC client |
| Locker (`app/lock/in_memory.go`) | one mutex per key | `Lock`, `Unlock` | volume maker, gRPC client |
| gRPC client (`app/client/grpc.go`) | one connection | client factories | node |
| Application loop (`app.go`) | timer | `execute`, `afterExecute` | filler, then volume maker |
| Cancel, withdraw (`app/cancel.go`, `withdraw.go`) | none | one transaction each | provider, order service, sender |
| Wallet, configuration, entry point, logger | configuration, key | start, validation | everything |

In the running bot rounds follow each other: `execute` calls `FillOrderBook` and,
unless it fails, `MakeVolume`; thirty seconds after both are over it is called again.
What is concurrent is the outside: blocks execute what the bot has sent, other
people trade, answers are lost, another command of the same binary uses the same
account, and the process may end and start again at any point.  Nothing is
persisted.  The two sides of the book are read by two goroutines.

What is hard here, and what has to be right:

* **Sequence numbers.**  The chain answers the sequence of the last block, while the
  bot sends several transactions per block; hence a cache, which other processes,
  lost answers and forgotten transactions make wrong.  Nothing confirmed may be
  missing from the chain, the cache may be behind but never ahead, and the bot must
  recover.
* **Two pictures of the book.**  Own orders and the aggregated book come from queries
  at different moments.  No level may be filled twice, no hole may remain, own sells
  and own buys must not meet.
* **Cancel and refill.**  Both react to the same state; they must not undo each other.
* **A strategy in memory against a moving book.**  The side a strategy trades with
  may become empty or somebody else's; its amount, the distance between orders and
  between extra volumes must survive renewals, failures and restarts.
* **Hold-backs.**  The last trade in the market stands for everything that happened.

`PROJECT.json` lists the hazards one by one with the lines where they bite.

## 2. Modules

| module | models | proofs |
|---|---|---|
| `Account` | what `Broadcast` promises its callers, without sequence numbers, caches or retries | |
| `Broadcaster` | `Broadcast` of several goroutines and processes, split at its remote calls, with the node; implements `Account` | `BroadcasterProofs` |
| `Ladder` | levels of one side, its best price; `LadderPrices`, what a filled ladder is | `LadderProofs` |
| `FillOrders` | the loop of `fillOrders` | `FillOrdersProofs` |
| `OrderPrices` | start price and truncation | `OrderPricesProofs` |
| `OrdersFiller` | rounds of `FillOrderBook` against the market | `OrdersFillerProofs` |
| `Volume` | `MakeVolume` and its strategy | `VolumeProofs` |
| `App` | the loop: `FillOrderBook` and `MakeVolume` on one book with amounts, and the cache of own orders | `AppProofs` |
| `Commands` | the cancel and withdraw commands | `CommandsProofs` |
| `MCBroadcaster`, `MCFillOrders`, `MCOrdersFiller`, `MCVolume`, `MCApp`, `MCCommands` | values of the constants for TLC | |

`FillOrders` shows that the loop computes `LadderPrices` (property `MatchesLadder`,
proved for every value of the constants);
`OrdersFiller` uses `LadderPrices` in its place.  `OrdersFiller` and `Volume` take
the Broadcaster as a submission that is accepted, refused, or unanswered although
the transaction is in the mempool; `Broadcaster` shows when each can happen.  `App`
composes the two: it takes the prices from `OrderPrices` and `Ladder` and the
strategies from `Volume` (by INSTANCE), makes each call of the loop one step, and puts
a book with amounts and one trade history under both.

Definitions named "Variant of ..." are mutations of the definition they precede.  They are
used by nothing: replacing the original by the variant must break the property they
are listed with in `PROJECT.json`.

### Broadcaster

Per process: `sequenceValid`, `cachedSequence`, `mu`.  Per caller: `pc`, the local
variable `sequence`, the answer on its way.  The node is `log` (the transactions
CheckTx accepted), `committed` (how many are in blocks) and `inflight` (requests not
yet processed).  `StartCached`/`StartQuery`/`QueryAccount`/`Simulate`/`SimulateFails`/
`Send`/`Succeed`/`Rejected` are the paths of `Broadcast`; `AnswerLost` is the
return at line 266, which keeps the cache; `FailKeepingCache` stands for all error
returns that leave the cache alone.  BroadcastBlock asks for SYNC mode, so "ok" means
CheckTx, not a block.  The node's part is external: simulation and CheckTx accept
exactly the sequence that follows the accepted transactions.

### Account

The abstract account takes one request at a time into a log.  A process has one call
under way, a call makes one request, nil is returned only for a request that the log has
taken, and a request whose call has returned an error stays open: it may be taken
later, but nothing else of that process is taken behind it before a block.
`Broadcaster!ImplementsAccount` is `Account!Spec` under the refinement mapping of the
instance `Promise`: `phase` from `pc`, `open` from the requests in flight, `evicted` from the
node's having forgotten something.

### FillOrders and Ladder

Inputs (side, book, own prices, start price, amounts) are variables that never
change; `price`, `needed`, `msgs` are the loop's.  One action per path of the loop's body:
`SkipOwn`, `WrongType`, `Place`, `AmountPanics`, `SkipExisting`, `Finish`.  The own prices
are any set, not a subset of the book, because the two queries may differ.

### OrderPrices

A `LegacyDec` is an integer count of `1/One`.  `Quo` rounds twice as the library does.
`Factor` is the power of ten `TruncateToStep` derives from the printed step.

### OrdersFiller

`own`, `others`, `pending`, `last` are the chain; `mine`, `unread`, `seen`, `start`
the local variables of a round, `pc` where it is.  Each query is an action of its
own (`ReadOwn`, `CheckHistory`, `ReadSide`, `FindStart`), each submission too
(`CancelExtra`, `FillSells`, `FillBuys`).  `ReadOwnPartly` is the `continue` in
`GetAddressActiveOrders`.  The chain executes transactions in order; an order that
meets the other side takes the best order there.  Amounts are left out: an order is there or it is not,
and a trade removes it.

### Volume

`strategy` is the struct in memory (`{}` for nil), `book` and `order` what a call
carries from step to step, `history` the last trade.  The book is an input of every
call and may be anything.  `isMyOrder` compares cached data with current data and
may be wrong in either direction, so the input says both whether the first order is
called the bot's and whether the bot has orders there.  Ages count periods of thirty
seconds.  `sinceSubmit`, `lastTx`, `sinceForeign`, `sinceExtra` and `overspent`
record what happened for the properties; no action of the program reads them.
`calm` says that from now on nothing disturbs the bot.

### App

`pc` says what `execute` does next.  `Fill` is a call of `FillOrderBook`, `NoVolume` and
`MakeVolume` are calls of `MakeVolume`; `FillFails`, `FillPartly`, `VolumeUnread` and
`VolumeFails` are the same calls with a failing query or submission, whether or not the
transaction has arrived.  An error of the filler goes to "rest", past `MakeVolume`
(`app.go:48-53`).  `NextExecution` is `afterExecute`; `Restart` ends the process at any moment, and
the new one executes at once (`main.go:226`).  `PromptBlocks` excludes, for both alike, an
execution that starts while transactions of an earlier one are in the mempool: a restarted process
then waits for the block, too.  An own order carries what the
cache knows of it: `known`, its amount when `GetCachedOrder` fetched it, and the
`age` of the entry; `Expire` is the timer of `memory_cache.go`.  `IsMyOrder` compares
`known` with the aggregated amount now, so a partly filled own order is somebody
else's until the entry expires.  `aim` records, for the properties, whether the order MakeVolume has made
was for one of the bot's.  The chain matches unit by unit; what is left rests.
`Trading` and `Entering` are recursive functions, the book before and after each unit and
each order, so that the proofs can speak about every moment in between.

`Walls` are large orders of others far from the start price that are never used up.
They bound the prices.  Without them the state space is infinite, and for a reason: each
time the best own buy has been eaten, the start price is taken from the side that is
left, and the next buy lies higher.  Alone in its market the bot trades with itself
and its ladders climb; nothing in the code stops that.

### Commands

`command` is the transaction of the running process, `pending` the account's transaction
in the mempool.  `RunCancel` and `RunWithdraw` are a run up to the broadcast, with the limit
of 500 as `Limit` and the page of `AllBalances` as `Page`; `RunCancelOnSome` leaves out
orders whose details cannot be fetched.  `Submit` and `SubmitFails` broadcast, `Execute` is a
block: the fee first, then all the messages or none.  A withdrawal remembers what it has
read (`seen`), for the properties only.

## 3. Runs

| run | result | shows | bounds |
|---|---|---|---|
| `broadcaster_threads` | passes | `ConfirmedAccepted`, `CacheNotAhead`, `NoPileUpBehindUnknown`, `SequenceFits`, `ImplementsAccount` | one process, two goroutines, two transactions each, three faults |
| `broadcaster_processes` | passes | `EveryCallerSucceeds` | two processes, two transactions each, one fault |
| `fill_orders` | passes | `FreshLevels`, `NoHole`, `Quota`, `MatchesLadder`, `Returns` | step 2, five price levels, three orders, all books, all own sets |
| `volume_carousel` | passes | `NeverMissesOrders`, `BudgetRespected`, `ExtraSpacing` | amounts 1 and 2, shortest intervals, bounded pending |
| `volume_timing` | passes | `SpacedUnlessUnsettled`, `KeepsTrading` | carousel and spread, narrow and wide gaps, no extra volume |
| `volume_spread` | violated | `KeptStrategyHasOrders` | spread strategy |
| `volume_hold_back` | violated | `HoldsBack` | carousel |
| `orders_filler` | passes | `LaddersApart`, `NoDoubleLevel`, `Settles` | two orders a side, others on two prices between levels, three disturbances |
| `orders_spread` | violated | `SpreadLeftEmpty` | the same with spread_steps 3 |
| `orders_churn` | violated | `Settles` | the code's delta 5, six orders a side, spread_steps 12, one disturbance |
| `app` | passes | `LadderRests`, `FindsOwnOrder`, `LoopGoesOn`, `FindsLadders`, `CacheRecovers` | prompt blocks, one order a side, amounts of two trades, spread_steps 2, walls at 2 and 9, cache entries of two executions, one disturbance |
| `commands` | passes | `LeavesTheReserve`, `OrdersEnd`, `ComesHome` | five orders, two per listing, three denominations, two per page, three disturbances |

Why these bounds.  Three faults are enough for a lost answer, a late request and a
restart in one behaviour; two callers are enough for every pair of steps to
interleave, and the proofs cover the rest.  Three disturbances let a round of
`FillOrderBook` fail after a fill while somebody else moves the best price.  A pass
of `orders_filler` with `CancelOrdersDelta = 2` does not carry over to the delta of
the code: `orders_churn` is the instance with the code's delta and a wide spread,
and there `Settles` fails.  With a delta of 1 it fails already for ladders of two.

In `app` an order is worth two trades, so that it is seen whole, partly filled and gone;
a cache entry lives for two executions, so that it is stale and expires while the order
lives; one disturbance is any single failure, restart, order or trade of others at any
moment of the loop, after which the liveness properties say that it recovers.  One order a
side makes every order the first one.  The run, and the theorem about `LadderRests`, assume `PromptBlocks`:
a block between two executions, also between the last one of a process and the first one of the
next.  With `PromptBlocks = FALSE` TLC finds `LadderRests` violated: an order of MakeVolume that lost its
counterparty rests as an own order where a ladder order, made from a book without it, is about to arrive.
`FindsOwnOrder` is stated for the order of one execution (`aim` is set anew by each), so it means
something only while the mempool holds the orders of one.
In `commands`
five orders need three listings, and three denominations two pages; a fee of half the reserve
is what `gas_prices` of the README gives.

### What the models show without a run

Met while building `App` and `Commands`; no line of the repository says otherwise, so
there is no violated property for them.

* The drift described under App.
* With `spread_steps` of 0 or 1 the bot's own ladders can cross: `LaddersApart` is violated
  when `SpreadSteps` of `orders_filler.cfg` is set so.  With own buys at 8 and 10, a step of 2 and
  the only sell, somebody else's, at 13, the start price 11 is cut down to 10 (`TruncateToStep`
  rounds towards zero, `app/internal/amount.go:24-38`, for sells too), and the round places a
  sell at 10, where the bot's own buy is.  Two steps are enough, for every step and every price
  (`LaddersApartHolds`).
* With an order of somebody else before its own orders, the carousel trades into that
  order in one direction for as long as it lasts (`app/volume.go:414-458`).
* A second withdrawal after a successful one always panics in `NewCoin`, because the fee has
  been paid from the reserve: `withdraw.go:64-71` skips exactly zero only, although
  the message at line 66 speaks of amounts that are "too small".
* A withdrawal before the orders are cancelled strands what they unlock later, when the
  reserve does not pay for the cancellation.
* `main.go:74` indexes `os.Args[3]` before it checks that there is an address, and line 114
  prints "all balances withdrawn" when the node has taken the transaction, before any block,
  and for the first page of balances.

### What the violations show

* `volume_spread` - a spread strategy that has traded on a full book is kept when a side of
  the book has become empty; `makeSpreadOrder` then indexes an empty slice and the
  process dies (`app/volume.go:344-349`, `259-260`; the comment at line 321 promises a
  new strategy).  The property leaves out the panic of a strategy that has just been made:
  on a one-sided book `makeStrategy` makes the one for the side that is left
  (`404-412`), and a trade in the spread needs both.
* `volume_hold_back` - only the last trade is looked at, so an own trade executed
  after a foreign one ends the hold-back (`app/volume.go:141-158` against
  `config.yml.dist:23`; `app/orders.go:377` is built the same way).
* `orders_spread` - a one-sided book makes the best price of the other side the start
  price, so about half of `spread_steps` is left (`app/orders.go:289-299` against
  `README.md:15`), and stays so.
* `orders_churn` - after one refused transaction the two halves of the book lie on
  different ladders; every later round cancels the outermost orders as too many and
  places them again (`app/orders.go:100-107`, `315-348`, `131-137` against
  `README.md:12-13`).

## 4. Fairness

* `broadcaster_processes`: goroutines run, the node answers requests and makes
  blocks (weak fairness).  Faults, restarts and evictions are not fair and bounded
  in number.
* `fill_orders`: the loop runs.
* `orders_filler`, `orders_churn`: `afterExecute` starts the next round in every case
  (it is deferred), so the steps of rounds are weakly fair; so are block execution and
  the end of the hold-back time.  Disturbances are bounded and not fair.
* `volume_timing`: as above for the steps of a call, blocks and time.  `KeepsTrading`
  speaks about behaviours in which from some moment on nothing fails and the
  bot's own orders come first on both sides - which is what the filler is for.

* `app`: the loop runs (every path ends in `afterExecute`) and blocks are made.  `LoopGoesOn`, `FindsLadders`
  and `CacheRecovers` are about what the loop comes back to when the disturbances are over.
* `commands`: commands end and blocks are made (weak fairness); the operator starts each
  command again and again (strong fairness, since a running command disables both).

`PromptBlocks = TRUE` says that the mempool is empty when a round starts: blocks come
every few seconds and rounds every thirty.  Without it `NoDoubleLevel` and
`LaddersApart` of `OrdersFiller` and `LadderRests` of `App` fail, because nothing
pending is visible to a round.

## 5. Proofs

`BroadcasterProofs` proves, for any processes, callers, quotas and number of
faults, from `OwnerAssumption` and the other assumptions on constants:

* `TypeCorrect` - `Spec => []TypeOK`;
* `Invariant` - `Spec => []IInv`;
* `ConfirmedAcceptedHolds`, `CacheNotAheadHolds`, `NoPileUpHolds` from `IInv`;
* `SequenceFitsHolds`, with its own strengthening `QuietFlight /\ FitsInv` on top of `IInv`.

None of these properties is inductive.  A sequence number of a call is, in turn, in the cache, in
a local variable, in a request, and in an answer; `IInv` says of each place that the
number is not ahead of the log (`SequenceBound`), that requests and answers belong to
the call that waits for them (`FlightInv`, `ReplyInv`), and, when the number is the one
the node expects next, that everything the process has in the mempool is confirmed
(`KnownInv`).  `LockInv` (one caller inside per process) makes a caller's number and
the cache consistent.  The proof has one lemma per action or group of quiet actions.

Its last section proves `Implements`: `Spec => ImplementsAccount`, for the same
constants.  Every step of `Broadcaster` is a step of `Account` or a stutter.  The
mapping needs `IInv` (a request the node takes has the expected sequence, so by `KnownInv`
nothing unknown is before it, which is `Account`'s guard) and `UniqueFlight`: two requests in
flight differ in their caller or number, so taking one removes exactly that one from `open`.

`FillOrdersProofs` proves, for any step, spread, prices, number of orders, amounts and
book, from the assumptions of `Ladder` and `FillOrders` and from `Sorted` (part of `Init`:
the node lists the best price first and each price once):

* `FillTypeCorrect` - `Spec => []TypeOK`;
* `FillInvariant` - `Spec => []IInv`;
* `FreshLevelsHolds`, `NoHoleHolds`, `QuotaHolds`, `MatchesLadderHolds` from `IInv`.

The properties say what lies between the first rung and the price, and the loop's
variables do not say how it got there.  `IInv` therefore states that for some `n` the
loop has walked over the first `n` rungs (`Walked(n)`): the price is rung `n`, each of
the `n` rungs carries an order, each new order is at one of them, and `needed` is the
configured number less the rungs that counted.  Each action that goes on turns
`Walked(n)` into `Walked(n + 1)` (`NextRung`).  Three lemmas carry the rest:
`ScanFinds` (on a sorted list of one order type the scan, which stops at the first order
that is not better, finds an order at the price if and only if there is one), `Rungs` (a
rung farther out is beyond), and `WalkBounded` (the rungs that do not count are at
different prices of the book, so the walk ends within the range in which `LadderPrices`
looks for its last rung).  `ScanFinds` is where `Sorted` is needed: on an unsorted
list the loop could place an order on an occupied level.

`VolumeProofs` proves, for any amounts, intervals, books and any number of pending
transactions:

* `VolumeTypeCorrect`, `ExtraSpacingHolds`, `SpacedHolds` without further hypotheses;
* `BudgetRespectedHolds` for `MinPositive` (`MinVolume > 0`, which `Validate` does not ensure:
  a fraction below 1 becomes 0);
* `NeverMissesOrdersHolds` for `CarouselOnly` and `BoundsInOrder` (`ExtraMin <= ExtraMax`, which nobody
  checks).  `volume_spread` shows that the first hypothesis is needed.

Each property has its own strengthening: `Counted` (the count of trades is at most one ahead
of the trades since the last extra volume), `Budgeted` (what remains covers the order in hand
unless it carries extra volume, and a strategy that spent too much has nothing left),
`Supplied` (between the read of the book and the order, the order to trade with was there
when the book was read), `Settled` (a last order that has
traded makes the history at least as young as itself).  `Phase` says which of `book` and
`order` a call holds.

`CommandsProofs` proves, for any orders, denominations, limits, reserve and fee with
`Fee <= Reserve`: `CommandsInvariant`, `CommandsTypeCorrect` and `LeavesTheReserveHolds`.  Types
are not inductive alone: a withdrawal must be what `Withdrawable` makes of the balances it
has read (`BuiltFromSeen`), and what the node has taken must be payable until the next block
(`Payable`), or a balance could become negative.

`LadderProofs` and `OrderPricesProofs` hold what the models of whole rounds share.  A finite
set of prices has a best one (`FiniteBest`, `BestOfSide`), and the required number of free rungs is
found within the range `LadderPrices` searches.  Both would be inductions, which the provers
cannot do: the library's induction theorems take an operator.  They are shown instead by the least
counterexample: the set of sizes, or of positions, at which the claim fails is a set of naturals,
a nonempty one has a least element, and one step below it the claim holds.

`LaddersStartApart` is about the three roundings on the way to a start price: half the steps
between the best buy and the best sell, an integer quotient of a quotient that is rounded half
to even (`RoundBounds`, `QuoBounds`), then the cut to a multiple of what the printed step shows
(`TruncateBounds`).  `StepsFit` says that going back from the best sell by the rounded number of
steps never leads beyond the best buy, although rounding may give one step more than there
is.  The theorem has the hypothesis `WideSpread`: `SpreadSteps >= 2`, and `One \div Factor <= Step`,
that is, the step is not smaller than the last digit `%f` prints of it (`amount.go:27`).  Its conclusion
is what keeps a round from trading with itself: the first sell is above the first buy and above the
best buy, and the first buy is below the best sell, whatever sides are empty.

`OrdersFillerProofs` proves, for any step, spread, numbers of orders, disturbances and orders of
others:

* `TypeCorrect` without further hypotheses, from `Sound` and `Room`;
* `NoDoubleLevelHolds` for `PromptBlocks`, from `Informed`;
* `LaddersApartHolds` for `PromptBlocks` and `WideSpread`, from `Informed` and `Apart`.

Types are not inductive as `TypeOK` states them: a best price, or a number for a new order, exists
only when a side is finite (`Sound`), and four transactions are the most only because a round that has
come so far has submitted so many (`Room`).  `Informed` says that from the moment a side has been read
until the round places orders on it, own orders of that side can only disappear: what is in the
mempool then are cancellations, and later the sells of the same round.  `Apart` adds to
`LaddersApart` that the book is never crossed, that the own buys were below the sells that were read
(`BuysBelowSells`), that they are below the first sell the round may place (`BuysBelow`) and its sells
above its first buy (`SellsAbove`).  The queries are of different moments, so none of these follows
from the book as it is; each is carried from the moment of the read to the moment of the order.

`AppProofs` proves, for any ladders, books, walls, intervals and amounts of the ladder (an order of
`MakeVolume` is one unit, `UnitAssumption`) and a configured spread (`SpreadConfigured`):

* `TypeCorrect` without further hypotheses, from `Typed` (its bound on the mempool is stated for
  `PromptBlocks`, in `TypeOK` itself);
* `LadderRestsHolds` for `PromptBlocks` and `WideSpread`, from `Typed` and `Orderly`.

A transaction enters the book unit by unit.  That the recursive functions `Trading` and `Entering` have
the values their definitions give (`Iterates`), and that whatever one unit preserves is preserved by the
whole (`Stays`), is shown by the least counterexample again.  What is preserved (`Entered`): the book is
finite and not crossed, walls stay, the other side only shrinks, and new orders are at the prices of the
transaction only.  An uncrossed book belongs to the types, because an order is left over where the
other side ends.  `Orderly` speaks about the mempool: the sells of a ladder come before its buys
(`SellsFirst`), MakeVolume's order comes last (`VolumeLast`), the sells are above the buys
(`SellsAboveBuys`), and each ladder is clear of the bot's orders and the walls of the other side
(`LaddersClear`).  `MissingApart` establishes it for a new round from `LaddersStartApart`; a block can
only put into the book what is ordered behind it.  `LadderRests` alone says nothing of what executes
first, and is not inductive.

Trying to prove `TypeCorrect` of `App` showed that the model had been wrong: others could cancel only
what they could also place, so that an order of theirs, once partly filled, could neither be cancelled
nor was of the stated type.  TLC had missed it, because no offer of the run was larger than one
trade.  The model now lets them cancel whatever they have.

TLC checked `IInv`, `Apart` and `Orderly` as invariants of the instances before they were proved.

Every invariant and every action property of a passing run is a theorem, except `FindsOwnOrder` of `App`.
Only model-checked are that one and liveness: `EveryCallerSucceeds`, `Returns`, `Settles`, `FindsLadders`,
`CacheRecovers`, `OrdersEnd`, `ComesHome`, `KeepsTrading` of `Volume` and `LoopGoesOn` of `App`.  Fairness and ENABLED are out of the prover's
reach.

## 6. Plan

Done, in this order: Broadcaster and its proofs, Ladder and FillOrders with theirs,
OrderPrices, OrdersFiller, Volume, the abstract Account with the refinement, App with the
cache, Commands, the proofs about Commands and Volume, and those about the prices, whole rounds and
the loop.

What would come next: a proof of `FindsOwnOrder` (it needs which keys a round cancels, so that the
bot's nearest order is never among them); `LaddersApart` of a round whose spread is narrower than two steps but whose
prices are on levels; the account of money across `Commands`, as an invariant; that a round of
`OrdersFiller` in a quiet market is a `Fill` of `App`, as a refinement; instances of `OrdersFiller`
without a configured spread (`app/orders.go:257-281`) and with so few orders that the listing limit
hides the surplus (`app/orders.go:94`); the running bot beside a command on one book.

## 7. Not modelled

* **Wallet** - derives a key from words; no state.
* **In-memory locker** - a mutex per key.  `volumeLock` is only taken by the one goroutine that
  runs the loop, and the connection's lock is held for local steps only: nobody waits for anything
  remote behind either.
* **Configuration loader, logger, wiring, TLS and dialling** - I/O.  What `Validate` guarantees, and
  what it does not, are the assumptions on the constants.
* **Gas and fee arithmetic** (`broadcaster.go:229`, `tx.go`) - the node's minimum fee is not known
  here; a refusal is `CheckTxRejects`.
* **Calls that never return** - no remote call has a deadline; one that hangs would stop the loop
  with its locks held.  The models let every call end.
* **Amounts of the ladder in `OrdersFiller`** - an order is there or not; `App` has amounts.
* **Which of two errors `GetActiveOrders` reports** - both goroutines assign `err`; either makes the
  caller fail.

The chain is modelled only as far as the bot's use of it shows.
