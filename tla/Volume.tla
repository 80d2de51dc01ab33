------------------------------- MODULE Volume -------------------------------
(***************************************************************************)
(* app/volume.go: MakeVolume trades small amounts with the bot's own       *)
(* orders.  A volumeStrategy says in which direction and how much is left; *)
(* it lives in memory across calls while the book, the market's history    *)
(* and the bot's own earlier transactions move on underneath it.           *)
(*                                                                         *)
(* A call is three steps: read the book and get a strategy, read the last  *)
(* trade and make the order, submit it.  Between steps time passes, others *)
(* trade, blocks execute what the bot sent before and the process may be   *)
(* restarted.  Every read of the book is an input, so the book may be      *)
(* anything from one call to the next.                                     *)
(*                                                                         *)
(* Ages count periods of the application's loop (app.go, 30 seconds) since *)
(* an event and stop at Far; a Go time that was never set is Far, too.  A  *)
(* market without history behaves like one whose last trade was a buy by   *)
(* the bot, Far ago.                                                       *)
(***************************************************************************)
EXTENDS Integers, FiniteSets

CONSTANTS
    Strategies,     \* what cfg.Strategy may be: "carousel", "spread", anything else
    MinVolume, MaxVolume, ExtraMin, ExtraMax, ExtraEvery,
    TradeInterval, HoldBack,    \* in periods of the loop
    Amounts,        \* amounts the first order of a side of the book may have
    Gaps,           \* best sell minus best buy may be "narrow" (less than a price
                    \* step), a "step", or "wide"
    MaxPending      \* bound: the bot's transactions waiting for a block

\* What Volume.Validate asks for; a fractional Min below 1 becomes 0.  Nobody
\* compares ExtraMin with ExtraMax.
ASSUME VolumeAssumption == MinVolume \in Nat /\ MaxVolume \in Nat /\ MinVolume <= MaxVolume
ASSUME ExtraAssumption == ExtraMin \in Nat /\ ExtraMax \in Nat /\ ExtraEvery \in Nat \ {0}
ASSUME TimeAssumption == TradeInterval \in Nat \ {0} /\ HoldBack \in Nat \ {0}
ASSUME BookAssumption == Gaps \subseteq {"narrow", "step", "wide"}
ASSUME BoundAssumption == Amounts \subseteq Nat \ {0} /\ MaxPending \in Nat \ {0}

VARIABLES
    cfg,            \* cfg.Strategy of the running process
    strategy,       \* Volume.strategy: {} for nil, or the set of the one strategy
    pc,             \* where MakeVolume is
    book,           \* what this call has read of the book and makeOrder will use
    order,          \* the order this call has made
    history,        \* the market's last trade
    pending,        \* own transactions in the mempool
    calm,           \* from now on nothing disturbs the bot
    sinceSubmit,    \* age of the bot's last transaction that reached the mempool
    lastTx,         \* what has become of it
    sinceForeign,   \* age of the last trade that was not the bot's with itself
    sinceExtra,     \* trades acknowledged since the last extra volume
    overspent       \* volume of this strategy beyond its initial amount

callVars   == <<strategy, pc, book, order>>
fixedVars  == <<cfg, calm>>
chainVars  == <<history, pending, fixedVars>>
recordVars == <<sinceSubmit, lastTx, sinceForeign, sinceExtra, overspent>>
vars == <<callVars, chainVars, recordVars>>

OrderTypes == {"buy", "sell"}
Far == (IF TradeInterval > HoldBack THEN TradeInterval ELSE HoldBack) + 1
Age == 0..Far
Older(a) == IF a = Far THEN Far ELSE a + 1
Least(a, b) == IF a < b THEN a ELSE b

VolumeMul == 5

\* internal.MustRandomInt: the bound is never drawn, unless the range is empty.
RandomInt(min, max) == IF min = max THEN {min} ELSE min..(max - 1)

\* One side of the book: the amount of its first aggregated order (0 without
\* one), whether isMyOrder calls that order the bot's, and whether the bot has
\* orders on the side.
Sides ==
    [amount : Amounts \cup {0}, mine : {FALSE}, owns : BOOLEAN]
    \cup [amount : Amounts, mine : {TRUE}, owns : {TRUE}]

BookViews == [buy : Sides, sell : Sides, gap : Gaps]

\* What makeOrder uses of it: the first order to trade with, whether all the
\* orders it indexes are there, and the gap.
BookUses == [amount : Amounts \cup {0}, complete : BOOLEAN, gap : Gaps]
NoBook == [amount |-> 0, complete |-> FALSE, gap |-> "wide"]

\* TradesCount is only asked for being positive and for its remainder by
\* ExtraEvery: 1..ExtraEvery stand for the positive counts.
StrategyRecord ==
    [orderType : OrderTypes, remaining : 0..(MaxVolume * VolumeMul), trades : 0..ExtraEvery,
     lastRun : Age]
NextCount(n) == IF n = ExtraEvery THEN 1 ELSE n + 1

NoOrder == [amount |-> 0, extra |-> 0]

\* Types; volumeStrategy is nil or one strategy.
TypeOK ==
    /\ cfg \in Strategies
    /\ strategy \in SUBSET StrategyRecord /\ \A s, t \in strategy : s = t
    /\ pc \in {"idle", "history", "submit", "resting", "panicked"}
    /\ book \in BookUses \cup {NoBook}
    /\ order \in [amount : 0..MaxVolume, extra : Nat]
    /\ history \in [self : BOOLEAN, orderType : OrderTypes, age : Age]
    /\ pending \in 0..MaxPending
    /\ calm \in BOOLEAN
    /\ sinceSubmit \in Age
    /\ lastTx \in {"none", "pending", "traded", "untraded"}
    /\ sinceForeign \in Age
    /\ sinceExtra \in 0..ExtraEvery
    /\ overspent \in Nat

Init ==
    /\ cfg \in Strategies
    /\ strategy = {}
    /\ pc = "idle"
    /\ book = NoBook /\ order = NoOrder
    /\ history = [self |-> TRUE, orderType |-> "buy", age |-> Far]
    /\ pending = 0
    /\ calm = FALSE
    /\ sinceSubmit = Far /\ lastTx = "none"
    /\ sinceForeign = Far
    /\ sinceExtra = 0
    /\ overspent = 0

-----------------------------------------------------------------------------
(* getStrategy and makeStrategy *)

\* getStrategy asks whether the configuration says carousel, makeOrder asks
\* VolumeStrategy.GetType, for which carousel is also the default.
PicksOwnOrders == cfg = "carousel"
TradesInSpread == cfg = "spread"

\* The side whose first order an order of type t fills.
Head(b, t) == IF t = "buy" THEN b.sell ELSE b.buy

\* The types that can be tried at all, and those that would meet an own order.
Possible(b) == {t \in OrderTypes : Head(b, t).amount > 0}
Mine(b) == {t \in OrderTypes : Head(b, t).mine}

TheOnly(S) == CHOOSE t \in S : TRUE
Single(S) == Cardinality(S) = 1

\* makeStrategy, when there is a possible type; GetMarketBalance has made sure
\* that both balances are positive.  last is the type of the last trade.
PreferredType(b, last) ==
    CASE Single(Possible(b)) -> TheOnly(Possible(b))
      [] ~Single(Possible(b)) /\ PicksOwnOrders /\ Single(Mine(b)) -> TheOnly(Mine(b))
      [] ~Single(Possible(b)) /\ PicksOwnOrders /\ Mine(b) = {} ->
            IF b.sell.amount < b.buy.amount THEN "buy" ELSE "sell"
      [] OTHER -> last

TradesSoFar == IF strategy = {} THEN 0 ELSE TheOnly(strategy).trades

\* newStrategy and makeBaseStrategy: {} where no strategy can be made.
NewStrategies(b, last) ==
    LET t == PreferredType(b, last) IN
    IF Possible(b) = {} \/ ~Head(b, t).owns THEN {{}}
    ELSE { {[orderType |-> t, remaining |-> r, trades |-> TradesSoFar, lastRun |-> Far]} :
             r \in RandomInt(MinVolume * VolumeMul, MaxVolume * VolumeMul) }

\* Variants of StillGood: as the spread strategy does it, and without the amount
\* that remains.
StillGoodWithoutOrders(s, b) == s.remaining >= MinVolume
StillGoodUsedUp(s, b) == PicksOwnOrders => Head(b, s.orderType).mine

\* The strategy of earlier calls is good for this book, too.
StillGood(s, b) ==
    /\ s.remaining >= MinVolume
    /\ PicksOwnOrders => Head(b, s.orderType).mine

Return == pc' = "resting" /\ book' = NoBook /\ order' = NoOrder

\* makeOrder indexes the first order of the side to trade with, makeSpreadOrder
\* that of both sides.
Use(s, b) ==
    LET head == Head(b, s.orderType) IN
    [amount |-> head.amount, gap |-> b.gap,
     complete |-> head.amount > 0 /\ (TradesInSpread => Possible(b) = OrderTypes)]

\* What a call that has a strategy does with it: it is not time yet, or go on.
Proceed(s, b) ==
    IF s.lastRun < TradeInterval THEN Return
    ELSE pc' = "history" /\ book' = Use(s, b) /\ UNCHANGED order

\* The bot's own orders come first on both sides, as after FillOrderBook.
CalmBook(b) == b.buy.mine /\ b.sell.mine /\ b.gap = "wide"

\* A query for the balances, the book or the own orders fails.
CannotRead ==
    /\ pc = "idle" /\ ~calm
    /\ Return
    /\ UNCHANGED <<strategy, chainVars, recordVars>>

KeepStrategy(b) ==
    /\ pc = "idle" /\ (calm => CalmBook(b))
    /\ \E s \in strategy : StillGood(s, b) /\ Proceed(s, b)
    /\ UNCHANGED <<strategy, chainVars, recordVars>>

\* When the history cannot be read a buy is preferred.
RenewStrategy(b, last) ==
    /\ pc = "idle" /\ (calm => CalmBook(b))
    /\ last = history.orderType \/ (last = "buy" /\ ~calm)
    /\ \A s \in strategy : ~StillGood(s, b)
    /\ strategy' \in NewStrategies(b, last)
    /\ IF strategy' = {} THEN Return ELSE \A s \in strategy' : Proceed(s, b)
    /\ overspent' = 0
    /\ UNCHANGED <<chainVars, sinceSubmit, lastTx, sinceForeign, sinceExtra>>

GetStrategy == \E b \in BookViews : KeepStrategy(b) \/ \E last \in OrderTypes : RenewStrategy(b, last)

-----------------------------------------------------------------------------
(* The hold-back checks and makeOrder *)

\* Variant of HeldBack: it leaves the interval to the strategy.
HeldBackByOthers == ~history.self /\ history.age < HoldBack

\* The market was active, or somebody else traded a short while ago.
HeldBack == history.age < TradeInterval \/ (~history.self /\ history.age < HoldBack)

\* makeSpreadOrder finds no price between the best buy and the best sell.
NoSpreadPrice == TradesInSpread /\ book.gap = "narrow"

\* Variant of ExtraDue: without the test for a positive count.
ExtraDueAtOnce(s) == ExtraMax > 0 /\ s.trades \in {0, ExtraEvery}

ExtraDue(s) == ExtraMax > 0 /\ s.trades = ExtraEvery

Extras(s) == IF ExtraDue(s) THEN RandomInt(ExtraMin, ExtraMax) ELSE {0}

\* Variant of OrderAmount: nothing but the book limits it.
OrderAmountUnlimited(s, drawn, extra) == Least(drawn, book.amount)

\* The amount that ackOrder will count, without the extra volume: an order with
\* extra volume ignores what remains, one in the spread ignores the book.
OrderAmount(s, drawn, extra) ==
    CASE TradesInSpread -> Least(drawn, s.remaining)
      [] ~TradesInSpread /\ extra = 0 -> Least(Least(drawn, s.remaining), book.amount)
      [] OTHER -> Least(drawn, book.amount)

\* Nothing to trade now, or the history cannot be read.
HoldOff ==
    /\ pc = "history"
    /\ HeldBack \/ ~calm
    /\ Return
    /\ UNCHANGED <<strategy, chainVars, recordVars>>

MakeOrder ==
    /\ pc = "history" /\ ~HeldBack
    /\ book.complete
    /\ \E s \in strategy :
         /\ ExtraDue(s) /\ ~NoSpreadPrice => ExtraMin <= ExtraMax
         /\ \E extra \in Extras(s), drawn \in RandomInt(MinVolume, MaxVolume) :
              LET amount == OrderAmount(s, drawn, extra) IN
              IF NoSpreadPrice \/ amount = 0 THEN Return
              ELSE /\ order' = [amount |-> amount, extra |-> extra]
                   /\ pc' = "submit" /\ book' = NoBook
    /\ UNCHANGED <<strategy, chainVars, recordVars>>

\* An index out of range, or MustRandomInt with its bounds swapped.
Panic ==
    /\ pc = "history" /\ ~HeldBack
    /\ \/ ~book.complete
       \/ \E s \in strategy : ExtraDue(s) /\ ~NoSpreadPrice /\ ExtraMin > ExtraMax
    /\ pc' = "panicked" /\ book' = NoBook
    /\ UNCHANGED <<strategy, order, chainVars, recordVars>>

-----------------------------------------------------------------------------
(* AddOrders and ackOrder *)

ReachesMempool ==
    /\ pending < MaxPending
    /\ pending' = pending + 1
    /\ sinceSubmit' = 0 /\ lastTx' = "pending"
    /\ UNCHANGED <<history, fixedVars, sinceForeign>>

\* Variant of SetRemaining: as given.
SetRemainingAsGiven(n) == n

SetRemaining(n) == IF n > 0 THEN n ELSE 0

\* A call that ends without a usable strategy record of what it traded.
Forget ==
    /\ strategy' = {}
    /\ sinceExtra' = (IF order.extra > 0 THEN 0 ELSE sinceExtra)
    /\ overspent' = 0

Acknowledge(s) ==
    /\ strategy' = {[s EXCEPT !.lastRun = 0, !.trades = NextCount(s.trades),
                              !.remaining = SetRemaining(s.remaining - order.amount)]}
    /\ sinceExtra' = (IF order.extra > 0 THEN 0 ELSE Least(sinceExtra + 1, ExtraEvery))
    /\ overspent' = overspent + order.amount - Least(order.amount, s.remaining)

Submit ==
    /\ pc = "submit"
    /\ ReachesMempool
    /\ \E s \in strategy : Acknowledge(s)
    /\ Return

\* AddOrders fails although the transaction is in the mempool: its answer was
\* lost, or a retry of it failed.
SubmitUnanswered ==
    /\ pc = "submit" /\ ~calm
    /\ ReachesMempool
    /\ Forget
    /\ Return

SubmitFails ==
    /\ pc = "submit" /\ ~calm
    /\ strategy' = {}
    /\ overspent' = 0
    /\ Return
    /\ UNCHANGED <<chainVars, sinceSubmit, lastTx, sinceForeign, sinceExtra>>

-----------------------------------------------------------------------------
(* The market and the process *)

NewTrade(self, t) ==
    /\ history' = [self |-> self, orderType |-> t, age |-> 0]
    /\ sinceForeign' = (IF self THEN sinceForeign ELSE 0)

\* A block executes a pending transaction and it trades: with the bot's own
\* order, or with somebody else's that is first by now.
Traded(self, t) ==
    /\ pending > 0
    /\ calm => self
    /\ NewTrade(self, t)
    /\ pending' = pending - 1
    /\ lastTx' = (IF pending = 1 THEN "traded" ELSE lastTx)
    /\ UNCHANGED <<callVars, fixedVars, sinceSubmit, sinceExtra, overspent>>

\* It fails or rests in the book: the history does not show it.
Untraded ==
    /\ pending > 0 /\ ~calm
    /\ pending' = pending - 1
    /\ lastTx' = (IF pending = 1 THEN "untraded" ELSE lastTx)
    /\ UNCHANGED <<callVars, history, fixedVars, sinceSubmit, sinceForeign, sinceExtra,
                   overspent>>

ForeignTrade(t) ==
    /\ ~calm
    /\ NewTrade(FALSE, t)
    /\ UNCHANGED <<callVars, pending, fixedVars, sinceSubmit, lastTx, sinceExtra,
                   overspent>>

\* A period passes.
Tick ==
    /\ pc' = (IF pc = "resting" THEN "idle" ELSE pc)
    /\ strategy' = {[s EXCEPT !.lastRun = Older(s.lastRun)] : s \in strategy}
    /\ history' = [history EXCEPT !.age = Older(history.age)]
    /\ sinceSubmit' = Older(sinceSubmit) /\ sinceForeign' = Older(sinceForeign)
    /\ UNCHANGED <<book, order, pending, fixedVars, lastTx, sinceExtra, overspent>>

\* The process dies, or has panicked, and is started again; its configuration
\* may have been edited.
Restart ==
    /\ ~calm
    /\ pc' = "idle" /\ book' = NoBook /\ order' = NoOrder
    /\ cfg' \in Strategies
    /\ Forget
    /\ UNCHANGED <<history, pending, calm, sinceSubmit, lastTx, sinceForeign>>

BecomeCalm ==
    /\ ~calm /\ pc \in {"idle", "resting"}
    /\ calm' = TRUE
    /\ UNCHANGED <<cfg, callVars, history, pending, recordVars>>

Next ==
    \/ CannotRead
    \/ GetStrategy
    \/ HoldOff \/ MakeOrder \/ Panic
    \/ Submit \/ SubmitUnanswered \/ SubmitFails
    \/ \E self \in BOOLEAN, t \in OrderTypes : Traded(self, t)
    \/ Untraded
    \/ \E t \in OrderTypes : ForeignTrade(t)
    \/ Tick \/ Restart \/ BecomeCalm

Spec == Init /\ [][Next]_vars

\* The loop calls MakeVolume again and again, a call comes to an end, time
\* passes, and blocks execute what is in the mempool.
Fairness ==
    /\ WF_vars(GetStrategy) /\ WF_vars(HoldOff) /\ WF_vars(MakeOrder) /\ WF_vars(Submit)
    /\ WF_vars(\E self \in BOOLEAN, t \in OrderTypes : Traded(self, t))
    /\ WF_vars(Tick)

FairSpec == Spec /\ Fairness

-----------------------------------------------------------------------------
(* Properties *)

\* The orders a strategy needs are in the book whenever it is used: MakeVolume
\* never panics.
NeverMissesOrders == pc # "panicked"

\* Only the last trade of a strategy can exceed its amount: it carried extra
\* volume, and a strategy with less than MinVolume is never used again.
BudgetRespected ==
    overspent > 0 =>
        /\ sinceExtra = 0
        /\ MinVolume + overspent < MaxVolume

\* Extra volume is added to every ExtraEvery-th trade at most, however often
\* strategies are renewed, lost and made again in between.
ExtraSpacing == order.extra > 0 => sinceExtra >= ExtraEvery - 1

\* A strategy that has traded is not used any more when an order it needs is
\* missing (getStrategy: "If orders needed for this strategy are missing from the
\* order book it creates a new one"): MakeVolume panics with a strategy it has just
\* made, if ever.
KeptStrategyHasOrders == pc = "panicked" => \A s \in strategy : s.lastRun = Far

\* Two orders are TradeInterval apart, except after an order that has not
\* traded: the strategy that knows of it may be gone, and the history does not
\* show it.
SpacedUnlessUnsettled ==
    [][pc' = "submit" /\ pc # "submit" => sinceSubmit >= TradeInterval \/ lastTx # "traded"]_vars

\* "hold_back_interval: the number of seconds to wait when other trades happen
\* (excluding self trades), before making volume" (config.yml.dist:23).
HoldsBack == [][pc' = "submit" /\ pc # "submit" => sinceForeign >= HoldBack]_vars

\* Left alone with a book whose first orders are its own, the bot makes volume
\* again and again: no used-up strategy, swapped direction or pending trade
\* stops it for good.
KeepsTrading == []<>(calm => sinceSubmit = 0)
=============================================================================
