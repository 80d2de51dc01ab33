--------------------------------- MODULE App ---------------------------------
(***************************************************************************)
(* app.go: the loop that runs FillOrderBook and then MakeVolume every 30   *)
(* seconds, and what the two do to each other through the one book, the    *)
(* one trade history and the one cache of own orders they share.           *)
(*                                                                         *)
(* OrdersFiller and Volume take their calls apart and give each an         *)
(* environment that may do anything; here a call is one step and the       *)
(* environment is the book itself, with amounts: MakeVolume eats what      *)
(* FillOrderBook has placed, one unit at a time, and because the provider  *)
(* caches an own order as it was when first listed (data_provider/order.go *)
(* and cache/memory_cache.go), a partly filled order is no longer          *)
(* recognised as the bot's until its entry expires.                        *)
(*                                                                         *)
(* The prices come from OrderPrices and Ladder, the strategies from        *)
(* Volume (V below).  Time counts executions of the loop.                  *)
(*                                                                         *)
(* Without other orders the two ladders climb for ever: each time the best *)
(* own buy is eaten the start price is that of the one side left, and the  *)
(* new buy goes a step higher.  Walls, large orders of others, bound that. *)
(***************************************************************************)
EXTENDS OrderPrices, Sequences
LOCAL INSTANCE FiniteSetsExt

CONSTANTS
    BuyNo, SellNo, CancelOrdersDelta, \* as in OrdersFiller
    OrderAmounts,           \* amounts an order of the ladder may get
    OrdersHoldBack,         \* GetHoldBackSeconds of the filler
    MinVolume, MaxVolume, ExtraMin, ExtraMax, ExtraEvery, TradeInterval, HoldBack,
                            \* as in Volume
    OrderTtl,               \* orderTtl
    Walls,                  \* Walls[t]: orders of others that are there from the start,
                            \* too large to be used up
    Offers,                 \* orders others may place, [price, amount]
    PromptBlocks,           \* as in OrdersFiller: no execution, not even the first one of
                            \* a new process, starts before a block has emptied the mempool
    MaxDisturbances         \* bound: failures, restarts, orders and trades of others

\* An order of somebody else.
Offer == [price : Nat \ {0}, amount : Nat \ {0}]

ASSUME LadderAssumption == BuyNo \in Nat \ {0} /\ SellNo \in Nat \ {0} /\ CancelOrdersDelta \in Nat
ASSUME SpreadConfigured == SpreadSteps > 0
ASSUME AmountAssumption == OrderAmounts \subseteq Nat \ {0} /\ OrderTtl \in Nat \ {0}
\* Amounts are counted in trades of MakeVolume: an order of it is one unit.
ASSUME UnitAssumption == MinVolume = 1 /\ MaxVolume = 1 /\ ExtraMax = 0
ASSUME TimesAssumption == TradeInterval \in Nat \ {0} /\ HoldBack \in Nat \ {0} /\ ExtraEvery \in Nat \ {0}
ASSUME WaitAssumption == OrdersHoldBack \in Nat /\ OrdersHoldBack <= HoldBack
\* The orders others have from the start have not met each other.
ASSUME OfferAssumption ==
    /\ Offers \subseteq Offer
    /\ Walls \in [OrderTypes -> SUBSET Offer] /\ \A t \in OrderTypes : IsFiniteSet(Walls[t])
    /\ \A b \in Walls["buy"], s \in Walls["sell"] : b.price < s.price
ASSUME BoundAssumption == MaxDisturbances \in Nat /\ PromptBlocks \in BOOLEAN

VARIABLES
    pc,             \* what execute does next: "fill", "volume", or it rests
    strategy,       \* Volume.strategy
    own,            \* own[t]: the bot's orders of type t in the book
    others,         \* others[t]: the orders of others
    pending,        \* the bot's transactions in the mempool
    history,        \* the market's last trade
    aim,            \* "open" since an execution began, "own" once MakeVolume has made an
                    \* order for one of the bot's, "lost" once it was for another one
                    \* or others have traded or ordered; no action of the program reads it
    disturbances    \* disturbances so far

vars == <<pc, strategy, own, others, pending, history, aim, disturbances>>
bookVars == <<own, others, pending, history>>

\* Volume's operators on the strategy and the history; the rest of its state is
\* not used here.
V == INSTANCE Volume WITH
    Strategies <- {"carousel"}, Amounts <- OrderAmounts, Gaps <- {"wide"}, MaxPending <- 1,
    cfg <- "carousel", book <- {}, order <- {}, calm <- FALSE,
    sinceSubmit <- 0, lastTx <- "none", sinceForeign <- 0, sinceExtra <- 0,
    overspent <- 0

No(t) == IF t = "buy" THEN BuyNo ELSE SellNo
Required == BuyNo + SellNo
Nobody == [t \in OrderTypes |-> {}]

\* An own order and what the cache knows of it: known is its amount when it was
\* listed first (0: not cached), age that of the cache entry.
OwnOrder == [price : Nat \ {0}, n : Nat, amount : Nat \ {0}, known : Nat, age : 0..OrderTtl]

Transactions == [by : {"filler", "volume"}, orderType : OrderTypes,
                 cancels : SUBSET (Nat \X Nat), adds : Seq(Offer)]

\* Types; with a block between two executions the mempool holds at most the two
\* cancellations and two additions of the filler and one order of MakeVolume.
TypeOK ==
    /\ pc \in {"fill", "volume", "rest"}
    /\ strategy \in SUBSET V!StrategyRecord /\ Cardinality(strategy) <= 1
    /\ \A t \in OrderTypes : own[t] \subseteq OwnOrder /\ others[t] \subseteq Offer
    /\ \A i \in 1..Len(pending) : pending[i] \in Transactions
    /\ PromptBlocks => Len(pending) <= 5
    /\ history \in [self : BOOLEAN, orderType : OrderTypes, age : V!Age]
    /\ aim \in {"open", "own", "lost"}
    /\ disturbances \in 0..MaxDisturbances

Init ==
    /\ pc = "fill" /\ strategy = {}
    /\ own = Nobody /\ others = Walls /\ pending = << >>
    /\ history = [self |-> TRUE, orderType |-> "buy", age |-> V!Far]
    /\ aim = "open" /\ disturbances = 0

Disturb == disturbances < MaxDisturbances /\ disturbances' = disturbances + 1

-----------------------------------------------------------------------------
(* The queries *)

PricesOf(S) == {o.price : o \in S}
BookOf(t) == PricesOf(own[t]) \cup PricesOf(others[t])

\* The aggregated order at a price.
AmountAt(t, p) ==
    MapThenSumSet(LAMBDA o : o.amount, {o \in own[t] \cup others[t] : o.price = p})

Key(o) == <<o.price, o.n>>

\* Variant of Cached: the entry is written, and its timer started, every time.
CachedAnew(o) == [o EXCEPT !.known = IF @ = 0 THEN o.amount ELSE @, !.age = 0]

\* GetCachedOrder: an order not in the cache is fetched and kept as it is now.
Cached(o) == IF o.known = 0 THEN [o EXCEPT !.known = o.amount, !.age = 0] ELSE o

\* GetAddressActiveOrders with a limit that is not reached.
Listed == [t \in OrderTypes |-> {Cached(o) : o \in own[t]}]

\* isMyOrder: price and amount as the cache has them.
IsMyOrder(t) ==
    LET p == Best(t, BookOf(t)) IN
    \E o \in Listed[t] : o.price = p /\ o.known = AmountAt(t, p)

-----------------------------------------------------------------------------
(* FillOrderBook *)

Extra(t) == Cardinality(own[t]) - No(t)

\* Variant of Cancellations: those nearest to the other side.
CancellationsNearest(t) ==
    IF Extra(t) <= 0 THEN {<< >>}
    ELSE {<<[by |-> "filler", orderType |-> t, adds |-> << >>, cancels |-> {Key(o) : o \in S}]>> :
            S \in {S \in SUBSET own[t] :
                     /\ Cardinality(S) = Extra(t)
                     /\ \A o \in S, kept \in own[t] \ S : ~Beyond(t, o.price, kept.price)}}

\* The transaction that cancels the extra orders of one side, if there are any.
Cancellations(t) ==
    IF Extra(t) <= 0 THEN {<< >>}
    ELSE {<<[by |-> "filler", orderType |-> t, adds |-> << >>, cancels |-> {Key(o) : o \in S}]>> :
            S \in {S \in SUBSET own[t] :
                     /\ Cardinality(S) = Extra(t)
                     /\ \A o \in S, kept \in own[t] \ S : ~Beyond(t, kept.price, o.price)}}

CancelsOf ==
    IF Cardinality(own["buy"]) + Cardinality(own["sell"]) <= Required + CancelOrdersDelta THEN {<< >>}
    ELSE {buys \o sells : buys \in Cancellations("buy"), sells \in Cancellations("sell")}

\* Variant of ShouldFill: whoever traded.
ShouldFillUnlessTraded == history.age > OrdersHoldBack

\* Variant of ShouldFill: both must be.
ShouldFillIfQuiet == history.self /\ history.age > OrdersHoldBack

\* shouldFillOrderBook
ShouldFill == history.self \/ history.age > OrdersHoldBack

\* The prices that are missing on one side.
Missing(t) ==
    LET start == SellStart(Best("buy", BookOf("buy")), Best("sell", BookOf("sell")), {}) IN
    LadderPrices(t, BookOf(t), PricesOf(own[t]), IF t = "buy" THEN start - Step ELSE start, No(t))

\* Orders at prices P in the order of the loop, each with an amount of its own.
InLoopOrder(t, P) ==
    {adds \in [1..Cardinality(P) -> [price : P, amount : OrderAmounts]] :
        \A i, j \in DOMAIN adds : i < j => Beyond(t, adds[j].price, adds[i].price)}

\* The transaction that adds them.
Additions(t) ==
    IF ~ShouldFill \/ Missing(t) = {} THEN {<< >>}
    ELSE {<<[by |-> "filler", orderType |-> t, cancels |-> {}, adds |-> adds]>> :
            adds \in InLoopOrder(t, Missing(t))}

\* Sells first, then buys.
Fill ==
    /\ pc = "fill"
    /\ own' = Listed
    /\ \E cancels \in CancelsOf, sells \in Additions("sell"), buys \in Additions("buy") :
         pending' = pending \o cancels \o sells \o buys
    /\ pc' = "volume"
    /\ UNCHANGED <<strategy, others, history, aim, disturbances>>

\* A query fails, before the own orders are listed or after the cancellations.
\* execute returns without making volume, except when it is the history that
\* cannot be read: then FillOrderBook only holds back.
FillFails ==
    /\ pc = "fill" /\ Disturb
    /\ \/ pc' = "rest" /\ UNCHANGED <<own, pending>>
       \/ /\ pc' \in {"rest", "volume"}
          /\ own' = Listed
          /\ \E cancels \in CancelsOf : pending' = pending \o cancels
    /\ UNCHANGED <<strategy, others, history, aim>>

\* A transaction is refused, or its answer is lost.  After one of the additions
\* FillOrderBook returns the error; one of the cancellations only leaves out
\* those that would follow it.
FillPartly ==
    /\ pc = "fill" /\ Disturb
    /\ own' = Listed
    /\ \E cancels \in CancelsOf, sells \in Additions("sell"), buys \in Additions("buy"),
          arrived \in BOOLEAN :
         \/ /\ cancels # << >>
            /\ pending' = pending \o (IF arrived THEN <<Head(cancels)>> ELSE << >>) \o sells \o buys
            /\ pc' = "volume"
         \/ /\ sells # << >>
            /\ pending' = pending \o cancels \o (IF arrived THEN sells ELSE << >>)
            /\ pc' = "rest"
         \/ /\ buys # << >>
            /\ pending' = pending \o cancels \o sells \o (IF arrived THEN buys ELSE << >>)
            /\ pc' = "rest"
    /\ UNCHANGED <<strategy, others, history, aim>>

-----------------------------------------------------------------------------
(* MakeVolume *)

\* The book as the strategy looks at it.
Side(t) ==
    [amount |-> AmountAt(t, Best(t, BookOf(t))), mine |-> IsMyOrder(t), owns |-> own[t] # {}]
View == [buy |-> Side("buy"), sell |-> Side("sell"), gap |-> "wide"]

\* getStrategy: the strategy in use after it, or none can be made.
StrategiesNow ==
    IF \E s \in strategy : V!StillGood(s, View) THEN {strategy}
    ELSE V!NewStrategies(View, history.orderType)

\* What MakeVolume does not do now: the strategy or the market has been active.
Waits(s) == s.lastRun < TradeInterval \/ V!HeldBack

VolumeOrder(s) ==
    [by |-> "volume", orderType |-> s.orderType, cancels |-> {},
     adds |-> <<[price |-> Best(Other(s.orderType), BookOf(Other(s.orderType))), amount |-> 1]>>]

\* The first order of a side is the bot's, whatever the cache says.
OwnsFirst(t) == Best(t, BookOf(t)) \in PricesOf(own[t]) \ PricesOf(others[t])

Aim(s) == aim' = IF aim = "open" /\ OwnsFirst(Other(s.orderType)) THEN "own" ELSE "lost"

\* No strategy, or it is not time to trade.
NoVolume ==
    /\ pc = "volume"
    /\ own' = Listed
    /\ strategy' \in StrategiesNow
    /\ \A s \in strategy' : Waits(s)
    /\ pc' = "rest"
    /\ UNCHANGED <<others, pending, history, aim, disturbances>>

MakeVolume ==
    /\ pc = "volume"
    /\ own' = Listed
    /\ \E now \in StrategiesNow : \E s \in now :
         /\ ~Waits(s)
         /\ pending' = Append(pending, VolumeOrder(s))
         /\ Aim(s)
         /\ strategy' = {[s EXCEPT !.lastRun = 0, !.trades = V!NextCount(s.trades),
                                   !.remaining = V!SetRemaining(s.remaining - 1)]}
    /\ pc' = "rest"
    /\ UNCHANGED <<others, history, disturbances>>

\* A query fails, before or after a strategy has been made.
VolumeUnread ==
    /\ pc = "volume" /\ Disturb
    /\ \/ UNCHANGED <<own, strategy>>
       \/ own' = Listed /\ strategy' \in StrategiesNow
    /\ pc' = "rest"
    /\ UNCHANGED <<others, pending, history, aim>>

\* AddOrders fails, or its answer is lost: the strategy is dropped.
VolumeFails ==
    /\ pc = "volume" /\ Disturb
    /\ own' = Listed
    /\ \E now \in StrategiesNow : \E s \in now :
         /\ ~Waits(s)
         /\ pending' \in {pending, Append(pending, VolumeOrder(s))}
         /\ Aim(s)
    /\ strategy' = {}
    /\ pc' = "rest"
    /\ UNCHANGED <<others, history>>

\* Variant of Expire: an execution late.
ExpireLate(o) ==
    IF o.known = 0 THEN o
    ELSE IF o.age > OrderTtl THEN [o EXCEPT !.known = 0, !.age = 0]
    ELSE [o EXCEPT !.age = @ + 1]

\* The cache timers of the entries that are OrderTtl executions old fire.
Expire(o) ==
    IF o.known = 0 THEN o
    ELSE IF o.age = OrderTtl THEN [o EXCEPT !.known = 0, !.age = 0]
    ELSE [o EXCEPT !.age = @ + 1]

\* afterExecute: 30 seconds later execute runs again, a block has been made.
NextExecution ==
    /\ pc = "rest" /\ (PromptBlocks => pending = << >>)
    /\ pc' = "fill" /\ aim' = "open"
    /\ own' = [t \in OrderTypes |-> {Expire(o) : o \in own[t]}]
    /\ history' = [history EXCEPT !.age = V!Older(@)]
    /\ strategy' = {[s EXCEPT !.lastRun = V!Older(@)] : s \in strategy}
    /\ UNCHANGED <<others, pending, disturbances>>

\* The process ends, by a signal or a panic, and is started again; Start executes
\* at once.
Restart ==
    /\ Disturb
    /\ strategy' = {}
    /\ IF PromptBlocks /\ pending # << >> THEN pc' = "rest" /\ UNCHANGED aim
       ELSE pc' = "fill" /\ aim' = "open"
    /\ own' = [t \in OrderTypes |-> {[o EXCEPT !.known = 0, !.age = 0] : o \in own[t]}]
    /\ UNCHANGED <<others, pending, history>>

-----------------------------------------------------------------------------
(* The market: what a block does with the first transaction *)

\* An order of type t at p meets orders of the other side.
Meets(book, t, p) ==
    \E o \in book.own[Other(t)] \cup book.others[Other(t)] : ~Beyond(Other(t), o.price, p)

Reduced(S, o) == (S \ {o}) \cup (IF o.amount = 1 THEN {} ELSE {[o EXCEPT !.amount = @ - 1]})

\* One unit of an order of type t at p, in a book with the trades so far: it
\* trades with the best order of the other side, of two at the same price with
\* that of `first`, or it is left over.
TakeUnit(book, t, p, first) ==
    LET o == Other(t)
        best == Best(o, PricesOf(book.own[o] \cup book.others[o]))
        At(S) == {x \in S : x.price = best}
        mine == At(book.own[o])
        theirs == At(book.others[o])
        with == CHOOSE x \in (IF theirs = {} \/ (mine # {} /\ first = "own") THEN mine ELSE theirs) : TRUE
    IN  IF ~Meets(book, t, p) THEN [book EXCEPT !.left = @ + 1]
        ELSE IF with \in mine
        THEN [book EXCEPT !.own[o] = Reduced(@, with), !.met = Append(@, TRUE)]
        ELSE [book EXCEPT !.others[o] = IF with \in Walls[o] THEN @ ELSE Reduced(@, with),
                         !.met = Append(@, FALSE)]

\* A number that tells own orders at the same price apart.
Free(S, p) == CHOOSE n \in 0..Cardinality(S) : \A o \in S : Key(o) # <<p, n>>

\* The book while an order of type t trades, before and after each of its units.
Trading(book, t, add, first) ==
    LET after[i \in 0..add.amount] ==
            IF i = 0 THEN [book EXCEPT !.left = 0] ELSE TakeUnit(after[i - 1], t, add.price, first)
    IN  after

\* A new order of the bot: it trades, and what is left of it rests in the book.
Enter(book, t, add, first) ==
    LET traded == Trading(book, t, add, first)[add.amount] IN
    IF traded.left = 0 THEN traded
    ELSE [traded EXCEPT !.own[t] = @ \cup
            {[price |-> add.price, n |-> Free(@, add.price), amount |-> traded.left, known |-> 0, age |-> 0]}]

\* The book while the orders of a transaction enter it, before and after each.
Entering(book, tx, first) ==
    LET after[i \in 0..Len(tx.adds)] ==
            IF i = 0 THEN book ELSE Enter(after[i - 1], tx.orderType, tx.adds[i], first)
    IN  after

\* The book without the orders that a transaction cancels.
Without(keys, t) ==
    [own |-> [own EXCEPT ![t] = {o \in @ : Key(o) \notin keys}], others |-> others, left |-> 0, met |-> << >>]

Execute ==
    /\ pending # << >>
    /\ \E first \in {"own", "others"} :
         LET tx == Head(pending)
             book == Entering(Without(tx.cancels, tx.orderType), tx, first)[Len(tx.adds)]
         IN  IF ~(tx.cancels \subseteq {Key(o) : o \in own[tx.orderType]})
             THEN UNCHANGED <<own, others, history>>
             ELSE /\ own' = book.own /\ others' = book.others
                  /\ history' = IF book.met = << >> THEN history
                                ELSE [self |-> book.met[Len(book.met)], orderType |-> tx.orderType, age |-> 0]
    /\ pending' = Tail(pending)
    /\ UNCHANGED <<pc, strategy, aim, disturbances>>

\* It fails, for instance because the balance does not cover it.
ExecutionFails ==
    /\ pending # << >> /\ Disturb
    /\ pending' = Tail(pending)
    /\ UNCHANGED <<pc, strategy, own, others, history, aim>>

OthersPlace(t, offer) ==
    /\ offer.price \notin BookOf(t) /\ Disturb
    /\ \A q \in BookOf(Other(t)) : Beyond(Other(t), q, offer.price)
    /\ others' = [others EXCEPT ![t] = @ \cup {offer}] /\ aim' = "lost"
    /\ UNCHANGED <<pc, strategy, own, pending, history>>

OthersCancel(t, o) ==
    /\ o \notin Walls[t]
    /\ others' = [others EXCEPT ![t] = @ \ {o}]
    /\ UNCHANGED <<pc, strategy, own, pending, history, aim, disturbances>>

\* Somebody takes the bot's first order of a side, some of it or all.
OthersTake(t) ==
    /\ Disturb
    /\ \E o \in own[t] : \E amount \in 1..o.amount :
         /\ o.price = Best(t, BookOf(t))
         /\ own' = [own EXCEPT ![t] = (@ \ {o}) \cup
                      (IF amount = o.amount THEN {} ELSE {[o EXCEPT !.amount = @ - amount]})]
    /\ history' = [self |-> FALSE, orderType |-> Other(t), age |-> 0] /\ aim' = "lost"
    /\ UNCHANGED <<pc, strategy, others, pending>>

Loop == Fill \/ NoVolume \/ MakeVolume \/ NextExecution

Next ==
    \/ Loop \/ FillFails \/ FillPartly \/ VolumeUnread \/ VolumeFails \/ Restart
    \/ Execute \/ ExecutionFails
    \/ \E t \in OrderTypes : \E o \in Offers : OthersPlace(t, o)
    \/ \E t \in OrderTypes : \E o \in others[t] : OthersCancel(t, o)
    \/ \E t \in OrderTypes : OthersTake(t)

Spec == Init /\ [][Next]_vars

\* execute runs again and again, and blocks are made.
FairSpec == Spec /\ WF_vars(Loop) /\ WF_vars(Execute)

-----------------------------------------------------------------------------
(* Properties *)

Ladder(tx) == tx.by = "filler" /\ tx.adds # << >>

\* The ladder rests: what FillOrderBook places trades neither with the bot
\* itself nor with the orders that others have had all along, although MakeVolume
\* eats the book from both sides, leaves orders of its own in it, and lets the
\* two ladders follow each other up and down.
LadderRests ==
    \A i \in 1..Len(pending) : Ladder(pending[i]) =>
        \A k \in 1..Len(pending[i].adds) :
            ~Meets([own |-> own, others |-> Walls], pending[i].orderType, pending[i].adds[k].price)

\* MakeVolume reads a book that does not show yet what FillOrderBook has just
\* submitted.  Behind those cancellations and ladders its order still finds what it
\* was made for: made for an order of the bot it meets one, before any of others,
\* however many transactions fail, unless others trade or place orders meanwhile.
FindsOwnOrder ==
    aim = "own" =>
        \A i \in 1..Len(pending) : pending[i].by = "volume" =>
            LET t == Other(pending[i].orderType) IN
            OwnsFirst(t) /\ ~Beyond(t, Best(t, BookOf(t)), pending[i].adds[1].price)

\* Disturbances apart, the loop trades for ever: the ladder is refilled, trades
\* of the bot do not hold the filler back for good, and no strategy gets stuck on
\* a book it has eaten.
LoopGoesOn == []<>(\E i \in 1..Len(pending) : pending[i].by = "volume")

\* Disturbances apart, MakeVolume finds complete ladders whenever nobody but the
\* bot has traded last: what one execution has eaten the next one replaces first.
FindsLadders ==
    <>[](pc = "volume" /\ pending = << >> /\ history.self =>
            \A t \in OrderTypes : Cardinality(own[t]) >= No(t))

\* Every own order is recognised as such again and again: an entry of the cache
\* that MakeVolume's trades have made wrong does not live on by being used.
CacheRecovers == \A t \in OrderTypes : []<>(\A o \in own[t] : o.known \in {0, o.amount})
=============================================================================
