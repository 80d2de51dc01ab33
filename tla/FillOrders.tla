----------------------------- MODULE FillOrders -----------------------------
(***************************************************************************)
(* app/orders.go, fillOrders: one side of the order book is filled with a  *)
(* ladder of orders, one price step apart, outward from a start price.     *)
(*                                                                         *)
(* The loop sees two pictures of the market, taken by different queries at *)
(* different times: the bot's own orders (excludedPrices) and the book as  *)
(* the chain aggregates it (existingOrders).  Either may be the older one, *)
(* so an own order can be missing from the book and the book can hold own  *)
(* orders the first query did not list.  Every combination is an input.    *)
(*                                                                         *)
(* Prices are integers, multiples of the smallest price difference.        *)
(***************************************************************************)
EXTENDS Ladder, Sequences

CONSTANTS
    NeededOrders,   \* GetBuyNo or GetSellNo
    AmountRanges,   \* pairs of GetOrderMinAmount and GetOrderMaxAmount
    Prices,         \* prices the orders of the two inputs are at
    Books,          \* lists the node may return for one side of the book
    StartPrices     \* start prices the caller may pass

AggregatedOrder == [price : Prices, orderType : OrderTypes]

\* Config.Validate asks for positive bounds, not for min_amount <= max_amount.
ASSUME ConfigAssumption == NeededOrders \in Int /\ AmountRanges \subseteq Nat \X Nat
ASSUME PricesAssumption == Prices \subseteq Nat \ {0} /\ StartPrices \subseteq Int
ASSUME BooksAssumption == Books \subseteq Seq(AggregatedOrder)

VARIABLES
    orderType,      \* "buy" or "sell"
    existing,       \* existingOrders: the aggregated book of one side
    excluded,       \* excludedPrices: prices of the bot's own orders
    start,          \* startPrice
    amounts,        \* minAmount and maxAmount
    price,          \* newStartPrice
    needed,         \* neededOrders
    msgs,           \* newOrdersMsgs
    pc              \* where fillOrders is; its last values are its results

inputs == <<orderType, existing, excluded, start, amounts>>
vars == <<inputs, price, needed, msgs, pc>>

Returned == {"nothing", "submitted", "submitFailed", "wrongType", "panicked"}

\* Types of the inputs and of what the loop builds; it never counts below zero.
TypeOK ==
    /\ orderType \in OrderTypes
    /\ existing \in Seq(AggregatedOrder)
    /\ excluded \in SUBSET Prices
    /\ start \in StartPrices
    /\ amounts \in AmountRanges
    /\ price \in Int
    /\ needed \in {NeededOrders} \cup 0..NeededOrders
    /\ msgs \in Seq([price : Int, amount : Nat])
    /\ pc \in {"start", "loop", "submit"} \cup Returned

-----------------------------------------------------------------------------

\* The query returns the best price first and each price once.
Sorted == \A i, j \in 1..Len(existing) : i < j => Beyond(orderType, existing[j].price, existing[i].price)

ExistingPrices == {existing[i].price : i \in 1..Len(existing)}

\* MustRandomInt: big.Int.Rand never returns its bound, except that an empty
\* range gives the minimum.
RandomAmounts == LET min == amounts[1] max == amounts[2] IN
    IF min = max THEN {min} ELSE min..(max - 1)

\* The scan of the book stops at the first order of another type, at this
\* price, or beyond it.
Stops(i) ==
    \/ existing[i].orderType # orderType
    \/ existing[i].price = price
    \/ Beyond(orderType, existing[i].price, price)

StopsAt(i) == i \in 1..Len(existing) /\ Stops(i) /\ \A j \in 1..(i - 1) : ~Stops(j)

ScanFails == \E i \in 1..Len(existing) : StopsAt(i) /\ existing[i].orderType # orderType

\* Variant: only the head of the book is looked at.
ShouldPlaceByHead == ~\E i \in 1..Len(existing) : i = 1 /\ existing[i].price = price

ShouldPlace == ~\E i \in 1..Len(existing) : StopsAt(i) /\ existing[i].price = price

-----------------------------------------------------------------------------

Begin ==
    /\ pc = "start"
    /\ IF NeededOrders <= 0
       THEN pc' = "nothing" /\ UNCHANGED price
       ELSE /\ pc' = "loop"
            /\ price' = FirstRung(orderType, start)
    /\ UNCHANGED <<inputs, needed, msgs>>

\* Variant: one order more than needed.
LoopingOnceMore == pc = "loop" /\ needed >= 0

Looping == pc = "loop" /\ needed > 0

\* Variant: no `continue`, the price moves twice.
SkipOwnFallingThrough ==
    /\ Looping
    /\ price \in excluded
    /\ price' = Outward(orderType, price, 2)
    /\ needed' = needed - 1
    /\ UNCHANGED <<inputs, msgs, pc>>

\* Variant: own orders do not count.
SkipOwnUncounted ==
    /\ Looping
    /\ price \in excluded
    /\ price' = Outward(orderType, price, 1)
    /\ UNCHANGED <<inputs, needed, msgs, pc>>

\* "excluded prices are the prices we already have an order for"
SkipOwn ==
    /\ Looping
    /\ price \in excluded
    /\ price' = Outward(orderType, price, 1)
    /\ needed' = needed - 1
    /\ UNCHANGED <<inputs, msgs, pc>>

WrongType ==
    /\ Looping
    /\ price \notin excluded
    /\ ScanFails
    /\ pc' = "wrongType"
    /\ UNCHANGED <<inputs, price, needed, msgs>>

Scanned == Looping /\ price \notin excluded /\ ~ScanFails

Place ==
    /\ Scanned /\ price > 0 /\ ShouldPlace
    /\ \E a \in RandomAmounts : msgs' = Append(msgs, [price |-> price, amount |-> a])
    /\ price' = Outward(orderType, price, 1)
    /\ needed' = needed - 1
    /\ UNCHANGED <<inputs, pc>>

AmountPanics ==
    /\ Scanned /\ price > 0 /\ ShouldPlace
    /\ amounts[1] > amounts[2]
    /\ pc' = "panicked"
    /\ UNCHANGED <<inputs, price, needed, msgs>>

\* Variant: orders of others count.
SkipExistingCounted ==
    /\ Scanned /\ price > 0 /\ ~ShouldPlace
    /\ price' = Outward(orderType, price, 1)
    /\ needed' = needed - 1
    /\ UNCHANGED <<inputs, msgs, pc>>

\* Variant: the price only moves when an order is placed.
SkipExistingInPlace ==
    /\ Scanned /\ price > 0 /\ ~ShouldPlace
    /\ UNCHANGED vars

SkipExisting ==
    /\ Scanned /\ price > 0 /\ ~ShouldPlace
    /\ price' = Outward(orderType, price, 1)
    /\ UNCHANGED <<inputs, needed, msgs, pc>>

\* The loop ends: no order is needed, or the price is not positive any more.
Finish ==
    /\ pc = "loop"
    /\ needed <= 0 \/ (Scanned /\ price <= 0)
    /\ pc' = IF msgs = << >> THEN "nothing" ELSE "submit"
    /\ UNCHANGED <<inputs, price, needed, msgs>>

Submit ==
    /\ pc = "submit"
    /\ pc' \in {"submitted", "submitFailed"}
    /\ UNCHANGED <<inputs, price, needed, msgs>>

Done == pc \in Returned /\ UNCHANGED vars

Next ==
    \/ Begin \/ SkipOwn \/ WrongType \/ Place \/ AmountPanics \/ SkipExisting
    \/ Finish \/ Submit \/ Done

-----------------------------------------------------------------------------

\* The own orders are whatever an earlier query saw: in the book, already gone
\* from it, or fewer than the book has.
Init ==
    /\ orderType \in OrderTypes
    /\ existing \in Books
    /\ Sorted
    /\ excluded \in SUBSET Prices
    /\ start \in StartPrices
    /\ amounts \in AmountRanges
    /\ price = start
    /\ needed = NeededOrders
    /\ msgs = << >>
    /\ pc = "start"

Spec == Init /\ [][Next]_vars

\* The loop runs without waiting for anyone.
FairSpec == Spec /\ WF_vars(Next)
-----------------------------------------------------------------------------
\* Properties

MsgPrices == {msgs[i].price : i \in 1..Len(msgs)}

\* The loop has ended the way it should: by count or by price.
Ended == pc \in {"submit", "submitted", "submitFailed", "nothing"}

\* No order is placed twice on a level, on a level where the bot or anyone has
\* an order in either picture of the market, or at a price that is not positive,
\* although the scan (orders.go:196-214) looks at one order and then stops.
FreshLevels ==
    /\ \A i, j \in 1..Len(msgs) : i # j => msgs[i].price # msgs[j].price
    /\ MsgPrices \cap (excluded \cup ExistingPrices) = {}
    /\ \A p \in MsgPrices : p > 0

\* The rungs the loop has been at; a step is at least one price unit.
Visited ==
    LET first == FirstRung(orderType, start)
        distance == IF orderType = "buy" THEN first - price ELSE price - first
    IN  {k \in 0..distance : Beyond(orderType, price, Rung(orderType, start, k))}

\* The ladder has no hole: every level from the first to the last one visited
\* carries an order of someone or a new one, and a level is only passed over
\* for an order of someone else once (orders.go:182-239).
NoHole ==
    pc = "loop" \/ Ended =>
        \A k \in Visited : Rung(orderType, start, k) \in excluded \cup ExistingPrices \cup MsgPrices

\* neededOrders counts the bot's orders, the old ones on visited levels and the
\* new ones, and neither the orders of others nor its own beyond the ladder:
\* the loop stops short of the configured number only where prices end.
Quota ==
    LET own == Cardinality({k \in Visited : Rung(orderType, start, k) \in excluded})
    IN  /\ pc = "loop" => own + Len(msgs) + needed = NeededOrders
        /\ Ended /\ NeededOrders > 0 => own + Len(msgs) = NeededOrders \/ price <= 0

\* The loop computes LadderPrices.
MatchesLadder ==
    Ended => MsgPrices = LadderPrices(orderType, ExistingPrices, excluded, start, NeededOrders)

\* Stepping outward always comes to an end (orders.go:182).
Returns == <>(pc \in Returned)
=============================================================================
