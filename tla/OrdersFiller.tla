---------------------------- MODULE OrdersFiller ----------------------------
(***************************************************************************)
(* app/orders.go: FillOrderBook, round after round, against a market that  *)
(* others use, too.  A round reads the bot's own orders, cancels the worst *)
(* of them if there are too many, looks at the last trade, reads the two   *)
(* sides of the book and submits what is missing of the two ladders, the   *)
(* sells in one transaction and the buys in another.  Nothing is kept from *)
(* one round to the next; everything a round knows it has read, each query *)
(* at a moment of its own.                                                 *)
(*                                                                         *)
(* What fillOrders places is LadderPrices here; FillOrders has its loop.   *)
(* The chain is external: a transaction waits in the mempool, a block      *)
(* executes it, an order that meets orders of the other side trades with   *)
(* them.  Amounts are left out: an order is there or it is not.            *)
(***************************************************************************)
EXTENDS OrderPrices, Sequences

CONSTANTS
    BuyNo, SellNo,          \* GetBuyNo, GetSellNo
    CancelOrdersDelta,      \* cancelOrdersDelta, 5 in the code
    OthersPrices,           \* prices of the orders of others
    PromptBlocks,           \* blocks come faster than rounds of the loop
    MaxDisturbances         \* bound: errors, trades and orders of others, restarts

ASSUME NumbersAssumption == BuyNo \in Nat \ {0} /\ SellNo \in Nat \ {0} /\ CancelOrdersDelta \in Nat
ASSUME OthersAssumption == OthersPrices \subseteq Nat \ {0} /\ PromptBlocks \in BOOLEAN
ASSUME BoundAssumption == MaxDisturbances \in Nat

VARIABLES
    own,            \* own[t]: the bot's orders of type t in the book, <<price, number>>
    others,         \* others[t]: prices of the orders of others
    pending,        \* the bot's transactions in the mempool
    last,           \* the last trade: {} or the set of it
    disturbances,   \* disturbances so far
    pc,             \* where FillOrderBook is
    mine,           \* myBuys, mySells: the own orders this round has read
    unread,         \* sides of the book this round has not read yet
    seen,           \* prices this round has read, for each side
    start           \* startPrice of this round

chainVars == <<own, others, pending, last>>
roundVars == <<pc, mine, unread, seen, start>>
vars == <<chainVars, roundVars, disturbances>>

No(t) == IF t = "buy" THEN BuyNo ELSE SellNo
Required == BuyNo + SellNo

Nobody == [t \in OrderTypes |-> {}]

Transactions ==
    [cancels : SUBSET (Int \X Nat), adds : SUBSET Int, orderType : OrderTypes]

\* Types; when blocks are prompt the mempool holds one round, of four transactions
\* at most.
TypeOK ==
    /\ \A t \in OrderTypes : own[t] \subseteq Nat \X Nat /\ mine[t] \subseteq Nat \X Nat
    /\ \A t \in OrderTypes : others[t] \subseteq OthersPrices /\ seen[t] \subseteq Nat
    /\ \A i \in 1..Len(pending) : pending[i] \in Transactions
    /\ PromptBlocks => Len(pending) <= 4
    /\ \A h \in last : h \in [price : Nat, orderType : OrderTypes, self : BOOLEAN, recent : BOOLEAN]
    /\ Cardinality(last) <= 1
    /\ disturbances \in 0..MaxDisturbances
    /\ pc \in {"idle", "own", "buys", "sells", "history", "book", "start", "fillSells", "fillBuys"}
    /\ start \in Int
    /\ unread \subseteq OrderTypes

Init ==
    /\ own = Nobody /\ others \in [OrderTypes -> {{}}]
    /\ pending = << >> /\ last = {} /\ disturbances = 0
    /\ pc = "idle" /\ mine = Nobody /\ unread = {} /\ seen = Nobody /\ start = 0

PricesOf(S) == {o[1] : o \in S}
BookOf(t) == PricesOf(own[t]) \cup others[t]

Disturb == disturbances < MaxDisturbances /\ disturbances' = disturbances + 1

-----------------------------------------------------------------------------
(* A round of FillOrderBook *)

Return == pc' = "idle" /\ mine' = Nobody /\ unread' = {} /\ seen' = Nobody /\ start' = 0

Begin ==
    /\ pc = "idle"
    /\ PromptBlocks => pending = << >>
    /\ pc' = "own"
    /\ UNCHANGED <<chainVars, mine, unread, seen, start, disturbances>>

\* A query fails, or the process is restarted.
GiveUp ==
    /\ pc # "idle" /\ Disturb
    /\ Return
    /\ UNCHANGED chainVars

Count(lists) == Cardinality(lists["buy"]) + Cardinality(lists["sell"])

Listing(buys, sells) == [t \in OrderTypes |-> IF t = "buy" THEN buys ELSE sells]

\* GetAddressActiveOrders with its limit: all orders or, if there are more, any
\* part of them.
Listings ==
    IF Count(own) <= 2 * Required THEN {own}
    ELSE {l \in {Listing(buys, sells) : buys \in SUBSET own["buy"], sells \in SUBSET own["sell"]} :
            Count(l) = 2 * Required}

\* Too many orders: cancel some.
GoOnWith(listing) ==
    /\ mine' = listing
    /\ pc' = IF Count(listing) > Required + CancelOrdersDelta THEN "buys" ELSE "history"

ReadOwn ==
    /\ pc = "own"
    /\ \E l \in Listings : GoOnWith(l)
    /\ UNCHANGED <<chainVars, unread, seen, start, disturbances>>

\* An order that cannot be fetched is left out.
ReadOwnPartly ==
    /\ pc = "own" /\ Disturb
    /\ \E l \in Listings, t \in OrderTypes : \E o \in l[t] : GoOnWith([l EXCEPT ![t] = @ \ {o}])
    /\ UNCHANGED <<chainVars, unread, seen, start>>

Accepted(tx) == pending' = Append(pending, tx) /\ UNCHANGED disturbances

\* An error; the transaction may be in the mempool all the same.
Refused(tx) == Disturb /\ pending' \in {pending, Append(pending, tx)}

\* Variant of Farthest: sorted the other way.
Nearest(t, n) ==
    {S \in SUBSET mine[t] :
        Cardinality(S) = n /\ \A o \in S, kept \in mine[t] \ S : ~Beyond(t, o[1], kept[1])}

\* What cancelOrders may pick: the n orders farthest from the middle.
Farthest(t, n) ==
    {S \in SUBSET mine[t] :
        Cardinality(S) = n /\ \A o \in S, kept \in mine[t] \ S : ~Beyond(t, kept[1], o[1])}

\* cancelExtraOrders; an error with the buys leaves out the sells.
CancelExtra(t) ==
    /\ pc = (IF t = "buy" THEN "buys" ELSE "sells")
    /\ LET next == IF t = "buy" THEN "sells" ELSE "history" IN
       IF Cardinality(mine[t]) <= No(t)
       THEN pc' = next /\ UNCHANGED <<pending, disturbances>>
       ELSE \E S \in Farthest(t, Cardinality(mine[t]) - No(t)) :
              LET tx == [cancels |-> S, adds |-> {}, orderType |-> t] IN
              \/ Accepted(tx) /\ pc' = next
              \/ Refused(tx) /\ pc' = "history"
    /\ UNCHANGED <<own, others, last, mine, unread, seen, start>>

\* shouldFillOrderBook: others have traded a short while ago.
HeldBack == \E h \in last : ~h.self /\ h.recent

CheckHistory ==
    /\ pc = "history"
    /\ IF HeldBack THEN Return
       ELSE pc' = "book" /\ unread' = OrderTypes /\ UNCHANGED <<mine, seen, start>>
    /\ UNCHANGED <<chainVars, disturbances>>

\* GetActiveOrders asks for both sides at once: either may be first.
ReadSide(t) ==
    /\ pc = "book" /\ t \in unread
    /\ seen' = [seen EXCEPT ![t] = BookOf(t)]
    /\ unread' = unread \ {t}
    /\ pc' = IF unread' = {} THEN "start" ELSE pc
    /\ UNCHANGED <<chainVars, mine, start, disturbances>>

\* The history is read once more, unless the spread is configured; without it
\* the start price comes from the spread.
FindStart ==
    /\ pc = "start"
    /\ \E known \in {last, {}} :
         /\ known # last => SpreadSteps <= 0
         /\ start' = SellStart(Best("buy", seen["buy"]), Best("sell", seen["sell"]), known)
    /\ pc' = "fillSells"
    /\ UNCHANGED <<chainVars, mine, unread, seen, disturbances>>

\* Variant of Missing: the sides taken for each other.
MissingOtherSide(t) ==
    LadderPrices(t, seen[Other(t)], PricesOf(mine[Other(t)]),
                 IF t = "buy" THEN start - Step ELSE start, No(t))

Missing(t) ==
    LadderPrices(t, seen[t], PricesOf(mine[t]), IF t = "buy" THEN start - Step ELSE start, No(t))

\* Variant of AddMissing: it tries again after an error.
AddMissingAgain(t) ==
    LET tx == [cancels |-> {}, adds |-> Missing(t), orderType |-> t]
        next == IF t = "sell" THEN pc' = "fillBuys" /\ UNCHANGED <<mine, unread, seen, start>> ELSE Return
    IN  \/ tx.adds = {} /\ next /\ UNCHANGED <<pending, disturbances>>
        \/ tx.adds # {} /\ Accepted(tx) /\ next
        \/ tx.adds # {} /\ Refused(tx) /\ UNCHANGED roundVars

AddMissing(t) ==
    LET tx == [cancels |-> {}, adds |-> Missing(t), orderType |-> t]
        next == IF t = "sell" THEN pc' = "fillBuys" /\ UNCHANGED <<mine, unread, seen, start>> ELSE Return
    IN  \/ tx.adds = {} /\ next /\ UNCHANGED <<pending, disturbances>>
        \/ tx.adds # {} /\ Accepted(tx) /\ next
        \/ tx.adds # {} /\ Refused(tx) /\ Return

FillSells ==
    /\ pc = "fillSells"
    /\ AddMissing("sell")
    /\ UNCHANGED <<own, others, last>>

FillBuys ==
    /\ pc = "fillBuys"
    /\ AddMissing("buy")
    /\ UNCHANGED <<own, others, last>>

-----------------------------------------------------------------------------
(* The market *)

Trade(self, t, p) == last' = {[price |-> p, orderType |-> t, self |-> self, recent |-> TRUE]}

\* An order of type t at p meets orders of the other side.
Meets(t, p) == \E q \in BookOf(Other(t)) : ~Beyond(Other(t), q, p)

Numbered(t, P) == {<<p, CHOOSE n \in 0..Cardinality(own[t]) : <<p, n>> \notin own[t]>> : p \in P}

\* A block executes the first transaction: cancelled orders disappear, orders
\* that meet nobody rest in the book.  It does nothing if an order to cancel is
\* not there any more.
Execute ==
    /\ pending # << >>
    /\ LET tx == Head(pending) IN
       /\ \A p \in tx.adds : ~Meets(tx.orderType, p)
       /\ own' = IF tx.cancels \subseteq own[tx.orderType]
                 THEN [own EXCEPT ![tx.orderType] = (@ \ tx.cancels) \cup Numbered(tx.orderType, tx.adds)]
                 ELSE own
    /\ pending' = Tail(pending)
    /\ UNCHANGED <<others, last, roundVars, disturbances>>

\* An order that meets others trades with the best of them, and both are gone.
ExecuteTrading ==
    /\ pending # << >>
    /\ LET tx == Head(pending)
           meeting == {p \in tx.adds : Meets(tx.orderType, p)}
           o == Other(tx.orderType)
           best == Best(o, BookOf(o))
       IN  /\ meeting # {}
           /\ own' = [own EXCEPT ![o] = {x \in @ : x[1] # best},
                                 ![tx.orderType] = @ \cup Numbered(tx.orderType, tx.adds \ meeting)]
           /\ others' = [others EXCEPT ![o] = @ \ {best}]
           /\ Trade(best \notin others[o], tx.orderType, best)
    /\ pending' = Tail(pending)
    /\ UNCHANGED <<roundVars, disturbances>>

\* It fails, for instance because the balance does not cover it.
ExecutionFails ==
    /\ pending # << >> /\ Disturb
    /\ pending' = Tail(pending)
    /\ UNCHANGED <<own, others, last, roundVars>>

OthersPlace(t, p) ==
    /\ p \notin others[t] /\ ~Meets(t, p) /\ Disturb
    /\ others' = [others EXCEPT ![t] = @ \cup {p}]
    /\ UNCHANGED <<own, pending, last, roundVars>>

OthersCancel(t, p) ==
    /\ p \in others[t] /\ Disturb
    /\ others' = [others EXCEPT ![t] = @ \ {p}]
    /\ UNCHANGED <<own, pending, last, roundVars>>

\* Somebody, or MakeVolume, takes the first order of a side.
Take(t, by) ==
    LET best == Best(t, BookOf(t)) IN
    /\ best # 0 /\ Disturb
    /\ \/ /\ \E o \in own[t] : o[1] = best /\ own' = [own EXCEPT ![t] = @ \ {o}]
          /\ Trade(by = "bot", Other(t), best) /\ UNCHANGED others
       \/ /\ best \in others[t]
          /\ others' = [others EXCEPT ![t] = @ \ {best}]
          /\ Trade(FALSE, Other(t), best) /\ UNCHANGED own
    /\ UNCHANGED <<pending, roundVars>>

\* The hold-back time of the last trade is over.
HoldBackEnds ==
    /\ HeldBack
    /\ last' = {[h EXCEPT !.recent = FALSE] : h \in last}
    /\ UNCHANGED <<own, others, pending, roundVars, disturbances>>

Round ==
    \/ Begin \/ ReadOwn \/ \E t \in OrderTypes : CancelExtra(t)
    \/ CheckHistory \/ \E t \in OrderTypes : ReadSide(t)
    \/ FindStart \/ FillSells \/ FillBuys

Next ==
    \/ Round \/ GiveUp \/ ReadOwnPartly
    \/ Execute \/ ExecuteTrading \/ ExecutionFails
    \/ \E t \in OrderTypes, p \in OthersPrices : OthersPlace(t, p) \/ OthersCancel(t, p)
    \/ \E t \in OrderTypes, by \in {"bot", "others"} : Take(t, by)
    \/ HoldBackEnds

Spec == Init /\ [][Next]_vars

\* The loop starts round after round, each comes to an end; blocks are made and
\* time passes.
FairSpec == Spec /\ WF_vars(Round) /\ WF_vars(Execute) /\ WF_vars(ExecuteTrading) /\ WF_vars(HoldBackEnds)

-----------------------------------------------------------------------------
(* Properties *)

\* The bot's orders and those on their way to the book.
PendingAdds(t) == UNION {pending[i].adds : i \in {j \in 1..Len(pending) : pending[j].orderType = t}}
Placed(t) == PricesOf(own[t]) \cup PendingAdds(t)

\* The two ladders never meet: no own sell at or below an own buy, whatever
\* rounds have been cut short and whatever others have done in between.
LaddersApart == \A b \in Placed("buy"), s \in Placed("sell") : b < s

\* With prompt blocks no round places an order on a level the bot already
\* occupies, although its two pictures of the market are of different moments.
NoDoubleLevel ==
    [][\A i \in 1..Len(pending') :
          i > Len(pending) =>
              pending'[i].adds \cap Placed(pending'[i].orderType) = {}]_vars

\* Undisturbed, the bot comes to rest with both ladders complete: rounds and
\* cancellations do not chase each other.
Settles ==
    <>[](/\ pending = << >>
         /\ Count(own) <= Required + CancelOrdersDelta
         /\ \A t \in OrderTypes : Cardinality(own[t]) >= No(t))

\* "spread_steps: the number of steps to leave empty in the spread"
\* (README.md:15), between the bot's own orders when nobody else has any.
SpreadLeftEmpty ==
    pc = "idle" /\ pending = << >> /\ others = Nobody /\ own["buy"] # {} /\ own["sell"] # {} =>
        Best("sell", PricesOf(own["sell"])) - Best("buy", PricesOf(own["buy"])) >= SpreadSteps * Step
=============================================================================
