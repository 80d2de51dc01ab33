---------------------------- MODULE VolumeProofs ----------------------------
(***************************************************************************)
(* Proofs about Volume, for any amounts, intervals and books: types, the    *)
(* amount of a strategy, the distance of extra volume, that the carousel    *)
(* does not panic, and the distance of two orders.                          *)
(*                                                                         *)
(* None of these is inductive: what MakeVolume submits was decided steps    *)
(* before, from a strategy that was chosen before that.  The invariant says *)
(* what of the strategy, the book and the order is still true at each step. *)
(***************************************************************************)
EXTENDS Volume, FiniteSetTheorems, TLAPS

USE VolumeAssumption, ExtraAssumption, TimeAssumption, BookAssumption, BoundAssumption

\* A call holds an order exactly while it is submitting one; and it has a strategy
\* from the moment it reads the history.
Phase ==
    /\ pc # "submit" => order = NoOrder
    /\ pc \in {"history", "submit"} => strategy # {}

\* Extra volume comes with the count at ExtraEvery, and the count is never more
\* than one ahead of the trades since the last one.
Counted ==
    /\ \A s \in strategy : s.trades - 1 <= sinceExtra
    /\ order.extra > 0 => \A s \in strategy : s.trades = ExtraEvery

\* What remains covers the order, except one with extra volume; a strategy that
\* has spent more than its amount has nothing left, and is not used again.
Budgeted ==
    /\ overspent > 0 =>
         /\ sinceExtra = 0 /\ MinVolume + overspent < MaxVolume
         /\ \A s \in strategy : s.remaining = 0
    /\ pc \in {"history", "submit"} => \A s \in strategy : s.remaining >= MinVolume
    /\ pc = "submit" =>
         /\ order.extra = 0 => \A s \in strategy : order.amount <= s.remaining
         /\ order.amount < MaxVolume \/ order.amount <= MinVolume

\* The carousel has found the order that it will trade with, in the book that the
\* same call has read.
Supplied ==
    cfg = "carousel" =>
        /\ pc = "history" => book.complete
        /\ pc = "panicked" => ExtraMax > 0 /\ ExtraMin > ExtraMax

\* Once the bot's last order has traded, the market has been active since.
Settled == lastTx = "traded" => history.age <= sinceSubmit

-----------------------------------------------------------------------------
(* The operators *)

LEMMA OlderType == ASSUME NEW a \in Age PROVE Older(a) \in Age
BY DEF Age, Older, Far

\* Ages keep their order as time passes.
LEMMA OlderMonotone ==
    ASSUME NEW a \in Age, NEW b \in Age, a <= b PROVE Older(a) <= Older(b)
BY DEF Age, Older, Far

LEMMA FarType == Far \in Nat /\ Far \in Age /\ 0 \in Age
BY DEF Age, Far

\* A random number is in its range, and below the upper bound if there is room.
LEMMA RandomType ==
    ASSUME NEW min \in Nat, NEW max \in Nat, NEW x \in RandomInt(min, max)
    PROVE  x \in Nat /\ min <= x /\ x <= max /\ (x < max \/ x = min)
BY DEF RandomInt

LEMMA LeastType ==
    ASSUME NEW a \in Nat, NEW b \in Nat
    PROVE  Least(a, b) \in Nat /\ Least(a, b) <= a /\ Least(a, b) <= b
BY DEF Least

LEMMA AmountType ==
    /\ \A a \in Amounts \cup {0} : a \in Nat
    /\ \A a \in Amounts : a > 0
<1> SUFFICES ASSUME NEW a \in Amounts PROVE a \in Nat /\ a > 0
  OBVIOUS
<1>1. a \in Nat \ {0}
  OBVIOUS
<1> QED BY <1>1

LEMMA HeadType ==
    ASSUME NEW b \in BookViews, NEW t \in OrderTypes
    PROVE  /\ Head(b, t) \in Sides /\ Head(b, t).amount \in Amounts \cup {0}
           /\ Head(b, t).amount \in Nat
           /\ Head(b, t).mine \in BOOLEAN
           /\ Head(b, t).mine => Head(b, t).amount > 0
<1>1. Head(b, t) \in Sides
  BY DEF Head, BookViews, OrderTypes
<1>2. \A side \in Sides :
         /\ side.amount \in Amounts \cup {0} /\ side.mine \in BOOLEAN
         /\ side.mine => side.amount \in Amounts
  BY DEF Sides
<1> HIDE DEF Head
<1> QED BY <1>1, <1>2, AmountType

\* What makeStrategy prefers is possible when anything is.
LEMMA PreferredPossible ==
    ASSUME NEW b \in BookViews, NEW last \in OrderTypes, Possible(b) # {}
    PROVE  PreferredType(b, last) \in OrderTypes /\ Head(b, PreferredType(b, last)).amount > 0
<1>1. Possible(b) \subseteq OrderTypes /\ Mine(b) \subseteq Possible(b)
  BY HeadType DEF Possible, Mine
<1>2. ASSUME NEW S, Single(S) PROVE TheOnly(S) \in S
  <2>1. S # {}
    BY <1>2, FS_EmptySet DEF Single
  <2> QED BY <2>1 DEF TheOnly
<1>3. ~Single(Possible(b)) => Possible(b) = OrderTypes
  <2>1. Single({"buy"}) /\ Single({"sell"})
    BY FS_Singleton DEF Single
  <2>2. \A S \in SUBSET {"buy", "sell"} :
           S # {} /\ S # {"buy"} /\ S # {"sell"} => S = {"buy", "sell"}
    OBVIOUS
  <2> QED BY <1>1, <2>1, <2>2 DEF OrderTypes
<1>4. PreferredType(b, last) \in Possible(b)
  <2>1. CASE Single(Possible(b))
    BY <1>2, <2>1 DEF PreferredType
  <2>2. CASE ~Single(Possible(b)) /\ PicksOwnOrders /\ Single(Mine(b))
    BY <1>1, <1>2, <2>2 DEF PreferredType
  <2>3. CASE ~Single(Possible(b)) /\ PicksOwnOrders /\ Mine(b) = {}
    <3>1. ~Single({})
      BY FS_EmptySet DEF Single
    <3>2. PreferredType(b, last) = IF b.sell.amount < b.buy.amount THEN "buy" ELSE "sell"
      BY <2>3, <3>1 DEF PreferredType
    <3> QED BY <1>3, <2>3, <3>2 DEF OrderTypes
  <2>4. CASE /\ ~Single(Possible(b))
             /\ ~(PicksOwnOrders /\ Single(Mine(b))) /\ ~(PicksOwnOrders /\ Mine(b) = {})
    BY <1>3, <2>4 DEF PreferredType
  <2> QED BY <2>1, <2>2, <2>3, <2>4
<1> QED BY <1>1, <1>4 DEF Possible

LEMMA TradesSoFarType ==
    ASSUME TypeOK
    PROVE  /\ TradesSoFar \in 0..ExtraEvery
           /\ strategy # {} => \E s \in strategy : TradesSoFar = s.trades
           /\ strategy = {} => TradesSoFar = 0
<1>1. CASE strategy = {}
  BY <1>1 DEF TradesSoFar
<1>2. CASE strategy # {}
  <2>1. TheOnly(strategy) \in strategy
    BY <1>2 DEF TheOnly
  <2> QED BY <1>2, <2>1 DEF TradesSoFar, TypeOK, StrategyRecord
<1> QED BY <1>1, <1>2

\* makeBaseStrategy: a strategy for an order of the book, with an amount of its
\* own and the count of the last one.
LEMMA NewStrategyType ==
    ASSUME TypeOK, NEW b \in BookViews, NEW last \in OrderTypes, NEW S \in NewStrategies(b, last)
    PROVE  /\ S \subseteq StrategyRecord /\ \A s, t \in S : s = t
           /\ \A s \in S : /\ MinVolume <= s.remaining /\ s.trades = TradesSoFar
                           /\ Head(b, s.orderType).amount > 0
<1> DEFINE t == PreferredType(b, last)
<1>1. CASE Possible(b) = {} \/ ~Head(b, t).owns
  BY <1>1 DEF NewStrategies
<1>2. CASE Possible(b) # {} /\ Head(b, t).owns
  <2>1. PICK r \in RandomInt(MinVolume * VolumeMul, MaxVolume * VolumeMul) :
           S = {[orderType |-> t, remaining |-> r, trades |-> TradesSoFar, lastRun |-> Far]}
    BY <1>2 DEF NewStrategies
  <2>2. MinVolume * VolumeMul \in Nat /\ MaxVolume * VolumeMul \in Nat
    BY DEF VolumeMul
  <2>3. r \in Nat /\ MinVolume * VolumeMul <= r /\ r <= MaxVolume * VolumeMul
    BY <2>2, RandomType
  <2>4. r \in 0..(MaxVolume * VolumeMul) /\ MinVolume <= r
    BY <2>2, <2>3 DEF VolumeMul
  <2>5. t \in OrderTypes /\ Head(b, t).amount > 0
    BY <1>2, PreferredPossible
  <2> HIDE DEF t
  <2>6. [orderType |-> t, remaining |-> r, trades |-> TradesSoFar, lastRun |-> Far]
           \in StrategyRecord
    BY <2>4, <2>5, TradesSoFarType, FarType DEF StrategyRecord
  <2> QED BY <2>1, <2>4, <2>5, <2>6
<1> QED BY <1>1, <1>2

LEMMA UseType ==
    ASSUME NEW s \in StrategyRecord, NEW b \in BookViews
    PROVE  /\ Use(s, b) \in BookUses
           /\ Use(s, b).complete \in BOOLEAN
           /\ Head(b, s.orderType).amount > 0 /\ ~TradesInSpread => Use(s, b).complete
<1>1. s.orderType \in OrderTypes
  BY DEF StrategyRecord
<1>2. b.gap \in Gaps
  BY DEF BookViews
<1> DEFINE head == Head(b, s.orderType)
           complete == head.amount > 0 /\ (TradesInSpread => Possible(b) = OrderTypes)
<1>3. head.amount \in Amounts \cup {0} /\ complete \in BOOLEAN
  BY <1>1, HeadType
<1>4. Use(s, b) = [amount |-> head.amount, gap |-> b.gap, complete |-> complete]
  BY DEF Use
<1>5. head.amount > 0 /\ ~TradesInSpread => complete
  OBVIOUS
<1> HIDE DEF head, complete
<1>6. Use(s, b) \in BookUses
  BY <1>2, <1>3, <1>4 DEF BookUses
<1>7. Use(s, b).complete = complete
  BY <1>4
<1> QED BY <1>3, <1>5, <1>6, <1>7 DEF head

LEMMA RecordFields ==
    ASSUME NEW s \in StrategyRecord
    PROVE  /\ s.remaining \in Nat /\ s.remaining <= MaxVolume * VolumeMul
           /\ s.trades \in Nat /\ s.trades <= ExtraEvery /\ s.lastRun \in Age
BY DEF StrategyRecord, VolumeMul

\* The order that makeOrder makes.
LEMMA OrderType ==
    ASSUME TypeOK, NEW s \in strategy, NEW extra \in Extras(s),
           NEW drawn \in RandomInt(MinVolume, MaxVolume),
           book \in BookUses
    PROVE  LET amount == OrderAmount(s, drawn, extra) IN
           /\ amount \in 0..MaxVolume /\ extra \in Nat
           /\ extra = 0 => amount <= s.remaining
           /\ amount < MaxVolume \/ amount <= MinVolume
           /\ extra > 0 => s.trades = ExtraEvery
<1>1. s \in StrategyRecord
  BY DEF TypeOK
<1>2. drawn \in Nat /\ drawn <= MaxVolume /\ (drawn < MaxVolume \/ drawn = MinVolume)
  BY RandomType
<1>3. s.remaining \in Nat
  BY <1>1, RecordFields
<1>4. book.amount \in Nat
  BY AmountType DEF BookUses
<1>5. extra \in Nat /\ (extra > 0 => s.trades = ExtraEvery)
  BY RandomType DEF Extras, ExtraDue
<1>6. OrderAmount(s, drawn, extra) \in Nat /\ OrderAmount(s, drawn, extra) <= drawn
  BY <1>2, <1>3, <1>4, LeastType DEF OrderAmount, Least
<1>7. extra = 0 => OrderAmount(s, drawn, extra) <= s.remaining
  BY <1>2, <1>3, <1>4 DEF OrderAmount, Least
<1> HIDE DEF OrderAmount
<1> QED BY <1>2, <1>5, <1>6, <1>7

-----------------------------------------------------------------------------
(* Types *)

LEMMA NoOrderType ==
    /\ NoOrder \in [amount : 0..MaxVolume, extra : Nat]
    /\ NoOrder.extra = 0
BY DEF NoOrder

\* The first step of a call.
LEMMA ProceedType ==
    ASSUME TypeOK, NEW s \in StrategyRecord, NEW b \in BookViews, Proceed(s, b)
    PROVE  /\ pc' \in {"resting", "history"} /\ book' \in BookUses \cup {NoBook}
           /\ order' \in {order, NoOrder}
           /\ pc' = "history" => book' = Use(s, b) /\ order' = order
           /\ pc' = "resting" => order' = NoOrder
BY UseType DEF Proceed, Return

\* An acknowledged strategy.
LEMMA AcknowledgedType ==
    ASSUME TypeOK, NEW s \in strategy
    PROVE  [s EXCEPT !.lastRun = 0, !.trades = NextCount(s.trades),
                     !.remaining = SetRemaining(s.remaining - order.amount)] \in StrategyRecord
<1>1. s \in StrategyRecord /\ s.orderType \in OrderTypes
  BY DEF TypeOK, StrategyRecord
<1>2. s.remaining \in 0..(MaxVolume * VolumeMul) /\ s.trades \in 0..ExtraEvery
  BY <1>1 DEF StrategyRecord
<1>3. order.amount \in Nat
  BY DEF TypeOK
<1>4. MaxVolume * VolumeMul \in Nat
  BY DEF VolumeMul
<1>5. SetRemaining(s.remaining - order.amount) \in 0..(MaxVolume * VolumeMul)
  BY <1>2, <1>3, <1>4 DEF SetRemaining
<1>6. NextCount(s.trades) \in 0..ExtraEvery
  BY <1>2 DEF NextCount
<1> QED BY <1>1, <1>5, <1>6, FarType DEF StrategyRecord

\* A step of the call that leaves the chain and the records alone.
LEMMA CallTyped ==
    ASSUME TypeOK, UNCHANGED <<chainVars, sinceSubmit, lastTx, sinceForeign, sinceExtra>>,
           strategy' \subseteq StrategyRecord, \A s, t \in strategy' : s = t,
           pc' \in {"idle", "history", "submit", "resting", "panicked"},
           book' \in BookUses \cup {NoBook},
           order' \in [amount : 0..MaxVolume, extra : Nat],
           overspent' \in Nat
    PROVE  TypeOK'
BY DEF TypeOK, chainVars, fixedVars

LEMMA TypeKeep ==
    ASSUME TypeOK, NEW b \in BookViews, KeepStrategy(b)
    PROVE  TypeOK'
<1>1. PICK s \in strategy : Proceed(s, b)
  BY DEF KeepStrategy
<1>2. s \in StrategyRecord
  BY DEF TypeOK
<1>3. /\ pc' \in {"resting", "history"} /\ book' \in BookUses \cup {NoBook}
      /\ order' \in {order, NoOrder}
  BY <1>1, <1>2, ProceedType
<1>4. UNCHANGED <<strategy, chainVars, sinceSubmit, lastTx, sinceForeign, sinceExtra, overspent>>
  BY DEF KeepStrategy, recordVars
<1>5. order' \in [amount : 0..MaxVolume, extra : Nat]
  BY <1>3, NoOrderType DEF TypeOK
<1>6. /\ strategy' \subseteq StrategyRecord /\ \A t, u \in strategy' : t = u
      /\ overspent' \in Nat
  BY <1>4 DEF TypeOK
<1> QED BY <1>3, <1>4, <1>5, <1>6, CallTyped

\* What a renewed strategy is, and what the call does with it.
LEMMA Renewed ==
    ASSUME TypeOK, NEW b \in BookViews, NEW last \in OrderTypes, RenewStrategy(b, last)
    PROVE  /\ strategy' \subseteq StrategyRecord /\ \A s, t \in strategy' : s = t
           /\ \A s \in strategy' : /\ MinVolume <= s.remaining /\ s.trades = TradesSoFar
                                   /\ Head(b, s.orderType).amount > 0
           /\ pc' \in {"resting", "history"} /\ book' \in BookUses \cup {NoBook}
           /\ order' \in {order, NoOrder}
           /\ pc' = "history" => \E s \in strategy' : book' = Use(s, b) /\ order' = order
           /\ pc' = "resting" => order' = NoOrder
<1>1. strategy' \in NewStrategies(b, last)
  BY DEF RenewStrategy
<1>2. /\ strategy' \subseteq StrategyRecord /\ \A s, t \in strategy' : s = t
      /\ \A s \in strategy' : /\ MinVolume <= s.remaining /\ s.trades = TradesSoFar
                              /\ Head(b, s.orderType).amount > 0
  BY <1>1, NewStrategyType
<1>3. CASE strategy' = {}
  <2>1. Return
    BY <1>3 DEF RenewStrategy
  <2> QED BY <1>2, <2>1 DEF Return
<1>4. CASE strategy' # {}
  <2>1. PICK s \in strategy' : Proceed(s, b)
    BY <1>4 DEF RenewStrategy
  <2>2. s \in StrategyRecord
    BY <1>2
  <2> QED BY <1>2, <2>1, <2>2, ProceedType
<1> QED BY <1>3, <1>4

LEMMA TypeRenew ==
    ASSUME TypeOK, NEW b \in BookViews, NEW last \in OrderTypes, RenewStrategy(b, last)
    PROVE  TypeOK'
<1>1. /\ UNCHANGED <<chainVars, sinceSubmit, lastTx, sinceForeign, sinceExtra>>
      /\ overspent' = 0
  BY DEF RenewStrategy
<1>2. order' \in [amount : 0..MaxVolume, extra : Nat]
  BY Renewed, NoOrderType DEF TypeOK
<1> QED BY <1>1, <1>2, Renewed, CallTyped

\* makeOrder either returns or makes an order of these parts.
LEMMA Made ==
    ASSUME TypeOK, MakeOrder
    PROVE  \/ Return
           \/ /\ pc' = "submit" /\ book' = NoBook
              /\ \E s \in strategy : \E extra \in Extras(s), drawn \in RandomInt(MinVolume, MaxVolume) :
                    order' = [amount |-> OrderAmount(s, drawn, extra), extra |-> extra]
BY DEF MakeOrder

LEMMA BookRead ==
    ASSUME TypeOK, book.complete
    PROVE  book \in BookUses
BY DEF TypeOK, NoBook

LEMMA TypeMake == ASSUME TypeOK, MakeOrder PROVE TypeOK'
<1>1. /\ UNCHANGED <<strategy, chainVars, sinceSubmit, lastTx, sinceForeign, sinceExtra, overspent>>
      /\ book.complete
  BY DEF MakeOrder, recordVars
<1>2. /\ strategy' \subseteq StrategyRecord /\ \A t, u \in strategy' : t = u
      /\ overspent' \in Nat
  BY <1>1 DEF TypeOK
<1>3. CASE Return
  BY <1>1, <1>2, <1>3, NoOrderType, CallTyped DEF Return
<1>4. CASE ~Return
  <2> PICK s \in strategy :
           /\ pc' = "submit" /\ book' = NoBook
           /\ \E extra \in Extras(s), drawn \in RandomInt(MinVolume, MaxVolume) :
                 order' = [amount |-> OrderAmount(s, drawn, extra), extra |-> extra]
    BY <1>4, Made
  <2>1. PICK extra \in Extras(s), drawn \in RandomInt(MinVolume, MaxVolume) :
           /\ pc' = "submit" /\ book' = NoBook
           /\ order' = [amount |-> OrderAmount(s, drawn, extra), extra |-> extra]
    OBVIOUS
  <2>2. book \in BookUses
    BY <1>1, BookRead
  <2>3. OrderAmount(s, drawn, extra) \in 0..MaxVolume /\ extra \in Nat
    BY <2>2, OrderType
  <2>4. order' \in [amount : 0..MaxVolume, extra : Nat]
    BY <2>1, <2>3
  <2> QED BY <1>1, <1>2, <2>1, <2>4, CallTyped
<1> QED BY <1>3, <1>4

LEMMA TypeSubmit == ASSUME TypeOK, Submit PROVE TypeOK'
<1>1. PICK s \in strategy : Acknowledge(s)
  BY DEF Submit
<1>2. strategy' \subseteq StrategyRecord /\ \A t, u \in strategy' : t = u
  BY <1>1, AcknowledgedType DEF Acknowledge
<1>3. s \in StrategyRecord /\ order.amount \in Nat
  BY DEF TypeOK
<1>4. s.remaining \in Nat
  BY <1>3, RecordFields
<1>5. overspent' \in Nat
  <2>1. overspent' = overspent + order.amount - Least(order.amount, s.remaining)
    BY <1>1 DEF Acknowledge
  <2>2. Least(order.amount, s.remaining) \in Nat /\ Least(order.amount, s.remaining) <= order.amount
    BY <1>3, <1>4, LeastType
  <2>3. overspent \in Nat
    BY DEF TypeOK
  <2> QED BY <1>3, <2>1, <2>2, <2>3
<1>6. sinceExtra' \in 0..ExtraEvery
  BY <1>1 DEF Acknowledge, TypeOK, Least
<1>7. /\ pending' \in 0..MaxPending /\ lastTx' \in {"none", "pending", "traded", "untraded"}
      /\ UNCHANGED <<history, cfg, calm, sinceForeign>> /\ sinceSubmit' \in Age
  BY FarType DEF Submit, ReachesMempool, TypeOK, fixedVars
<1>8. pc' = "resting" /\ book' = NoBook /\ order' = NoOrder
  BY DEF Submit, Return
<1> QED BY <1>2, <1>5, <1>6, <1>7, <1>8, NoOrderType DEF TypeOK

LEMMA TypeStep == TypeOK /\ [Next]_vars => TypeOK'
<1> SUFFICES ASSUME TypeOK, [Next]_vars PROVE TypeOK'
  OBVIOUS
<1>1. CASE CannotRead
  BY <1>1, NoOrderType, CallTyped DEF CannotRead, Return, TypeOK, recordVars
<1>2. CASE GetStrategy
  BY <1>2, TypeKeep, TypeRenew DEF GetStrategy
<1>3. CASE HoldOff
  BY <1>3, NoOrderType, CallTyped DEF HoldOff, Return, TypeOK, recordVars
<1>4. CASE MakeOrder
  BY <1>4, TypeMake
<1>5. CASE Panic
  BY <1>5, CallTyped DEF Panic, TypeOK, recordVars
<1>6. CASE Submit
  BY <1>6, TypeSubmit
<1>7. CASE SubmitUnanswered
  BY <1>7, NoOrderType, FarType
  DEF SubmitUnanswered, ReachesMempool, Forget, Return, TypeOK, fixedVars
<1>8. CASE SubmitFails
  BY <1>8, NoOrderType, CallTyped DEF SubmitFails, Return, TypeOK
<1>9. ASSUME NEW self \in BOOLEAN, NEW t \in OrderTypes, Traded(self, t) PROVE TypeOK'
  BY <1>9, FarType DEF Traded, NewTrade, TypeOK, callVars, fixedVars
<1>10. CASE Untraded
  BY <1>10 DEF Untraded, TypeOK, callVars, fixedVars
<1>11. ASSUME NEW t \in OrderTypes, ForeignTrade(t) PROVE TypeOK'
  BY <1>11, FarType DEF ForeignTrade, NewTrade, TypeOK, callVars, fixedVars
<1>12. CASE Tick
  <2>1. strategy' \subseteq StrategyRecord
    <3> SUFFICES ASSUME NEW s \in strategy
                 PROVE  [s EXCEPT !.lastRun = Older(s.lastRun)] \in StrategyRecord
      BY <1>12 DEF Tick
    <3>1. s \in StrategyRecord /\ Older(s.lastRun) \in Age
      BY RecordFields, OlderType DEF TypeOK
    <3> QED BY <3>1 DEF StrategyRecord
  <2>2. \A s, t \in strategy' : s = t
    BY <1>12 DEF Tick, TypeOK
  <2>3. history' \in [self : BOOLEAN, orderType : OrderTypes, age : Age]
    BY <1>12, OlderType DEF Tick, TypeOK
  <2>4. sinceSubmit' \in Age /\ sinceForeign' \in Age
    BY <1>12, OlderType DEF Tick, TypeOK
  <2>5. pc' \in {"idle", "history", "submit", "resting", "panicked"}
    BY <1>12 DEF Tick, TypeOK
  <2> QED BY <1>12, <2>1, <2>2, <2>3, <2>4, <2>5 DEF Tick, TypeOK, fixedVars
<1>13. CASE Restart
  BY <1>13, NoOrderType DEF Restart, Forget, TypeOK
<1>14. CASE BecomeCalm
  BY <1>14 DEF BecomeCalm, TypeOK, callVars, recordVars
<1>15. CASE UNCHANGED vars
  BY <1>15 DEF vars, TypeOK, callVars, chainVars, fixedVars, recordVars
<1> QED
  BY <1>1, <1>2, <1>3, <1>4, <1>5, <1>6, <1>7, <1>8, <1>9, <1>10, <1>11, <1>12, <1>13, <1>14,
     <1>15 DEF Next

LEMMA InitTyped == Init => TypeOK
<1> SUFFICES ASSUME Init PROVE TypeOK
  OBVIOUS
<1>1. history \in [self : BOOLEAN, orderType : OrderTypes, age : Age]
  BY FarType DEF Init, OrderTypes
<1>2. strategy \in SUBSET StrategyRecord /\ \A s, t \in strategy : s = t
  BY DEF Init
<1>3. order \in [amount : 0..MaxVolume, extra : Nat]
  BY NoOrderType DEF Init
<1>4. pending \in 0..MaxPending /\ sinceExtra \in 0..ExtraEvery
  BY DEF Init
<1>5. sinceSubmit \in Age /\ sinceForeign \in Age
  BY FarType DEF Init
<1>6. cfg \in Strategies
  BY DEF Init
<1>7. calm \in BOOLEAN
  BY DEF Init
<1>8. book \in BookUses \cup {NoBook}
  BY Zenon DEF Init
<1>9. pc \in {"idle", "history", "submit", "resting", "panicked"}
  BY Zenon DEF Init
<1>10. lastTx \in {"none", "pending", "traded", "untraded"}
  BY Zenon DEF Init
<1>11. overspent \in Nat
  BY DEF Init
<1> QED
  BY <1>1, <1>2, <1>3, <1>4, <1>5, <1>6, <1>7, <1>8, <1>9, <1>10, <1>11 DEF TypeOK

\* Every variable keeps its type, for any configuration that Validate admits.
THEOREM VolumeTypeCorrect == Spec => []TypeOK
<1>1. Init => TypeOK
  BY InitTyped
<1> QED BY <1>1, TypeStep, PTL DEF Spec

-----------------------------------------------------------------------------
(* Phases, counts and amounts *)

LEMMA PhaseStep == TypeOK /\ Phase /\ [Next]_vars => Phase'
<1> SUFFICES ASSUME TypeOK, Phase, [Next]_vars PROVE Phase'
  OBVIOUS
<1>1. CASE CannotRead \/ HoldOff
  BY <1>1 DEF CannotRead, HoldOff, Return, Phase
<1>2. ASSUME NEW b \in BookViews, KeepStrategy(b) PROVE Phase'
  BY <1>2 DEF KeepStrategy, Proceed, Return, Phase
<1>3. ASSUME NEW b \in BookViews, NEW last \in OrderTypes, RenewStrategy(b, last) PROVE Phase'
  <2>1. order = NoOrder
    BY <1>3 DEF RenewStrategy, Phase
  <2>2. CASE pc' = "resting"
    BY <1>3, <2>2, Renewed DEF Phase
  <2>3. CASE pc' = "history"
    BY <1>3, <2>1, <2>3, Renewed DEF Phase
  <2> QED BY <1>3, <2>2, <2>3, Renewed
<1>4. CASE MakeOrder
  BY <1>4 DEF MakeOrder, Return, Phase
<1>5. CASE Panic
  BY <1>5 DEF Panic, Phase
<1>6. CASE Submit \/ SubmitUnanswered \/ SubmitFails
  BY <1>6 DEF Submit, SubmitUnanswered, SubmitFails, Return, Phase
<1>7. ASSUME NEW self \in BOOLEAN, NEW t \in OrderTypes, Traded(self, t) \/ ForeignTrade(t)
      PROVE  Phase'
  BY <1>7 DEF Traded, ForeignTrade, callVars, Phase
<1>8. CASE Tick
  <2>1. strategy # {} => strategy' # {}
    BY <1>8 DEF Tick
  <2> QED BY <1>8, <2>1 DEF Tick, Phase
<1>9. CASE Restart
  BY <1>9 DEF Restart, Phase
<1>10. CASE Untraded \/ BecomeCalm \/ UNCHANGED vars
  BY <1>10 DEF Untraded, BecomeCalm, vars, callVars, Phase
<1> QED
  BY <1>1, <1>2, <1>3, <1>4, <1>5, <1>6, <1>7, <1>8, <1>9, <1>10 DEF Next, GetStrategy

\* The strategies of the next moment with what Tick leaves of them.
LEMMA TickKeeps ==
    ASSUME TypeOK, Tick, NEW s \in strategy'
    PROVE  \E old \in strategy : s.trades = old.trades /\ s.remaining = old.remaining
<1>1. PICK old \in strategy : s = [old EXCEPT !.lastRun = Older(old.lastRun)]
  BY DEF Tick
<1>2. old \in StrategyRecord
  BY DEF TypeOK
<1> QED BY <1>1, <1>2 DEF StrategyRecord

LEMMA CountedStep == TypeOK /\ Phase /\ Counted /\ [Next]_vars => Counted'
<1> SUFFICES ASSUME TypeOK, Phase, Counted, [Next]_vars PROVE Counted'
  OBVIOUS
<1>1. CASE CannotRead \/ HoldOff
  BY <1>1, NoOrderType DEF CannotRead, HoldOff, Return, Counted, recordVars
<1>2. ASSUME NEW b \in BookViews, KeepStrategy(b) PROVE Counted'
  <2>1. order = NoOrder
    BY <1>2 DEF KeepStrategy, Phase
  <2>2. order' = NoOrder
    BY <1>2, <2>1 DEF KeepStrategy, Proceed, Return
  <2> QED BY <1>2, <2>2, NoOrderType DEF KeepStrategy, Counted, recordVars
<1>3. ASSUME NEW b \in BookViews, NEW last \in OrderTypes, RenewStrategy(b, last) PROVE Counted'
  <2>1. order = NoOrder /\ sinceExtra' = sinceExtra /\ sinceExtra \in Nat
    BY <1>3 DEF RenewStrategy, Phase, TypeOK
  <2>2. order' = NoOrder
    BY <1>3, <2>1, Renewed
  <2>3. TradesSoFar - 1 <= sinceExtra
    BY <2>1, TradesSoFarType DEF Counted
  <2> QED BY <1>3, <2>1, <2>2, <2>3, Renewed, NoOrderType DEF Counted
<1>4. CASE MakeOrder
  <2>1. UNCHANGED <<strategy, sinceExtra>> /\ book.complete
    BY <1>4 DEF MakeOrder, recordVars
  <2>2. CASE Return
    BY <2>1, <2>2, NoOrderType DEF Return, Counted
  <2>3. CASE ~Return
    <3>1. PICK s \in strategy :
             \E extra \in Extras(s), drawn \in RandomInt(MinVolume, MaxVolume) :
                order' = [amount |-> OrderAmount(s, drawn, extra), extra |-> extra]
      BY <1>4, <2>3, Made
    <3>2. order'.extra > 0 => s.trades = ExtraEvery
      BY <2>1, <3>1, BookRead, OrderType
    <3> QED BY <2>1, <3>2 DEF Counted, TypeOK
  <2> QED BY <2>2, <2>3
<1>5. CASE Panic
  BY <1>5 DEF Panic, Counted, recordVars
<1>6. CASE Submit
  <2>1. PICK s \in strategy : Acknowledge(s)
    BY <1>6 DEF Submit
  <2>2. s.trades \in 0..ExtraEvery /\ sinceExtra \in 0..ExtraEvery /\ s \in StrategyRecord
    BY DEF TypeOK, StrategyRecord
  <2>3. s.trades - 1 <= sinceExtra /\ (order.extra > 0 => s.trades = ExtraEvery)
    BY DEF Counted
  <2>4. \A t \in strategy' : t.trades = NextCount(s.trades)
    BY <2>1, <2>2 DEF Acknowledge, StrategyRecord
  <2>5. NextCount(s.trades) - 1 <= sinceExtra'
    BY <2>1, <2>2, <2>3 DEF Acknowledge, NextCount, Least
  <2>6. order' = NoOrder
    BY <1>6 DEF Submit, Return
  <2> QED BY <2>4, <2>5, <2>6, NoOrderType DEF Counted
<1>7. CASE SubmitUnanswered \/ SubmitFails \/ Restart
  BY <1>7, NoOrderType DEF SubmitUnanswered, SubmitFails, Restart, Forget, Return, Counted
<1>8. ASSUME NEW self \in BOOLEAN, NEW t \in OrderTypes, Traded(self, t) \/ ForeignTrade(t)
      PROVE  Counted'
  BY <1>8 DEF Traded, ForeignTrade, callVars, Counted
<1>9. CASE Tick
  BY <1>9, TickKeeps DEF Tick, Counted
<1>10. CASE Untraded \/ BecomeCalm \/ UNCHANGED vars
  BY <1>10 DEF Untraded, BecomeCalm, vars, callVars, recordVars, Counted
<1> QED
  BY <1>1, <1>2, <1>3, <1>4, <1>5, <1>6, <1>7, <1>8, <1>9, <1>10 DEF Next, GetStrategy

\* Extra volume keeps its distance, however often strategies are lost or renewed.
THEOREM ExtraSpacingHolds == Spec => []ExtraSpacing
<1>1. Init => Phase /\ Counted
  BY NoOrderType DEF Init, Phase, Counted
<1>2. TypeOK /\ Phase /\ Counted => ExtraSpacing
  <2> SUFFICES ASSUME TypeOK, Phase, Counted, order.extra > 0
               PROVE  sinceExtra >= ExtraEvery - 1
    BY DEF ExtraSpacing
  <2>1. pc = "submit"
    BY NoOrderType DEF Phase
  <2>2. PICK s \in strategy : TRUE
    BY <2>1 DEF Phase
  <2>3. s.trades = ExtraEvery /\ s.trades - 1 <= sinceExtra
    BY DEF Counted
  <2> QED BY <2>3 DEF TypeOK
<1> QED BY <1>1, <1>2, InitTyped, TypeStep, PhaseStep, CountedStep, PTL DEF Spec

-----------------------------------------------------------------------------
(* The amount of a strategy *)

\* With nothing left a strategy must not be good for another trade: a fraction
\* of one is not enough as MinVolume.
MinPositive == MinVolume > 0

LEMMA BudgetedStep ==
    TypeOK /\ Phase /\ Counted /\ Budgeted /\ MinPositive /\ [Next]_vars => Budgeted'
<1> SUFFICES ASSUME TypeOK, Phase, Counted, Budgeted, MinPositive, [Next]_vars PROVE Budgeted'
  OBVIOUS
<1>1. CASE CannotRead \/ HoldOff
  BY <1>1 DEF CannotRead, HoldOff, Return, Budgeted, recordVars
<1>2. ASSUME NEW b \in BookViews, KeepStrategy(b) PROVE Budgeted'
  <2>1. PICK s \in strategy : StillGood(s, b) /\ Proceed(s, b)
    BY <1>2 DEF KeepStrategy
  <2>2. s.remaining >= MinVolume /\ \A t \in strategy : t = s
    BY <2>1 DEF StillGood, TypeOK
  <2>3. pc' \in {"resting", "history"}
    BY <2>1 DEF Proceed, Return
  <2> QED BY <1>2, <2>2, <2>3 DEF KeepStrategy, Budgeted, recordVars
<1>3. ASSUME NEW b \in BookViews, NEW last \in OrderTypes, RenewStrategy(b, last) PROVE Budgeted'
  <2>1. overspent' = 0 /\ pc' \in {"resting", "history"}
    BY <1>3, Renewed DEF RenewStrategy
  <2>2. \A s \in strategy' : s.remaining \in Nat /\ s.remaining >= MinVolume
    BY <1>3, Renewed, RecordFields
  <2> QED BY <2>1, <2>2 DEF Budgeted
<1>4. CASE MakeOrder
  <2>1. UNCHANGED <<strategy, sinceExtra, overspent>> /\ book.complete /\ pc = "history"
    BY <1>4 DEF MakeOrder, recordVars
  <2>2. CASE Return
    BY <2>1, <2>2 DEF Return, Budgeted
  <2>3. CASE ~Return
    <3>1. PICK s \in strategy :
             /\ pc' = "submit"
             /\ \E extra \in Extras(s), drawn \in RandomInt(MinVolume, MaxVolume) :
                   order' = [amount |-> OrderAmount(s, drawn, extra), extra |-> extra]
      BY <1>4, <2>3, Made
    <3>2. /\ order'.extra = 0 => order'.amount <= s.remaining
          /\ order'.amount < MaxVolume \/ order'.amount <= MinVolume
      BY <2>1, <3>1, BookRead, OrderType
    <3>3. \A t \in strategy : t = s
      BY DEF TypeOK
    <3>4. \A t \in strategy' : t.remaining >= MinVolume
      BY <2>1 DEF Budgeted
    <3> QED BY <2>1, <3>1, <3>2, <3>3, <3>4 DEF Budgeted
  <2> QED BY <2>2, <2>3
<1>5. CASE Panic
  BY <1>5 DEF Panic, Budgeted, recordVars
<1>6. CASE Submit
  <2>1. PICK s \in strategy : Acknowledge(s)
    BY <1>6 DEF Submit
  <2>2. s \in StrategyRecord /\ s.remaining \in Nat /\ order.amount \in Nat
    BY RecordFields DEF TypeOK
  <2>3. /\ s.remaining >= MinVolume
        /\ order.extra = 0 => order.amount <= s.remaining
        /\ order.amount < MaxVolume \/ order.amount <= MinVolume
    BY <1>6 DEF Submit, Budgeted
  <2>4. overspent = 0
    BY <1>6, <2>2, <2>3 DEF Submit, Budgeted, MinPositive, TypeOK
  <2>5. \A t \in strategy' : t.remaining = SetRemaining(s.remaining - order.amount)
    BY <2>1, <2>2 DEF Acknowledge, StrategyRecord
  <2>6. overspent' = order.amount - Least(order.amount, s.remaining)
    BY <2>1, <2>2, <2>4, LeastType DEF Acknowledge
  <2>7. pc' = "resting"
    BY <1>6 DEF Submit, Return
  <2>8. CASE order.amount <= s.remaining
    <3>1. overspent' = 0
      BY <2>2, <2>6, <2>8 DEF Least
    <3> QED BY <2>7, <3>1 DEF Budgeted
  <2>9. CASE ~(order.amount <= s.remaining)
    <3>1. overspent' = order.amount - s.remaining
      BY <2>2, <2>6, <2>9 DEF Least
    <3>2. order.amount < MaxVolume
      BY <2>2, <2>3, <2>9
    <3>3. MinVolume + overspent' < MaxVolume
      BY <2>2, <2>3, <3>1, <3>2
    <3>4. SetRemaining(s.remaining - order.amount) = 0
      BY <2>2, <2>9 DEF SetRemaining
    <3>5. order.extra > 0
      BY <2>3, <2>9 DEF TypeOK
    <3>6. sinceExtra' = 0
      BY <2>1, <3>5 DEF Acknowledge
    <3> QED BY <2>5, <2>7, <3>3, <3>4, <3>6 DEF Budgeted
  <2> QED BY <2>8, <2>9
<1>7. CASE SubmitUnanswered \/ SubmitFails \/ Restart
  BY <1>7 DEF SubmitUnanswered, SubmitFails, Restart, Forget, Return, Budgeted
<1>8. ASSUME NEW self \in BOOLEAN, NEW t \in OrderTypes, Traded(self, t) \/ ForeignTrade(t)
      PROVE  Budgeted'
  BY <1>8 DEF Traded, ForeignTrade, callVars, Budgeted
<1>9. CASE Tick
  <2>1. /\ pc' \in {"history", "submit"} => pc' = pc
        /\ UNCHANGED <<order, sinceExtra, overspent>>
    BY <1>9 DEF Tick
  <2>2. \A s \in strategy' : \E old \in strategy : s.remaining = old.remaining
    BY <1>9, TickKeeps
  <2> QED BY <2>1, <2>2 DEF Budgeted
<1>10. CASE Untraded \/ BecomeCalm \/ UNCHANGED vars
  BY <1>10 DEF Untraded, BecomeCalm, vars, callVars, recordVars, Budgeted
<1> QED
  BY <1>1, <1>2, <1>3, <1>4, <1>5, <1>6, <1>7, <1>8, <1>9, <1>10 DEF Next, GetStrategy

\* A strategy trades no more than its amount, but for the last trade with extra
\* volume.
THEOREM BudgetRespectedHolds == MinPositive => (Spec => []BudgetRespected)
<1> SUFFICES ASSUME MinPositive PROVE Spec => []BudgetRespected
  OBVIOUS
<1>1. Init => Phase /\ Counted /\ Budgeted
  BY NoOrderType DEF Init, Phase, Counted, Budgeted
<1>2. Budgeted => BudgetRespected
  BY DEF Budgeted, BudgetRespected
<1>3. TypeOK /\ Phase /\ Counted /\ Budgeted /\ [Next]_vars => Budgeted'
  BY BudgetedStep
<1> QED BY <1>1, <1>2, <1>3, InitTyped, TypeStep, PhaseStep, CountedStep, PTL DEF Spec

-----------------------------------------------------------------------------
(* The orders the carousel needs *)

LEMMA SuppliedStep == TypeOK /\ Supplied /\ [Next]_vars => Supplied'
<1> SUFFICES ASSUME TypeOK, Supplied, [Next]_vars, cfg' = "carousel" PROVE Supplied'
  BY DEF Supplied
<1>1. CASE CannotRead \/ HoldOff
  BY <1>1 DEF CannotRead, HoldOff, Return, Supplied, recordVars, chainVars, fixedVars
<1>2. ASSUME NEW b \in BookViews, KeepStrategy(b) PROVE Supplied'
  <2>1. PICK s \in strategy : StillGood(s, b) /\ Proceed(s, b)
    BY <1>2 DEF KeepStrategy
  <2>2. cfg = "carousel"
    BY <1>2 DEF KeepStrategy, chainVars, fixedVars, recordVars
  <2>3. s \in StrategyRecord /\ s.orderType \in OrderTypes
    BY DEF TypeOK, StrategyRecord
  <2>4. Head(b, s.orderType).mine /\ ~TradesInSpread
    BY <2>1, <2>2 DEF StillGood, PicksOwnOrders, TradesInSpread
  <2>5. Use(s, b).complete
    BY <2>3, <2>4, HeadType, UseType
  <2>6. pc' = "resting" \/ (pc' = "history" /\ book' = Use(s, b))
    BY <2>1 DEF Proceed, Return
  <2> QED BY <2>2, <2>5, <2>6 DEF Supplied
<1>3. ASSUME NEW b \in BookViews, NEW last \in OrderTypes, RenewStrategy(b, last) PROVE Supplied'
  <2>1. cfg = "carousel"
    BY <1>3 DEF RenewStrategy, chainVars, fixedVars
  <2>2. ~TradesInSpread
    BY <2>1 DEF TradesInSpread
  <2>3. pc' \in {"resting", "history"}
    BY <1>3, Renewed
  <2>4. ASSUME pc' = "history" PROVE book'.complete
    <3>1. PICK s \in strategy' : book' = Use(s, b)
      BY <1>3, <2>4, Renewed
    <3>2. s \in StrategyRecord /\ Head(b, s.orderType).amount > 0
      BY <1>3, Renewed
    <3> QED BY <2>2, <3>1, <3>2, UseType
  <2> QED BY <2>1, <2>3, <2>4 DEF Supplied
<1>4. CASE MakeOrder
  <2>1. pc' \in {"resting", "submit"}
    BY <1>4, Made DEF Return
  <2> QED BY <2>1 DEF Supplied
<1>5. CASE Panic
  <2>1. UNCHANGED cfg /\ pc = "history" /\ pc' = "panicked"
    BY <1>5 DEF Panic, recordVars, chainVars, fixedVars
  <2>2. book.complete
    BY <2>1 DEF Supplied
  <2>3. ExtraMax > 0 /\ ExtraMin > ExtraMax
    BY <1>5, <2>2 DEF Panic, ExtraDue
  <2> QED BY <2>1, <2>3 DEF Supplied
<1>6. CASE Submit
  BY <1>6 DEF Submit, Return, Supplied
<1>7. CASE SubmitUnanswered \/ SubmitFails \/ Restart
  BY <1>7 DEF SubmitUnanswered, SubmitFails, Restart, Forget, Return, Supplied
<1>8. ASSUME NEW self \in BOOLEAN, NEW t \in OrderTypes, Traded(self, t) \/ ForeignTrade(t)
      PROVE  Supplied'
  BY <1>8 DEF Traded, ForeignTrade, callVars, fixedVars, Supplied
<1>9. CASE Tick
  BY <1>9 DEF Tick, fixedVars, Supplied
<1>10. CASE Untraded \/ BecomeCalm \/ UNCHANGED vars
  BY <1>10 DEF Untraded, BecomeCalm, vars, callVars, chainVars, fixedVars, recordVars, Supplied
<1> QED
  BY <1>1, <1>2, <1>3, <1>4, <1>5, <1>6, <1>7, <1>8, <1>9, <1>10 DEF Next, GetStrategy

\* The configuration says carousel; extra volume, if any, has its bounds in order.
CarouselOnly == Strategies = {"carousel"}
BoundsInOrder == ExtraMax = 0 \/ ExtraMin <= ExtraMax

\* The carousel never indexes an order that is not there, nor draws from an empty
\* range.
THEOREM NeverMissesOrdersHolds ==
    CarouselOnly /\ BoundsInOrder => (Spec => []NeverMissesOrders)
<1> SUFFICES ASSUME CarouselOnly, BoundsInOrder PROVE Spec => []NeverMissesOrders
  OBVIOUS
<1>1. Init => Supplied
  BY DEF Init, Supplied
<1>2. TypeOK /\ Supplied => NeverMissesOrders
  BY DEF TypeOK, Supplied, CarouselOnly, BoundsInOrder, NeverMissesOrders
<1> QED BY <1>1, <1>2, InitTyped, TypeStep, SuppliedStep, PTL DEF Spec

-----------------------------------------------------------------------------
(* The distance of two orders *)

LEMMA SettledStep == TypeOK /\ Settled /\ [Next]_vars => Settled'
<1> SUFFICES ASSUME TypeOK, Settled, [Next]_vars PROVE Settled'
  OBVIOUS
<1>1. CASE CannotRead \/ GetStrategy \/ HoldOff \/ MakeOrder \/ Panic
  BY <1>1 DEF CannotRead, GetStrategy, KeepStrategy, RenewStrategy, HoldOff, MakeOrder, Panic,
              recordVars, chainVars, Settled
<1>2. CASE Submit \/ SubmitUnanswered
  BY <1>2 DEF Submit, SubmitUnanswered, ReachesMempool, Settled
<1>3. CASE SubmitFails \/ Restart \/ BecomeCalm \/ UNCHANGED vars
  BY <1>3 DEF SubmitFails, Restart, BecomeCalm, vars, chainVars, recordVars, Settled
<1>4. ASSUME NEW self \in BOOLEAN, NEW t \in OrderTypes, Traded(self, t) \/ ForeignTrade(t)
      PROVE  Settled'
  <2>1. history'.age = 0 /\ UNCHANGED sinceSubmit
    BY <1>4 DEF Traded, ForeignTrade, NewTrade
  <2>2. sinceSubmit \in Nat
    BY DEF TypeOK, Age, Far
  <2> QED BY <2>1, <2>2 DEF Settled
<1>5. CASE Untraded
  BY <1>5 DEF Untraded, Settled
<1>6. CASE Tick
  <2>1. history'.age = Older(history.age) /\ sinceSubmit' = Older(sinceSubmit)
    BY <1>6 DEF Tick, TypeOK
  <2>2. history.age \in Age /\ sinceSubmit \in Age /\ lastTx' = lastTx
    BY <1>6 DEF Tick, TypeOK
  <2> QED BY <2>1, <2>2, OlderMonotone DEF Settled
<1> QED BY <1>1, <1>2, <1>3, <1>4, <1>5, <1>6 DEF Next

\* Two orders are TradeInterval apart, except after one that has not traded.
THEOREM SpacedHolds == Spec => SpacedUnlessUnsettled
<1> DEFINE Spaced ==
      pc' = "submit" /\ pc # "submit" => sinceSubmit >= TradeInterval \/ lastTx # "traded"
<1>1. Init => Settled
  BY DEF Init, Settled
<1>2. TypeOK /\ Settled /\ [Next]_vars => [Spaced]_vars
  <2> SUFFICES ASSUME TypeOK, Settled, [Next]_vars, pc' = "submit", pc # "submit",
                      lastTx = "traded"
               PROVE  sinceSubmit >= TradeInterval
    OBVIOUS
  <2>1. MakeOrder
    BY DEF Next, vars, CannotRead, GetStrategy, KeepStrategy, RenewStrategy, Proceed, Return,
           HoldOff, Panic, Submit, SubmitUnanswered, SubmitFails, Traded, Untraded,
           ForeignTrade, Tick, Restart, BecomeCalm, callVars
  <2>2. ~(history.age < TradeInterval) /\ history.age <= sinceSubmit
    BY <2>1 DEF MakeOrder, HeldBack, Settled
  <2>3. history.age \in Nat /\ sinceSubmit \in Nat
    BY DEF TypeOK, Age, Far
  <2> QED BY <2>2, <2>3
<1> QED BY <1>1, <1>2, InitTyped, TypeStep, SettledStep, PTL DEF Spec, SpacedUnlessUnsettled
=============================================================================
