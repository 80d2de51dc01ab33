------------------------- MODULE OrdersFillerProofs -------------------------
(***************************************************************************)
(* The types of OrdersFiller, NoDoubleLevel and LaddersApart, for any      *)
(* step, spread, numbers of orders, prices of others and disturbances.     *)
(*                                                                         *)
(* A round looks at its own orders and at the two sides of the book at     *)
(* four moments, and at a fifth and a sixth it sends what it believes is   *)
(* missing.  That is never too much and never on the wrong side because,   *)
(* of what a side holds after it was read, nothing is new: the mempool was *)
(* empty when the round started, and all it has put there since are        *)
(* cancellations and, in the end, the orders of the other side.            *)
(***************************************************************************)
EXTENDS OrdersFiller, OrderPricesProofs

-----------------------------------------------------------------------------
(* Types *)

Order == Price \X Nat

\* A transaction of the bot has finitely many orders, all at a price.
Tx == {tx \in Transactions : tx.cancels \subseteq Order /\ tx.adds \in FiniteSubsetsOf(Price)}

TradeRecord == [price : Nat, orderType : OrderTypes, self : BOOLEAN, recent : BOOLEAN]

\* What the types rest on: whatever has a best one is finite and at a price, since
\* 0 stands for no price at all.
Sound ==
    /\ own \in [OrderTypes -> FiniteSubsetsOf(Order)]
    /\ others \in [OrderTypes -> FiniteSubsetsOf(OthersPrices)]
    /\ pending \in Seq(Tx)
    /\ last = {} \/ \E h \in TradeRecord : last = {h}
    /\ disturbances \in 0..MaxDisturbances
    /\ pc \in {"idle", "own", "buys", "sells", "history", "book", "start", "fillSells", "fillBuys"}
    /\ mine \in [OrderTypes -> SUBSET Order]
    /\ unread \subseteq OrderTypes
    /\ seen \in [OrderTypes -> FiniteSubsetsOf(Price)]
    /\ start \in Int

\* The prices of finitely many orders are finitely many.
LEMMA PricesFinite ==
    ASSUME NEW S \in FiniteSubsetsOf(Order)
    PROVE  PricesOf(S) \in FiniteSubsetsOf(Price)
<1> DEFINE f == [o \in S |-> o[1]]
<1>1. S \subseteq Order /\ IsFiniteSet(S)
  BY FiniteParts
<1>2. f \in Surjection(S, PricesOf(S))
  BY DEF Surjection, PricesOf
<1>3. IsFiniteSet(PricesOf(S))
  <2> HIDE DEF f
  <2> QED BY <1>1, <1>2, FS_Surjection
<1>4. PricesOf(S) \subseteq Price
  BY <1>1 DEF PricesOf, Order
<1> QED BY <1>3, <1>4 DEF FiniteSubsetsOf

LEMMA BookFinite ==
    ASSUME Sound, NEW t \in OrderTypes
    PROVE  /\ PricesOf(own[t]) \in FiniteSubsetsOf(Price)
           /\ BookOf(t) \in FiniteSubsetsOf(Price)
<1>1. PricesOf(own[t]) \in FiniteSubsetsOf(Price)
  BY PricesFinite DEF Sound
<1>2. others[t] \in FiniteSubsetsOf(Price)
  BY OthersAssumption DEF Sound, FiniteSubsetsOf, Price
<1> QED BY <1>1, <1>2, FiniteParts DEF BookOf

\* There is a number that tells a new order apart.
LEMMA NumberedType ==
    ASSUME Sound, NEW t \in OrderTypes, NEW P \in FiniteSubsetsOf(Price)
    PROVE  /\ Numbered(t, P) \in FiniteSubsetsOf(Order)
           /\ PricesOf(Numbered(t, P)) = P
<1> DEFINE S == own[t]
           number(p) == CHOOSE n \in 0..Cardinality(S) : <<p, n>> \notin S
           new(p) == <<p, number(p)>>
           f == [p \in P |-> new(p)]
<1>1. IsFiniteSet(S) /\ Cardinality(S) \in Nat
  BY FiniteParts, FS_CardinalityType DEF Sound
<1>2. P \subseteq Price /\ IsFiniteSet(P)
  BY FiniteParts
<1>3. Numbered(t, P) = {new(p) : p \in P}
  BY DEF Numbered
<1>4. \A p : \E n \in 0..Cardinality(S) : <<p, n>> \notin S
  <2> SUFFICES ASSUME NEW p, \A n \in 0..Cardinality(S) : <<p, n>> \in S PROVE FALSE
    OBVIOUS
  <2> DEFINE I == 0..Cardinality(S)
             g == [n \in I |-> <<p, n>>]
  <2>1. g \in [I -> S] /\ \A i, j \in I : g[i] = g[j] => i = j
    OBVIOUS
  <2> HIDE DEF S
  <2>2. IsFiniteSet(I) /\ Cardinality(I) = Cardinality(S) + 1
    <3>1. Cardinality(I) = IF 0 > Cardinality(S) THEN 0 ELSE Cardinality(S) - 0 + 1
      BY <1>1, FS_Interval
    <3>2. IsFiniteSet(I)
      BY <1>1, FS_Interval
    <3> HIDE DEF I
    <3> QED BY <3>1, <3>2, <1>1
  <2>3. g \in Injection(I, S)
    <3> HIDE DEF g, I
    <3> QED BY <2>1, Fun_IsInj
  <2>4. Cardinality(I) <= Cardinality(S)
    <3> HIDE DEF g, I
    <3> QED BY <2>3, <1>1, FS_Injection
  <2> HIDE DEF I
  <2> QED BY <2>2, <2>4, <1>1
<1>5. \A p \in P : number(p) \in Nat
  <2> TAKE p \in P
  <2>1. number(p) \in 0..Cardinality(S)
    BY <1>4, Zenon
  <2> HIDE DEF number, S
  <2> QED BY <2>1, <1>1
<1> HIDE DEF number
<1>6. \A p \in P : new(p) \in Order /\ new(p)[1] = p
  BY <1>2, <1>5 DEF Order
<1>7. f \in Surjection(P, {new(p) : p \in P})
  BY DEF Surjection
<1>8. IsFiniteSet(Numbered(t, P))
  <2> HIDE DEF f, new
  <2> QED BY <1>2, <1>3, <1>7, FS_Surjection
<1> HIDE DEF new
<1>9. Numbered(t, P) \subseteq Order
  BY <1>3, <1>6
<1>10. PricesOf(Numbered(t, P)) = P
  BY <1>3, <1>6 DEF PricesOf
<1> QED BY <1>8, <1>9, <1>10 DEF FiniteSubsetsOf

\* What is missing on a side: finitely many prices, none on the inner side of the
\* first rung.
StartOf(t) == IF t = "buy" THEN start - Step ELSE start

LEMMA MissingType ==
    ASSUME Sound, NEW t \in OrderTypes
    PROVE  /\ Missing(t) \in FiniteSubsetsOf(Price)
           /\ \A p \in Missing(t) : /\ t = "buy" => p <= FirstRung(t, StartOf(t))
                                    /\ t = "sell" => p >= FirstRung(t, StartOf(t))
<1> DEFINE book == seen[t]  excluded == PricesOf(mine[t])  from == StartOf(t)  needed == No(t)
           P == LadderPrices(t, book, excluded, from, needed)
<1>1. Missing(t) = P
  BY DEF Missing, StartOf
<1>2. from \in Int /\ needed \in Nat \ {0}
  BY StepAssumption, NumbersAssumption DEF Sound, StartOf, No
<1>3. IsFiniteSet(book)
  BY FiniteParts DEF Sound
<1> HIDE DEF book, excluded, from, needed
<1>4. /\ P \subseteq Nat \ {0} /\ IsFiniteSet(P)
      /\ P \cap (excluded \cup book) = {}
      /\ \A p \in P : /\ t = "buy" => p <= FirstRung(t, from)
                      /\ t = "sell" => p >= FirstRung(t, from)
  BY <1>2, <1>3, LadderPricesFree
<1> HIDE DEF P
<1> QED BY <1>1, <1>4 DEF book, from, FiniteSubsetsOf, Price

\* The transaction a block executes next.
LEMMA HeadType ==
    ASSUME Sound, pending # << >>
    PROVE  /\ Head(pending) \in Tx /\ Tail(pending) \in Seq(Tx)
           /\ Head(pending).orderType \in OrderTypes /\ Other(Head(pending).orderType) \in OrderTypes
           /\ Head(pending).adds \in FiniteSubsetsOf(Price)
<1>1. Head(pending) \in Tx /\ Tail(pending) \in Seq(Tx)
  BY DEF Sound
<1>2. \A tx \in Tx : tx.orderType \in OrderTypes /\ tx.adds \in FiniteSubsetsOf(Price)
  BY DEF Tx, Transactions
<1>3. \A t : Other(t) \in OrderTypes
  BY DEF Other, OrderTypes
<1> QED BY <1>1, <1>2, <1>3

LEMMA OwnType == Sound /\ [Next]_vars => own' \in [OrderTypes -> FiniteSubsetsOf(Order)]
<1> SUFFICES ASSUME Sound, [Next]_vars PROVE own' \in [OrderTypes -> FiniteSubsetsOf(Order)]
  OBVIOUS
<1> DEFINE F == FiniteSubsetsOf(Order)
<1>1. own \in [OrderTypes -> F]
  BY DEF Sound
<1>2. \A A, B \in F : A \cup B \in F /\ \A C \in SUBSET A : C \in F
  BY FiniteParts
<1>3. CASE Execute
  <2> DEFINE tx == Head(pending)
             t == tx.orderType
             new == Numbered(t, tx.adds)
  <2>1. pending # << >>
    BY <1>3 DEF Execute
  <2>2. t \in OrderTypes /\ tx.adds \in FiniteSubsetsOf(Price)
    BY <2>1, HeadType
  <2>3. new \in F
    BY <2>2, NumberedType
  <2>4. own' = own \/ own' = [own EXCEPT ![t] = (@ \ tx.cancels) \cup new]
    BY <1>3 DEF Execute
  <2>5. own[t] \ tx.cancels \in F
    BY <1>1, <1>2, <2>2
  <2> HIDE DEF F, new, tx, t
  <2>6. (own[t] \ tx.cancels) \cup new \in F
    BY <1>2, <2>3, <2>5
  <2>7. own' \in [OrderTypes -> F]
    BY <1>1, <2>2, <2>4, <2>6
  <2> QED BY <2>7 DEF F
<1>4. CASE ExecuteTrading
  <2> DEFINE tx == Head(pending)
             t == tx.orderType
             o == Other(t)
             best == Best(o, BookOf(o))
             resting == tx.adds \ {p \in tx.adds : Meets(t, p)}
             new == Numbered(t, resting)
             left == {x \in own[o] : x[1] # best}
  <2>1. pending # << >>
    BY <1>4 DEF ExecuteTrading
  <2>2. t \in OrderTypes /\ o \in OrderTypes /\ tx.adds \in FiniteSubsetsOf(Price)
    BY <2>1, HeadType
  <2>3. new \in F
    <3>1. resting \in FiniteSubsetsOf(Price)
      BY <2>2, FiniteParts
    <3> HIDE DEF resting, t
    <3> QED BY <2>2, <3>1, NumberedType
  <2>4. left \in F
    BY <1>1, <1>2, <2>2
  <2>5. own' = [own EXCEPT ![o] = {x \in @ : x[1] # best}, ![t] = @ \cup new]
    BY <1>4 DEF ExecuteTrading
  <2> HIDE DEF F, new, best, t, o
  <2>6. own' \in [OrderTypes -> F]
    BY <1>1, <1>2, <2>2, <2>3, <2>4, <2>5
  <2> QED BY <2>6 DEF F
<1>5. ASSUME NEW u \in OrderTypes, NEW by \in {"bot", "others"}, Take(u, by)
      PROVE  own' \in [OrderTypes -> F]
  <2>1. own' = own \/ \E o \in own[u] : own' = [own EXCEPT ![u] = @ \ {o}]
    BY <1>5 DEF Take
  <2> HIDE DEF F
  <2>2. \A o : own[u] \ {o} \in F
    BY <1>1, <1>2
  <2> QED BY <1>1, <2>1, <2>2
<1>6. CASE ~Execute /\ ~ExecuteTrading /\ ~(\E u \in OrderTypes, by \in {"bot", "others"} : Take(u, by))
  <2>1. own' = own
    BY <1>6
    DEF Next, Round, Begin, GiveUp, ReadOwn, ReadOwnPartly, CancelExtra, CheckHistory, ReadSide, FindStart,
        FillSells, FillBuys, ExecutionFails, OthersPlace, OthersCancel, HoldBackEnds, vars, chainVars
  <2> QED BY <1>1, <2>1
<1> QED BY <1>3, <1>4, <1>5, <1>6

LEMMA OthersType == Sound /\ [Next]_vars => others' \in [OrderTypes -> FiniteSubsetsOf(OthersPrices)]
<1> SUFFICES ASSUME Sound, [Next]_vars PROVE others' \in [OrderTypes -> FiniteSubsetsOf(OthersPrices)]
  OBVIOUS
<1> DEFINE F == FiniteSubsetsOf(OthersPrices)
<1>1. others \in [OrderTypes -> F]
  BY DEF Sound
<1>2. \A A \in F : (\A C \in SUBSET A : C \in F) /\ \A p \in OthersPrices : A \cup {p} \in F
  BY FiniteParts
<1>3. \/ others' = others
      \/ \E t, p : others' = [others EXCEPT ![t] = @ \ {p}]
      \/ \E t \in OrderTypes, p \in OthersPrices : others' = [others EXCEPT ![t] = @ \cup {p}]
  <2>1. CASE ExecuteTrading
    BY <2>1 DEF ExecuteTrading
  <2>2. ASSUME NEW t \in OrderTypes, NEW p \in OthersPrices, OthersPlace(t, p) \/ OthersCancel(t, p)
        PROVE  \/ others' = [others EXCEPT ![t] = @ \cup {p}]
               \/ others' = [others EXCEPT ![t] = @ \ {p}]
    BY <2>2 DEF OthersPlace, OthersCancel
  <2>3. ASSUME NEW t \in OrderTypes, NEW by \in {"bot", "others"}, Take(t, by)
        PROVE  \/ others' = others
               \/ others' = [others EXCEPT ![t] = @ \ {Best(t, BookOf(t))}]
    BY <2>3 DEF Take
  <2>4. CASE others' = others
    BY <2>4
  <2> QED
    BY <2>1, <2>2, <2>3, <2>4
    DEF Next, Round, Begin, GiveUp, ReadOwn, ReadOwnPartly, CancelExtra, CheckHistory, ReadSide, FindStart,
        FillSells, FillBuys, Execute, ExecutionFails, HoldBackEnds, vars, chainVars
<1> HIDE DEF F
<1>4. \A t \in OrderTypes : others[t] \in F
  BY <1>1
<1>5. \A t \in OrderTypes : \A p : others[t] \ {p} \in F
  BY <1>2, <1>4
<1>6. \A t \in OrderTypes, p \in OthersPrices : others[t] \cup {p} \in F
  BY <1>2, <1>4
<1>7. others' \in [OrderTypes -> F]
  BY <1>1, <1>3, <1>5, <1>6
<1> QED BY <1>7 DEF F

LEMMA LastType == Sound /\ [Next]_vars => (last = {} \/ \E h \in TradeRecord : last = {h})'
<1> SUFFICES ASSUME Sound, [Next]_vars PROVE last' = {} \/ \E h \in TradeRecord : last' = {h}
  OBVIOUS
<1>1. ASSUME NEW self \in BOOLEAN, NEW t \in OrderTypes, NEW p \in Nat, Trade(self, t, p)
      PROVE  \E h \in TradeRecord : last' = {h}
  <2>1. [price |-> p, orderType |-> t, self |-> self, recent |-> TRUE] \in TradeRecord
    BY DEF TradeRecord
  <2> QED BY <1>1, <2>1 DEF Trade
<1>2. \A t \in OrderTypes : Best(t, BookOf(t)) \in Nat /\ Other(t) \in OrderTypes
  BY BookFinite, BestOfSide DEF Other, OrderTypes
<1>3. CASE ExecuteTrading
  <2> DEFINE t == Head(pending).orderType
             best == Best(Other(t), BookOf(Other(t)))
  <2>1. pending # << >>
    BY <1>3 DEF ExecuteTrading
  <2>2. t \in OrderTypes /\ best \in Nat
    BY <2>1, <1>2, HeadType
  <2>3. Trade(best \notin others[Other(t)], t, best)
    BY <1>3 DEF ExecuteTrading
  <2>4. (best \notin others[Other(t)]) \in BOOLEAN
    OBVIOUS
  <2> HIDE DEF t, best
  <2> QED BY <2>2, <2>3, <2>4, <1>1
<1>4. ASSUME NEW t \in OrderTypes, NEW by \in {"bot", "others"}, Take(t, by)
      PROVE  \E h \in TradeRecord : last' = {h}
  <2> DEFINE best == Best(t, BookOf(t))
  <2>1. Trade(by = "bot", Other(t), best) \/ Trade(FALSE, Other(t), best)
    BY <1>4 DEF Take
  <2>2. best \in Nat /\ Other(t) \in OrderTypes /\ (by = "bot") \in BOOLEAN /\ FALSE \in BOOLEAN
    BY <1>2
  <2> HIDE DEF best
  <2> QED BY <2>1, <2>2, <1>1
<1>5. CASE HoldBackEnds
  <2>1. PICK h \in last : TRUE
    BY <1>5 DEF HoldBackEnds, HeldBack
  <2>2. h \in TradeRecord /\ last = {h}
    BY <2>1 DEF Sound
  <2>3. last' = {[h EXCEPT !.recent = FALSE]}
    BY <1>5, <2>2 DEF HoldBackEnds
  <2>4. [h EXCEPT !.recent = FALSE] \in TradeRecord
    BY <2>2 DEF TradeRecord
  <2> QED BY <2>3, <2>4
<1>6. CASE last' = last
  BY <1>6 DEF Sound
<1> QED
  BY <1>3, <1>4, <1>5, <1>6
  DEF Next, Round, Begin, GiveUp, ReadOwn, ReadOwnPartly, CancelExtra, CheckHistory, ReadSide, FindStart,
      FillSells, FillBuys, Execute, ExecutionFails, OthersPlace, OthersCancel, vars, chainVars

\* What the round may submit has the type of a transaction.
LEMMA SubmittedType ==
    ASSUME Sound, NEW t \in OrderTypes
    PROVE  /\ \A n : \A S \in Farthest(t, n) : [cancels |-> S, adds |-> {}, orderType |-> t] \in Tx
           /\ [cancels |-> {}, adds |-> Missing(t), orderType |-> t] \in Tx
<1>1. ASSUME NEW n, NEW S \in Farthest(t, n)
      PROVE  [cancels |-> S, adds |-> {}, orderType |-> t] \in Tx
  <2>1. S \subseteq Order /\ Order \subseteq Int \X Nat
    BY DEF Farthest, Sound, Order, Price
  <2>2. {} \in FiniteSubsetsOf(Price)
    BY FS_EmptySet DEF FiniteSubsetsOf
  <2> QED BY <2>1, <2>2 DEF Tx, Transactions
<1>2. [cancels |-> {}, adds |-> Missing(t), orderType |-> t] \in Tx
  <2>1. Missing(t) \in FiniteSubsetsOf(Price)
    BY MissingType
  <2>2. Missing(t) \subseteq Int
    BY <2>1 DEF FiniteSubsetsOf, Price
  <2> HIDE DEF Missing
  <2> QED BY <2>1, <2>2 DEF Tx, Transactions
<1> QED BY <1>1, <1>2

LEMMA PendingType == Sound /\ [Next]_vars => pending' \in Seq(Tx)
<1> SUFFICES ASSUME Sound, [Next]_vars PROVE pending' \in Seq(Tx)
  OBVIOUS
<1>1. pending \in Seq(Tx)
  BY DEF Sound
<1>2. CASE UNCHANGED pending
  BY <1>1, <1>2
<1>3. ASSUME NEW t \in OrderTypes, CancelExtra(t) PROVE pending' \in Seq(Tx)
  <2>1. pending' # pending =>
          \E S \in Farthest(t, Cardinality(mine[t]) - No(t)) :
              \/ Accepted([cancels |-> S, adds |-> {}, orderType |-> t])
              \/ Refused([cancels |-> S, adds |-> {}, orderType |-> t])
    BY <1>3 DEF CancelExtra
  <2>2. \A tx \in Tx : Accepted(tx) \/ Refused(tx) => pending' \in Seq(Tx)
    BY <1>1 DEF Accepted, Refused
  <2> QED BY <1>1, <2>1, <2>2, SubmittedType
<1>4. ASSUME NEW t \in OrderTypes, AddMissing(t) PROVE pending' \in Seq(Tx)
  <2> DEFINE tx == [cancels |-> {}, adds |-> Missing(t), orderType |-> t]
  <2>1. pending' = pending \/ Accepted(tx) \/ Refused(tx)
    BY <1>4 DEF AddMissing
  <2>2. tx \in Tx
    BY SubmittedType
  <2> HIDE DEF tx
  <2> QED BY <1>1, <2>1, <2>2 DEF Accepted, Refused
<1>5. CASE Execute \/ ExecuteTrading \/ ExecutionFails
  BY <1>1, <1>5 DEF Execute, ExecuteTrading, ExecutionFails
<1>6. CASE FillSells \/ FillBuys
  BY <1>4, <1>6 DEF FillSells, FillBuys, OrderTypes
<1> QED
  BY <1>2, <1>3, <1>5, <1>6
  DEF Next, Round, Begin, GiveUp, ReadOwn, ReadOwnPartly, CheckHistory, ReadSide, FindStart,
      OthersPlace, OthersCancel, Take, HoldBackEnds, vars, chainVars

\* A listing has own orders only.
LEMMA ListingType ==
    ASSUME Sound, NEW l \in Listings
    PROVE  /\ l \in [OrderTypes -> SUBSET Order]
           /\ \A t \in OrderTypes : \A o : [l EXCEPT ![t] = @ \ {o}] \in [OrderTypes -> SUBSET Order]
<1>1. own \in [OrderTypes -> SUBSET Order]
  BY DEF Sound, FiniteSubsetsOf
<1>2. l \in [OrderTypes -> SUBSET Order]
  <2>1. CASE l = own
    BY <1>1, <2>1
  <2>2. ASSUME NEW buys \in SUBSET own["buy"], NEW sells \in SUBSET own["sell"], l = Listing(buys, sells)
        PROVE  l \in [OrderTypes -> SUBSET Order]
    <3>1. buys \subseteq Order /\ sells \subseteq Order
      BY <1>1 DEF OrderTypes
    <3> QED BY <2>2, <3>1 DEF Listing
  <2> QED BY <2>1, <2>2 DEF Listings
<1> QED BY <1>2

LEMMA MineType == Sound /\ [Next]_vars => mine' \in [OrderTypes -> SUBSET Order]
<1> SUFFICES ASSUME Sound, [Next]_vars PROVE mine' \in [OrderTypes -> SUBSET Order]
  OBVIOUS
<1>1. CASE ReadOwn
  BY <1>1, ListingType DEF ReadOwn, GoOnWith
<1>2. CASE ReadOwnPartly
  <2>1. PICK l \in Listings, t \in OrderTypes : \E o \in l[t] : GoOnWith([l EXCEPT ![t] = @ \ {o}])
    BY <1>2 DEF ReadOwnPartly
  <2>2. PICK o : GoOnWith([l EXCEPT ![t] = @ \ {o}])
    BY <2>1
  <2>3. mine' = [l EXCEPT ![t] = @ \ {o}]
    BY <2>2 DEF GoOnWith
  <2> QED BY <2>3, ListingType
<1>3. CASE mine' = mine \/ mine' = Nobody
  BY <1>3 DEF Sound, Nobody
<1> QED
  BY <1>1, <1>2, <1>3
  DEF Next, Round, Begin, GiveUp, CancelExtra, CheckHistory, ReadSide, FindStart, FillSells, FillBuys,
      AddMissing, Return, Execute, ExecuteTrading, ExecutionFails, OthersPlace, OthersCancel, Take,
      HoldBackEnds, vars, roundVars

LEMMA SeenType == Sound /\ [Next]_vars => seen' \in [OrderTypes -> FiniteSubsetsOf(Price)]
<1> SUFFICES ASSUME Sound, [Next]_vars PROVE seen' \in [OrderTypes -> FiniteSubsetsOf(Price)]
  OBVIOUS
<1>1. ASSUME NEW t \in OrderTypes, ReadSide(t) PROVE seen' \in [OrderTypes -> FiniteSubsetsOf(Price)]
  <2>1. seen' = [seen EXCEPT ![t] = BookOf(t)]
    BY <1>1 DEF ReadSide
  <2>2. BookOf(t) \in FiniteSubsetsOf(Price)
    BY BookFinite
  <2> QED BY <2>1, <2>2 DEF Sound
<1>2. CASE seen' = seen
  BY <1>2 DEF Sound
<1>3. CASE seen' = Nobody
  BY <1>3, FS_EmptySet DEF Nobody, FiniteSubsetsOf
<1> QED
  BY <1>1, <1>2, <1>3
  DEF Next, Round, Begin, GiveUp, ReadOwn, ReadOwnPartly, CancelExtra, CheckHistory, FindStart, FillSells,
      FillBuys, AddMissing, Return, Execute, ExecuteTrading, ExecutionFails, OthersPlace, OthersCancel,
      Take, HoldBackEnds, vars, roundVars

LEMMA StartPriceType == Sound /\ [Next]_vars => start' \in Int
<1> SUFFICES ASSUME Sound, [Next]_vars PROVE start' \in Int
  OBVIOUS
<1>1. CASE FindStart
  <2>1. PICK known \in {last, {}} :
          start' = SellStart(Best("buy", seen["buy"]), Best("sell", seen["sell"]), known)
    BY <1>1 DEF FindStart
  <2>2. Best("buy", seen["buy"]) \in Nat /\ Best("sell", seen["sell"]) \in Nat
    BY BestOfSide DEF Sound, OrderTypes
  <2>3. \A h \in known : h.price \in Int
    BY DEF Sound, TradeRecord
  <2> QED BY <2>1, <2>2, <2>3, StartType
<1>2. CASE start' = start \/ start' = 0
  BY <1>2 DEF Sound
<1> QED
  BY <1>1, <1>2
  DEF Next, Round, Begin, GiveUp, ReadOwn, ReadOwnPartly, CancelExtra, CheckHistory, ReadSide, FillSells,
      FillBuys, AddMissing, Return, Execute, ExecuteTrading, ExecutionFails, OthersPlace, OthersCancel,
      Take, HoldBackEnds, vars, roundVars

LEMMA ControlType ==
    Sound /\ [Next]_vars =>
        /\ disturbances' \in 0..MaxDisturbances
        /\ pc' \in {"idle", "own", "buys", "sells", "history", "book", "start", "fillSells", "fillBuys"}
        /\ unread' \subseteq OrderTypes
<1> SUFFICES ASSUME Sound, [Next]_vars
             PROVE  /\ disturbances' \in 0..MaxDisturbances
                    /\ pc' \in {"idle", "own", "buys", "sells", "history", "book", "start", "fillSells",
                                "fillBuys"}
                    /\ unread' \subseteq OrderTypes
  OBVIOUS
<1>1. disturbances' \in 0..MaxDisturbances
  <2>1. Disturb => disturbances' \in 0..MaxDisturbances
    BY BoundAssumption DEF Disturb, Sound
  <2>2. disturbances' = disturbances => disturbances' \in 0..MaxDisturbances
    BY DEF Sound
  <2>3. disturbances' = disturbances \/ Disturb
    BY DEF Next, Round, Begin, GiveUp, ReadOwn, ReadOwnPartly, CancelExtra, CheckHistory, ReadSide,
           FindStart, FillSells, FillBuys, AddMissing, Accepted, Refused, Execute, ExecuteTrading,
           ExecutionFails, OthersPlace, OthersCancel, Take, HoldBackEnds, vars
  <2> QED BY <2>1, <2>2, <2>3
<1>2. pc' \in {"idle", "own", "buys", "sells", "history", "book", "start", "fillSells", "fillBuys"}
  BY DEF Sound, Next, Round, Begin, GiveUp, ReadOwn, ReadOwnPartly, GoOnWith, CancelExtra, CheckHistory,
         ReadSide, FindStart, FillSells, FillBuys, AddMissing, Return, Execute, ExecuteTrading,
         ExecutionFails, OthersPlace, OthersCancel, Take, HoldBackEnds, vars, roundVars
<1>3. unread' \subseteq OrderTypes
  BY DEF Sound, Next, Round, Begin, GiveUp, ReadOwn, ReadOwnPartly, CancelExtra, CheckHistory, ReadSide,
         FindStart, FillSells, FillBuys, AddMissing, Return, Execute, ExecuteTrading, ExecutionFails,
         OthersPlace, OthersCancel, Take, HoldBackEnds, vars, roundVars
<1> QED BY <1>1, <1>2, <1>3

LEMMA SoundInit == Init => Sound
<1> SUFFICES ASSUME Init PROVE Sound
  OBVIOUS
<1>1. \A S : {} \in FiniteSubsetsOf(S)
  BY FS_EmptySet DEF FiniteSubsetsOf
<1>2. /\ own \in [OrderTypes -> FiniteSubsetsOf(Order)]
      /\ others \in [OrderTypes -> FiniteSubsetsOf(OthersPrices)]
      /\ mine \in [OrderTypes -> SUBSET Order]
      /\ seen \in [OrderTypes -> FiniteSubsetsOf(Price)]
  BY <1>1 DEF Init, Nobody
<1> QED BY <1>2, BoundAssumption DEF Init, Sound

LEMMA SoundStep == Sound /\ [Next]_vars => Sound'
<1> SUFFICES ASSUME Sound, [Next]_vars PROVE Sound'
  OBVIOUS
<1>1. /\ own' \in [OrderTypes -> FiniteSubsetsOf(Order)]
      /\ others' \in [OrderTypes -> FiniteSubsetsOf(OthersPrices)]
      /\ pending' \in Seq(Tx)
      /\ (last = {} \/ \E h \in TradeRecord : last = {h})'
  BY OwnType, OthersType, PendingType, LastType
<1>2. /\ disturbances' \in 0..MaxDisturbances
      /\ pc' \in {"idle", "own", "buys", "sells", "history", "book", "start", "fillSells", "fillBuys"}
      /\ unread' \subseteq OrderTypes
  BY ControlType
<1>3. /\ mine' \in [OrderTypes -> SUBSET Order]
      /\ seen' \in [OrderTypes -> FiniteSubsetsOf(Price)]
      /\ start' \in Int
  BY MineType, SeenType, StartPriceType
<1> QED BY <1>1, <1>2, <1>3 DEF Sound

-----------------------------------------------------------------------------
(* Room in the mempool *)

\* How many transactions a round can have in the mempool, by where it is.
Room ==
    /\ pc \in {"own", "buys"} => Len(pending) <= 0
    /\ pc = "sells" => Len(pending) <= 1
    /\ pc \in {"history", "book", "start", "fillSells"} => Len(pending) <= 2
    /\ pc = "fillBuys" => Len(pending) <= 3
    /\ pc = "idle" => Len(pending) <= 4

\* The cancellations and the additions of a round are one transaction a side.
LEMMA RoomStep == PromptBlocks /\ Sound /\ Room /\ [Next]_vars => Room'
<1> SUFFICES ASSUME PromptBlocks, Sound, Room, [Next]_vars PROVE Room'
  OBVIOUS
<1>1. Len(pending) \in Nat /\ Len(pending') \in Nat
  BY PendingType DEF Sound
<1>2. \A tx : Len(Append(pending, tx)) = Len(pending) + 1
  BY DEF Sound
<1>3. \A tx : Accepted(tx) \/ Refused(tx) => Len(pending') <= Len(pending) + 1
  BY <1>1, <1>2 DEF Accepted, Refused
<1>4. CASE Begin
  <2>1. pending' = << >> /\ pc' = "own"
    BY <1>4 DEF Begin, chainVars
  <2> QED BY <2>1 DEF Room
<1>5. CASE ReadOwn \/ ReadOwnPartly
  <2>1. pending' = pending /\ pc = "own" /\ pc' \in {"buys", "history"}
    BY <1>5 DEF ReadOwn, ReadOwnPartly, GoOnWith, chainVars
  <2> QED BY <1>1, <2>1 DEF Room
<1>6. ASSUME NEW t \in OrderTypes, CancelExtra(t) PROVE Room'
  <2>1. Len(pending') <= Len(pending) + 1
    <3>1. CASE pending' = pending
      BY <3>1, <1>1
    <3>2. CASE pending' # pending
      <4>1. PICK S \in Farthest(t, Cardinality(mine[t]) - No(t)) :
               \/ Accepted([cancels |-> S, adds |-> {}, orderType |-> t])
               \/ Refused([cancels |-> S, adds |-> {}, orderType |-> t])
        BY <1>6, <3>2 DEF CancelExtra
      <4> QED BY <4>1, <1>3
    <3> QED BY <3>1, <3>2
  <2>2. \/ pc = "buys" /\ pc' \in {"sells", "history"}
        \/ pc = "sells" /\ pc' = "history"
    BY <1>6 DEF CancelExtra, OrderTypes
  <2> QED BY <1>1, <2>1, <2>2 DEF Room
<1>7. CASE CheckHistory \/ FindStart \/ (\E t \in OrderTypes : ReadSide(t))
  <2>1. pending' = pending /\ pc \in {"history", "book", "start"} /\ pc' \in {"idle", "book", "start", "fillSells"}
    BY <1>7 DEF CheckHistory, FindStart, ReadSide, Return, chainVars
  <2> QED BY <1>1, <2>1 DEF Room
<1>8. CASE FillSells \/ FillBuys
  <2>1. \/ pc = "fillSells" /\ pc' \in {"fillBuys", "idle"}
        \/ pc = "fillBuys" /\ pc' = "idle"
    BY <1>8 DEF FillSells, FillBuys, AddMissing, Return
  <2>2. \E t : AddMissing(t)
    BY <1>8 DEF FillSells, FillBuys
  <2>3. Len(pending') <= Len(pending) + 1
    BY <2>2, <1>1, <1>3 DEF AddMissing
  <2> QED BY <1>1, <2>1, <2>3 DEF Room
<1>9. CASE GiveUp
  <2>1. pending' = pending /\ pc' = "idle" /\ pc # "idle"
    BY <1>9 DEF GiveUp, Return, chainVars
  <2>2. Len(pending) <= 4
    BY <1>1, <2>1 DEF Room, Sound
  <2> QED BY <2>1, <2>2 DEF Room
<1>10. CASE pc' = pc /\ Len(pending') <= Len(pending)
  BY <1>1, <1>10 DEF Room
<1>11. CASE Execute \/ ExecuteTrading \/ ExecutionFails
  <2>1. pc' = pc /\ pending # << >> /\ pending' = Tail(pending)
    BY <1>11 DEF Execute, ExecuteTrading, ExecutionFails, roundVars
  <2>2. Len(Tail(pending)) = Len(pending) - 1
    BY <2>1 DEF Sound
  <2> QED BY <1>1, <1>10, <2>1, <2>2
<1>12. CASE UNCHANGED <<pending, roundVars>>
  BY <1>1, <1>10, <1>12 DEF roundVars
<1> QED
  BY <1>4, <1>5, <1>6, <1>7, <1>8, <1>9, <1>11, <1>12
  DEF Next, Round, OthersPlace, OthersCancel, Take, HoldBackEnds, vars, chainVars

\* Prices, orders and transactions have their types and, when a round starts with
\* an empty mempool, no more than four transactions wait there: what is missing,
\* the best orders and the numbers of new ones exist, whatever the book looks like
\* (OrdersFiller stands for app/orders.go:87-143).
THEOREM TypeCorrect == Spec => []TypeOK
<1>1. Init => Sound /\ (PromptBlocks => Room)
  BY SoundInit DEF Init, Room
<1>2. Sound /\ (PromptBlocks => Room) /\ [Next]_vars => (Sound /\ (PromptBlocks => Room))'
  BY SoundStep, RoomStep
<1>3. Sound /\ (PromptBlocks => Room) => TypeOK
  <2> SUFFICES ASSUME Sound, PromptBlocks => Room PROVE TypeOK
    OBVIOUS
  <2>1. \A t \in OrderTypes : own[t] \subseteq Nat \X Nat /\ mine[t] \subseteq Nat \X Nat
    BY DEF Sound, FiniteSubsetsOf, Order, Price
  <2>2. \A t \in OrderTypes : others[t] \subseteq OthersPrices /\ seen[t] \subseteq Nat
    BY DEF Sound, FiniteSubsetsOf, Price
  <2>3. \A i \in 1..Len(pending) : pending[i] \in Transactions
    BY DEF Sound, Tx
  <2>4. PromptBlocks => Len(pending) <= 4
    <3>1. Len(pending) \in Nat
      BY DEF Sound
    <3> QED BY <3>1 DEF Sound, Room
  <2>5. /\ \A h \in last : h \in [price : Nat, orderType : OrderTypes, self : BOOLEAN, recent : BOOLEAN]
        /\ Cardinality(last) <= 1
    <3>1. Cardinality(last) = 0 \/ Cardinality(last) = 1
      BY FS_EmptySet, FS_Singleton DEF Sound
    <3>2. \A h \in last : h \in TradeRecord
      BY DEF Sound
    <3> QED BY <3>1, <3>2 DEF TradeRecord
  <2> QED BY <2>1, <2>2, <2>3, <2>4, <2>5 DEF Sound, TypeOK
<1> QED BY <1>1, <1>2, <1>3, PTL DEF Spec

-----------------------------------------------------------------------------
(* What a round knows *)

\* Side t has no orders on their way to it.
NothingNew(t) == \A i \in 1..Len(pending) : pending[i].orderType = t => pending[i].adds = {}

\* The round has read side t and has not placed orders on it.
HasRead(t) ==
    /\ pc \in {"book", "start", "fillSells", "fillBuys"}
    /\ t \notin unread
    /\ t = "sell" => pc # "fillBuys"

Informed ==
    /\ pc # "idle" => NothingNew("buy")
    /\ pc \notin {"idle", "fillBuys"} => NothingNew("sell")
    /\ pc \in {"start", "fillSells", "fillBuys"} => unread = {}
    /\ \A t \in OrderTypes : HasRead(t) => PricesOf(own[t]) \subseteq seen[t]

-----------------------------------------------------------------------------
(* The operators *)

\* What is missing on a side is on no level the round has seen there.
LEMMA MissingFree == ASSUME NEW t PROVE Missing(t) \cap seen[t] = {}
BY DEF Missing, LadderPrices

LEMMA PricesGrow == ASSUME NEW S, NEW T, S \subseteq T PROVE PricesOf(S) \subseteq PricesOf(T)
BY DEF PricesOf

\* The sequences of the mempool.
LEMMA TailElements ==
    ASSUME Sound, pending # << >>
    PROVE  /\ Len(pending) \in Nat \ {0} /\ Len(Tail(pending)) = Len(pending) - 1
           /\ \A i \in 1..Len(Tail(pending)) : Tail(pending)[i] = pending[i + 1]
BY DEF Sound

LEMMA AppendElements ==
    ASSUME Sound, NEW tx
    PROVE  /\ Len(pending) \in Nat /\ Len(Append(pending, tx)) = Len(pending) + 1
           /\ \A i \in 1..Len(pending) : Append(pending, tx)[i] = pending[i]
           /\ Append(pending, tx)[Len(pending) + 1] = tx
BY DEF Sound

-----------------------------------------------------------------------------
(* What a step does to the mempool *)

\* The round submits tx: cancellations, or what is missing on a side.
Submits(tx) ==
    /\ pending' = Append(pending, tx)
    /\ \/ tx.adds = {} /\ pc # "idle"
       \/ pc = "fillSells" /\ tx.orderType = "sell" /\ tx.adds = Missing("sell")
            /\ pc' \in {"fillBuys", "idle"}
       \/ pc = "fillBuys" /\ tx.orderType = "buy" /\ tx.adds = Missing("buy") /\ pc' = "idle"

Executes == pending # << >> /\ pending' = Tail(pending) /\ UNCHANGED roundVars

LEMMA MempoolStep ==
    ASSUME [Next]_vars
    PROVE  UNCHANGED pending \/ Executes \/ \E tx : Submits(tx)
<1>1. CASE Begin \/ GiveUp \/ ReadOwn \/ ReadOwnPartly \/ CheckHistory \/ FindStart
  BY <1>1 DEF Begin, GiveUp, ReadOwn, ReadOwnPartly, CheckHistory, FindStart, chainVars
<1>2. ASSUME NEW t \in OrderTypes, ReadSide(t) PROVE UNCHANGED pending
  BY <1>2 DEF ReadSide, chainVars
<1>3. ASSUME NEW t \in OrderTypes, CancelExtra(t) PROVE UNCHANGED pending \/ \E tx : Submits(tx)
  <2>1. CASE UNCHANGED pending
    BY <2>1
  <2>2. CASE pending' # pending
    <3>1. PICK S \in Farthest(t, Cardinality(mine[t]) - No(t)) :
             \/ Accepted([cancels |-> S, adds |-> {}, orderType |-> t])
             \/ Refused([cancels |-> S, adds |-> {}, orderType |-> t])
      BY <1>3, <2>2 DEF CancelExtra
    <3>2. pending' = Append(pending, [cancels |-> S, adds |-> {}, orderType |-> t])
      BY <2>2, <3>1 DEF Accepted, Refused
    <3>3. pc # "idle"
      BY <1>3 DEF CancelExtra
    <3> QED BY <3>2, <3>3 DEF Submits
  <2> QED BY <2>1, <2>2
<1>4. CASE FillSells
  <2> DEFINE tx == [cancels |-> {}, adds |-> Missing("sell"), orderType |-> "sell"]
  <2>1. /\ pc = "fillSells" /\ pc' \in {"fillBuys", "idle"}
        /\ pending' = pending \/ pending' = Append(pending, tx)
    BY <1>4 DEF FillSells, AddMissing, Accepted, Refused, Return
  <2>2. tx.orderType = "sell" /\ tx.adds = Missing("sell")
    OBVIOUS
  <2> HIDE DEF tx
  <2> QED BY <2>1, <2>2 DEF Submits
<1>5. CASE FillBuys
  <2> DEFINE tx == [cancels |-> {}, adds |-> Missing("buy"), orderType |-> "buy"]
  <2>1. /\ pc = "fillBuys" /\ pc' = "idle"
        /\ pending' = pending \/ pending' = Append(pending, tx)
    BY <1>5 DEF FillBuys, AddMissing, Accepted, Refused, Return
  <2>2. tx.orderType = "buy" /\ tx.adds = Missing("buy")
    OBVIOUS
  <2> HIDE DEF tx
  <2> QED BY <2>1, <2>2 DEF Submits
<1>6. CASE Execute \/ ExecuteTrading \/ ExecutionFails
  BY <1>6 DEF Execute, ExecuteTrading, ExecutionFails, Executes
<1>7. ASSUME NEW t \in OrderTypes, NEW p \in OthersPrices, OthersPlace(t, p) \/ OthersCancel(t, p)
      PROVE  UNCHANGED pending
  BY <1>7 DEF OthersPlace, OthersCancel
<1>8. ASSUME NEW t \in OrderTypes, NEW by \in {"bot", "others"}, Take(t, by)
      PROVE  UNCHANGED pending
  BY <1>8 DEF Take
<1>9. CASE HoldBackEnds \/ UNCHANGED vars
  BY <1>9 DEF HoldBackEnds, vars, chainVars
<1> QED BY <1>1, <1>2, <1>3, <1>4, <1>5, <1>6, <1>7, <1>8, <1>9 DEF Next, Round

\* What is not on its way stays so, while blocks execute and orders are cancelled.
LEMMA NothingNewKept ==
    ASSUME Sound, NEW t, NothingNew(t),
           \/ UNCHANGED pending
           \/ Executes
           \/ \E tx : pending' = Append(pending, tx) /\ (tx.orderType = t => tx.adds = {})
    PROVE  NothingNew(t)'
<1>1. CASE UNCHANGED pending
  BY <1>1 DEF NothingNew
<1>2. CASE Executes
  <2> SUFFICES ASSUME NEW i \in 1..Len(pending'), pending'[i].orderType = t
               PROVE  pending'[i].adds = {}
    BY DEF NothingNew
  <2>1. pending # << >> /\ pending' = Tail(pending)
    BY <1>2 DEF Executes
  <2>2. /\ Len(pending) \in Nat \ {0} /\ Len(pending') = Len(pending) - 1
        /\ \A j \in 1..Len(pending') : pending'[j] = pending[j + 1]
    BY <2>1, TailElements
  <2>3. i \in Int /\ 1 <= i /\ i <= Len(pending')
    BY <2>2
  <2>4. i + 1 \in 1..Len(pending)
    BY <2>2, <2>3
  <2>5. pending'[i] = pending[i + 1]
    BY <2>2
  <2> QED BY <2>4, <2>5 DEF NothingNew
<1>3. ASSUME NEW tx, pending' = Append(pending, tx), tx.orderType = t => tx.adds = {}
      PROVE  NothingNew(t)'
  <2> SUFFICES ASSUME NEW i \in 1..Len(pending'), pending'[i].orderType = t
               PROVE  pending'[i].adds = {}
    BY DEF NothingNew
  <2>1. CASE i \in 1..Len(pending)
    <3>1. pending'[i] = pending[i]
      BY <1>3, <2>1, AppendElements
    <3> QED BY <2>1, <3>1 DEF NothingNew
  <2>2. CASE i = Len(pending) + 1
    BY <1>3, <2>2, AppendElements
  <2> QED BY <1>3, <2>1, <2>2, AppendElements
<1> QED BY <1>1, <1>2, <1>3

\* A step of which the mempool's part is known leaves NothingNew where it is due.
LEMMA NewStep ==
    ASSUME PromptBlocks, Sound, Informed, [Next]_vars
    PROVE  /\ pc' # "idle" => NothingNew("buy")'
           /\ pc' \notin {"idle", "fillBuys"} => NothingNew("sell")'
<1>1. CASE pc = "idle"
  <2>1. CASE Begin
    BY <2>1 DEF Begin, chainVars, NothingNew
  <2>2. CASE ~Begin
    <3>1. pc' = pc
      BY <1>1, <2>2
      DEF Next, Round, GiveUp, ReadOwn, ReadOwnPartly, CancelExtra, CheckHistory, ReadSide, FindStart,
          FillSells, FillBuys, Execute, ExecuteTrading, ExecutionFails, OthersPlace, OthersCancel, Take,
          HoldBackEnds, vars, roundVars
    <3> QED BY <1>1, <3>1
  <2> QED BY <2>1, <2>2
<1>2. CASE pc # "idle"
  <2>1. NothingNew("buy") /\ (pc # "fillBuys" => NothingNew("sell"))
    BY <1>2 DEF Informed
  <2>2. pc = "fillBuys" => pc' \in {"idle", "fillBuys"}
    BY DEF Next, Round, Begin, GiveUp, ReadOwn, ReadOwnPartly, CancelExtra, CheckHistory, ReadSide,
           FindStart, FillSells, FillBuys, AddMissing, Return, Execute, ExecuteTrading, ExecutionFails,
           OthersPlace, OthersCancel, Take, HoldBackEnds, vars, roundVars
  <2>3. CASE UNCHANGED pending \/ Executes
    BY <2>1, <2>2, <2>3, NothingNewKept
  <2>4. ASSUME NEW tx, Submits(tx)
        PROVE  /\ pc' # "idle" => NothingNew("buy")'
               /\ pc' \notin {"idle", "fillBuys"} => NothingNew("sell")'
    <3>1. /\ pending' = Append(pending, tx)
          /\ pc' # "idle" => (tx.orderType = "buy" => tx.adds = {})
          /\ pc' \notin {"idle", "fillBuys"} => (tx.orderType = "sell" => tx.adds = {})
      BY <2>4 DEF Submits
    <3> QED BY <2>1, <2>2, <3>1, NothingNewKept
  <2> QED BY <2>3, <2>4, MempoolStep
<1> QED BY <1>1, <1>2

-----------------------------------------------------------------------------
(* What a step does to what the round has read *)

\* Orders of a side with nothing on its way can only disappear.
LEMMA OwnShrinks ==
    ASSUME Sound, [Next]_vars, NEW t \in OrderTypes, NothingNew(t)
    PROVE  own'[t] \subseteq own[t]
<1>1. CASE Execute
  <2> DEFINE tx == Head(pending)
  <2>1. tx = pending[1] /\ 1 \in 1..Len(pending)
    BY <1>1 DEF Execute, Sound
  <2>2. tx.orderType = t => tx.adds = {}
    BY <2>1 DEF NothingNew
  <2>3. \/ own' = own
        \/ own' = [own EXCEPT ![tx.orderType] = (@ \ tx.cancels) \cup Numbered(tx.orderType, tx.adds)]
    BY <1>1 DEF Execute
  <2>4. Numbered(t, {}) = {}
    BY DEF Numbered
  <2> HIDE DEF tx
  <2> QED BY <2>2, <2>3, <2>4 DEF Sound
<1>2. CASE ExecuteTrading
  <2> DEFINE tx == Head(pending)
             other == Other(tx.orderType)
             best == Best(other, BookOf(other))
             resting == tx.adds \ {p \in tx.adds : Meets(tx.orderType, p)}
  <2>1. tx = pending[1] /\ 1 \in 1..Len(pending)
    BY <1>2 DEF ExecuteTrading, Sound
  <2>2. tx.adds # {}
    BY <1>2 DEF ExecuteTrading
  <2>3. tx.orderType # t
    BY <2>1, <2>2 DEF NothingNew
  <2>4. own' = [own EXCEPT ![other] = {x \in @ : x[1] # best},
                           ![tx.orderType] = @ \cup Numbered(tx.orderType, resting)]
    BY <1>2 DEF ExecuteTrading
  <2> HIDE DEF tx, other, best, resting
  <2> QED BY <2>3, <2>4 DEF Sound
<1>3. ASSUME NEW u \in OrderTypes, NEW by \in {"bot", "others"}, Take(u, by)
      PROVE  own'[t] \subseteq own[t]
  <2>1. own' = own \/ \E o \in own[u] : own' = [own EXCEPT ![u] = @ \ {o}]
    BY <1>3 DEF Take
  <2> QED BY <2>1 DEF Sound
<1>4. CASE ~Execute /\ ~ExecuteTrading /\ ~(\E u \in OrderTypes, by \in {"bot", "others"} : Take(u, by))
  <2>1. own' = own
    BY <1>4
    DEF Next, Round, Begin, GiveUp, ReadOwn, ReadOwnPartly, CancelExtra, CheckHistory, ReadSide, FindStart,
        FillSells, FillBuys, ExecutionFails, OthersPlace, OthersCancel, HoldBackEnds, vars, chainVars
  <2> QED BY <2>1
<1> QED BY <1>1, <1>2, <1>3, <1>4

\* A side that has been read is no less than what the round takes it for.
LEMMA ReadStep ==
    ASSUME Sound, Informed, [Next]_vars, NEW t \in OrderTypes, HasRead(t)'
    PROVE  PricesOf(own'[t]) \subseteq seen'[t]
<1>1. ASSUME HasRead(t), seen'[t] = seen[t]
      PROVE  PricesOf(own'[t]) \subseteq seen'[t]
  <2>1. NothingNew(t)
    BY <1>1 DEF HasRead, Informed, OrderTypes
  <2>2. own'[t] \subseteq own[t]
    BY <2>1, OwnShrinks
  <2>3. PricesOf(own[t]) \subseteq seen[t]
    BY <1>1 DEF Informed
  <2> QED BY <1>1, <2>2, <2>3, PricesGrow
<1>2. ASSUME NEW u \in OrderTypes, ReadSide(u)
      PROVE  PricesOf(own'[t]) \subseteq seen'[t]
  <2>1. own' = own /\ seen' = [seen EXCEPT ![u] = BookOf(u)] /\ unread' = unread \ {u} /\ pc = "book"
    BY <1>2 DEF ReadSide, chainVars
  <2>2. CASE u = t
    BY <2>1, <2>2 DEF BookOf, Sound
  <2>3. CASE u # t
    <3>1. HasRead(t) /\ seen'[t] = seen[t]
      BY <2>1, <2>3 DEF HasRead, Sound
    <3> QED BY <1>1, <3>1
  <2> QED BY <2>2, <2>3
<1>3. CASE CheckHistory
  <2>1. FALSE
    BY <1>3 DEF CheckHistory, Return, HasRead
  <2> QED BY <2>1
<1>4. CASE FindStart \/ FillSells
  <2>1. HasRead(t) /\ seen' = seen
    BY <1>4 DEF FindStart, FillSells, AddMissing, Return, HasRead, Informed
  <2> QED BY <1>1, <2>1
<1>5. CASE Begin \/ GiveUp \/ ReadOwn \/ ReadOwnPartly \/ FillBuys
  <2>1. FALSE
    BY <1>5 DEF Begin, GiveUp, ReadOwn, ReadOwnPartly, GoOnWith, FillBuys, AddMissing, Return, HasRead
  <2> QED BY <2>1
<1>6. ASSUME NEW u \in OrderTypes, CancelExtra(u)
      PROVE  PricesOf(own'[t]) \subseteq seen'[t]
  <2>1. FALSE
    BY <1>6 DEF CancelExtra, HasRead
  <2> QED BY <2>1
<1>7. CASE UNCHANGED roundVars
  <2>1. HasRead(t) /\ seen' = seen
    BY <1>7 DEF roundVars, HasRead
  <2> QED BY <1>1, <2>1
<1> QED
  BY <1>2, <1>3, <1>4, <1>5, <1>6, <1>7
  DEF Next, Round, Execute, ExecuteTrading, ExecutionFails, OthersPlace, OthersCancel, Take, HoldBackEnds,
      vars

LEMMA InformedStep == PromptBlocks /\ Sound /\ Informed /\ [Next]_vars => Informed'
<1> SUFFICES ASSUME PromptBlocks, Sound, Informed, [Next]_vars PROVE Informed'
  OBVIOUS
<1>1. pc' \in {"start", "fillSells", "fillBuys"} => unread' = {}
  BY DEF Next, Round, Begin, GiveUp, ReadOwn, ReadOwnPartly, GoOnWith, CancelExtra, CheckHistory, ReadSide,
         FindStart, FillSells, FillBuys, AddMissing, Return, Execute, ExecuteTrading, ExecutionFails,
         OthersPlace, OthersCancel, Take, HoldBackEnds, vars, roundVars, Informed
<1>2. \A t \in OrderTypes : HasRead(t)' => PricesOf(own'[t]) \subseteq seen'[t]
  BY ReadStep
<1>3. /\ pc' # "idle" => NothingNew("buy")'
      /\ pc' \notin {"idle", "fillBuys"} => NothingNew("sell")'
  BY NewStep
<1> QED BY <1>1, <1>2, <1>3 DEF Informed, PricesOf

-----------------------------------------------------------------------------
(* The theorem *)

\* What a round submits is on no level where the bot has, or will have, an order.
LEMMA SubmitsFresh ==
    ASSUME Sound, Informed, NEW tx, Submits(tx)
    PROVE  tx.adds \cap Placed(tx.orderType) = {}
<1>1. CASE tx.adds = {}
  BY <1>1
<1>2. ASSUME NEW t \in OrderTypes, tx.orderType = t, tx.adds = Missing(t), HasRead(t), NothingNew(t)
      PROVE  tx.adds \cap Placed(tx.orderType) = {}
  <2>1. PendingAdds(t) = {}
    BY <1>2 DEF PendingAdds, NothingNew
  <2>2. PricesOf(own[t]) \subseteq seen[t]
    BY <1>2 DEF Informed
  <2>3. Missing(t) \cap seen[t] = {}
    BY MissingFree
  <2> QED BY <1>2, <2>1, <2>2, <2>3 DEF Placed
<1>3. CASE pc = "fillSells" /\ tx.orderType = "sell" /\ tx.adds = Missing("sell")
  BY <1>2, <1>3 DEF Informed, HasRead, OrderTypes
<1>4. CASE pc = "fillBuys" /\ tx.orderType = "buy" /\ tx.adds = Missing("buy")
  BY <1>2, <1>4 DEF Informed, HasRead, OrderTypes
<1> QED BY <1>1, <1>3, <1>4 DEF Submits

LEMMA FreshStep ==
    ASSUME Sound, Informed, [Next]_vars, NEW i \in 1..Len(pending'), i > Len(pending)
    PROVE  pending'[i].adds \cap Placed(pending'[i].orderType) = {}
<1>1. CASE UNCHANGED pending
  BY <1>1
<1>2. CASE Executes
  BY <1>2, TailElements DEF Executes
<1>3. ASSUME NEW tx, Submits(tx)
      PROVE  pending'[i].adds \cap Placed(pending'[i].orderType) = {}
  <2>1. i = Len(pending) + 1 /\ pending'[i] = tx
    BY <1>3, AppendElements DEF Submits
  <2> QED BY <1>3, <2>1, SubmitsFresh
<1> QED BY <1>1, <1>2, <1>3, MempoolStep

\* The mempool empty at its start, a round never places an order on a level that
\* the bot already occupies or is about to (FillOrderBook, orders.go:87-143),
\* whatever it reads when, whatever fails and whatever others do meanwhile.
THEOREM NoDoubleLevelHolds == PromptBlocks => (Spec => NoDoubleLevel)
<1> SUFFICES ASSUME PromptBlocks PROVE Spec => NoDoubleLevel
  OBVIOUS
<1>1. Sound /\ Informed /\ [Next]_vars =>
        [\A i \in 1..Len(pending') :
            i > Len(pending) => pending'[i].adds \cap Placed(pending'[i].orderType) = {}]_vars
  BY FreshStep
<1>2. Init => Sound /\ Informed
  BY SoundInit DEF Init, Informed, HasRead
<1>3. Sound /\ Informed /\ [Next]_vars => (Sound /\ Informed)'
  BY SoundStep, InformedStep
<1> QED BY <1>1, <1>2, <1>3, PTL DEF Spec, NoDoubleLevel

-----------------------------------------------------------------------------
(* The two ladders *)

\* The bot's ladders are apart because the market's two sides are, and because
\* what a round knows of one of its ladders it has not outgrown when it places the
\* other: its buys were below the sells it read, and below the first sell it may
\* place; its sells are above the first buy it may place.
Uncrossed == \A b \in BookOf("buy"), s \in BookOf("sell") : b < s

BuysBelowSells ==
    pc \in {"book", "start"} /\ "sell" \notin unread =>
        \A b \in PricesOf(own["buy"]), s \in seen["sell"] : b < s

BuysBelow == pc = "fillSells" => \A b \in PricesOf(own["buy"]) : b < FirstRung("sell", start)

SellsAbove ==
    pc \in {"fillSells", "fillBuys"} =>
        \A s \in Placed("sell") : FirstRung("buy", start - Step) < s

Apart == Uncrossed /\ BuysBelowSells /\ BuysBelow /\ SellsAbove /\ LaddersApart

\* A side of the book loses orders, gains those of a transaction that meet nobody,
\* or gains an order of others that meets nobody.
Shrinks == \A t \in OrderTypes : own'[t] \subseteq own[t] /\ others'[t] \subseteq others[t]

Rests(t, P) ==
    /\ P \subseteq Head(pending).adds /\ \A p \in P : ~Meets(t, p)
    /\ PricesOf(own'[t]) \subseteq PricesOf(own[t]) \cup P
    /\ own'[Other(t)] \subseteq own[Other(t)]
    /\ \A u \in OrderTypes : others'[u] \subseteq others[u]

LEMMA BookStep ==
    ASSUME Sound, [Next]_vars
    PROVE  \/ Shrinks
           \/ pending # << >> /\ \E P : Rests(Head(pending).orderType, P)
           \/ \E t \in OrderTypes, p \in OthersPrices : OthersPlace(t, p)
<1> DEFINE tx == Head(pending)
           t == tx.orderType
           o == Other(t)
<1>1. CASE Execute
  <2>1. pending # << >> /\ t \in OrderTypes /\ tx.adds \in FiniteSubsetsOf(Price) /\ o \in OrderTypes
    BY <1>1, HeadType DEF Execute
  <2>2. \A p \in tx.adds : ~Meets(t, p)
    BY <1>1 DEF Execute
  <2>3. PricesOf(Numbered(t, tx.adds)) = tx.adds
    BY <2>1, NumberedType
  <2>4. /\ others' = others
        /\ own' = own \/ own' = [own EXCEPT ![t] = (@ \ tx.cancels) \cup Numbered(t, tx.adds)]
    BY <1>1 DEF Execute
  <2>5. t # o
    BY DEF Other
  <2> HIDE DEF tx, t, o
  <2>6. own'[t] \subseteq own[t] \cup Numbered(t, tx.adds) /\ own'[o] \subseteq own[o]
    BY <2>1, <2>4, <2>5 DEF Sound
  <2>7. PricesOf(own'[t]) \subseteq PricesOf(own[t]) \cup tx.adds
    BY <2>3, <2>6 DEF PricesOf
  <2>8. Rests(t, tx.adds)
    BY <2>2, <2>4, <2>6, <2>7 DEF Rests, tx, o
  <2> QED BY <2>1, <2>8 DEF t, tx
<1>2. CASE ExecuteTrading
  <2> DEFINE best == Best(o, BookOf(o))
             resting == tx.adds \ {p \in tx.adds : Meets(t, p)}
  <2>1. pending # << >> /\ t \in OrderTypes /\ tx.adds \in FiniteSubsetsOf(Price) /\ o \in OrderTypes
    BY <1>2, HeadType DEF ExecuteTrading
  <2>2. resting \subseteq tx.adds /\ \A p \in resting : ~Meets(t, p)
    OBVIOUS
  <2>3. PricesOf(Numbered(t, resting)) = resting
    <3>1. resting \in FiniteSubsetsOf(Price)
      BY <2>1, FiniteParts
    <3> HIDE DEF resting, t
    <3> QED BY <2>1, <3>1, NumberedType
  <2>4. /\ own' = [own EXCEPT ![o] = {x \in @ : x[1] # best}, ![t] = @ \cup Numbered(t, resting)]
        /\ others' = [others EXCEPT ![o] = @ \ {best}]
    BY <1>2 DEF ExecuteTrading
  <2>5. t # o
    BY DEF Other
  <2> HIDE DEF tx, t, o, best, resting
  <2>6. own'[t] \subseteq own[t] \cup Numbered(t, resting) /\ own'[o] \subseteq own[o]
    BY <2>1, <2>4, <2>5 DEF Sound
  <2>7. PricesOf(own'[t]) \subseteq PricesOf(own[t]) \cup resting
    BY <2>3, <2>6 DEF PricesOf
  <2>8. \A u \in OrderTypes : others'[u] \subseteq others[u]
    BY <2>4 DEF Sound
  <2>9. Rests(t, resting)
    BY <2>2, <2>6, <2>7, <2>8 DEF Rests, tx, o
  <2> QED BY <2>1, <2>9 DEF t, tx
<1>3. ASSUME NEW u \in OrderTypes, NEW by \in {"bot", "others"}, Take(u, by)
      PROVE  Shrinks
  <2>1. /\ own' = own \/ \E x \in own[u] : own' = [own EXCEPT ![u] = @ \ {x}]
        /\ others' = others \/ others' = [others EXCEPT ![u] = @ \ {Best(u, BookOf(u))}]
    BY <1>3 DEF Take
  <2> QED BY <2>1 DEF Shrinks, Sound
<1>4. ASSUME NEW u \in OrderTypes, NEW p \in OthersPrices, OthersCancel(u, p)
      PROVE  Shrinks
  BY <1>4 DEF OthersCancel, Shrinks, Sound
<1>5. CASE own' = own /\ others' = others
  BY <1>5 DEF Shrinks
<1>6. \/ Execute \/ ExecuteTrading
      \/ own' = own /\ others' = others
      \/ \E u \in OrderTypes, by \in {"bot", "others"} : Take(u, by)
      \/ \E u \in OrderTypes, p \in OthersPrices : OthersPlace(u, p) \/ OthersCancel(u, p)
  BY DEF Next, Round, Begin, GiveUp, ReadOwn, ReadOwnPartly, CancelExtra, CheckHistory, ReadSide, FindStart,
         FillSells, FillBuys, ExecutionFails, HoldBackEnds, vars, chainVars
<1> QED BY <1>1, <1>2, <1>3, <1>4, <1>5, <1>6

\* Nothing rests in the book that meets an order of the other side.
LEMMA UncrossedStep == Sound /\ Uncrossed /\ [Next]_vars => Uncrossed'
<1> SUFFICES ASSUME Sound, Uncrossed, [Next]_vars PROVE Uncrossed'
  OBVIOUS
<1>1. BookOf("buy") \subseteq Int /\ BookOf("sell") \subseteq Int
  BY BookFinite, FiniteParts DEF Price, OrderTypes
<1>2. ASSUME NEW t \in OrderTypes, NEW P, \A p \in P : ~Meets(t, p),
             BookOf(t)' \subseteq BookOf(t) \cup P, BookOf(Other(t))' \subseteq BookOf(Other(t))
      PROVE  Uncrossed'
  <2>1. CASE t = "buy"
    BY <2>1, <1>1, <1>2 DEF Uncrossed, Meets, Beyond, Other
  <2>2. CASE t = "sell"
    BY <2>2, <1>1, <1>2 DEF Uncrossed, Meets, Beyond, Other
  <2> QED BY <2>1, <2>2 DEF OrderTypes
<1>3. \A t : Other(t) \in OrderTypes
  BY DEF Other, OrderTypes
<1>4. CASE Shrinks
  <2>1. BookOf("buy")' \subseteq BookOf("buy") /\ BookOf("sell")' \subseteq BookOf("sell")
    BY <1>4 DEF Shrinks, BookOf, PricesOf, OrderTypes
  <2> QED BY <2>1 DEF Uncrossed
<1>5. ASSUME pending # << >>, NEW P, Rests(Head(pending).orderType, P) PROVE Uncrossed'
  <2>1. PICK t \in OrderTypes : Rests(t, P)
    BY <1>5, HeadType
  <2>2. BookOf(t)' \subseteq BookOf(t) \cup P
    BY <2>1 DEF Rests, BookOf
  <2>3. BookOf(Other(t))' \subseteq BookOf(Other(t))
    BY <1>3, <2>1, PricesGrow DEF Rests, BookOf
  <2>4. \A p \in P : ~Meets(t, p)
    BY <2>1 DEF Rests
  <2> QED BY <2>2, <2>3, <2>4, <1>2
<1>6. ASSUME NEW t \in OrderTypes, NEW p \in OthersPrices, OthersPlace(t, p) PROVE Uncrossed'
  <2> DEFINE P == {p}
  <2>1. ~Meets(t, p) /\ own' = own /\ others' = [others EXCEPT ![t] = @ \cup {p}]
    BY <1>6 DEF OthersPlace
  <2>2. BookOf(t)' \subseteq BookOf(t) \cup P
    BY <2>1 DEF BookOf, Sound
  <2>3. BookOf(Other(t))' \subseteq BookOf(Other(t))
    <3>1. Other(t) # t
      BY DEF Other
    <3> QED BY <2>1, <3>1, <1>3 DEF BookOf, Sound
  <2>4. \A q \in P : ~Meets(t, q)
    BY <2>1
  <2> HIDE DEF P
  <2> QED BY <2>2, <2>3, <2>4, <1>2
<1> QED BY <1>4, <1>5, <1>6, BookStep

\* The bot places only what the round submits.
LEMMA PlacedStep ==
    ASSUME Sound, [Next]_vars, NEW t \in OrderTypes
    PROVE  \/ Placed(t)' \subseteq Placed(t)
           \/ \E tx : Submits(tx) /\ tx.orderType = t /\ Placed(t)' \subseteq Placed(t) \cup tx.adds
<1>1. PricesOf(own[t])' \subseteq Placed(t)
  <2>1. CASE Shrinks
    BY <2>1 DEF Shrinks, Placed, PricesOf
  <2>2. ASSUME pending # << >>, NEW P, Rests(Head(pending).orderType, P)
        PROVE  PricesOf(own[t])' \subseteq Placed(t)
    <3> DEFINE u == Head(pending).orderType
    <3>1. u \in OrderTypes /\ Head(pending) = pending[1] /\ 1 \in 1..Len(pending)
      BY <2>2, HeadType DEF Sound
    <3>2. P \subseteq PendingAdds(u)
      BY <2>2, <3>1 DEF Rests, PendingAdds
    <3> HIDE DEF u
    <3>3. Rests(u, P)
      BY <2>2 DEF u
    <3>4. CASE t = u
      BY <3>2, <3>3, <3>4 DEF Rests, Placed
    <3>5. CASE t = Other(u)
      BY <3>3, <3>5, PricesGrow DEF Rests, Placed
    <3> QED BY <3>1, <3>4, <3>5 DEF Other, OrderTypes
  <2>3. CASE own' = own
    BY <2>3 DEF Placed
  <2> QED BY <2>1, <2>2, <2>3, BookStep DEF OthersPlace
<1>2. CASE UNCHANGED pending
  <2>1. PendingAdds(t)' = PendingAdds(t)
    BY <1>2 DEF PendingAdds
  <2> QED BY <1>1, <2>1 DEF Placed
<1>3. CASE Executes
  <2>1. /\ Len(pending) \in Nat \ {0} /\ Len(pending') = Len(pending) - 1
        /\ \A i \in 1..Len(pending') : pending'[i] = pending[i + 1] /\ i + 1 \in 1..Len(pending)
    BY <1>3, TailElements DEF Executes
  <2>2. PendingAdds(t)' \subseteq PendingAdds(t)
    BY <2>1 DEF PendingAdds
  <2> QED BY <1>1, <2>2 DEF Placed
<1>4. ASSUME NEW tx, Submits(tx)
      PROVE  \/ Placed(t)' \subseteq Placed(t)
             \/ tx.orderType = t /\ Placed(t)' \subseteq Placed(t) \cup tx.adds
  <2>1. /\ Len(pending) \in Nat /\ Len(pending') = Len(pending) + 1
        /\ \A i \in 1..Len(pending) : pending'[i] = pending[i]
        /\ pending'[Len(pending) + 1] = tx
    BY <1>4, AppendElements DEF Submits
  <2>2. \A i \in 1..Len(pending') : i \in 1..Len(pending) \/ i = Len(pending) + 1
    BY <2>1
  <2>3. PendingAdds(t)' \subseteq PendingAdds(t) \cup (IF tx.orderType = t THEN tx.adds ELSE {})
    BY <2>1, <2>2 DEF PendingAdds
  <2> QED BY <1>1, <2>3 DEF Placed
<1> QED BY <1>2, <1>3, <1>4, MempoolStep

\* A ladder that nothing is on its way to is in the book.
LEMMA PlacedOwn == ASSUME NEW t, NothingNew(t) PROVE Placed(t) = PricesOf(own[t])
BY DEF Placed, PendingAdds, NothingNew

\* The first rungs are apart.
LEMMA FirstRungs ==
    ASSUME Sound, WideSpread
    PROVE  /\ FirstRung("sell", start) \in Int /\ FirstRung("buy", start - Step) \in Int
           /\ FirstRung("buy", start - Step) < FirstRung("sell", start)
<1>1. Step \in Nat \ {0} /\ SpreadSteps \in Int /\ SpreadSteps >= 2 /\ start \in Int
  BY StepAssumption, SpreadAssumption DEF WideSpread, Sound
<1> DEFINE half == SpreadSteps \div 2
           gap == half * Step
<1>2. half \in Nat
  BY <1>1
<1> HIDE DEF half
<1>3. gap \in Nat
  BY <1>1, <1>2
<1> HIDE DEF gap
<1>4. FirstRung("sell", start) = start + gap /\ FirstRung("buy", start - Step) = (start - Step) - gap
  BY <1>1 DEF FirstRung, Outward, gap, half
<1> QED BY <1>1, <1>3, <1>4

\* What the round knows about its buys when it has read the sells.
LEMMA BuysBelowSellsStep ==
    Sound /\ Informed /\ Uncrossed /\ BuysBelowSells /\ [Next]_vars => BuysBelowSells'
<1> SUFFICES ASSUME Sound, Informed, Uncrossed, BuysBelowSells, [Next]_vars,
                    pc' \in {"book", "start"}, "sell" \notin unread'
             PROVE  \A b \in PricesOf(own["buy"])', s \in seen'["sell"] : b < s
  BY DEF BuysBelowSells
<1>1. CASE ReadSide("sell")
  <2>1. own' = own /\ seen'["sell"] = BookOf("sell")
    BY <1>1 DEF ReadSide, chainVars, Sound, OrderTypes
  <2> QED BY <2>1 DEF Uncrossed, BookOf
<1>2. CASE ~ReadSide("sell")
  <2>1. pc \in {"book", "start"} /\ "sell" \notin unread /\ seen'["sell"] = seen["sell"]
    BY <1>2
    DEF Next, Round, Begin, GiveUp, ReadOwn, ReadOwnPartly, GoOnWith, CancelExtra, CheckHistory, ReadSide,
        FindStart, FillSells, FillBuys, AddMissing, Return, Execute, ExecuteTrading, ExecutionFails,
        OthersPlace, OthersCancel, Take, HoldBackEnds, vars, roundVars, OrderTypes, Sound
  <2>2. NothingNew("buy")
    BY <2>1 DEF Informed
  <2>3. PricesOf(own["buy"])' \subseteq PricesOf(own["buy"])
    BY <2>2, OwnShrinks, PricesGrow DEF OrderTypes
  <2> QED BY <2>1, <2>3 DEF BuysBelowSells
<1> QED BY <1>1, <1>2

\* The start price leaves the own buys below the first sell and the own sells
\* above the first buy.
LEMMA FindStartApart ==
    ASSUME WideSpread, Sound, Informed, BuysBelowSells, FindStart
    PROVE  /\ \A b \in PricesOf(own["buy"]) : b < FirstRung("sell", start')
           /\ \A s \in PricesOf(own["sell"]) : FirstRung("buy", start' - Step) < s
<1> DEFINE buy == Best("buy", seen["buy"])
           sell == Best("sell", seen["sell"])
<1>1. PICK known \in {last, {}} : start' = SellStart(buy, sell, known)
  BY DEF FindStart
<1>2. \A t \in OrderTypes : PricesOf(own[t]) \subseteq seen[t] /\ seen[t] \in FiniteSubsetsOf(Price)
  BY DEF FindStart, Informed, HasRead, Sound
<1>3. \A t \in OrderTypes : seen[t] \subseteq Nat
  BY <1>2 DEF FiniteSubsetsOf, Price
<1>4. /\ buy \in Nat /\ (seen["buy"] # {} => buy # 0)
      /\ \A p \in seen["buy"] : p <= buy
  BY <1>2, BestOfSide DEF OrderTypes
<1>5. /\ sell \in Nat /\ (sell # 0 => sell \in seen["sell"]) /\ (seen["sell"] # {} => sell # 0)
      /\ \A p \in seen["sell"] : sell <= p
  BY <1>2, BestOfSide DEF OrderTypes
<1> HIDE DEF buy, sell
<1> DEFINE price == SellStart(buy, sell, known)
           firstSell == FirstRung("sell", price)
           firstBuy == FirstRung("buy", price - Step)
<1>6. /\ firstSell \in Int /\ firstBuy \in Int
      /\ sell # 0 => firstBuy < sell
      /\ \A p \in Int : buy # 0 /\ p <= buy /\ (sell # 0 => p < sell) => p < firstSell
  BY <1>4, <1>5, LaddersStartApart
<1> HIDE DEF firstSell, firstBuy
<1>7. ASSUME NEW b \in PricesOf(own["buy"]) PROVE b < firstSell
  <2>1. b \in seen["buy"] /\ b \in Int
    BY <1>2, <1>3 DEF OrderTypes
  <2>2. \A s \in seen["sell"] : b < s
    BY DEF BuysBelowSells, FindStart, Informed
  <2> QED BY <1>4, <1>5, <1>6, <2>1, <2>2
<1>8. ASSUME NEW s \in PricesOf(own["sell"]) PROVE firstBuy < s
  <2>1. s \in seen["sell"] /\ s \in Int
    BY <1>2, <1>3 DEF OrderTypes
  <2> QED BY <1>5, <1>6, <2>1
<1> QED BY <1>1, <1>7, <1>8 DEF firstSell, firstBuy

LEMMA BuysBelowStep ==
    WideSpread /\ Sound /\ Informed /\ Apart /\ [Next]_vars => BuysBelow'
<1> SUFFICES ASSUME WideSpread, Sound, Informed, Apart, [Next]_vars, pc' = "fillSells"
             PROVE  \A b \in PricesOf(own["buy"])' : b < FirstRung("sell", start')
  BY DEF BuysBelow
<1>1. CASE FindStart
  BY <1>1, FindStartApart DEF Apart, FindStart, chainVars
<1>2. CASE ~FindStart
  <2>1. pc = "fillSells" /\ start' = start
    BY <1>2
    DEF Next, Round, Begin, GiveUp, ReadOwn, ReadOwnPartly, GoOnWith, CancelExtra, CheckHistory, ReadSide,
        FindStart, FillSells, FillBuys, AddMissing, Return, Execute, ExecuteTrading, ExecutionFails,
        OthersPlace, OthersCancel, Take, HoldBackEnds, vars, roundVars
  <2>2. PricesOf(own["buy"])' \subseteq PricesOf(own["buy"])
    BY <2>1, OwnShrinks, PricesGrow DEF Informed, OrderTypes
  <2> QED BY <2>1, <2>2 DEF Apart, BuysBelow
<1> QED BY <1>1, <1>2

\* What the round submits of a ladder is on the far side of its first rung.
LEMMA SubmitsOutward ==
    ASSUME Sound, NEW tx, Submits(tx), tx.adds # {}
    PROVE  \/ /\ pc = "fillSells" /\ tx.orderType = "sell" /\ tx.adds \subseteq Int
              /\ \A s \in tx.adds : FirstRung("sell", start) <= s
           \/ /\ pc = "fillBuys" /\ tx.orderType = "buy" /\ tx.adds \subseteq Int
              /\ \A b \in tx.adds : b <= FirstRung("buy", start - Step)
<1>1. Missing("sell") \subseteq Int /\ \A s \in Missing("sell") : s >= FirstRung("sell", start)
  BY MissingType DEF OrderTypes, StartOf, FiniteSubsetsOf, Price
<1>2. Missing("buy") \subseteq Int /\ \A b \in Missing("buy") : b <= FirstRung("buy", start - Step)
  BY MissingType DEF OrderTypes, StartOf, FiniteSubsetsOf, Price
<1>3. FirstRung("sell", start) \in Int
  BY StepAssumption, SpreadAssumption DEF Sound, FirstRung, Outward
<1> QED BY <1>1, <1>2, <1>3 DEF Submits

LEMMA SellsAboveStep ==
    WideSpread /\ Sound /\ Informed /\ Apart /\ [Next]_vars => SellsAbove'
<1> SUFFICES ASSUME WideSpread, Sound, Informed, Apart, [Next]_vars, pc' \in {"fillSells", "fillBuys"}
             PROVE  \A s \in Placed("sell")' : FirstRung("buy", start' - Step) < s
  BY DEF SellsAbove
<1>1. CASE FindStart
  <2>1. NothingNew("sell") /\ Placed("sell")' = Placed("sell")
    BY <1>1 DEF FindStart, Informed, chainVars, Placed, PendingAdds
  <2> QED BY <1>1, <2>1, PlacedOwn, FindStartApart DEF Apart
<1>2. CASE ~FindStart
  <2>1. pc \in {"fillSells", "fillBuys"} /\ start' = start
    BY <1>2
    DEF Next, Round, Begin, GiveUp, ReadOwn, ReadOwnPartly, GoOnWith, CancelExtra, CheckHistory, ReadSide,
        FindStart, FillSells, FillBuys, AddMissing, Return, Execute, ExecuteTrading, ExecutionFails,
        OthersPlace, OthersCancel, Take, HoldBackEnds, vars, roundVars
  <2>2. \A s \in Placed("sell") : FirstRung("buy", start - Step) < s
    BY <2>1 DEF Apart, SellsAbove
  <2>3. CASE Placed("sell")' \subseteq Placed("sell")
    BY <2>1, <2>2, <2>3
  <2>4. ASSUME NEW tx, Submits(tx), tx.orderType = "sell", Placed("sell")' \subseteq Placed("sell") \cup tx.adds
        PROVE  \A s \in Placed("sell")' : FirstRung("buy", start - Step) < s
    <3>1. tx.adds \subseteq Int /\ \A s \in tx.adds : FirstRung("sell", start) <= s
      BY <2>4, SubmitsOutward
    <3>2. \A s \in tx.adds : FirstRung("buy", start - Step) < s
      BY <3>1, FirstRungs
    <3> QED BY <2>2, <2>4, <3>2
  <2> QED BY <2>1, <2>3, <2>4, PlacedStep DEF OrderTypes
<1> QED BY <1>1, <1>2

\* Neither ladder is placed into the other.
LEMMA LaddersApartStep ==
    WideSpread /\ Sound /\ Informed /\ Apart /\ [Next]_vars => LaddersApart'
<1> SUFFICES ASSUME WideSpread, Sound, Informed, Apart, [Next]_vars PROVE LaddersApart'
  OBVIOUS
<1>1. CASE Placed("buy")' \subseteq Placed("buy") /\ Placed("sell")' \subseteq Placed("sell")
  BY <1>1 DEF Apart, LaddersApart
<1>2. ASSUME NEW tx, Submits(tx), tx.adds # {} PROVE LaddersApart'
  <2>1. \A ty : Submits(ty) => ty = tx
    <3> TAKE ty
    <3> HAVE Submits(ty)
    <3>1. Append(pending, ty)[Len(pending) + 1] = ty /\ Append(pending, tx)[Len(pending) + 1] = tx
      BY AppendElements
    <3>2. Append(pending, ty) = Append(pending, tx)
      BY <1>2 DEF Submits
    <3> QED BY <3>1, <3>2
  <2>2. CASE pc = "fillSells" /\ tx.orderType = "sell"
    <3>1. tx.adds \subseteq Int /\ \A s \in tx.adds : FirstRung("sell", start) <= s
      BY <1>2, <2>2, SubmitsOutward
    <3>2. Placed("buy") = PricesOf(own["buy"]) /\ Placed("buy") \subseteq Int
      BY <2>2, PlacedOwn, BookFinite, FiniteParts DEF Informed, OrderTypes, Price
    <3>3. \A b \in Placed("buy") : b < FirstRung("sell", start)
      BY <2>2, <3>2 DEF Apart, BuysBelow
    <3>4. FirstRung("sell", start) \in Int
      BY FirstRungs
    <3>5. \A b \in Placed("buy"), s \in tx.adds : b < s
      BY <3>1, <3>2, <3>3, <3>4
    <3>6. Placed("buy")' \subseteq Placed("buy") /\ Placed("sell")' \subseteq Placed("sell") \cup tx.adds
      BY <2>1, <2>2, PlacedStep DEF OrderTypes
    <3> QED BY <3>5, <3>6 DEF Apart, LaddersApart
  <2>3. CASE pc = "fillBuys" /\ tx.orderType = "buy"
    <3>1. tx.adds \subseteq Int /\ \A b \in tx.adds : b <= FirstRung("buy", start - Step)
      BY <1>2, <2>3, SubmitsOutward
    <3>2. \A s \in Placed("sell") : FirstRung("buy", start - Step) < s
      BY <2>3 DEF Apart, SellsAbove
    <3>3. Placed("sell") \subseteq Int
      BY BookFinite, FiniteParts DEF Placed, PendingAdds, Sound, Tx, Transactions, Price, OrderTypes
    <3>4. FirstRung("buy", start - Step) \in Int
      BY FirstRungs
    <3>5. \A b \in tx.adds, s \in Placed("sell") : b < s
      BY <3>1, <3>2, <3>3, <3>4
    <3>6. Placed("sell")' \subseteq Placed("sell") /\ Placed("buy")' \subseteq Placed("buy") \cup tx.adds
      BY <2>1, <2>3, PlacedStep DEF OrderTypes
    <3> QED BY <3>5, <3>6 DEF Apart, LaddersApart
  <2> QED BY <1>2, <2>2, <2>3, SubmitsOutward
<1> QED BY <1>1, <1>2, PlacedStep DEF OrderTypes

\* With blocks faster than rounds, at least two steps left empty in the spread and
\* a step that six decimals show, no own sell is ever at or below an own buy, in the
\* book or on its way there: whichever queries fail, whenever a round is cut short
\* and whatever others place, cancel or take in between (FillOrderBook,
\* orders.go:87-143, with getStartPrice, orders.go:251-313).
THEOREM LaddersApartHolds == PromptBlocks /\ WideSpread => (Spec => []LaddersApart)
<1> SUFFICES ASSUME PromptBlocks, WideSpread PROVE Spec => []LaddersApart
  OBVIOUS
<1>1. Init => Sound /\ Informed /\ Apart
  <2> SUFFICES ASSUME Init PROVE Sound /\ Informed /\ Apart
    OBVIOUS
  <2>1. Sound /\ Informed
    BY SoundInit DEF Init, Informed, HasRead
  <2>2. PricesOf({}) = {}
    BY DEF PricesOf
  <2> QED
    BY <2>1, <2>2
    DEF Init, Nobody, OrderTypes, Apart, Uncrossed, BookOf, BuysBelowSells, BuysBelow, SellsAbove, LaddersApart,
        Placed, PendingAdds
<1>2. Sound /\ Informed /\ Apart /\ [Next]_vars => (Sound /\ Informed /\ Apart)'
  BY SoundStep, InformedStep, UncrossedStep, BuysBelowSellsStep, BuysBelowStep, SellsAboveStep,
     LaddersApartStep
  DEF Apart
<1>3. Apart => LaddersApart
  BY DEF Apart
<1> QED BY <1>1, <1>2, <1>3, PTL DEF Spec
=============================================================================
