----------------------------- MODULE AppProofs -----------------------------
(***************************************************************************)
(* Proofs about App, for every ladder, book, wall and amount: the types,   *)
(* and that what FillOrderBook submits rests in the book, although another *)
(* part of the loop trades on the same book.                               *)
(*                                                                         *)
(* The argument has two halves.  A transaction enters the book unit by     *)
(* unit, so whatever it does holds of the recursive functions Trading and  *)
(* Entering: that these exist and what they preserve is shown by the least *)
(* counterexample.  They leave the book uncrossed, shrink the other side   *)
(* and put new orders only at the prices of the transaction.  Over the     *)
(* mempool the invariant Orderly says that ladders come before the order   *)
(* of MakeVolume, sells before buys, and that each is clear of the bot's   *)
(* orders and the walls; a block can disturb that only with what the next  *)
(* ladder was built apart from.                                            *)
(***************************************************************************)
EXTENDS App, OrderPricesProofs, SequenceTheorems

-----------------------------------------------------------------------------
(* Books *)

\* A book while the orders of a transaction enter it.
Books ==
    [own : [OrderTypes -> FiniteSubsetsOf(OwnOrder)],
     others : [OrderTypes -> FiniteSubsetsOf(Offer)], left : Nat, met : Seq(BOOLEAN)]

\* The prices of finitely many orders are finitely many.
LEMMA PricesFinite ==
    ASSUME NEW S, IsFiniteSet(S), \A o \in S : o.price \in Price
    PROVE  PricesOf(S) \in FiniteSubsetsOf(Price)
<1> DEFINE f == [o \in S |-> o.price]
<1>1. f \in Surjection(S, PricesOf(S))
  BY DEF Surjection, PricesOf
<1>2. IsFiniteSet(PricesOf(S))
  <2> HIDE DEF f
  <2> QED BY <1>1, FS_Surjection
<1>3. PricesOf(S) \subseteq Price
  BY DEF PricesOf
<1> QED BY <1>2, <1>3 DEF FiniteSubsetsOf

LEMMA OrderPrice ==
    /\ \A o \in OwnOrder : o.price \in Price /\ o.amount \in Nat \ {0}
    /\ \A o \in Offer : o.price \in Price /\ o.amount \in Nat \ {0}
BY DEF OwnOrder, Offer, Price

LEMMA BookPrices ==
    ASSUME NEW S \in FiniteSubsetsOf(OwnOrder), NEW T \in FiniteSubsetsOf(Offer)
    PROVE  /\ PricesOf(S) \in FiniteSubsetsOf(Price) /\ PricesOf(T) \in FiniteSubsetsOf(Price)
           /\ PricesOf(S) \cup PricesOf(T) \in FiniteSubsetsOf(Price)
           /\ PricesOf(S \cup T) = PricesOf(S) \cup PricesOf(T)
           /\ PricesOf(S \cup T) \in FiniteSubsetsOf(Price)
<1>1. PricesOf(S) \in FiniteSubsetsOf(Price)
  BY FiniteParts, OrderPrice, PricesFinite
<1>2. PricesOf(T) \in FiniteSubsetsOf(Price)
  BY FiniteParts, OrderPrice, PricesFinite
<1>3. PricesOf(S) \cup PricesOf(T) \in FiniteSubsetsOf(Price)
  BY <1>1, <1>2, FiniteParts
<1>4. PricesOf(S \cup T) = PricesOf(S) \cup PricesOf(T)
  BY DEF PricesOf
<1>5. PricesOf(S \cup T) \in FiniteSubsetsOf(Price)
  BY <1>3, <1>4, Zenon
<1> QED BY <1>1, <1>2, <1>3, <1>4, <1>5

\* What is left of a set of orders when one of them has traded a unit.
LEMMA ReducedType ==
    /\ \A S \in FiniteSubsetsOf(OwnOrder) : \A o \in S :
          Reduced(S, o) \in FiniteSubsetsOf(OwnOrder) /\ PricesOf(Reduced(S, o)) \subseteq PricesOf(S)
    /\ \A S \in FiniteSubsetsOf(Offer) : \A o \in S :
          Reduced(S, o) \in FiniteSubsetsOf(Offer) /\ PricesOf(Reduced(S, o)) \subseteq PricesOf(S)
<1>1. ASSUME NEW S \in FiniteSubsetsOf(OwnOrder), NEW o \in S
      PROVE  Reduced(S, o) \in FiniteSubsetsOf(OwnOrder) /\ PricesOf(Reduced(S, o)) \subseteq PricesOf(S)
  <2> DEFINE o1 == [o EXCEPT !.amount = @ - 1]
  <2>1. S \subseteq OwnOrder /\ IsFiniteSet(S) /\ o \in OwnOrder
    BY FiniteParts
  <2>2. S \ {o} \in FiniteSubsetsOf(OwnOrder)
    BY FiniteParts
  <2>3. CASE o.amount = 1
    <3>1. Reduced(S, o) = S \ {o}
      BY <2>3 DEF Reduced
    <3> QED BY <2>2, <3>1 DEF PricesOf
  <2>4. CASE o.amount # 1
    <3>1. Reduced(S, o) = (S \ {o}) \cup {o1}
      BY <2>4 DEF Reduced
    <3>2. o1 \in OwnOrder /\ o1.price = o.price
      BY <2>1, <2>4 DEF OwnOrder
    <3> HIDE DEF o1
    <3>3. Reduced(S, o) \in FiniteSubsetsOf(OwnOrder)
      BY <2>2, <3>1, <3>2, FiniteParts
    <3> QED BY <3>1, <3>2, <3>3 DEF PricesOf
  <2> QED BY <2>3, <2>4
<1>2. ASSUME NEW S \in FiniteSubsetsOf(Offer), NEW o \in S
      PROVE  Reduced(S, o) \in FiniteSubsetsOf(Offer) /\ PricesOf(Reduced(S, o)) \subseteq PricesOf(S)
  <2> DEFINE o1 == [o EXCEPT !.amount = @ - 1]
  <2>1. S \subseteq Offer /\ IsFiniteSet(S) /\ o \in Offer
    BY FiniteParts
  <2>2. S \ {o} \in FiniteSubsetsOf(Offer)
    BY FiniteParts
  <2>3. CASE o.amount = 1
    <3>1. Reduced(S, o) = S \ {o}
      BY <2>3 DEF Reduced
    <3> QED BY <2>2, <3>1 DEF PricesOf
  <2>4. CASE o.amount # 1
    <3>1. Reduced(S, o) = (S \ {o}) \cup {o1}
      BY <2>4 DEF Reduced
    <3>2. o1 \in Offer /\ o1.price = o.price
      BY <2>1, <2>4 DEF Offer
    <3> HIDE DEF o1
    <3>3. Reduced(S, o) \in FiniteSubsetsOf(Offer)
      BY <2>2, <3>1, <3>2, FiniteParts
    <3> QED BY <3>1, <3>2, <3>3 DEF PricesOf
  <2> QED BY <2>3, <2>4
<1> QED BY <1>1, <1>2

-----------------------------------------------------------------------------
(* Matching *)

\* c is b after orders of type t have traded: the other side may have lost orders,
\* but no wall.
After(b, t, c) ==
    /\ c \in Books
    /\ c.own[t] = b.own[t] /\ c.others[t] = b.others[t]
    /\ PricesOf(c.own[Other(t)]) \subseteq PricesOf(b.own[Other(t)])
    /\ PricesOf(c.others[Other(t)]) \subseteq PricesOf(b.others[Other(t)])
    /\ \A u \in OrderTypes : Walls[u] \subseteq c.others[u]

LEMMA OtherType == \A t \in OrderTypes : Other(t) \in OrderTypes /\ Other(t) # t /\ Other(Other(t)) = t
BY DEF Other, OrderTypes

\* A unit is left over when it meets nobody.
LEMMA TakeUnitStep ==
    ASSUME NEW t \in OrderTypes, NEW b, NEW first, NEW p \in Price, After(b, t, b)
    PROVE  LET c == TakeUnit(b, t, p, first) IN
           /\ After(b, t, c)
           /\ IF Meets(b, t, p) THEN c.left = b.left
              ELSE c.left = b.left + 1 /\ c.own = b.own /\ c.others = b.others
<1> DEFINE c == TakeUnit(b, t, p, first)
           o == Other(t)
           mines == b.own[o]
           theirs == b.others[o]
           best == Best(o, PricesOf(mines \cup theirs))
           At(S) == {x \in S : x.price = best}
           with == CHOOSE x \in (IF At(theirs) = {} \/ (At(mines) # {} /\ first = "own") THEN At(mines)
                                 ELSE At(theirs)) : TRUE
<1>1. b \in Books /\ o \in OrderTypes /\ o # t
  BY OtherType DEF After
<1>2. mines \in FiniteSubsetsOf(OwnOrder) /\ theirs \in FiniteSubsetsOf(Offer)
  BY <1>1 DEF Books
<1>3. CASE ~Meets(b, t, p)
  <2>1. c = [b EXCEPT !.left = b.left + 1]
    BY <1>3 DEF TakeUnit
  <2>2. c \in Books /\ c.left = b.left + 1 /\ c.own = b.own /\ c.others = b.others
    BY <2>1, <1>1 DEF Books
  <2> HIDE DEF c
  <2> QED BY <1>3, <2>2 DEF After, c
<1>4. CASE Meets(b, t, p)
  <2>1. with \in At(mines) \/ with \in At(theirs)
    <3>1. mines \cup theirs # {}
      BY <1>4 DEF Meets
    <3>2. PricesOf(mines \cup theirs) \in FiniteSubsetsOf(Price) /\ PricesOf(mines \cup theirs) # {}
      <4> HIDE DEF mines, theirs, o
      <4>1. PricesOf(mines \cup theirs) \in FiniteSubsetsOf(Price)
        BY <1>2, BookPrices
      <4>2. PricesOf(mines \cup theirs) # {}
        BY <3>1 DEF PricesOf
      <4> QED BY <4>1, <4>2
    <3>3. best \in PricesOf(mines \cup theirs)
      <4> HIDE DEF mines, theirs, o
      <4> QED BY <1>1, <3>2, BestOfSide
    <3>4. At(mines) # {} \/ At(theirs) # {}
      <4> HIDE DEF best, mines, theirs, o
      <4>1. PICK x \in mines \cup theirs : best = x.price
        BY <3>3, Zenon DEF PricesOf
      <4>2. x \in At(mines) \/ x \in At(theirs)
        BY <4>1
      <4> QED BY <4>2
    <3> HIDE DEF best, mines, theirs, o
    <3> QED BY <3>4
  <2>2. c = IF with \in At(mines)
            THEN [b EXCEPT !.own[o] = Reduced(@, with), !.met = Append(@, TRUE)]
            ELSE [b EXCEPT !.others[o] = IF with \in Walls[o] THEN @ ELSE Reduced(@, with),
                           !.met = Append(@, FALSE)]
    BY <1>4 DEF TakeUnit
  <2> HIDE DEF with, c
  <2>3. CASE with \in At(mines)
    <3> DEFINE m1 == Reduced(mines, with)
    <3>1. with \in mines
      BY <2>3
    <3>2. m1 \in FiniteSubsetsOf(OwnOrder) /\ PricesOf(m1) \subseteq PricesOf(mines)
      BY <3>1, <1>2, ReducedType
    <3>3. c = [b EXCEPT !.own[o] = m1, !.met = Append(@, TRUE)]
      BY <2>2, <2>3
    <3> HIDE DEF m1, best, o
    <3>4. /\ c.own = [b.own EXCEPT ![o] = m1] /\ c.others = b.others /\ c.left = b.left
          /\ c.met = Append(b.met, TRUE)
      BY <3>3, <1>1 DEF Books
    <3>5. c \in Books
      <4>1. c.own \in [OrderTypes -> FiniteSubsetsOf(OwnOrder)]
        BY <3>2, <3>4, <1>1 DEF Books
      <4>2. c.met \in Seq(BOOLEAN)
        BY <3>4, <1>1 DEF Books
      <4> HIDE DEF mines, theirs
      <4> QED BY <3>3, <3>4, <4>1, <4>2, <1>1 DEF Books
    <3>6. c.own[o] = m1 /\ c.own[t] = b.own[t]
      BY <3>4, <1>1 DEF Books
    <3> QED BY <3>2, <3>4, <3>5, <3>6, <1>1, <1>4 DEF After, o, c
  <2>4. CASE with \notin At(mines)
    <3> DEFINE m1 == IF with \in Walls[o] THEN theirs ELSE Reduced(theirs, with)
    <3>1. with \in theirs
      BY <2>1, <2>4
    <3>2. m1 \in FiniteSubsetsOf(Offer) /\ PricesOf(m1) \subseteq PricesOf(theirs) /\ Walls[o] \subseteq m1
      <4>1. Walls[o] \subseteq theirs
        BY <1>1 DEF After
      <4>2. Reduced(theirs, with) \in FiniteSubsetsOf(Offer) /\ PricesOf(Reduced(theirs, with)) \subseteq PricesOf(theirs)
        BY <3>1, <1>2, ReducedType
      <4>3. with \notin Walls[o] => Walls[o] \subseteq Reduced(theirs, with)
        BY <4>1 DEF Reduced
      <4> HIDE DEF theirs, mines, best, o
      <4> QED BY <4>1, <4>2, <4>3, <1>2
    <3>3. c = [b EXCEPT !.others[o] = m1, !.met = Append(@, FALSE)]
      BY <2>2, <2>4
    <3> HIDE DEF m1, best, o
    <3>4. /\ c.others = [b.others EXCEPT ![o] = m1] /\ c.own = b.own /\ c.left = b.left
          /\ c.met = Append(b.met, FALSE)
      BY <3>3, <1>1 DEF Books
    <3>5. c \in Books
      <4>1. c.others \in [OrderTypes -> FiniteSubsetsOf(Offer)]
        BY <3>2, <3>4, <1>1 DEF Books
      <4>2. c.met \in Seq(BOOLEAN)
        BY <3>4, <1>1 DEF Books
      <4> HIDE DEF mines, theirs
      <4> QED BY <3>3, <3>4, <4>1, <4>2, <1>1 DEF Books
    <3>6. c.others[o] = m1 /\ c.others[t] = b.others[t]
      BY <3>4, <1>1 DEF Books
    <3>7. \A u \in OrderTypes : Walls[u] \subseteq c.others[u]
      <4>1. \A u \in OrderTypes : u = t \/ u = o
        BY <1>1 DEF OrderTypes
      <4> QED BY <3>2, <3>6, <4>1 DEF After
    <3> QED BY <3>2, <3>4, <3>5, <3>6, <3>7, <1>1, <1>4 DEF After, o, c
  <2> QED BY <2>3, <2>4
<1> QED BY <1>3, <1>4

\* What is true of the book while an order of type t at p trades.
Traded(b, t, p) == {c \in Books : After(b, t, c) /\ (c.left > 0 => ~Meets(c, t, p))}

LEMMA TradedStep ==
    ASSUME NEW t \in OrderTypes, NEW b, NEW p \in Price, NEW first, NEW c \in Traded(b, t, p)
    PROVE  TakeUnit(c, t, p, first) \in Traded(b, t, p)
<1> DEFINE d == TakeUnit(c, t, p, first)
<1>1. /\ c \in Books /\ After(b, t, c) /\ (c.left > 0 => ~Meets(c, t, p))
      /\ c.left \in Nat
  BY DEF Traded, Books
<1>2. After(c, t, c)
  BY <1>1 DEF After
<1>3. /\ After(c, t, d)
      /\ IF Meets(c, t, p) THEN d.left = c.left
         ELSE d.left = c.left + 1 /\ d.own = c.own /\ d.others = c.others
  BY <1>2, TakeUnitStep
<1> HIDE DEF d
<1>4. d \in Books /\ After(b, t, d)
  BY <1>1, <1>3 DEF After
<1>5. d.left > 0 => ~Meets(d, t, p)
  <2>1. CASE Meets(c, t, p)
    BY <1>1, <1>3, <2>1
  <2>2. CASE ~Meets(c, t, p)
    BY <1>3, <2>2 DEF Meets
  <2> QED BY <2>1, <2>2
<1> QED BY <1>4, <1>5 DEF Traded, d

-----------------------------------------------------------------------------
(* Recursive functions *)

\* What starts in S and does not leave it ends there.
LEMMA Stays ==
    ASSUME NEW n \in Nat, NEW f, NEW S, f[0] \in S,
           \A i \in 1..n : f[i - 1] \in S => f[i] \in S
    PROVE  \A i \in 0..n : f[i] \in S
<1> DEFINE T == {i \in 0..n : f[i] \notin S}
<1> SUFFICES ASSUME T # {} PROVE FALSE
  OBVIOUS
<1>1. T \subseteq Nat
  OBVIOUS
<1> HIDE DEF T
<1>2. PICK m \in T : \A k \in T : ~(k < m)
  BY <1>1, LeastNatural
<1>3. m \in 0..n /\ f[m] \notin S
  BY DEF T
<1>4. m # 0
  BY <1>3
<1>5. m \in 1..n /\ m - 1 \in 0..n /\ m - 1 < m
  BY <1>3, <1>4
<1>6. m - 1 \notin T
  BY <1>2, <1>5
<1>7. f[m - 1] \in S
  BY <1>5, <1>6 DEF T
<1> QED BY <1>3, <1>5, <1>7

\* A function on 0..n can be defined step by step.
StepsOf(n, S) == [1..n -> [S -> S]]
Orbits(n, S, x, F) == {g \in [0..n -> S] : g[0] = x /\ \A i \in 1..n : g[i] = F[i][g[i - 1]]}

LEMMA Iterates ==
    ASSUME NEW n \in Nat, NEW S, NEW x \in S, NEW F \in StepsOf(n, S)
    PROVE  Orbits(n, S, x, F) # {}
<1> DEFINE Good(m) == \E g \in [0..m -> S] : g[0] = x /\ \A i \in 1..m : g[i] = F[i][g[i - 1]]
           T == {m \in 0..n : ~Good(m)}
<1> SUFFICES ASSUME T # {} PROVE FALSE
  <2>1. n \in 0..n
    OBVIOUS
  <2>2. T = {} => Good(n)
    <3> HIDE DEF Good
    <3> QED BY <2>1
  <2>3. Good(n) => Orbits(n, S, x, F) # {}
    BY DEF Orbits
  <2> HIDE DEF Good, T
  <2> QED BY <2>2, <2>3
<1>1. T \subseteq Nat
  OBVIOUS
<1> HIDE DEF T
<1>2. PICK m \in T : \A k \in T : ~(k < m)
  BY <1>1, LeastNatural
<1>3. m \in 0..n /\ ~Good(m)
  BY DEF T
<1>4. m # 0
  <2> DEFINE g == [i \in 0..0 |-> x]
  <2>1. g \in [0..0 -> S] /\ g[0] = x /\ 1..0 = {}
    OBVIOUS
  <2> HIDE DEF g
  <2>2. Good(0)
    BY <2>1
  <2> QED BY <1>3, <2>2
<1>5. m \in Nat /\ m \in 1..n /\ m - 1 \in 0..n /\ m - 1 < m
  BY <1>3, <1>4
<1>6. Good(m - 1)
  <2>1. m - 1 \notin T
    BY <1>2, <1>5
  <2> HIDE DEF Good
  <2> QED BY <2>1, <1>5 DEF T
<1>7. PICK g \in [0..(m - 1) -> S] : g[0] = x /\ \A i \in 1..(m - 1) : g[i] = F[i][g[i - 1]]
  BY <1>6
<1> DEFINE y == F[m][g[m - 1]]
           h == [i \in 0..m |-> IF i = m THEN y ELSE g[i]]
<1>8. y \in S
  <2>1. m - 1 \in 0..(m - 1)
    BY <1>5
  <2>2. F \in [1..n -> [S -> S]]
    BY DEF StepsOf
  <2> QED BY <2>1, <2>2, <1>5
<1> HIDE DEF y
<1>9. h \in [0..m -> S] /\ h[0] = x
  BY <1>4, <1>5, <1>7, <1>8
<1>10. ASSUME NEW i \in 1..m PROVE h[i] = F[i][h[i - 1]]
  <2>1. i \in Int /\ i - 1 \in 0..m /\ i - 1 # m /\ i \in 0..m
    BY <1>5
  <2>2. h[i - 1] = g[i - 1]
    BY <2>1
  <2>3. CASE i = m
    BY <2>1, <2>2, <2>3 DEF y
  <2>4. CASE i # m
    <3>1. i \in 1..(m - 1)
      BY <2>1, <2>4, <1>5
    <3>2. h[i] = g[i]
      BY <2>1, <2>4
    <3> QED BY <3>1, <3>2, <2>2, <1>7
  <2> QED BY <2>3, <2>4
<1>11. Good(m)
  <2> HIDE DEF h
  <2> QED BY <1>9, <1>10
<1> QED BY <1>3, <1>11

-----------------------------------------------------------------------------
(* A transaction enters the book *)

\* The prices of a side, and the bids below the asks.
SideOf(book, t) == PricesOf(book.own[t]) \cup PricesOf(book.others[t])
Uncrossed(book) == \A x \in SideOf(book, "buy"), y \in SideOf(book, "sell") : x < y

\* c is b after orders of type t with the prices P have entered it.
Entered(b, t, P, c) ==
    /\ c \in Books
    /\ \A u \in OrderTypes : Walls[u] \subseteq c.others[u]
    /\ Uncrossed(c)
    /\ PricesOf(c.own[t]) \subseteq PricesOf(b.own[t]) \cup P
    /\ PricesOf(c.own[Other(t)]) \subseteq PricesOf(b.own[Other(t)])

LEMMA TradingStays ==
    ASSUME NEW t \in OrderTypes, NEW b \in Books, NEW add \in Offer, NEW first,
           \A u \in OrderTypes : Walls[u] \subseteq b.others[u]
    PROVE  Trading(b, t, add, first)[add.amount] \in Traded(b, t, add.price)
<1> DEFINE n == add.amount
           p == add.price
           S == Traded(b, t, p)
           x == [b EXCEPT !.left = 0]
           F == [i \in 1..n |-> [c \in S |-> TakeUnit(c, t, p, first)]]
           Body(f) == [i \in 0..n |-> IF i = 0 THEN x ELSE TakeUnit(f[i - 1], t, p, first)]
           after == Trading(b, t, add, first)
<1>1. n \in Nat /\ p \in Price
  BY OrderPrice
<1>2. x \in S
  <2>1. x \in Books /\ x.own = b.own /\ x.others = b.others /\ x.left = 0
    BY DEF Books
  <2> HIDE DEF x
  <2>2. After(b, t, x)
    BY <2>1 DEF After
  <2> QED BY <2>1, <2>2 DEF Traded
<1>3. \A c \in S : TakeUnit(c, t, p, first) \in S
  <2> HIDE DEF p
  <2> QED BY <1>1, TradedStep
<1>4. \E f : f = Body(f)
  <2>1. F \in [1..n -> [S -> S]]
    <3> HIDE DEF S, p, n
    <3> QED BY <1>3
  <2> HIDE DEF F, S, x, n
  <2>2. PICK g : g \in Orbits(n, S, x, F)
    <3>1. n \in Nat /\ x \in S /\ F \in StepsOf(n, S)
      BY <1>1, <1>2, <2>1 DEF StepsOf
    <3>2. Orbits(n, S, x, F) # {}
      BY ONLY <3>1, Iterates, Zenon
    <3> QED BY <3>2
  <2>3. g \in [0..n -> S] /\ g[0] = x /\ \A i \in 1..n : g[i] = F[i][g[i - 1]]
    BY <2>2 DEF Orbits
  <2>4. ASSUME NEW i \in 0..n PROVE g[i] = IF i = 0 THEN x ELSE TakeUnit(g[i - 1], t, p, first)
    <3>1. CASE i = 0
      BY <3>1, <2>3
    <3>2. CASE i # 0
      <4>1. i \in 1..n /\ i - 1 \in 0..n
        BY <3>2, <1>1
      <4>2. g[i - 1] \in S
        BY <4>1, <2>3
      <4>3. F[i] = [c \in S |-> TakeUnit(c, t, p, first)]
        BY <4>1 DEF F
      <4> QED BY <3>2, <4>1, <4>2, <4>3, <2>3
    <3> QED BY <3>1, <3>2
  <2>5. g = [i \in 0..n |-> g[i]]
    BY <2>3
  <2>6. g = Body(g)
    BY <2>4, <2>5, Zenon
  <2> QED BY <2>6
<1>5. after = CHOOSE f : f = Body(f)
  BY DEF Trading
<1>6. after = Body(after)
  <2> HIDE DEF after, Body
  <2> QED BY <1>4, <1>5, Zenon
<1>7. after[0] = x /\ \A i \in 1..n : after[i] = TakeUnit(after[i - 1], t, p, first)
  <2> DEFINE B == Body(after)
  <2>1. after = B
    BY <1>6
  <2>2. \A i \in 0..n : B[i] = IF i = 0 THEN x ELSE TakeUnit(after[i - 1], t, p, first)
    <3> HIDE DEF after, x, n
    <3> QED OBVIOUS
  <2> HIDE DEF B, after, x, n
  <2>3. \A i \in 0..n : after[i] = IF i = 0 THEN x ELSE TakeUnit(after[i - 1], t, p, first)
    BY <2>1, <2>2, Zenon
  <2> QED BY <2>3, <1>1
<1> HIDE DEF after, x, S, n
<1>8. \A i \in 1..n : after[i - 1] \in S => after[i] \in S
  BY <1>3, <1>7
<1>9. after[0] \in S
  BY <1>2, <1>7
<1>10. \A i \in 0..n : after[i] \in S
  BY <1>1, <1>8, <1>9, Stays
<1> QED BY <1>1, <1>10 DEF after, n, S

\* There is a number that tells a new order apart.
LEMMA FreeType == ASSUME NEW S \in FiniteSubsetsOf(OwnOrder), NEW p PROVE Free(S, p) \in Nat
<1> DEFINE I == 0..Cardinality(S)
           g == [n \in I |-> CHOOSE o \in S : Key(o) = <<p, n>>]
<1>1. IsFiniteSet(S) /\ Cardinality(S) \in Nat
  BY FiniteParts, FS_CardinalityType
<1>2. \E n \in I : \A o \in S : Key(o) # <<p, n>>
  <2> SUFFICES ASSUME \A n \in I : \E o \in S : Key(o) = <<p, n>> PROVE FALSE
    OBVIOUS
  <2>1. \A n \in I : g[n] \in S /\ Key(g[n]) = <<p, n>>
    OBVIOUS
  <2> HIDE DEF g
  <2>2. \A i, j \in I : g[i] = g[j] => i = j
    BY <2>1
  <2>3. g \in [I -> S]
    <3>1. g = [n \in I |-> CHOOSE o \in S : Key(o) = <<p, n>>]
      BY DEF g
    <3> QED BY <2>1, <3>1
  <2>4. IsFiniteSet(I) /\ Cardinality(I) = Cardinality(S) + 1
    <3>1. Cardinality(I) = IF 0 > Cardinality(S) THEN 0 ELSE Cardinality(S) - 0 + 1
      BY <1>1, FS_Interval
    <3>2. IsFiniteSet(I)
      BY <1>1, FS_Interval
    <3> HIDE DEF I
    <3> QED BY <3>1, <3>2, <1>1
  <2>5. g \in Injection(I, S)
    <3> HIDE DEF I
    <3> QED BY <2>2, <2>3, Fun_IsInj
  <2>6. Cardinality(I) <= Cardinality(S)
    <3> HIDE DEF I
    <3> QED BY <2>5, <1>1, FS_Injection
  <2> HIDE DEF I
  <2> QED BY <2>4, <2>6, <1>1
<1>3. Free(S, p) \in I
  BY <1>2, Zenon DEF Free
<1> QED BY <1>1, <1>3

\* What enters shrinks the other side; what rests does not cross it.
LEMMA EnterStep ==
    ASSUME NEW t \in OrderTypes, NEW b \in Books, NEW add \in Offer, NEW first,
           \A u \in OrderTypes : Walls[u] \subseteq b.others[u], Uncrossed(b)
    PROVE  Entered(b, t, {add.price}, Enter(b, t, add, first))
<1> DEFINE p == add.price
           traded == Trading(b, t, add, first)[add.amount]
           o == Other(t)
           c == Enter(b, t, add, first)
           new == [price |-> p, n |-> Free(traded.own[t], p), amount |-> traded.left, known |-> 0, age |-> 0]
<1>1. o \in OrderTypes /\ o # t /\ p \in Price /\ p \in Int
  BY OtherType, OrderPrice DEF Price
<1>2. /\ traded \in Books /\ After(b, t, traded) /\ (traded.left > 0 => ~Meets(traded, t, p))
      /\ traded.left \in Nat
  BY TradingStays DEF Traded, Books
<1>3. c = IF traded.left = 0 THEN traded ELSE [traded EXCEPT !.own[t] = @ \cup {new}]
  BY DEF Enter
<1> HIDE DEF traded, c
<1>4. \A u \in OrderTypes : SideOf(traded, u) \subseteq SideOf(b, u)
  <2>1. \A u \in OrderTypes : u = t \/ u = o
    BY <1>1 DEF OrderTypes
  <2> HIDE DEF o
  <2> QED BY <1>2, <2>1 DEF After, SideOf, o
<1>5. Uncrossed(traded)
  BY <1>4 DEF Uncrossed, OrderTypes
<1>6. CASE traded.left = 0
  <2>1. c = traded
    BY <1>3, <1>6
  <2> QED BY <2>1, <1>2, <1>5 DEF Entered, After, c, p
<1>7. CASE traded.left # 0
  <2>1. c = [traded EXCEPT !.own[t] = traded.own[t] \cup {new}]
    BY <1>3, <1>7
  <2>2. traded.own[t] \in FiniteSubsetsOf(OwnOrder)
    BY <1>2 DEF Books
  <2>3. new \in OwnOrder /\ new.price = p
    <3>1. Free(traded.own[t], p) \in Nat
      BY <2>2, FreeType
    <3>2. 0 \in 0..OrderTtl
      BY AmountAssumption
    <3> HIDE DEF p
    <3> QED BY <3>1, <3>2, <1>1, <1>2, <1>7 DEF OwnOrder, Price
  <2> HIDE DEF new, p
  <2>4. /\ c.own = [traded.own EXCEPT ![t] = traded.own[t] \cup {new}]
        /\ c.others = traded.others /\ c.left = traded.left /\ c.met = traded.met
    BY <2>1, <1>2 DEF Books
  <2>5. c \in Books
    <3>1. traded.own[t] \cup {new} \in FiniteSubsetsOf(OwnOrder)
      BY <2>2, <2>3, FiniteParts
    <3>2. c.own \in [OrderTypes -> FiniteSubsetsOf(OwnOrder)]
      BY <2>4, <3>1, <1>2 DEF Books
    <3> QED BY <2>1, <2>4, <3>2, <1>2 DEF Books
  <2>6. c.own[t] = traded.own[t] \cup {new} /\ c.own[o] = traded.own[o]
    BY <2>4, <1>1, <1>2 DEF Books
  <2>7. PricesOf(c.own[t]) = PricesOf(traded.own[t]) \cup {p}
    BY <2>3, <2>6 DEF PricesOf
  <2>8. Uncrossed(c)
    <3>1. SideOf(c, t) = SideOf(traded, t) \cup {p} /\ SideOf(c, o) = SideOf(traded, o)
      BY <2>4, <2>6, <2>7 DEF SideOf
    <3>2. \A q \in SideOf(traded, o) : Beyond(o, q, p)
      BY <1>2, <1>7 DEF SideOf, PricesOf, Meets
    <3>3. CASE t = "buy"
      BY <3>1, <3>2, <3>3, <1>5 DEF Uncrossed, Beyond, Other
    <3>4. CASE t = "sell"
      BY <3>1, <3>2, <3>4, <1>5 DEF Uncrossed, Beyond, Other
    <3> QED BY <3>3, <3>4 DEF OrderTypes
  <2>9. PricesOf(c.own[t]) \subseteq PricesOf(b.own[t]) \cup {p}
    BY <2>7, <1>2 DEF After
  <2> HIDE DEF o
  <2> QED BY <2>4, <2>5, <2>6, <2>8, <2>9, <1>2 DEF Entered, After, c, o, p
<1> QED BY <1>6, <1>7

\* All the orders of a transaction.
PricesAdded(tx) == {tx.adds[k].price : k \in 1..Len(tx.adds)}

LEMMA EnteringStep ==
    ASSUME NEW tx \in Transactions, NEW b \in Books, NEW first,
           \A u \in OrderTypes : Walls[u] \subseteq b.others[u], Uncrossed(b)
    PROVE  Entered(b, tx.orderType, PricesAdded(tx), Entering(b, tx, first)[Len(tx.adds)])
<1> DEFINE n == Len(tx.adds)
           t == tx.orderType
           P == PricesAdded(tx)
           S == {c \in Books : Entered(b, t, P, c)}
           F == [i \in 1..n |-> [c \in S |-> Enter(c, t, tx.adds[i], first)]]
           Body(f) == [i \in 0..n |-> IF i = 0 THEN b ELSE Enter(f[i - 1], t, tx.adds[i], first)]
           after == Entering(b, tx, first)
<1>1. n \in Nat /\ t \in OrderTypes /\ \A i \in 1..n : tx.adds[i] \in Offer
  <2>1. tx.adds \in Seq(Offer) /\ tx.orderType \in OrderTypes
    BY DEF Transactions
  <2> QED BY <2>1, LenProperties, ElementOfSeq
<1>2. b \in S
  BY DEF Entered
<1>3. \A i \in 1..n : \A c \in S : Enter(c, t, tx.adds[i], first) \in S
  <2> TAKE i \in 1..n
  <2> TAKE c \in S
  <2> DEFINE add == tx.adds[i]
             d == Enter(c, t, add, first)
  <2>1. add \in Offer /\ add.price \in P
    BY <1>1 DEF PricesAdded
  <2>2. /\ c \in Books /\ Uncrossed(c) /\ \A u \in OrderTypes : Walls[u] \subseteq c.others[u]
        /\ Entered(b, t, P, c)
    BY DEF Entered
  <2> HIDE DEF add, t, S, P, n
  <2>3. Entered(c, t, {add.price}, d)
    BY <1>1, <2>1, <2>2, EnterStep
  <2> HIDE DEF d
  <2>4. d \in Books /\ Entered(b, t, P, d)
    BY <2>1, <2>2, <2>3 DEF Entered
  <2> QED BY <2>4 DEF S, d, add
<1>4. \E f : f = Body(f)
  <2>1. F \in [1..n -> [S -> S]]
    <3> HIDE DEF S, t, n
    <3> QED BY <1>3
  <2> HIDE DEF F, S, n, t
  <2>2. PICK g : g \in Orbits(n, S, b, F)
    <3>1. n \in Nat /\ b \in S /\ F \in StepsOf(n, S)
      BY <1>1, <1>2, <2>1 DEF StepsOf
    <3>2. Orbits(n, S, b, F) # {}
      BY ONLY <3>1, Iterates, Zenon
    <3> QED BY <3>2
  <2>3. g \in [0..n -> S] /\ g[0] = b /\ \A i \in 1..n : g[i] = F[i][g[i - 1]]
    BY <2>2 DEF Orbits
  <2>4. ASSUME NEW i \in 0..n PROVE g[i] = IF i = 0 THEN b ELSE Enter(g[i - 1], t, tx.adds[i], first)
    <3>1. CASE i = 0
      BY <3>1, <2>3
    <3>2. CASE i # 0
      <4>1. i \in 1..n /\ i - 1 \in 0..n
        BY <3>2, <1>1
      <4>2. g[i - 1] \in S
        BY <4>1, <2>3
      <4>3. F[i] = [c \in S |-> Enter(c, t, tx.adds[i], first)]
        BY <4>1 DEF F
      <4> QED BY <3>2, <4>1, <4>2, <4>3, <2>3
    <3> QED BY <3>1, <3>2
  <2>5. g = [i \in 0..n |-> g[i]]
    BY <2>3
  <2>6. g = Body(g)
    BY <2>4, <2>5, Zenon
  <2> QED BY <2>6
<1>5. after = CHOOSE f : f = Body(f)
  BY DEF Entering
<1>6. after = Body(after)
  <2> HIDE DEF after, Body
  <2> QED BY <1>4, <1>5, Zenon
<1>7. after[0] = b /\ \A i \in 1..n : after[i] = Enter(after[i - 1], t, tx.adds[i], first)
  <2> DEFINE B == Body(after)
  <2>1. after = B
    BY <1>6
  <2>2. \A i \in 0..n : B[i] = IF i = 0 THEN b ELSE Enter(after[i - 1], t, tx.adds[i], first)
    <3> HIDE DEF after, n, t
    <3> QED OBVIOUS
  <2> HIDE DEF B, after, n, t
  <2>3. \A i \in 0..n : after[i] = IF i = 0 THEN b ELSE Enter(after[i - 1], t, tx.adds[i], first)
    BY <2>1, <2>2, Zenon
  <2> QED BY <2>3, <1>1
<1> HIDE DEF after, S, n, t
<1>8. \A i \in 1..n : after[i - 1] \in S => after[i] \in S
  BY <1>3, <1>7
<1>9. after[0] \in S
  BY <1>2, <1>7
<1>10. \A i \in 0..n : after[i] \in S
  BY <1>1, <1>8, <1>9, Stays
<1> QED BY <1>1, <1>10 DEF after, n, S, t

-----------------------------------------------------------------------------
(* Types *)

Sound ==
    /\ pc \in {"fill", "volume", "rest"}
    /\ strategy = {} \/ \E s \in V!StrategyRecord : strategy = {s}
    /\ own \in [OrderTypes -> FiniteSubsetsOf(OwnOrder)]
    /\ others \in [OrderTypes -> FiniteSubsetsOf(Offer)]
    /\ \A t \in OrderTypes : Walls[t] \subseteq others[t]
    /\ pending \in Seq(Transactions)
    /\ history \in [self : BOOLEAN, orderType : OrderTypes, age : V!Age]
    /\ aim \in {"open", "own", "lost"}
    /\ disturbances \in 0..MaxDisturbances

BookUncrossed == \A x \in BookOf("buy"), y \in BookOf("sell") : x < y

\* Orders of the bot that are at no new price.
Within(f) ==
    /\ f \in [OrderTypes -> FiniteSubsetsOf(OwnOrder)]
    /\ \A t \in OrderTypes : PricesOf(f[t]) \subseteq PricesOf(own[t])

\* What the cache knows of orders changes neither their number nor their prices.
LEMMA SameOrders ==
    ASSUME NEW S \in FiniteSubsetsOf(OwnOrder), NEW f \in [S -> OwnOrder], \A o \in S : f[o].price = o.price
    PROVE  {f[o] : o \in S} \in FiniteSubsetsOf(OwnOrder) /\ PricesOf({f[o] : o \in S}) = PricesOf(S)
<1> DEFINE T == {f[o] : o \in S}
<1>1. f \in Surjection(S, T)
  BY DEF Surjection
<1>2. IsFiniteSet(S)
  BY FiniteParts
<1>3. IsFiniteSet(T)
  <2> HIDE DEF T
  <2> QED BY <1>1, <1>2, FS_Surjection
<1>4. T \subseteq OwnOrder
  OBVIOUS
<1>5. PricesOf(T) = PricesOf(S)
  BY DEF PricesOf
<1> QED BY <1>3, <1>4, <1>5 DEF FiniteSubsetsOf

Forgotten(o) == [o EXCEPT !.known = 0, !.age = 0]

LEMMA CacheOnly ==
    ASSUME NEW o \in OwnOrder
    PROVE  /\ Cached(o) \in OwnOrder /\ Cached(o).price = o.price
           /\ Expire(o) \in OwnOrder /\ Expire(o).price = o.price
           /\ Forgotten(o) \in OwnOrder /\ Forgotten(o).price = o.price
<1>1. /\ o = [price |-> o.price, n |-> o.n, amount |-> o.amount, known |-> o.known, age |-> o.age]
      /\ o.price \in Nat \ {0} /\ o.n \in Nat /\ o.amount \in Nat \ {0} /\ o.known \in Nat
      /\ o.age \in Int /\ 0 <= o.age /\ o.age <= OrderTtl
  BY AmountAssumption DEF OwnOrder
<1>2. OrderTtl \in Nat \ {0} /\ 0 \in 0..OrderTtl
  BY AmountAssumption
<1>3. Cached(o) \in OwnOrder /\ Cached(o).price = o.price
  BY <1>2 DEF Cached, OwnOrder
<1>4. Forgotten(o) \in OwnOrder /\ Forgotten(o).price = o.price
  BY <1>2 DEF Forgotten, OwnOrder
<1>5. Expire(o) \in OwnOrder /\ Expire(o).price = o.price
  <2>1. CASE o.known = 0 \/ o.age = OrderTtl
    BY <1>4, <2>1 DEF Expire, Forgotten
  <2>2. CASE o.known # 0 /\ o.age # OrderTtl
    <3>1. o.age + 1 \in 0..OrderTtl
      BY <1>1, <1>2, <2>2
    <3>2. Expire(o) = [o EXCEPT !.age = o.age + 1]
      BY <2>2 DEF Expire
    <3> QED BY <3>1, <3>2 DEF OwnOrder
  <2> QED BY <2>1, <2>2
<1> QED BY <1>3, <1>4, <1>5

LEMMA CacheWithin ==
    ASSUME Sound
    PROVE  /\ Within(own) /\ Within(Listed)
           /\ Within([t \in OrderTypes |-> {Expire(o) : o \in own[t]}])
           /\ Within([t \in OrderTypes |-> {Forgotten(o) : o \in own[t]}])
<1>1. own \in [OrderTypes -> FiniteSubsetsOf(OwnOrder)]
  BY DEF Sound
<1>2. Within(own)
  BY <1>1 DEF Within
<1>3. ASSUME NEW t \in OrderTypes
      PROVE  /\ {Cached(o) : o \in own[t]} \in FiniteSubsetsOf(OwnOrder)
             /\ PricesOf({Cached(o) : o \in own[t]}) = PricesOf(own[t])
             /\ {Expire(o) : o \in own[t]} \in FiniteSubsetsOf(OwnOrder)
             /\ PricesOf({Expire(o) : o \in own[t]}) = PricesOf(own[t])
             /\ {Forgotten(o) : o \in own[t]} \in FiniteSubsetsOf(OwnOrder)
             /\ PricesOf({Forgotten(o) : o \in own[t]}) = PricesOf(own[t])
  <2> DEFINE S == own[t]
             cached == [o \in S |-> Cached(o)]
             expire == [o \in S |-> Expire(o)]
             forget == [o \in S |-> Forgotten(o)]
  <2>1. S \in FiniteSubsetsOf(OwnOrder) /\ S \subseteq OwnOrder
    BY <1>1, FiniteParts
  <2> HIDE DEF S
  <2>2. /\ cached \in [S -> OwnOrder] /\ \A o \in S : cached[o].price = o.price
        /\ expire \in [S -> OwnOrder] /\ \A o \in S : expire[o].price = o.price
        /\ forget \in [S -> OwnOrder] /\ \A o \in S : forget[o].price = o.price
    BY <2>1, CacheOnly
  <2>3. /\ {Cached(o) : o \in S} = {cached[o] : o \in S}
        /\ {Expire(o) : o \in S} = {expire[o] : o \in S}
        /\ {Forgotten(o) : o \in S} = {forget[o] : o \in S}
    OBVIOUS
  <2> HIDE DEF cached, expire, forget
  <2>4. {cached[o] : o \in S} \in FiniteSubsetsOf(OwnOrder) /\ PricesOf({cached[o] : o \in S}) = PricesOf(S)
    BY <2>1, <2>2, SameOrders
  <2>5. {expire[o] : o \in S} \in FiniteSubsetsOf(OwnOrder) /\ PricesOf({expire[o] : o \in S}) = PricesOf(S)
    BY <2>1, <2>2, SameOrders
  <2>6. {forget[o] : o \in S} \in FiniteSubsetsOf(OwnOrder) /\ PricesOf({forget[o] : o \in S}) = PricesOf(S)
    BY <2>1, <2>2, SameOrders
  <2> QED BY <2>3, <2>4, <2>5, <2>6, Zenon DEF S
<1>4. Within(Listed)
  BY <1>3 DEF Within, Listed
<1>5. Within([t \in OrderTypes |-> {Expire(o) : o \in own[t]}])
  BY <1>3 DEF Within
<1>6. Within([t \in OrderTypes |-> {Forgotten(o) : o \in own[t]}])
  BY <1>3 DEF Within
<1> QED BY <1>2, <1>4, <1>5, <1>6

\* Without an execution the bot's orders stay at the prices they are at.
LEMMA OwnStep == ASSUME Sound, [Next]_vars, ~Execute PROVE Within(own')
<1>1. CASE own' = own \/ own' = Listed
  BY <1>1, CacheWithin, Zenon
<1>2. CASE Fill \/ FillFails \/ FillPartly \/ NoVolume \/ MakeVolume \/ VolumeUnread \/ VolumeFails
  BY <1>1, <1>2 DEF Fill, FillFails, FillPartly, NoVolume, MakeVolume, VolumeUnread, VolumeFails
<1>3. CASE NextExecution
  BY <1>3, CacheWithin DEF NextExecution
<1>4. CASE Restart
  BY <1>4, CacheWithin DEF Restart, Forgotten
<1>5. CASE ExecutionFails
  BY <1>1, <1>5 DEF ExecutionFails
<1>6. ASSUME NEW t \in OrderTypes, NEW o, OthersPlace(t, o) \/ OthersCancel(t, o) PROVE Within(own')
  BY <1>1, <1>6 DEF OthersPlace, OthersCancel
<1>7. ASSUME NEW t \in OrderTypes, OthersTake(t) PROVE Within(own')
  <2>1. PICK o \in own[t] : \E amount \in 1..o.amount :
           own' = [own EXCEPT ![t] = (@ \ {o}) \cup
                     (IF amount = o.amount THEN {} ELSE {[o EXCEPT !.amount = @ - amount]})]
    BY <1>7 DEF OthersTake
  <2>2. PICK amount \in 1..o.amount :
           own' = [own EXCEPT ![t] = (@ \ {o}) \cup
                     (IF amount = o.amount THEN {} ELSE {[o EXCEPT !.amount = @ - amount]})]
    BY <2>1
  <2> DEFINE o1 == [o EXCEPT !.amount = @ - amount]
             S == own[t]
             S1 == (S \ {o}) \cup (IF amount = o.amount THEN {} ELSE {o1})
  <2>3. own \in [OrderTypes -> FiniteSubsetsOf(OwnOrder)] /\ S \in FiniteSubsetsOf(OwnOrder)
    BY DEF Sound
  <2>4. S \subseteq OwnOrder /\ o \in OwnOrder /\ S \ {o} \in FiniteSubsetsOf(OwnOrder)
    BY <2>3, FiniteParts
  <2>5. amount # o.amount => o1 \in OwnOrder /\ o1.price = o.price
    BY <2>4 DEF OwnOrder
  <2>6. own' = [own EXCEPT ![t] = S1]
    BY <2>2
  <2> HIDE DEF o1
  <2>7. S1 \in FiniteSubsetsOf(OwnOrder)
    BY <2>4, <2>5, FiniteParts
  <2>8. PricesOf(S1) \subseteq PricesOf(S)
    BY <2>5 DEF PricesOf
  <2> HIDE DEF S1
  <2> QED BY <2>3, <2>6, <2>7, <2>8 DEF Within
<1>8. CASE UNCHANGED vars
  BY <1>1, <1>8 DEF vars
<1> QED BY <1>2, <1>3, <1>4, <1>5, <1>6, <1>7, <1>8 DEF Next, Loop

\* What a block does with the first transaction.
LEMMA HeadType ==
    ASSUME Sound, pending # << >>
    PROVE  Head(pending) \in Transactions /\ Head(pending).orderType \in OrderTypes
<1>1. pending \in Seq(Transactions)
  BY DEF Sound
<1>2. Head(pending) \in Transactions
  BY <1>1, HeadTailProperties
<1>3. \A tx \in Transactions : tx.orderType \in OrderTypes
  BY DEF Transactions
<1> QED BY <1>2, <1>3

LEMMA WithoutType ==
    ASSUME Sound, BookUncrossed, NEW keys, NEW t \in OrderTypes
    PROVE  LET b == Without(keys, t) IN
           /\ b \in Books /\ Uncrossed(b) /\ \A u \in OrderTypes : Walls[u] \subseteq b.others[u]
           /\ \A u \in OrderTypes : PricesOf(b.own[u]) \subseteq PricesOf(own[u])
<1> DEFINE b == Without(keys, t)
           S == {o \in own[t] : Key(o) \notin keys}
<1>1. own \in [OrderTypes -> FiniteSubsetsOf(OwnOrder)] /\ others \in [OrderTypes -> FiniteSubsetsOf(Offer)]
  BY DEF Sound
<1>2. b.own = [own EXCEPT ![t] = S] /\ b.others = others /\ b.left = 0 /\ b.met = << >>
  BY DEF Without
<1>3. S \in FiniteSubsetsOf(OwnOrder) /\ S \subseteq own[t]
  BY <1>1, FiniteParts
<1>4. b \in Books
  <2>1. [own EXCEPT ![t] = S] \in [OrderTypes -> FiniteSubsetsOf(OwnOrder)]
    BY <1>1, <1>3
  <2> HIDE DEF S
  <2>2. b = [own |-> [own EXCEPT ![t] = S], others |-> others, left |-> 0, met |-> << >>]
    BY DEF Without, S
  <2> QED BY <1>1, <2>1, <2>2 DEF Books
<1> HIDE DEF b, S
<1>5. \A u \in OrderTypes : b.own[u] \subseteq own[u]
  BY <1>1, <1>2, <1>3
<1>6. \A u \in OrderTypes : PricesOf(b.own[u]) \subseteq PricesOf(own[u])
  BY <1>5 DEF PricesOf
<1>7. \A u \in OrderTypes : SideOf(b, u) \subseteq BookOf(u)
  BY <1>2, <1>6 DEF SideOf, BookOf
<1>8. Uncrossed(b)
  BY <1>7 DEF Uncrossed, BookUncrossed, OrderTypes
<1>9. \A u \in OrderTypes : Walls[u] \subseteq b.others[u]
  BY <1>2 DEF Sound
<1> QED BY <1>4, <1>6, <1>8, <1>9 DEF b

LEMMA ExecuteStep ==
    ASSUME Sound, BookUncrossed, Execute
    PROVE  /\ pending # << >> /\ pending' = Tail(pending) /\ UNCHANGED <<pc, strategy, aim, disturbances>>
           /\ own' \in [OrderTypes -> FiniteSubsetsOf(OwnOrder)]
           /\ others' \in [OrderTypes -> FiniteSubsetsOf(Offer)]
           /\ \A t \in OrderTypes : Walls[t] \subseteq others'[t]
           /\ BookUncrossed'
           /\ history' \in [self : BOOLEAN, orderType : OrderTypes, age : V!Age]
           /\ LET tx == Head(pending) IN
              /\ PricesOf(own'[tx.orderType]) \subseteq PricesOf(own[tx.orderType]) \cup PricesAdded(tx)
              /\ PricesOf(own'[Other(tx.orderType)]) \subseteq PricesOf(own[Other(tx.orderType)])
<1>1. pending # << >> /\ pending' = Tail(pending) /\ UNCHANGED <<pc, strategy, aim, disturbances>>
  BY DEF Execute
<1>2. PICK first \in {"own", "others"} :
         LET tx == Head(pending)
             book == Entering(Without(tx.cancels, tx.orderType), tx, first)[Len(tx.adds)]
         IN  IF ~(tx.cancels \subseteq {Key(o) : o \in own[tx.orderType]})
             THEN UNCHANGED <<own, others, history>>
             ELSE /\ own' = book.own /\ others' = book.others
                  /\ history' = IF book.met = << >> THEN history
                                ELSE [self |-> book.met[Len(book.met)], orderType |-> tx.orderType, age |-> 0]
  BY DEF Execute
<1> DEFINE tx == Head(pending)
           b == Without(tx.cancels, tx.orderType)
           book == Entering(b, tx, first)[Len(tx.adds)]
<1>3. tx \in Transactions /\ tx.orderType \in OrderTypes /\ Other(tx.orderType) \in OrderTypes
  BY <1>1, HeadType, OtherType
<1>4. CASE UNCHANGED <<own, others, history>>
  <2>1. BookUncrossed'
    BY <1>4 DEF BookUncrossed, BookOf
  <2> HIDE DEF tx
  <2> QED BY <1>1, <1>4, <2>1 DEF Sound, tx
<1>5. CASE ~UNCHANGED <<own, others, history>>
  <2>1. /\ own' = book.own /\ others' = book.others
        /\ history' = IF book.met = << >> THEN history
                      ELSE [self |-> book.met[Len(book.met)], orderType |-> tx.orderType, age |-> 0]
    BY <1>2, <1>5
  <2>2. /\ b \in Books /\ Uncrossed(b) /\ \A u \in OrderTypes : Walls[u] \subseteq b.others[u]
        /\ \A u \in OrderTypes : PricesOf(b.own[u]) \subseteq PricesOf(own[u])
    BY <1>3, WithoutType
  <2> HIDE DEF b
  <2>3. Entered(b, tx.orderType, PricesAdded(tx), book)
    BY <1>3, <2>2, EnteringStep
  <2> HIDE DEF book
  <2>4. /\ own' \in [OrderTypes -> FiniteSubsetsOf(OwnOrder)]
        /\ others' \in [OrderTypes -> FiniteSubsetsOf(Offer)]
        /\ \A t \in OrderTypes : Walls[t] \subseteq others'[t]
        /\ book.met \in Seq(BOOLEAN)
    BY <2>1, <2>3 DEF Entered, Books
  <2>5. \A u \in OrderTypes : BookOf(u)' = SideOf(book, u)
    BY <2>1 DEF BookOf, SideOf
  <2>6. BookUncrossed'
    BY <2>3, <2>5 DEF Entered, Uncrossed, BookUncrossed, OrderTypes
  <2>7. history' \in [self : BOOLEAN, orderType : OrderTypes, age : V!Age]
    <3>1. CASE book.met = << >>
      BY <2>1, <3>1 DEF Sound
    <3>2. CASE book.met # << >>
      <4>1. Len(book.met) \in 1..Len(book.met)
        BY <2>4, <3>2, EmptySeq
      <4>2. book.met[Len(book.met)] \in BOOLEAN
        BY <2>4, <4>1, ElementOfSeq
      <4>3. 0 \in V!Age
        BY WaitAssumption, TimesAssumption DEF V!Age, V!Far
      <4> HIDE DEF tx
      <4> QED BY <2>1, <3>2, <4>2, <4>3, <1>3
    <3> QED BY <3>1, <3>2
  <2>8. /\ PricesOf(own'[tx.orderType]) \subseteq PricesOf(own[tx.orderType]) \cup PricesAdded(tx)
        /\ PricesOf(own'[Other(tx.orderType)]) \subseteq PricesOf(own[Other(tx.orderType)])
    <3> HIDE DEF tx
    <3> QED BY <1>3, <2>1, <2>2, <2>3 DEF Entered
  <2> QED BY <1>1, <2>4, <2>6, <2>7, <2>8
<1> QED BY <1>4, <1>5

\* The orders of others: the walls stay, and nobody crosses the book.
LEMMA OthersStep ==
    ASSUME Sound, BookUncrossed, [Next]_vars
    PROVE  /\ others' \in [OrderTypes -> FiniteSubsetsOf(Offer)]
           /\ \A t \in OrderTypes : Walls[t] \subseteq others'[t]
           /\ BookUncrossed'
<1> DEFINE Others == /\ others' \in [OrderTypes -> FiniteSubsetsOf(Offer)]
                     /\ \A t \in OrderTypes : Walls[t] \subseteq others'[t]
<1>1. CASE Execute
  BY <1>1, ExecuteStep
<1>2. ASSUME Within(own'), others' = others PROVE Others /\ BookUncrossed'
  <2>1. \A u \in OrderTypes : BookOf(u)' \subseteq BookOf(u)
    BY <1>2 DEF Within, BookOf
  <2>2. BookUncrossed'
    BY <2>1 DEF BookUncrossed, OrderTypes
  <2> QED BY <1>2, <2>2 DEF Sound
<1>3. CASE UNCHANGED others /\ ~Execute
  BY <1>2, <1>3, OwnStep
<1>4. ASSUME NEW t \in OrderTypes, NEW o \in Offers, OthersPlace(t, o) PROVE Others /\ BookUncrossed'
  <2>1. /\ \A q \in BookOf(Other(t)) : Beyond(Other(t), q, o.price)
        /\ others' = [others EXCEPT ![t] = @ \cup {o}] /\ own' = own
    BY <1>4 DEF OthersPlace
  <2>2. others[t] \in FiniteSubsetsOf(Offer) /\ o \in Offer /\ o.price \in Int
    BY OfferAssumption DEF Sound, Offer
  <2>3. others[t] \cup {o} \in FiniteSubsetsOf(Offer)
    BY <2>2, FiniteParts
  <2>4. Others
    BY <2>1, <2>3 DEF Sound
  <2>5. BookOf(t)' = BookOf(t) \cup {o.price} /\ BookOf(Other(t))' = BookOf(Other(t))
    <3>1. others'[t] = others[t] \cup {o} /\ others'[Other(t)] = others[Other(t)]
      BY <2>1, OtherType DEF Sound
    <3> QED BY <2>1, <3>1 DEF BookOf, PricesOf
  <2>6. CASE t = "buy"
    BY <2>1, <2>2, <2>4, <2>5, <2>6 DEF BookUncrossed, Beyond, Other
  <2>7. CASE t = "sell"
    BY <2>1, <2>2, <2>4, <2>5, <2>7 DEF BookUncrossed, Beyond, Other
  <2> QED BY <2>4, <2>6, <2>7 DEF OrderTypes
<1>5. ASSUME NEW t \in OrderTypes, NEW o, OthersCancel(t, o) PROVE Others /\ BookUncrossed'
  <2>1. o \notin Walls[t] /\ others' = [others EXCEPT ![t] = @ \ {o}] /\ own' = own
    BY <1>5 DEF OthersCancel
  <2>2. others[t] \in FiniteSubsetsOf(Offer)
    BY DEF Sound
  <2>3. others[t] \ {o} \in FiniteSubsetsOf(Offer)
    BY <2>2, FiniteParts
  <2>4. Others
    BY <2>1, <2>3 DEF Sound
  <2>5. \A u \in OrderTypes : others'[u] \subseteq others[u]
    BY <2>1 DEF Sound
  <2>6. \A u \in OrderTypes : BookOf(u)' \subseteq BookOf(u)
    BY <2>1, <2>5 DEF BookOf, PricesOf
  <2>7. BookUncrossed'
    BY <2>6 DEF BookUncrossed, OrderTypes
  <2> QED BY <2>4, <2>7
<1>6. CASE ~Execute /\ ~(\E t \in OrderTypes : \E o \in Offers : OthersPlace(t, o))
           /\ ~(\E t \in OrderTypes : \E o \in others[t] : OthersCancel(t, o))
  <2>1. others' = others
    BY <1>6 DEF Next, Loop, Fill, FillFails, FillPartly, NoVolume, MakeVolume, VolumeUnread, VolumeFails,
                NextExecution, Restart, ExecutionFails, OthersTake, vars
  <2> QED BY <1>3, <1>6, <2>1
<1> QED BY <1>1, <1>4, <1>5, <1>6

\* The strategy in use after getStrategy: it trades with a side on which the bot
\* has an order.
IsStrategy(S) == S = {} \/ \E s \in V!StrategyRecord : S = {s}

LEMMA StrategyRecords ==
    /\ V!Far \in Nat /\ V!Age = 0..V!Far
    /\ \A a \in V!Age : V!Older(a) \in V!Age
    /\ V!StrategyRecord = [orderType : OrderTypes, remaining : 0..5, trades : 0..ExtraEvery, lastRun : V!Age]
    /\ \A S : IsStrategy(S) => \A s \in S : S = {s} /\ s \in V!StrategyRecord
<1>1. /\ TradeInterval \in Nat /\ HoldBack \in Nat /\ MaxVolume = 1
  BY TimesAssumption, UnitAssumption
<1>2. V!Far \in Nat /\ V!Age = 0..V!Far
  BY <1>1 DEF V!Far, V!Age
<1>3. \A a \in V!Age : V!Older(a) \in V!Age
  BY <1>2 DEF V!Older
<1>4. V!StrategyRecord = [orderType : OrderTypes, remaining : 0..5, trades : 0..ExtraEvery, lastRun : V!Age]
  <2>1. MaxVolume * V!VolumeMul = 5
    BY <1>1 DEF V!VolumeMul
  <2>2. V!OrderTypes = OrderTypes
    BY DEF V!OrderTypes, OrderTypes
  <2> QED BY <2>1, <2>2, Zenon DEF V!StrategyRecord
<1>5. \A S : IsStrategy(S) => \A s \in S : S = {s} /\ s \in V!StrategyRecord
  BY Zenon DEF IsStrategy
<1> QED BY <1>2, <1>3, <1>4, <1>5

LEMMA OwnsHead ==
    ASSUME Sound, NEW t \in OrderTypes, V!Head(View, t).mine \/ V!Head(View, t).owns
    PROVE  own[Other(t)] # {}
<1>1. V!Head(View, t) = Side(Other(t))
  BY DEF V!Head, View, Other, OrderTypes
<1>2. IsMyOrder(Other(t)) \/ own[Other(t)] # {}
  <2>1. \A u : Side(u).mine = IsMyOrder(u)
    BY Zenon DEF Side
  <2>2. \A u : Side(u).owns = (own[u] # {})
    BY Zenon DEF Side
  <2> QED BY <1>1, <2>1, <2>2, Zenon
<1>3. IsMyOrder(Other(t)) => own[Other(t)] # {}
  <2>1. Other(t) \in OrderTypes
    BY OtherType
  <2>2. Listed[Other(t)] = {Cached(o) : o \in own[Other(t)]}
    BY <2>1 DEF Listed
  <2>3. IsMyOrder(Other(t)) => Listed[Other(t)] # {}
    BY Zenon DEF IsMyOrder
  <2> QED BY <2>2, <2>3
<1> QED BY <1>2, <1>3

LEMMA PreferredTypes ==
    ASSUME NEW last \in OrderTypes, V!Possible(View) # {} PROVE V!PreferredType(View, last) \in OrderTypes
<1>1. V!Possible(View) \subseteq OrderTypes /\ V!Mine(View) \subseteq OrderTypes
  BY DEF V!Possible, V!Mine, V!OrderTypes, OrderTypes
<1>2. \A S \in SUBSET OrderTypes : V!Single(S) => V!TheOnly(S) \in OrderTypes
  <2> SUFFICES ASSUME NEW S \in SUBSET OrderTypes, V!Single(S) PROVE V!TheOnly(S) \in OrderTypes
    OBVIOUS
  <2>1. S # {}
    <3>1. V!Cardinality(S) = Cardinality(S)
      BY Zenon DEF V!Cardinality, Cardinality
    <3> QED BY <3>1, FS_EmptySet DEF V!Single
  <2>2. V!TheOnly(S) \in S
    BY <2>1 DEF V!TheOnly
  <2> QED BY <2>2
<1> QED BY <1>1, <1>2, Zenon DEF V!PreferredType, OrderTypes

LEMMA StrategiesType ==
    ASSUME Sound, NEW now \in StrategiesNow
    PROVE  IsStrategy(now) /\ \A s \in now : s.orderType \in OrderTypes /\ own[Other(s.orderType)] # {}
<1>1. CASE \E s \in strategy : V!StillGood(s, View)
  <2>1. now = strategy /\ IsStrategy(now)
    BY <1>1 DEF StrategiesNow, Sound, IsStrategy
  <2>2. PICK s \in strategy : V!StillGood(s, View)
    BY <1>1
  <2>3. now = {s} /\ s \in V!StrategyRecord
    BY <2>1, <2>2, StrategyRecords
  <2>4. s.orderType \in OrderTypes
    BY <2>3, StrategyRecords
  <2>5. V!Head(View, s.orderType).mine
    BY <2>2 DEF V!StillGood, V!PicksOwnOrders
  <2>6. own[Other(s.orderType)] # {}
    BY <2>4, <2>5, OwnsHead
  <2> QED BY <2>1, <2>3, <2>4, <2>6
<1>2. CASE ~\E s \in strategy : V!StillGood(s, View)
  <2> DEFINE t == V!PreferredType(View, history.orderType)
  <2>1. now \in V!NewStrategies(View, history.orderType)
    BY <1>2, Zenon DEF StrategiesNow
  <2>2. \/ now = {}
        \/ /\ V!Possible(View) # {} /\ V!Head(View, t).owns
           /\ \E r \in V!RandomInt(MinVolume * V!VolumeMul, MaxVolume * V!VolumeMul) :
                 now = {[orderType |-> t, remaining |-> r, trades |-> V!TradesSoFar, lastRun |-> V!Far]}
    BY <2>1, Zenon DEF V!NewStrategies
  <2>3. CASE now = {}
    BY <2>3 DEF IsStrategy
  <2>4. CASE now # {}
    <3>1. V!RandomInt(MinVolume * V!VolumeMul, MaxVolume * V!VolumeMul) = {5}
      BY UnitAssumption DEF V!RandomInt, V!VolumeMul
    <3> HIDE DEF t
    <3> DEFINE s == [orderType |-> t, remaining |-> 5, trades |-> V!TradesSoFar, lastRun |-> V!Far]
    <3>2. V!Possible(View) # {} /\ V!Head(View, t).owns /\ now = {s}
      BY <2>2, <2>4, <3>1
    <3>3. t \in OrderTypes
      BY <3>2, PreferredTypes DEF Sound, t
    <3>4. V!TradesSoFar \in 0..ExtraEvery
      <4>1. CASE strategy = {}
        BY <4>1, TimesAssumption DEF V!TradesSoFar
      <4>2. CASE strategy # {}
        <5>1. V!TheOnly(strategy) \in strategy
          BY <4>2 DEF V!TheOnly
        <5>2. V!TheOnly(strategy) \in V!StrategyRecord
          BY <5>1, StrategyRecords DEF Sound, IsStrategy
        <5> QED BY <4>2, <5>2, StrategyRecords DEF V!TradesSoFar
      <4> QED BY <4>1, <4>2
    <3>5. s \in V!StrategyRecord
      BY <3>3, <3>4, StrategyRecords
    <3>6. s.orderType = t
      OBVIOUS
    <3> HIDE DEF s
    <3>7. own[Other(t)] # {}
      BY <3>2, <3>3, OwnsHead
    <3> QED BY <3>2, <3>3, <3>5, <3>6, <3>7 DEF IsStrategy
  <2> QED BY <2>3, <2>4
<1> QED BY <1>1, <1>2

LEMMA VolumeOrderType ==
    ASSUME Sound, NEW now \in StrategiesNow, NEW s \in now
    PROVE  VolumeOrder(s) \in Transactions /\ VolumeOrder(s).by = "volume"
<1> DEFINE o == Other(s.orderType)
           add == [price |-> Best(o, BookOf(o)), amount |-> 1]
<1>1. s.orderType \in OrderTypes /\ own[o] # {}
  BY StrategiesType
<1>2. o \in OrderTypes
  BY <1>1, OtherType
<1> HIDE DEF o
<1>3. own[o] \in FiniteSubsetsOf(OwnOrder) /\ others[o] \in FiniteSubsetsOf(Offer)
  BY <1>2 DEF Sound
<1>4. BookOf(o) \in FiniteSubsetsOf(Price) /\ BookOf(o) # {}
  <2>1. PricesOf(own[o]) # {}
    BY <1>1 DEF PricesOf
  <2> QED BY <1>3, <2>1, BookPrices DEF BookOf
<1>5. Best(o, BookOf(o)) \in Nat \ {0}
  BY <1>2, <1>4, BestOfSide
<1>6. add \in Offer
  BY <1>5 DEF Offer
<1> HIDE DEF add
<1>7. <<add>> \in Seq(Offer)
  BY <1>6
<1>8. VolumeOrder(s) = [by |-> "volume", orderType |-> s.orderType, cancels |-> {}, adds |-> <<add>>]
  BY DEF VolumeOrder, add, o
<1> QED BY <1>1, <1>7, <1>8 DEF Transactions

\* What MakeVolume does to the strategy and the mempool.
LEMMA VolumeStep ==
    ASSUME Sound, NoVolume \/ MakeVolume \/ VolumeUnread \/ VolumeFails
    PROVE  /\ pc = "volume" /\ pc' = "rest"
           /\ IsStrategy(strategy')
           /\ \/ pending' = pending
              \/ \E tx \in Transactions : tx.by = "volume" /\ pending' = Append(pending, tx)
<1>1. CASE NoVolume
  BY <1>1, StrategiesType DEF NoVolume
<1>2. CASE VolumeUnread
  BY <1>2, StrategiesType DEF VolumeUnread, Sound, IsStrategy
<1>3. CASE MakeVolume
  <2>1. PICK now \in StrategiesNow : \E s \in now :
           /\ pending' = Append(pending, VolumeOrder(s))
           /\ strategy' = {[s EXCEPT !.lastRun = 0, !.trades = V!NextCount(s.trades),
                                     !.remaining = V!SetRemaining(s.remaining - 1)]}
    BY <1>3 DEF MakeVolume
  <2>2. PICK s \in now :
           /\ pending' = Append(pending, VolumeOrder(s))
           /\ strategy' = {[s EXCEPT !.lastRun = 0, !.trades = V!NextCount(s.trades),
                                     !.remaining = V!SetRemaining(s.remaining - 1)]}
    BY <2>1
  <2>3. s \in V!StrategyRecord
    BY StrategiesType, StrategyRecords
  <2>4. /\ 0 \in V!Age /\ V!NextCount(s.trades) \in 0..ExtraEvery
        /\ V!SetRemaining(s.remaining - 1) \in 0..5
    <3>1. s.trades \in 0..ExtraEvery /\ s.remaining \in 0..5
      BY <2>3, StrategyRecords
    <3>2. 0 \in V!Age
      BY StrategyRecords
    <3>3. V!NextCount(s.trades) \in 0..ExtraEvery
      BY <3>1, TimesAssumption DEF V!NextCount
    <3>4. V!SetRemaining(s.remaining - 1) \in 0..5
      BY <3>1 DEF V!SetRemaining
    <3> QED BY <3>2, <3>3, <3>4
  <2> DEFINE s1 == [s EXCEPT !.lastRun = 0, !.trades = V!NextCount(s.trades),
                             !.remaining = V!SetRemaining(s.remaining - 1)]
  <2>5. s1 \in V!StrategyRecord
    BY <2>3, <2>4, StrategyRecords
  <2>6. strategy' = {s1}
    BY <2>2
  <2> HIDE DEF s1
  <2> QED BY <1>3, <2>2, <2>5, <2>6, VolumeOrderType DEF MakeVolume, IsStrategy
<1>4. CASE VolumeFails
  BY <1>4, VolumeOrderType DEF VolumeFails, IsStrategy
<1> QED BY <1>1, <1>2, <1>3, <1>4

-----------------------------------------------------------------------------
(* What FillOrderBook submits *)

BuyBest == Best("buy", BookOf("buy"))
SellBest == Best("sell", BookOf("sell"))
Start == SellStart(BuyBest, SellBest, {})
StartOf(t) == IF t = "buy" THEN Start - Step ELSE Start

LEMMA BookFinite == ASSUME Sound, NEW t \in OrderTypes PROVE BookOf(t) \in FiniteSubsetsOf(Price)
BY BookPrices DEF Sound, BookOf

LEMMA MissingType ==
    ASSUME Sound, NEW t \in OrderTypes
    PROVE  /\ Missing(t) \in FiniteSubsetsOf(Price)
           /\ \A p \in Missing(t) : /\ t = "buy" => p <= FirstRung(t, StartOf(t))
                                    /\ t = "sell" => p >= FirstRung(t, StartOf(t))
<1> DEFINE book == BookOf(t)  mine == PricesOf(own[t])  from == StartOf(t)  needed == No(t)
           P == LadderPrices(t, book, mine, from, needed)
<1>1. Missing(t) = P
  BY DEF Missing, StartOf, Start, BuyBest, SellBest
<1>2. from \in Int /\ needed \in Nat \ {0}
  <2>1. BuyBest \in Nat /\ SellBest \in Nat
    BY BookFinite, BestOfSide DEF BuyBest, SellBest, OrderTypes
  <2>2. Start \in Int
    BY <2>1, StartType DEF Start
  <2>3. from \in Int
    BY <2>2, StepAssumption DEF StartOf
  <2>4. needed \in Nat \ {0}
    BY LadderAssumption DEF No
  <2> QED BY <2>3, <2>4
<1>3. IsFiniteSet(book)
  BY BookFinite, FiniteParts
<1> HIDE DEF book, mine, from, needed
<1>4. /\ P \subseteq Nat \ {0} /\ IsFiniteSet(P)
      /\ \A p \in P : /\ t = "buy" => p <= FirstRung(t, from)
                      /\ t = "sell" => p >= FirstRung(t, from)
  BY <1>2, <1>3, LadderPricesFree
<1> HIDE DEF P
<1> QED BY <1>1, <1>4 DEF from, FiniteSubsetsOf, Price

\* Transactions of the filler: those that only cancel, and those that fill side t.
Cancelling == {tx \in Transactions : tx.by = "filler" /\ tx.adds = << >>}
Filling(t) == {tx \in Transactions : tx.by = "filler" /\ tx.orderType = t /\ PricesAdded(tx) \subseteq Missing(t)}

LEMMA AdditionsType ==
    ASSUME Sound, NEW t \in OrderTypes, NEW q \in Additions(t)
    PROVE  q \in Seq(Filling(t)) /\ Len(q) <= 1
<1>1. CASE q = << >>
  BY <1>1, EmptySeq
<1>2. CASE q # << >>
  <2> DEFINE P == Missing(t)
  <2>1. PICK adds \in InLoopOrder(t, P) :
           q = <<[by |-> "filler", orderType |-> t, cancels |-> {}, adds |-> adds]>>
    BY <1>2 DEF Additions
  <2>2. P \in FiniteSubsetsOf(Price)
    BY MissingType
  <2>3. IsFiniteSet(P) /\ P \subseteq Price
    BY <2>2, FiniteParts
  <2>4. Cardinality(P) \in Nat
    BY <2>3, FS_CardinalityType
  <2> HIDE DEF P
  <2>5. adds \in [1..Cardinality(P) -> [price : P, amount : OrderAmounts]]
    BY <2>1 DEF InLoopOrder
  <2>6. [price : P, amount : OrderAmounts] \subseteq Offer
    BY <2>3, AmountAssumption DEF Offer, Price
  <2>7. adds \in [1..Cardinality(P) -> Offer]
    BY <2>5, <2>6
  <2>8. adds \in Seq(Offer) /\ Len(adds) = Cardinality(P)
    BY <2>4, <2>7, IsASeq
  <2>9. \A k \in 1..Len(adds) : adds[k].price \in P
    BY <2>5, <2>8
  <2> DEFINE tx == [by |-> "filler", orderType |-> t, cancels |-> {}, adds |-> adds]
  <2>10. tx \in Transactions
    BY <2>8 DEF Transactions
  <2>11. PricesAdded(tx) \subseteq P
    BY <2>9 DEF PricesAdded
  <2>12. tx \in Filling(t)
    BY <2>10, <2>11 DEF Filling, P
  <2>13. q = <<tx>>
    BY <2>1
  <2> HIDE DEF tx
  <2> QED BY <2>12, <2>13
<1> QED BY <1>1, <1>2

LEMMA CancellationsType ==
    ASSUME Sound, NEW t \in OrderTypes, NEW q \in Cancellations(t)
    PROVE  q \in Seq(Cancelling) /\ Len(q) <= 1
<1>1. CASE q = << >>
  BY <1>1, EmptySeq
<1>2. CASE q # << >>
  <2>1. \E S \in SUBSET own[t] :
           q = <<[by |-> "filler", orderType |-> t, adds |-> << >>, cancels |-> {Key(o) : o \in S}]>>
    BY <1>2 DEF Cancellations
  <2>2. PICK S \in SUBSET own[t] :
           q = <<[by |-> "filler", orderType |-> t, adds |-> << >>, cancels |-> {Key(o) : o \in S}]>>
    BY <2>1
  <2> DEFINE tx == [by |-> "filler", orderType |-> t, adds |-> << >>, cancels |-> {Key(o) : o \in S}]
  <2>3. own[t] \in FiniteSubsetsOf(OwnOrder)
    BY DEF Sound
  <2>4. S \subseteq OwnOrder
    BY <2>3, FiniteParts
  <2>5. {Key(o) : o \in S} \in SUBSET (Nat \X Nat)
    BY <2>4 DEF Key, OwnOrder
  <2>6. << >> \in Seq(Offer)
    BY EmptySeq
  <2>7. tx \in Cancelling
    BY <2>5, <2>6 DEF Cancelling, Transactions
  <2>8. q = <<tx>>
    BY <2>2
  <2> HIDE DEF tx
  <2> QED BY <2>7, <2>8
<1> QED BY <1>1, <1>2

LEMMA CancelsType == ASSUME Sound, NEW q \in CancelsOf PROVE q \in Seq(Cancelling) /\ Len(q) <= 2
<1>1. CASE q = << >>
  BY <1>1, EmptySeq
<1>2. CASE q # << >>
  <2>1. PICK buys \in Cancellations("buy"), sells \in Cancellations("sell") : q = buys \o sells
    BY <1>2 DEF CancelsOf
  <2>2. buys \in Seq(Cancelling) /\ Len(buys) <= 1 /\ sells \in Seq(Cancelling) /\ Len(sells) <= 1
    BY CancellationsType DEF OrderTypes
  <2>3. Len(buys) \in Nat /\ Len(sells) \in Nat
    BY <2>2, LenProperties
  <2>4. q \in Seq(Cancelling) /\ Len(q) = Len(buys) + Len(sells)
    BY <2>1, <2>2, ConcatProperties
  <2> QED BY <2>2, <2>3, <2>4
<1> QED BY <1>1, <1>2

\* A round: cancellations, then the missing sells, then the missing buys.
IsRound(q) ==
    /\ q \in Seq(Transactions) /\ Len(q) <= 4
    /\ \A i \in 1..Len(q) : q[i] \in Cancelling \cup Filling("sell") \cup Filling("buy")
    /\ \A i, j \in 1..Len(q) :
          i < j /\ q[i].adds # << >> /\ q[i].orderType = "buy" /\ q[j].adds # << >> => q[j].orderType = "buy"

LEMMA RoundParts ==
    ASSUME Sound, NEW c \in Seq(Cancelling), NEW s \in Seq(Filling("sell")), NEW b \in Seq(Filling("buy")),
           Len(c) <= 2, Len(s) <= 1, Len(b) <= 1
    PROVE  IsRound(c \o s \o b)
<1> DEFINE T == Cancelling \cup Filling("sell") \cup Filling("buy")
           cs == c \o s
           q == cs \o b
<1>1. T \subseteq Transactions
  BY DEF Cancelling, Filling
<1>2. Len(c) \in Nat /\ Len(s) \in Nat /\ Len(b) \in Nat
  BY LenProperties
<1>3. c \in Seq(T) /\ s \in Seq(T) /\ b \in Seq(T)
  <2>1. Cancelling \subseteq T /\ Filling("sell") \subseteq T /\ Filling("buy") \subseteq T
    OBVIOUS
  <2>2. ASSUME NEW A, NEW B, A \subseteq B, NEW x \in Seq(A) PROVE x \in Seq(B)
    BY <2>2
  <2> HIDE DEF T
  <2> QED BY <2>1, <2>2
<1> HIDE DEF T
<1>4. /\ cs \in Seq(T) /\ Len(cs) = Len(c) + Len(s)
      /\ \A i \in 1..(Len(c) + Len(s)) : cs[i] = IF i <= Len(c) THEN c[i] ELSE s[i - Len(c)]
  BY <1>3, ConcatProperties
<1> HIDE DEF cs
<1>5. /\ q \in Seq(T) /\ Len(q) = Len(cs) + Len(b)
      /\ \A i \in 1..(Len(cs) + Len(b)) : q[i] = IF i <= Len(cs) THEN cs[i] ELSE b[i - Len(cs)]
  BY <1>3, <1>4, ConcatProperties
<1> HIDE DEF q
<1>6. q \in Seq(Transactions)
  BY <1>1, <1>5
<1>7. Len(q) <= 4
  BY <1>2, <1>4, <1>5
<1>8. \A i \in 1..Len(q) : q[i] \in T
  BY <1>5, ElementOfSeq
<1>9. ASSUME NEW i \in 1..Len(q), NEW j \in 1..Len(q), i < j,
             q[i].adds # << >>, q[i].orderType = "buy", q[j].adds # << >>
      PROVE  q[j].orderType = "buy"
  <2>1. i \in Int /\ j \in Int /\ 1 <= i /\ j <= Len(q)
    BY <1>2, <1>4, <1>5
  <2>2. i > Len(cs)
    <3> SUFFICES ASSUME i <= Len(cs) PROVE FALSE
      BY <2>1, <1>2, <1>4
    <3>1. q[i] = cs[i]
      BY <1>5, <1>9, <2>1
    <3>2. CASE i <= Len(c)
      <4>1. q[i] = c[i] /\ i \in 1..Len(c)
        BY <3>1, <3>2, <2>1, <1>2, <1>4
      <4>2. q[i] \in Cancelling
        BY <4>1, ElementOfSeq
      <4> QED BY <4>2, <1>9 DEF Cancelling
    <3>3. CASE i > Len(c)
      <4>1. q[i] = s[i - Len(c)] /\ i - Len(c) \in 1..Len(s)
        BY <3>1, <3>3, <2>1, <1>2, <1>4
      <4>2. q[i] \in Filling("sell")
        BY <4>1, ElementOfSeq
      <4> QED BY <4>2, <1>9 DEF Filling
    <3> QED BY <3>2, <3>3, <2>1, <1>2
  <2>3. q[j] = b[j - Len(cs)] /\ j - Len(cs) \in 1..Len(b)
    BY <2>1, <2>2, <1>2, <1>4, <1>5, <1>9
  <2>4. q[j] \in Filling("buy")
    BY <2>3, ElementOfSeq
  <2> QED BY <2>4 DEF Filling
<1> QED BY <1>6, <1>7, <1>8, <1>9 DEF IsRound, T, q, cs

\* A mempool of which a call of FillOrderBook leaves one round behind the pending transactions.
Grown(p) == \E q : IsRound(q) /\ p = pending \o q

LEMMA GrownByThree ==
    ASSUME Sound, NEW c \in Seq(Cancelling), NEW s \in Seq(Filling("sell")), NEW b \in Seq(Filling("buy")),
           Len(c) <= 2, Len(s) <= 1, Len(b) <= 1
    PROVE  Grown(pending \o c \o s \o b)
<1> DEFINE q == c \o s \o b
<1>1. IsRound(q)
  BY RoundParts
<1>2. /\ pending \in Seq(Transactions) /\ c \in Seq(Transactions)
      /\ s \in Seq(Transactions) /\ b \in Seq(Transactions)
  <2>1. Cancelling \subseteq Transactions /\ Filling("sell") \subseteq Transactions /\ Filling("buy") \subseteq Transactions
    BY DEF Cancelling, Filling
  <2>2. pending \in Seq(Transactions)
    BY DEF Sound
  <2>3. ASSUME NEW A, NEW B, A \subseteq B, NEW x \in Seq(A) PROVE x \in Seq(B)
    BY <2>3
  <2> QED BY <2>1, <2>2, <2>3
<1> DEFINE cs == c \o s
<1>3. cs \in Seq(Transactions) /\ pending \o c \o s = pending \o cs
  BY <1>2, ConcatProperties, ConcatAssociative
<1>4. q = cs \o b
  OBVIOUS
<1> HIDE DEF q, cs
<1>5. pending \o cs \o b = pending \o (cs \o b)
  BY <1>2, <1>3, ConcatAssociative
<1>6. pending \o c \o s \o b = pending \o q
  BY ONLY <1>3, <1>4, <1>5, Zenon
<1> QED BY ONLY <1>1, <1>6, Zenon DEF Grown

LEMMA GrownByTwo ==
    ASSUME Sound, NEW c \in Seq(Cancelling), NEW s \in Seq(Filling("sell")), Len(c) <= 2, Len(s) <= 1
    PROVE  Grown(pending \o c \o s)
<1> DEFINE r == pending \o c \o s
<1>1. << >> \in Seq(Filling("buy")) /\ Len(<< >>) <= 1
  BY EmptySeq
<1>2. Grown(pending \o c \o s \o << >>)
  BY ONLY <1>1, Sound, c \in Seq(Cancelling), s \in Seq(Filling("sell")), Len(c) <= 2, Len(s) <= 1,
          GrownByThree, Zenon
<1>3. r \in Seq(Transactions)
  <2>1. Cancelling \subseteq Transactions /\ Filling("sell") \subseteq Transactions
    BY DEF Cancelling, Filling
  <2>2. ASSUME NEW A, NEW B, A \subseteq B, NEW x \in Seq(A) PROVE x \in Seq(B)
    BY <2>2
  <2>3. pending \in Seq(Transactions) /\ c \in Seq(Transactions) /\ s \in Seq(Transactions)
    BY <2>1, <2>2 DEF Sound
  <2> QED BY <2>3, ConcatProperties
<1>4. r \o << >> = r
  <2> HIDE DEF r
  <2> QED BY <1>3, ConcatEmptySeq
<1> QED BY ONLY <1>2, <1>4, Zenon DEF r

LEMMA GrownByOne ==
    ASSUME Sound, NEW c \in Seq(Cancelling), Len(c) <= 2
    PROVE  Grown(pending \o c)
<1> DEFINE r == pending \o c
<1>1. << >> \in Seq(Filling("sell")) /\ Len(<< >>) <= 1
  BY EmptySeq
<1>2. Grown(pending \o c \o << >>)
  BY ONLY <1>1, Sound, c \in Seq(Cancelling), Len(c) <= 2, GrownByTwo, Zenon
<1>3. r \in Seq(Transactions)
  <2>1. Cancelling \subseteq Transactions
    BY DEF Cancelling
  <2>2. ASSUME NEW A, NEW B, A \subseteq B, NEW x \in Seq(A) PROVE x \in Seq(B)
    BY <2>2
  <2>3. pending \in Seq(Transactions) /\ c \in Seq(Transactions)
    BY <2>1, <2>2 DEF Sound
  <2> QED BY <2>3, ConcatProperties
<1>4. r \o << >> = r
  <2> HIDE DEF r
  <2> QED BY <1>3, ConcatEmptySeq
<1> QED BY ONLY <1>2, <1>4, Zenon DEF r

\* What a call of FillOrderBook adds to the mempool.
LEMMA FillStep ==
    ASSUME Sound, Fill \/ FillFails \/ FillPartly
    PROVE  /\ pc = "fill" /\ pc' \in {"volume", "rest"} /\ strategy' = strategy
           /\ Grown(pending')
<1>1. /\ << >> \in Seq(Cancelling) /\ << >> \in Seq(Filling("sell")) /\ << >> \in Seq(Filling("buy"))
      /\ Len(<< >>) <= 1 /\ Len(<< >>) <= 2
  BY EmptySeq
<1>2. ASSUME NEW c \in CancelsOf, NEW s \in Additions("sell"), NEW b \in Additions("buy")
      PROVE  /\ c \in Seq(Cancelling) /\ s \in Seq(Filling("sell")) /\ b \in Seq(Filling("buy"))
             /\ Len(c) <= 2 /\ Len(s) <= 1 /\ Len(b) <= 1
             /\ c # << >> => <<Head(c)>> \in Seq(Cancelling) /\ Len(<<Head(c)>>) = 1
  <2>1. /\ c \in Seq(Cancelling) /\ s \in Seq(Filling("sell")) /\ b \in Seq(Filling("buy"))
        /\ Len(c) <= 2 /\ Len(s) <= 1 /\ Len(b) <= 1
    BY CancelsType, AdditionsType DEF OrderTypes
  <2>2. c # << >> => Head(c) \in Cancelling
    BY <2>1, HeadTailProperties
  <2>3. \A x \in Cancelling : <<x>> \in Seq(Cancelling) /\ Len(<<x>>) = 1
    OBVIOUS
  <2> QED BY <2>1, <2>2, <2>3
<1>3. pc = "fill" /\ pc' \in {"volume", "rest"} /\ strategy' = strategy
  BY DEF Fill, FillFails, FillPartly
<1> SUFFICES Grown(pending')
  BY <1>3
<1>4. CASE Fill
  <2>1. PICK c \in CancelsOf, s \in Additions("sell"), b \in Additions("buy") : pending' = pending \o c \o s \o b
    BY <1>4 DEF Fill
  <2>2. Grown(pending \o c \o s \o b)
    BY <1>2, GrownByThree
  <2> QED BY ONLY <2>1, <2>2, Zenon DEF Grown
<1>5. CASE FillFails
  <2>1. CASE pending' = pending
    <3>1. pending \o << >> = pending
      BY ConcatEmptySeq DEF Sound
    <3>2. Grown(pending \o << >>)
      BY <1>1, GrownByOne
    <3> QED BY ONLY <2>1, <3>1, <3>2, Zenon DEF Grown
  <2>2. CASE pending' # pending
    <3>1. PICK c \in CancelsOf : pending' = pending \o c
      BY <1>5, <2>2 DEF FillFails
    <3>2. Grown(pending \o c)
      BY CancelsType, GrownByOne
    <3> QED BY ONLY <3>1, <3>2, Zenon DEF Grown
  <2> QED BY <2>1, <2>2
<1>6. CASE FillPartly
  <2>1. PICK c \in CancelsOf, s \in Additions("sell"), b \in Additions("buy"), arrived \in BOOLEAN :
         \/ /\ c # << >>
            /\ pending' = pending \o (IF arrived THEN <<Head(c)>> ELSE << >>) \o s \o b
         \/ /\ s # << >>
            /\ pending' = pending \o c \o (IF arrived THEN s ELSE << >>)
         \/ /\ b # << >>
            /\ pending' = pending \o c \o s \o (IF arrived THEN b ELSE << >>)
    BY <1>6 DEF FillPartly
  <2>2. /\ c \in Seq(Cancelling) /\ s \in Seq(Filling("sell")) /\ b \in Seq(Filling("buy"))
        /\ Len(c) <= 2 /\ Len(s) <= 1 /\ Len(b) <= 1
        /\ c # << >> => <<Head(c)>> \in Seq(Cancelling) /\ Len(<<Head(c)>>) = 1
    BY <1>2
  <2>3. CASE /\ c # << >>
             /\ pending' = pending \o (IF arrived THEN <<Head(c)>> ELSE << >>) \o s \o b
    <3> DEFINE c1 == IF arrived THEN <<Head(c)>> ELSE << >>
    <3>1. c1 \in Seq(Cancelling) /\ Len(c1) <= 2
      BY <1>1, <2>2, <2>3
    <3>2. pending' = pending \o c1 \o s \o b
      BY ONLY <2>3, Zenon
    <3> HIDE DEF c1
    <3>3. Grown(pending \o c1 \o s \o b)
      BY <2>2, <3>1, GrownByThree
    <3> QED BY ONLY <3>2, <3>3, Zenon DEF Grown
  <2>4. CASE pending' = pending \o c \o (IF arrived THEN s ELSE << >>)
    <3> DEFINE s1 == IF arrived THEN s ELSE << >>
    <3>1. s1 \in Seq(Filling("sell")) /\ Len(s1) <= 1
      BY <1>1, <2>2
    <3>2. pending' = pending \o c \o s1
      BY ONLY <2>4, Zenon
    <3> HIDE DEF s1
    <3>3. Grown(pending \o c \o s1)
      BY <2>2, <3>1, GrownByTwo
    <3> QED BY ONLY <3>2, <3>3, Zenon DEF Grown
  <2>5. CASE pending' = pending \o c \o s \o (IF arrived THEN b ELSE << >>)
    <3> DEFINE b1 == IF arrived THEN b ELSE << >>
    <3>1. b1 \in Seq(Filling("buy")) /\ Len(b1) <= 1
      BY <1>1, <2>2
    <3>2. pending' = pending \o c \o s \o b1
      BY ONLY <2>5, Zenon
    <3> HIDE DEF b1
    <3>3. Grown(pending \o c \o s \o b1)
      BY <2>2, <3>1, GrownByThree
    <3> QED BY ONLY <3>2, <3>3, Zenon DEF Grown
  <2> QED BY <2>1, <2>3, <2>4, <2>5
<1> QED BY <1>4, <1>5, <1>6

-----------------------------------------------------------------------------
(* Type correctness *)

\* With prompt blocks a round finds the mempool empty: it adds four transactions,
\* MakeVolume one.
Room ==
    /\ pc = "fill" => pending = << >>
    /\ pc = "volume" => Len(pending) <= 4
    /\ Len(pending) <= 5

SubmitsRound == pc = "fill" /\ pc' \in {"volume", "rest"} /\ Grown(pending')
SubmitsVolume ==
    /\ pc = "volume" /\ pc' = "rest"
    /\ \E tx \in Transactions : tx.by = "volume" /\ pending' = Append(pending, tx)
Drops == pending # << >> /\ pending' = Tail(pending) /\ pc' = pc

LEMMA MempoolStep ==
    ASSUME Sound, [Next]_vars
    PROVE  \/ /\ UNCHANGED pending /\ ~Execute
              /\ pc' = "volume" => pc = "volume"
              /\ PromptBlocks /\ pc' = "fill" => pc = "fill" \/ pending = << >>
           \/ SubmitsRound /\ ~Execute
           \/ SubmitsVolume /\ ~Execute
           \/ Drops
<1>1. CASE Fill \/ FillFails \/ FillPartly
  <2>1. SubmitsRound
    BY <1>1, FillStep DEF SubmitsRound
  <2> QED BY <2>1 DEF SubmitsRound, Execute
<1>2. CASE NoVolume \/ MakeVolume \/ VolumeUnread \/ VolumeFails
  <2>1. pc = "volume" /\ pc' = "rest"
    BY <1>2, VolumeStep
  <2>2. ~Execute
    BY <2>1 DEF Execute
  <2> QED BY <1>2, <2>1, <2>2, VolumeStep DEF SubmitsVolume
<1>3. CASE Execute \/ ExecutionFails
  BY <1>3 DEF Execute, ExecutionFails, Drops
<1>4. CASE /\ NextExecution \/ Restart \/ UNCHANGED vars
              \/ (\E t \in OrderTypes : \E o \in Offers : OthersPlace(t, o))
              \/ (\E t \in OrderTypes : \E o \in others[t] : OthersCancel(t, o))
              \/ (\E t \in OrderTypes : OthersTake(t))
           /\ ~Execute
  <2>1. UNCHANGED pending
    BY <1>4 DEF NextExecution, Restart, OthersPlace, OthersCancel, OthersTake, vars
  <2>2. NextExecution => pc' = "fill" /\ (PromptBlocks => pending = << >>)
    BY DEF NextExecution
  <2>3. Restart => pc' \in {"rest", "fill"} /\ (PromptBlocks /\ pc' = "fill" => pending = << >>)
    BY DEF Restart
  <2>4. NextExecution \/ Restart \/ pc' = pc
    BY <1>4 DEF OthersPlace, OthersCancel, OthersTake, vars
  <2> QED BY <1>4, <2>1, <2>2, <2>3, <2>4
<1> QED BY <1>1, <1>2, <1>3, <1>4 DEF Next, Loop

\* With prompt blocks the round is all that the mempool holds.
LEMMA RoundAlone ==
    ASSUME Sound, PromptBlocks => Room, PromptBlocks, SubmitsRound
    PROVE  IsRound(pending')
<1>1. PICK q : IsRound(q) /\ pending' = pending \o q
  BY DEF SubmitsRound, Grown
<1>2. pending = << >> /\ q \in Seq(Transactions)
  BY <1>1 DEF SubmitsRound, Room, IsRound
<1>3. << >> \o q = q
  BY <1>2, ConcatEmptySeq
<1> QED BY <1>1, <1>2, <1>3

LEMMA PendingStep ==
    ASSUME Sound, PromptBlocks => Room, [Next]_vars
    PROVE  pending' \in Seq(Transactions) /\ (PromptBlocks => Room)'
<1> SUFFICES pending' \in Seq(Transactions) /\ (PromptBlocks => Room')
  OBVIOUS
<1>1. pending \in Seq(Transactions) /\ Len(pending) \in Nat
  BY LenProperties DEF Sound
<1>2. CASE /\ UNCHANGED pending
           /\ pc' = "volume" => pc = "volume"
           /\ PromptBlocks /\ pc' = "fill" => pc = "fill" \/ pending = << >>
  BY <1>1, <1>2 DEF Room
<1>3. CASE SubmitsRound
  <2>1. pending' \in Seq(Transactions)
    <3>1. PICK q : q \in Seq(Transactions) /\ pending' = pending \o q
      BY <1>3 DEF SubmitsRound, Grown, IsRound
    <3> QED BY <1>1, <3>1, ConcatProperties
  <2>2. PromptBlocks => Len(pending') <= 4 /\ pc' # "fill"
    BY <1>3, RoundAlone DEF SubmitsRound, IsRound
  <2>3. Len(pending') \in Nat
    BY <2>1, LenProperties
  <2> QED BY <2>1, <2>2, <2>3 DEF Room
<1>4. CASE SubmitsVolume
  <2>1. PICK tx \in Transactions : pending' = Append(pending, tx)
    BY <1>4 DEF SubmitsVolume
  <2>2. pending' \in Seq(Transactions) /\ Len(pending') = Len(pending) + 1
    BY <1>1, <2>1, AppendProperties
  <2> QED BY <1>1, <1>4, <2>2 DEF SubmitsVolume, Room
<1>5. CASE Drops
  <2>1. pending' \in Seq(Transactions) /\ Len(pending') = Len(pending) - 1
    BY <1>1, <1>5, HeadTailProperties DEF Drops
  <2>2. PromptBlocks => pc' # "fill"
    BY <1>5 DEF Drops, Room
  <2> QED BY <1>1, <1>5, <2>1, <2>2 DEF Drops, Room
<1> QED BY <1>2, <1>3, <1>4, <1>5, MempoolStep

LEMMA OlderStrategy ==
    ASSUME IsStrategy(strategy)
    PROVE  IsStrategy({[s EXCEPT !.lastRun = V!Older(@)] : s \in strategy})
<1>1. CASE strategy = {}
  BY <1>1 DEF IsStrategy
<1>2. CASE strategy # {}
  <2>1. PICK s \in strategy : strategy = {s} /\ s \in V!StrategyRecord
    BY <1>2, StrategyRecords
  <2> DEFINE s1 == [s EXCEPT !.lastRun = V!Older(s.lastRun)]
  <2>2. s1 \in V!StrategyRecord
    BY <2>1, StrategyRecords
  <2>3. {[r EXCEPT !.lastRun = V!Older(@)] : r \in strategy} = {s1}
    BY <2>1
  <2> HIDE DEF s1
  <2> QED BY <2>2, <2>3 DEF IsStrategy
<1> QED BY <1>1, <1>2

LEMMA ControlStep ==
    ASSUME Sound, BookUncrossed, [Next]_vars
    PROVE  /\ pc' \in {"fill", "volume", "rest"} /\ IsStrategy(strategy')
           /\ history' \in [self : BOOLEAN, orderType : OrderTypes, age : V!Age]
           /\ aim' \in {"open", "own", "lost"}
           /\ disturbances' \in 0..MaxDisturbances
<1> DEFINE Goal == /\ pc' \in {"fill", "volume", "rest"} /\ IsStrategy(strategy')
                   /\ history' \in [self : BOOLEAN, orderType : OrderTypes, age : V!Age]
<1>1. disturbances' = disturbances \/ Disturb
  BY DEF Next, Loop, Fill, FillFails, FillPartly, NoVolume, MakeVolume, VolumeUnread, VolumeFails, NextExecution,
         Restart, Execute, ExecutionFails, OthersPlace, OthersCancel, OthersTake, vars
<1>2. disturbances' \in 0..MaxDisturbances /\ aim' \in {"open", "own", "lost"}
  <2>1. aim' \in {aim, "open", "own", "lost"}
    BY DEF Next, Loop, Fill, FillFails, FillPartly, NoVolume, MakeVolume, VolumeUnread, VolumeFails, Aim,
           NextExecution, Restart, Execute, ExecutionFails, OthersPlace, OthersCancel, OthersTake, vars
  <2> QED BY <1>1, <2>1, BoundAssumption DEF Sound, Disturb
<1>3. /\ pc \in {"fill", "volume", "rest"} /\ IsStrategy(strategy)
      /\ history \in [self : BOOLEAN, orderType : OrderTypes, age : V!Age]
  BY DEF Sound, IsStrategy
<1>4. CASE Fill \/ FillFails \/ FillPartly
  <2>1. history' = history
    BY <1>4 DEF Fill, FillFails, FillPartly
  <2>2. strategy' = strategy /\ pc' \in {"volume", "rest"}
    BY <1>4, FillStep
  <2> QED BY <1>2, <1>3, <2>1, <2>2
<1>5. CASE NoVolume \/ MakeVolume \/ VolumeUnread \/ VolumeFails
  <2>1. history' = history
    BY <1>5 DEF NoVolume, MakeVolume, VolumeUnread, VolumeFails
  <2> QED BY <1>2, <1>3, <1>5, <2>1, VolumeStep
<1>6. CASE Execute
  BY <1>2, <1>3, <1>6, ExecuteStep
<1>7. CASE NextExecution
  <2>1. history' = [history EXCEPT !.age = V!Older(history.age)] /\ pc' = "fill"
    BY <1>7 DEF NextExecution
  <2>2. history' \in [self : BOOLEAN, orderType : OrderTypes, age : V!Age]
    BY <1>3, <2>1, StrategyRecords
  <2>3. IsStrategy(strategy')
    BY <1>3, <1>7, OlderStrategy DEF NextExecution
  <2> QED BY <1>2, <2>1, <2>2, <2>3
<1>8. CASE Restart
  BY <1>2, <1>3, <1>8 DEF Restart, IsStrategy
<1>9. ASSUME NEW t \in OrderTypes, OthersTake(t) PROVE Goal
  <2>1. history' = [self |-> FALSE, orderType |-> Other(t), age |-> 0] /\ pc' = pc /\ strategy' = strategy
    BY <1>9 DEF OthersTake
  <2>2. 0 \in V!Age
    BY StrategyRecords
  <2>3. history' \in [self : BOOLEAN, orderType : OrderTypes, age : V!Age]
    BY <2>1, <2>2, OtherType
  <2> QED BY <1>3, <2>1, <2>3
<1>10. CASE UNCHANGED <<pc, strategy, history>>
  BY <1>2, <1>3, <1>10
<1>11. CASE \/ ExecutionFails \/ UNCHANGED vars
            \/ \E t \in OrderTypes : \E o \in Offers : OthersPlace(t, o)
            \/ \E t \in OrderTypes : \E o \in others[t] : OthersCancel(t, o)
  BY <1>10, <1>11 DEF ExecutionFails, OthersPlace, OthersCancel, vars
<1> QED BY <1>2, <1>4, <1>5, <1>6, <1>7, <1>8, <1>9, <1>11 DEF Next, Loop

\* The types, the room of the mempool and the uncrossed book belong together: an
\* order enters the book where the other side ends.
Typed == Sound /\ BookUncrossed /\ (PromptBlocks => Room)

LEMMA TypedInit == Init => Typed
<1> SUFFICES ASSUME Init PROVE Typed
  OBVIOUS
<1>1. own = [t \in OrderTypes |-> {}] /\ others = Walls /\ pending = << >> /\ pc = "fill"
  BY DEF Init, Nobody
<1>2. own \in [OrderTypes -> FiniteSubsetsOf(OwnOrder)]
  BY <1>1, FS_EmptySet DEF FiniteSubsetsOf
<1>3. others \in [OrderTypes -> FiniteSubsetsOf(Offer)]
  BY <1>1, OfferAssumption DEF FiniteSubsetsOf
<1>4. history \in [self : BOOLEAN, orderType : OrderTypes, age : V!Age]
  BY StrategyRecords DEF Init, OrderTypes
<1>5. pending \in Seq(Transactions) /\ Len(pending) = 0
  BY <1>1, EmptySeq
<1>6. Sound
  BY <1>1, <1>2, <1>3, <1>4, <1>5, BoundAssumption DEF Init, Sound
<1>7. BookUncrossed
  BY <1>1, OfferAssumption DEF BookUncrossed, BookOf, PricesOf, OrderTypes
<1> QED BY <1>1, <1>5, <1>6, <1>7 DEF Typed, Room

LEMMA TypedStep == Typed /\ [Next]_vars => Typed'
<1> SUFFICES ASSUME Sound, BookUncrossed, PromptBlocks => Room, [Next]_vars PROVE Typed'
  BY DEF Typed
<1>1. own' \in [OrderTypes -> FiniteSubsetsOf(OwnOrder)]
  BY OwnStep, ExecuteStep DEF Within
<1>2. /\ others' \in [OrderTypes -> FiniteSubsetsOf(Offer)]
      /\ \A t \in OrderTypes : Walls[t] \subseteq others'[t]
      /\ BookUncrossed'
  BY OthersStep
<1> QED BY <1>1, <1>2, ControlStep, PendingStep DEF Typed, Sound, IsStrategy

\* The types of every state of the loop (App.execute, app.go:39-67): among them that
\* orders in the book always have an amount left, that no cache entry outlives its
\* time and, with prompt blocks, that the mempool never holds more than five
\* transactions of the bot.
THEOREM TypeCorrect == Spec => []TypeOK
<1>1. Typed => TypeOK
  <2> SUFFICES ASSUME Sound, PromptBlocks => Room PROVE TypeOK
    BY DEF Typed
  <2>1. strategy \in SUBSET V!StrategyRecord /\ Cardinality(strategy) <= 1
    <3>1. CASE strategy = {}
      BY <3>1, FS_EmptySet
    <3>2. CASE strategy # {}
      <4>1. PICK s \in V!StrategyRecord : strategy = {s}
        BY <3>2 DEF Sound
      <4>2. Cardinality(strategy) = 1
        BY <4>1, FS_Singleton
      <4> QED BY <4>1, <4>2
    <3> QED BY <3>1, <3>2
  <2>2. \A t \in OrderTypes : own[t] \subseteq OwnOrder /\ others[t] \subseteq Offer
    BY FiniteParts DEF Sound
  <2>3. \A i \in 1..Len(pending) : pending[i] \in Transactions
    BY ElementOfSeq DEF Sound
  <2> QED BY <2>1, <2>2, <2>3 DEF Sound, Room, TypeOK
<1> QED BY <1>1, TypedInit, TypedStep, PTL DEF Spec

-----------------------------------------------------------------------------
(* The ladder rests *)

\* In the mempool sells of the ladder come before its buys, and MakeVolume's order
\* comes after both; the sells are above the buys, and neither is where the bot's
\* orders or the walls of the other side are.
SellsFirst ==
    \A i, j \in 1..Len(pending) :
        i < j /\ Ladder(pending[i]) /\ pending[i].orderType = "buy" /\ Ladder(pending[j]) =>
            pending[j].orderType = "buy"
VolumeLast ==
    \A i, j \in 1..Len(pending) : i < j /\ pending[i].by = "volume" => ~Ladder(pending[j])
SellsAboveBuys ==
    \A i, j \in 1..Len(pending) :
        /\ Ladder(pending[i]) /\ pending[i].orderType = "sell"
        /\ Ladder(pending[j]) /\ pending[j].orderType = "buy"
        => \A x \in PricesAdded(pending[i]), y \in PricesAdded(pending[j]) : y < x
Clear(t, P) ==
    \A x \in P, q \in PricesOf(own[Other(t)]) \cup PricesOf(Walls[Other(t)]) : Beyond(Other(t), q, x)
LaddersClear ==
    \A i \in 1..Len(pending) : Ladder(pending[i]) => Clear(pending[i].orderType, PricesAdded(pending[i]))

Orderly == SellsFirst /\ VolumeLast /\ SellsAboveBuys /\ LaddersClear

\* Where the prices that are missing lie.
LEMMA MissingApart ==
    ASSUME WideSpread, Sound, BookUncrossed
    PROVE  /\ \A x \in Missing("sell"), y \in Missing("buy") : y < x
           /\ \A x \in Missing("sell"), q \in BookOf("buy") : q < x
           /\ \A y \in Missing("buy"), q \in BookOf("sell") : y < q
<1> DEFINE firstSell == FirstRung("sell", Start)
           firstBuy == FirstRung("buy", Start - Step)
<1>1. /\ BookOf("buy") \in FiniteSubsetsOf(Price) /\ BookOf("sell") \in FiniteSubsetsOf(Price)
      /\ BookOf("buy") \subseteq Price /\ BookOf("sell") \subseteq Price
  BY BookFinite, FiniteParts DEF OrderTypes
<1>2. /\ BuyBest \in Nat /\ (BookOf("buy") = {} => BuyBest = 0)
      /\ (BookOf("buy") # {} => BuyBest \in BookOf("buy") /\ BuyBest # 0)
      /\ \A q \in BookOf("buy") : q <= BuyBest
  BY <1>1, BestOfSide DEF BuyBest, OrderTypes
<1>3. /\ SellBest \in Nat /\ (BookOf("sell") = {} => SellBest = 0)
      /\ (BookOf("sell") # {} => SellBest \in BookOf("sell") /\ SellBest # 0)
      /\ \A q \in BookOf("sell") : SellBest <= q
  BY <1>1, BestOfSide DEF SellBest, OrderTypes
<1>4. /\ Start \in Int /\ firstSell \in Int /\ firstBuy \in Int /\ firstBuy < firstSell
      /\ SellBest # 0 => firstBuy < SellBest
      /\ \A p \in Int : BuyBest # 0 /\ p <= BuyBest /\ (SellBest # 0 => p < SellBest) => p < firstSell
  BY <1>2, <1>3, LaddersStartApart DEF Start
<1> HIDE DEF firstSell, firstBuy
<1>5. \A x \in Missing("sell") : x \in Int /\ x >= firstSell
  <2>1. Missing("sell") \in FiniteSubsetsOf(Price) /\ \A p \in Missing("sell") : p >= FirstRung("sell", StartOf("sell"))
    BY MissingType DEF OrderTypes
  <2>2. StartOf("sell") = Start
    BY DEF StartOf
  <2> QED BY <2>1, <2>2, FiniteParts DEF firstSell, Price
<1>6. \A y \in Missing("buy") : y \in Int /\ y <= firstBuy
  <2>1. Missing("buy") \in FiniteSubsetsOf(Price) /\ \A p \in Missing("buy") : p <= FirstRung("buy", StartOf("buy"))
    BY MissingType DEF OrderTypes
  <2>2. StartOf("buy") = Start - Step
    BY DEF StartOf
  <2> QED BY <2>1, <2>2, FiniteParts DEF firstBuy, Price
<1>7. ASSUME NEW q \in BookOf("buy") PROVE q \in Int /\ q < firstSell
  <2>1. q \in Int /\ q <= BuyBest /\ BuyBest # 0
    BY <1>1, <1>2 DEF Price
  <2>2. SellBest # 0 => q < SellBest
    BY <1>3 DEF BookUncrossed
  <2> QED BY <1>4, <2>1, <2>2
<1>8. ASSUME NEW q \in BookOf("sell") PROVE q \in Int /\ firstBuy < q
  <2>1. q \in Int /\ SellBest <= q /\ SellBest # 0
    BY <1>1, <1>3 DEF Price
  <2> QED BY <1>3, <1>4, <2>1
<1>9. \A x \in Missing("sell"), y \in Missing("buy") : y < x
  BY <1>4, <1>5, <1>6
<1>10. \A x \in Missing("sell"), q \in BookOf("buy") : q < x
  BY <1>4, <1>5, <1>7
<1>11. \A y \in Missing("buy"), q \in BookOf("sell") : y < q
  BY <1>4, <1>6, <1>8
<1> QED BY <1>9, <1>10, <1>11

\* A ladder of a round is made of what is missing on its side.
LEMMA RoundLadders ==
    ASSUME NEW q, IsRound(q), NEW i \in 1..Len(q)
    PROVE  /\ q[i].by = "filler"
           /\ q[i].adds # << >> => /\ q[i].orderType \in OrderTypes
                                   /\ PricesAdded(q[i]) \subseteq Missing(q[i].orderType)
<1>1. q[i] \in Cancelling \/ q[i] \in Filling("sell") \/ q[i] \in Filling("buy")
  BY DEF IsRound
<1>2. CASE q[i] \in Cancelling
  BY <1>2 DEF Cancelling
<1>3. CASE q[i] \in Filling("sell")
  BY <1>3 DEF Filling, OrderTypes
<1>4. CASE q[i] \in Filling("buy")
  BY <1>4 DEF Filling, OrderTypes
<1> QED BY <1>1, <1>2, <1>3, <1>4

\* Without an execution what is clear of the other side stays so.
LEMMA ClearKept ==
    ASSUME Within(own'), NEW t \in OrderTypes, NEW P, Clear(t, P)
    PROVE  Clear(t, P)'
<1>1. PricesOf(own'[Other(t)]) \subseteq PricesOf(own[Other(t)])
  BY OtherType DEF Within
<1> QED BY <1>1 DEF Clear

LEMMA AddedInts == ASSUME NEW tx \in Transactions PROVE PricesAdded(tx) \subseteq Int
<1>1. tx.adds \in Seq(Offer)
  BY DEF Transactions
<1>2. \A k \in 1..Len(tx.adds) : tx.adds[k] \in Offer
  BY <1>1, ElementOfSeq
<1> QED BY <1>2, OrderPrice DEF PricesAdded, Price

LEMMA OrderlyStep == PromptBlocks /\ WideSpread /\ Typed /\ Orderly /\ [Next]_vars => Orderly'
<1> SUFFICES ASSUME PromptBlocks, WideSpread, Sound, BookUncrossed, Room, Orderly, [Next]_vars PROVE Orderly'
  BY DEF Typed
<1> USE DEF Orderly
<1>1. /\ pending \in Seq(Transactions) /\ Len(pending) \in Nat
      /\ \A i \in 1..Len(pending) : pending[i] \in Transactions /\ pending[i].orderType \in OrderTypes
  <2>1. pending \in Seq(Transactions)
    BY DEF Sound
  <2>2. \A i \in 1..Len(pending) : pending[i] \in Transactions
    BY <2>1, ElementOfSeq
  <2>3. \A tx \in Transactions : tx.orderType \in OrderTypes
    BY DEF Transactions
  <2> QED BY <2>1, <2>2, <2>3, LenProperties
<1>2. CASE UNCHANGED pending /\ ~Execute
  <2>1. Within(own')
    BY <1>2, OwnStep
  <2>2. SellsFirst' /\ VolumeLast' /\ SellsAboveBuys'
    BY <1>2 DEF SellsFirst, VolumeLast, SellsAboveBuys
  <2>3. LaddersClear'
    BY <1>1, <1>2, <2>1, ClearKept DEF LaddersClear
  <2> QED BY <2>2, <2>3
<1>3. CASE SubmitsRound /\ ~Execute
  <2>1. PICK q : q = pending' /\ IsRound(q)
    BY <1>3, RoundAlone
  <2>2. \A i \in 1..Len(q) : /\ q[i].by = "filler"
                             /\ q[i].adds # << >> => /\ q[i].orderType \in OrderTypes
                                                     /\ PricesAdded(q[i]) \subseteq Missing(q[i].orderType)
    BY <2>1, RoundLadders
  <2>3. VolumeLast'
    BY <2>1, <2>2 DEF VolumeLast, Ladder
  <2>4. SellsFirst'
    BY <2>1 DEF SellsFirst, Ladder, IsRound
  <2>5. SellsAboveBuys'
    <3> SUFFICES ASSUME NEW i \in 1..Len(q), NEW j \in 1..Len(q), Ladder(q[i]), q[i].orderType = "sell",
                        Ladder(q[j]), q[j].orderType = "buy",
                        NEW x \in PricesAdded(q[i]), NEW y \in PricesAdded(q[j])
                 PROVE  y < x
      BY <2>1 DEF SellsAboveBuys
    <3>1. x \in Missing("sell") /\ y \in Missing("buy")
      BY <2>2 DEF Ladder
    <3> QED BY <3>1, MissingApart
  <2>6. LaddersClear'
    <3> SUFFICES ASSUME NEW i \in 1..Len(q), Ladder(q[i]) PROVE Clear(q[i].orderType, PricesAdded(q[i]))'
      BY <2>1 DEF LaddersClear
    <3>1. PICK t \in OrderTypes : t = q[i].orderType /\ PricesAdded(q[i]) \subseteq Missing(t)
      BY <2>2 DEF Ladder
    <3>2. \A u \in OrderTypes : PricesOf(own[u]) \cup PricesOf(Walls[u]) \subseteq BookOf(u)
      BY DEF Sound, BookOf, PricesOf
    <3>3. Clear(t, Missing(t))
      <4>1. CASE t = "buy"
        BY <4>1, <3>2, MissingApart DEF Clear, Beyond, Other, OrderTypes
      <4>2. CASE t = "sell"
        BY <4>2, <3>2, MissingApart DEF Clear, Beyond, Other, OrderTypes
      <4> QED BY <4>1, <4>2 DEF OrderTypes
    <3>4. Clear(t, PricesAdded(q[i]))
      BY <3>1, <3>3 DEF Clear
    <3>5. Within(own')
      BY <1>3, OwnStep
    <3> QED BY <3>1, <3>4, <3>5, ClearKept
  <2> QED BY <2>3, <2>4, <2>5, <2>6
<1>4. CASE SubmitsVolume /\ ~Execute
  <2>1. PICK tx \in Transactions : tx.by = "volume" /\ pending' = Append(pending, tx)
    BY <1>4 DEF SubmitsVolume
  <2>2. /\ Len(pending') = Len(pending) + 1
        /\ \A i \in 1..Len(pending) : pending'[i] = pending[i]
        /\ pending'[Len(pending) + 1] = tx
    BY <1>1, <2>1, AppendProperties
  <2>3. ~Ladder(tx)
    BY <2>1 DEF Ladder
  <2>4. \A i \in 1..Len(pending') : i \in Int /\ (i \in 1..Len(pending) \/ i = Len(pending) + 1)
    BY <1>1, <2>2
  <2>5. \A i \in 1..Len(pending') : Ladder(pending'[i]) => i \in 1..Len(pending) /\ pending'[i] = pending[i]
    BY <2>2, <2>3, <2>4
  <2>6. SellsFirst' /\ SellsAboveBuys'
    BY <2>5 DEF SellsFirst, SellsAboveBuys
  <2>7. VolumeLast'
    <3> SUFFICES ASSUME NEW i \in 1..Len(pending'), NEW j \in 1..Len(pending'), i < j,
                        pending'[i].by = "volume", Ladder(pending'[j])
                 PROVE  FALSE
      BY DEF VolumeLast
    <3>1. j \in 1..Len(pending) /\ pending'[j] = pending[j]
      BY <2>5
    <3>2. i \in 1..Len(pending)
      BY <1>1, <2>4, <3>1
    <3>3. pending'[i] = pending[i]
      BY <2>2, <3>2
    <3> QED BY <3>1, <3>2, <3>3 DEF VolumeLast
  <2>8. LaddersClear'
    <3>1. Within(own')
      BY <1>4, OwnStep
    <3> QED BY <1>1, <2>5, <3>1, ClearKept DEF LaddersClear
  <2> QED BY <2>6, <2>7, <2>8
<1>5. CASE Drops
  <2>1. /\ pending # << >> /\ Len(pending') = Len(pending) - 1
        /\ \A i \in 1..Len(pending') : pending'[i] = pending[i + 1]
    BY <1>1, <1>5, HeadTailProperties DEF Drops
  <2>2. \A i \in 1..Len(pending') : i \in Int /\ i + 1 \in 1..Len(pending) /\ 1 < i + 1 /\ 1 \in 1..Len(pending)
    BY <1>1, <2>1
  <2>3. SellsFirst'
    <3> SUFFICES ASSUME NEW i \in 1..Len(pending'), NEW j \in 1..Len(pending'), i < j,
                        Ladder(pending'[i]), pending'[i].orderType = "buy", Ladder(pending'[j])
                 PROVE  pending'[j].orderType = "buy"
      BY DEF SellsFirst
    <3>1. i + 1 < j + 1
      BY <2>2
    <3> QED BY <2>1, <2>2, <3>1 DEF SellsFirst
  <2>4. VolumeLast'
    <3> SUFFICES ASSUME NEW i \in 1..Len(pending'), NEW j \in 1..Len(pending'), i < j,
                        pending'[i].by = "volume"
                 PROVE  ~Ladder(pending'[j])
      BY DEF VolumeLast
    <3>1. i + 1 < j + 1
      BY <2>2
    <3> QED BY <2>1, <2>2, <3>1 DEF VolumeLast
  <2>5. SellsAboveBuys'
    BY <2>1, <2>2 DEF SellsAboveBuys
  <2>6. LaddersClear'
    <3> SUFFICES ASSUME NEW q, q = pending', NEW i \in 1..Len(q), Ladder(q[i])
                 PROVE  Clear(q[i].orderType, PricesAdded(q[i]))'
      BY DEF LaddersClear
    <3>1. PICK k \in 1..Len(pending) : 1 < k /\ q[i] = pending[k] /\ 1 \in 1..Len(pending)
      BY <2>1, <2>2
    <3> DEFINE t == q[i].orderType
               P == PricesAdded(q[i])
    <3>2. /\ t \in OrderTypes /\ t = pending[k].orderType /\ P = PricesAdded(pending[k])
          /\ Clear(t, P) /\ Ladder(pending[k])
      BY <1>1, <3>1 DEF LaddersClear
    <3> HIDE DEF t, P
    <3> SUFFICES Clear(t, P)'
      BY DEF t, P
    <3>3. CASE ~Execute
      <4>1. Within(own')
        BY <3>3, OwnStep
      <4> QED BY <3>2, <4>1, ClearKept
    <3>4. CASE Execute
      <4> DEFINE tx == pending[1]
      <4>1. tx = Head(pending) /\ tx.orderType \in OrderTypes
        BY <1>1, <3>1
      <4>2. /\ PricesOf(own'[tx.orderType]) \subseteq PricesOf(own[tx.orderType]) \cup PricesAdded(tx)
            /\ PricesOf(own'[Other(tx.orderType)]) \subseteq PricesOf(own[Other(tx.orderType)])
        BY <3>4, <4>1, ExecuteStep, Zenon
      <4>3. CASE tx.orderType = t
        <5>1. PricesOf(own'[Other(t)]) \subseteq PricesOf(own[Other(t)])
          BY <4>2, <4>3
        <5> QED BY <3>1, <3>2, <5>1 DEF Clear
      <4>4. CASE tx.orderType # t
        <5>1. tx.orderType = Other(t)
          BY <3>2, <4>1, <4>4 DEF Other, OrderTypes
        <5>2. ASSUME NEW x \in P, NEW y \in PricesAdded(tx) PROVE Beyond(Other(t), y, x)
          <6>1. tx.adds # << >>
            BY EmptySeq DEF PricesAdded
          <6>2. tx \in Transactions /\ (tx.by = "volume" \/ tx.by = "filler")
            BY <1>1, <3>1 DEF Transactions
          <6>3. tx.by # "volume"
            BY <3>1, <3>2 DEF VolumeLast
          <6>4. Ladder(tx)
            BY <6>1, <6>2, <6>3 DEF Ladder
          <6>5. tx.orderType # "buy"
            BY <3>1, <3>2, <4>4, <6>4 DEF SellsFirst
          <6>6. tx.orderType = "sell" /\ t = "buy"
            BY <3>2, <4>1, <4>4, <6>5 DEF OrderTypes
          <6>7. x < y
            BY <3>1, <3>2, <6>4, <6>6 DEF SellsAboveBuys
          <6>8. x \in Int /\ y \in Int
            BY <1>1, <3>1, <3>2, <6>2, AddedInts
          <6> QED BY <6>6, <6>7, <6>8 DEF Beyond, Other
        <5>3. PricesOf(own'[Other(t)]) \subseteq PricesOf(own[Other(t)]) \cup PricesAdded(tx)
          BY <4>2, <5>1
        <5> HIDE DEF tx
        <5> QED BY <3>1, <3>2, <5>2, <5>3 DEF Clear
      <4> QED BY <4>3, <4>4
    <3> QED BY <3>3, <3>4
  <2> QED BY <2>3, <2>4, <2>5, <2>6
<1> QED BY <1>2, <1>3, <1>4, <1>5, MempoolStep

\* With prompt blocks and a spread of at least two steps, of a step that "%f" shows, what
\* FillOrderBook has submitted rests when a block executes it: it meets neither the
\* bot's orders nor the walls, whatever MakeVolume, other transactions, failures and
\* restarts have done since the book was read.
THEOREM LadderRestsHolds == PromptBlocks /\ WideSpread => (Spec => []LadderRests)
<1> SUFFICES ASSUME PromptBlocks, WideSpread PROVE Spec => []LadderRests
  OBVIOUS
<1>1. Init => Typed /\ Orderly
  <2> SUFFICES ASSUME Init PROVE Orderly
    BY TypedInit
  <2>1. Len(pending) = 0
    BY EmptySeq DEF Init
  <2> QED BY <2>1 DEF Orderly, SellsFirst, VolumeLast, SellsAboveBuys, LaddersClear
<1>2. Typed /\ Orderly /\ [Next]_vars => (Typed /\ Orderly)'
  BY TypedStep, OrderlyStep
<1>3. Typed /\ Orderly => LadderRests
  <2> SUFFICES ASSUME Sound, Orderly, NEW i \in 1..Len(pending), Ladder(pending[i]),
                      NEW k \in 1..Len(pending[i].adds)
               PROVE  ~Meets([own |-> own, others |-> Walls], pending[i].orderType, pending[i].adds[k].price)
    BY DEF LadderRests, Typed
  <2> DEFINE t == pending[i].orderType
             x == pending[i].adds[k].price
  <2>1. Clear(t, PricesAdded(pending[i]))
    BY DEF Orderly, LaddersClear
  <2>2. x \in PricesAdded(pending[i])
    BY DEF PricesAdded
  <2> HIDE DEF t, x
  <2>3. \A o \in own[Other(t)] \cup Walls[Other(t)] : Beyond(Other(t), o.price, x)
    BY <2>1, <2>2 DEF Clear, PricesOf
  <2>4. ~Meets([own |-> own, others |-> Walls], t, x)
    BY <2>3 DEF Meets
  <2> QED BY <2>4 DEF t, x
<1> QED BY <1>1, <1>2, <1>3, PTL DEF Spec
=============================================================================
