-------------------------- MODULE FillOrdersProofs --------------------------
(***************************************************************************)
(* Proofs about FillOrders, for any book, own orders, start price, step    *)
(* and number of orders: the loop of fillOrders fills the levels it walks  *)
(* over without a hole or a duplicate, counts the bot's orders right, and  *)
(* computes LadderPrices.                                                  *)
(*                                                                         *)
(* The invariant says of some number n of steps outward that the loop has  *)
(* walked over the first n rungs: where it is, what those rungs carry, and *)
(* how many of them counted.                                               *)
(***************************************************************************)
EXTENDS FillOrders, LadderProofs, SequenceTheorems

-----------------------------------------------------------------------------
(* Types *)

\* Amounts are drawn from naturals.
LEMMA AmountType == TypeOK => RandomAmounts \subseteq Nat
<1> SUFFICES ASSUME TypeOK, NEW a \in RandomAmounts PROVE a \in Nat
    OBVIOUS
<1>1. amounts[1] \in Nat /\ amounts[2] \in Nat
    BY ConfigAssumption DEF TypeOK
<1> QED
    BY <1>1 DEF RandomAmounts

\* The inputs and the empty list of messages have their types.
LEMMA TypeInit == Init => TypeOK
    BY ConfigAssumption, PricesAssumption, BooksAssumption DEF Init, TypeOK

\* Every step keeps the types.
LEMMA TypeStep == TypeOK /\ [Next]_vars => TypeOK'
<1> SUFFICES ASSUME TypeOK, [Next]_vars PROVE TypeOK'
    OBVIOUS
<1> USE DEF inputs
<1>1. price \in Int /\ start \in Int /\ Outward(orderType, price, 1) \in Int
    BY StepAssumption, PricesAssumption DEF TypeOK, Outward
<1>2. FirstRung(orderType, start) \in Int
    BY <1>1, Rungs DEF TypeOK
<1>3. Looping => needed - 1 \in 0..NeededOrders
    BY ConfigAssumption DEF TypeOK, Looping
<1>4. CASE Begin
    BY <1>2, <1>4 DEF TypeOK, Begin, Returned
<1>5. CASE SkipOwn
    BY <1>1, <1>3, <1>5 DEF TypeOK, SkipOwn, Looping
<1>6. CASE WrongType
    BY <1>6 DEF TypeOK, WrongType, Returned
<1>7. CASE Place
  <2>1. PICK a \in RandomAmounts : msgs' = Append(msgs, [price |-> price, amount |-> a])
      BY <1>7 DEF Place
  <2>2. [price |-> price, amount |-> a] \in [price : Int, amount : Nat]
      BY <1>1, AmountType
  <2>3. msgs' \in Seq([price : Int, amount : Nat])
      BY <2>1, <2>2, AppendProperties DEF TypeOK
  <2> QED
      BY <2>3, <1>1, <1>3, <1>7 DEF TypeOK, Place, Scanned
<1>8. CASE AmountPanics
    BY <1>8 DEF TypeOK, AmountPanics, Returned
<1>9. CASE SkipExisting
    BY <1>1, <1>9 DEF TypeOK, SkipExisting
<1>10. CASE Finish
    BY <1>10 DEF TypeOK, Finish, Returned
<1>11. CASE Submit
    BY <1>11 DEF TypeOK, Submit, Returned
<1>12. CASE Done \/ UNCHANGED vars
    BY <1>12 DEF TypeOK, Done, vars
<1> QED
    BY <1>4, <1>5, <1>6, <1>7, <1>8, <1>9, <1>10, <1>11, <1>12 DEF Next

\* The loop never counts below zero, and its messages are orders.
THEOREM FillTypeCorrect == Spec => []TypeOK
    BY TypeInit, TypeStep, PTL DEF Spec

-----------------------------------------------------------------------------
(* The scan of the book *)

\* On a sorted list of one type the scan finds an order at the price exactly if
\* there is one, although it stops at the first order that is not better.
LEMMA ScanFinds ==
    ASSUME TypeOK, Sorted, ~ScanFails
    PROVE  ShouldPlace <=> price \notin ExistingPrices
<1>1. ASSUME price \notin ExistingPrices PROVE ShouldPlace
    BY <1>1 DEF ShouldPlace, ExistingPrices
<1>2. ASSUME NEW k \in 1..Len(existing), existing[k].price = price PROVE ~ShouldPlace
  <2> DEFINE S == {i \in 1..Len(existing) : Stops(i)}
  <2>1. Len(existing) \in Nat
      BY DEF TypeOK
  <2>2. k \in S /\ S \subseteq Nat
      BY <1>2, <2>1 DEF Stops
  <2>3. PICK i \in S : \A j \in S : ~(j < i)
      BY <2>2, LeastNatural
  <2>4. StopsAt(i)
      BY <2>1, <2>3 DEF StopsAt
  <2>5. existing[i].orderType = orderType
      BY <2>1, <2>3, <2>4 DEF ScanFails
  <2>6. CASE i = k
      BY <2>4, <2>6, <1>2 DEF ShouldPlace
  <2>7. CASE i # k
    <3>1. i < k
        BY <2>1, <2>2, <2>3, <2>7
    <3>2. Beyond(orderType, price, existing[i].price)
        BY <3>1, <2>3, <1>2 DEF Sorted
    <3>3. existing[i] \in AggregatedOrder /\ price \in Int
        BY <2>1, <2>3 DEF TypeOK
    <3>4. existing[i].price \in Int
      <4>1. existing[i].price \in Prices
          BY <3>3 DEF AggregatedOrder
      <4>2. Prices \subseteq Int
          BY PricesAssumption
      <4> QED
          BY <4>1, <4>2
    <3>5. ~Beyond(orderType, existing[i].price, price)
        BY <3>2, <3>3, <3>4 DEF Beyond
    <3>6. existing[i].price = price
        BY <2>3, <2>5, <3>5 DEF Stops
    <3> QED
        BY <3>6, <2>3, <2>4 DEF ShouldPlace
  <2> QED
      BY <2>6, <2>7
<1> QED
    BY <1>1, <1>2 DEF ExistingPrices

-----------------------------------------------------------------------------
(* The invariant *)

R(k) == Rung(orderType, start, k)

\* Rungs with an own order, and rungs that count as the bot's once the loop has
\* passed them.
OwnRungs == {k \in Nat : R(k) \in excluded}
CountedRungs == {k \in Nat : R(k) \in excluded \/ R(k) \notin ExistingPrices}

Own(n) == {k \in 0..(n - 1) : k \in OwnRungs}
Counted(n) == {k \in 0..(n - 1) : k \in CountedRungs}

\* The loop has walked over n rungs: all carry an order, the new orders are among
\* them, and what is needed is what they did not count; more was needed at each.
Walked(n) ==
    /\ price = R(n)
    /\ \A k \in 0..(n - 1) : R(k) \in excluded \cup ExistingPrices \cup MsgPrices
    /\ \A i \in 1..Len(msgs) : \E k \in 0..(n - 1) : msgs[i].price = R(k)
    /\ Cardinality(Own(n)) + Len(msgs) + needed = NeededOrders
    /\ Cardinality(Counted(n)) + needed = NeededOrders
    /\ \A k \in 0..(n - 1) : Cardinality(Counted(k)) < NeededOrders

\* Before the loop, or without it.
NotStarted ==
    NeededOrders <= 0 \/ pc = "start" =>
        pc \in {"start", "nothing"} /\ msgs = << >> /\ needed = NeededOrders /\ price = start

Walking ==
    NeededOrders > 0 /\ pc # "start" => needed >= 0 /\ \E n \in Nat : Walked(n)

EndedRight == Ended /\ NeededOrders > 0 => needed <= 0 \/ price <= 0

IInv ==
    /\ TypeOK
    /\ Sorted
    /\ FreshLevels
    /\ NotStarted
    /\ Walking
    /\ EndedRight

-----------------------------------------------------------------------------
(* The invariant is inductive *)

\* What only depends on the inputs stays while they do.
LEMMA InputsKept ==
    ASSUME UNCHANGED inputs
    PROVE  /\ \A k \in Int : R(k)' = R(k)
           /\ OwnRungs' = OwnRungs
           /\ CountedRungs' = CountedRungs
           /\ ExistingPrices' = ExistingPrices
           /\ Sorted' = Sorted
<1>1. orderType' = orderType /\ existing' = existing /\ excluded' = excluded /\ start' = start
    BY DEF inputs
<1>2. \A k \in Int : R(k)' = R(k)
    BY <1>1 DEF R
<1>3. ExistingPrices' = ExistingPrices
    BY <1>1 DEF ExistingPrices
<1>4. OwnRungs' = OwnRungs
    BY <1>1, <1>2 DEF OwnRungs
<1>5. CountedRungs' = CountedRungs
    BY <1>1, <1>2, <1>3 DEF CountedRungs
<1>6. Sorted' = Sorted
    BY <1>1 DEF Sorted
<1> QED
    BY <1>2, <1>3, <1>4, <1>5, <1>6

\* A rung more adds one to a count it belongs to.
LEMMA Counts ==
    ASSUME NEW n \in Nat
    PROVE  /\ Cardinality(Own(n)) \in Nat
           /\ n \in OwnRungs => Cardinality(Own(n + 1)) = Cardinality(Own(n)) + 1
           /\ n \notin OwnRungs => Cardinality(Own(n + 1)) = Cardinality(Own(n))
           /\ Cardinality(Counted(n)) \in Nat
           /\ n \in CountedRungs => Cardinality(Counted(n + 1)) = Cardinality(Counted(n)) + 1
           /\ n \notin CountedRungs => Cardinality(Counted(n + 1)) = Cardinality(Counted(n))
<1>1. 0..((n + 1) - 1) = 0..n
    OBVIOUS
<1>2. Own(n + 1) = {k \in 0..n : k \in OwnRungs}
    BY <1>1, Zenon DEF Own
<1>3. Own(n) = {k \in 0..(n - 1) : k \in OwnRungs}
    BY DEF Own
<1>4. Counted(n + 1) = {k \in 0..n : k \in CountedRungs}
    BY <1>1, Zenon DEF Counted
<1>5. Counted(n) = {k \in 0..(n - 1) : k \in CountedRungs}
    BY DEF Counted
<1>6. /\ Cardinality({k \in 0..(n - 1) : k \in OwnRungs}) \in Nat
      /\ n \in OwnRungs => Cardinality({k \in 0..n : k \in OwnRungs}) = Cardinality({k \in 0..(n - 1) : k \in OwnRungs}) + 1
      /\ n \notin OwnRungs => Cardinality({k \in 0..n : k \in OwnRungs}) = Cardinality({k \in 0..(n - 1) : k \in OwnRungs})
    BY CountRungs, ZenonT(30)
<1>7. /\ Cardinality({k \in 0..(n - 1) : k \in CountedRungs}) \in Nat
      /\ n \in CountedRungs => Cardinality({k \in 0..n : k \in CountedRungs}) = Cardinality({k \in 0..(n - 1) : k \in CountedRungs}) + 1
      /\ n \notin CountedRungs => Cardinality({k \in 0..n : k \in CountedRungs}) = Cardinality({k \in 0..(n - 1) : k \in CountedRungs})
    BY CountRungs, ZenonT(30)
<1> QED
    BY <1>2, <1>3, <1>4, <1>5, <1>6, <1>7, Zenon

\* One rung more: what it carries and how it counted.
LEMMA NextRung ==
    ASSUME TypeOK, TypeOK', UNCHANGED inputs, needed > 0,
           NEW n \in Nat, Walked(n),
           price' = Outward(orderType, price, 1),
           price \in excluded \cup ExistingPrices \cup MsgPrices',
           MsgPrices \subseteq MsgPrices',
           \A p \in MsgPrices' : p \in MsgPrices \/ p = price,
           needed' = IF n \in CountedRungs THEN needed - 1 ELSE needed,
           Len(msgs') + needed' = IF n \in OwnRungs THEN Len(msgs) + needed - 1
                                  ELSE Len(msgs) + needed
    PROVE  Walked(n + 1)'
<1>1. orderType \in OrderTypes /\ start \in Int
    BY PricesAssumption DEF TypeOK
<1>2. \A k \in Int : R(k)' = R(k) /\ R(k + 1) = Outward(orderType, R(k), 1)
    BY <1>1, Rungs, InputsKept DEF R
<1>3. needed \in Int /\ needed' \in Int /\ Len(msgs) \in Nat /\ Len(msgs') \in Nat /\ NeededOrders \in Int
    BY ConfigAssumption DEF TypeOK
<1>4. price' = R(n + 1)'
    BY <1>2 DEF Walked
<1>5. \A k \in 0..n : R(k)' \in (excluded \cup ExistingPrices \cup MsgPrices)'
  <2>1. excluded' = excluded /\ ExistingPrices' = ExistingPrices
      BY InputsKept DEF inputs
  <2> TAKE k \in 0..n
  <2>2. R(k) \in excluded \cup ExistingPrices \cup MsgPrices'
    <3>1. CASE k = n
        BY <3>1 DEF Walked
    <3>2. CASE k # n
      <4>1. k \in 0..(n - 1)
          BY <3>2
      <4> QED
          BY <4>1 DEF Walked
    <3> QED
        BY <3>1, <3>2
  <2> QED
      BY <1>2, <2>1, <2>2
<1>6. \A i \in 1..Len(msgs') : \E k \in 0..n : msgs'[i].price = R(k)'
  <2> TAKE i \in 1..Len(msgs')
  <2>1. msgs'[i].price \in MsgPrices'
      BY DEF MsgPrices
  <2>2. CASE msgs'[i].price \in MsgPrices
    <3>1. PICK j \in 1..Len(msgs) : msgs'[i].price = msgs[j].price
        BY <2>2 DEF MsgPrices
    <3>2. PICK k \in 0..(n - 1) : msgs[j].price = R(k)
        BY <3>1 DEF Walked
    <3> QED
        BY <3>1, <3>2, <1>2
  <2>3. CASE msgs'[i].price = price
      BY <2>3, <1>2 DEF Walked
  <2> QED
      BY <2>1, <2>2, <2>3
<1>7. \A k \in 0..n : Counted(k)' = Counted(k) /\ Own(k)' = Own(k)
    BY InputsKept DEF Counted, Own
<1>8. Counted(n + 1)' = Counted(n + 1) /\ Own(n + 1)' = Own(n + 1)
    BY InputsKept DEF Counted, Own
<1>9. (n + 1) - 1 = n
    OBVIOUS
<1>10. /\ Cardinality(Own(n)) \in Nat
       /\ n \in OwnRungs => Cardinality(Own(n + 1)) = Cardinality(Own(n)) + 1
       /\ n \notin OwnRungs => Cardinality(Own(n + 1)) = Cardinality(Own(n))
    BY Counts
<1>11. /\ Cardinality(Counted(n)) \in Nat
       /\ n \in CountedRungs => Cardinality(Counted(n + 1)) = Cardinality(Counted(n)) + 1
       /\ n \notin CountedRungs => Cardinality(Counted(n + 1)) = Cardinality(Counted(n))
    BY Counts
<1>12. Cardinality(Own(n + 1)) + Len(msgs') + needed' = NeededOrders
  <2>1. Cardinality(Own(n)) + Len(msgs) + needed = NeededOrders
      BY DEF Walked
  <2>2. CASE n \in OwnRungs
    <3>1. Len(msgs') + needed' = Len(msgs) + needed - 1
        BY <2>2
    <3>2. Cardinality(Own(n + 1)) = Cardinality(Own(n)) + 1
        BY <2>2, <1>10
    <3> QED
        BY <2>1, <3>1, <3>2, <1>3, <1>10, SMTT(30)
  <2>3. CASE n \notin OwnRungs
    <3>1. Len(msgs') + needed' = Len(msgs) + needed
        BY <2>3
    <3>2. Cardinality(Own(n + 1)) = Cardinality(Own(n))
        BY <2>3, <1>10
    <3> QED
        BY <2>1, <3>1, <3>2, <1>3, <1>10, SMTT(30)
  <2> QED
      BY <2>2, <2>3
<1>13. Cardinality(Counted(n + 1)) + needed' = NeededOrders
  <2>1. Cardinality(Counted(n)) + needed = NeededOrders
      BY DEF Walked
  <2>2. CASE n \in CountedRungs
    <3>1. needed' = needed - 1 /\ Cardinality(Counted(n + 1)) = Cardinality(Counted(n)) + 1
        BY <2>2, <1>11
    <3> QED
        BY <2>1, <3>1, <1>3, <1>11, SMTT(30)
  <2>3. CASE n \notin CountedRungs
    <3>1. needed' = needed /\ Cardinality(Counted(n + 1)) = Cardinality(Counted(n))
        BY <2>3, <1>11
    <3> QED
        BY <2>1, <3>1, <1>3, <1>11, SMTT(30)
  <2> QED
      BY <2>2, <2>3
<1>14. \A k \in 0..n : Cardinality(Counted(k)) < NeededOrders
  <2> TAKE k \in 0..n
  <2>1. CASE k = n
    <3>1. Cardinality(Counted(n)) + needed = NeededOrders
        BY DEF Walked
    <3> QED
        BY <3>1, <2>1, <1>3, <1>11
  <2>2. CASE k # n
    <3>1. k \in 0..(n - 1)
        BY <2>2
    <3> QED
        BY <3>1 DEF Walked
  <2> QED
      BY <2>1, <2>2
<1> QED
    BY <1>4, <1>5, <1>6, <1>7, <1>8, <1>9, <1>12, <1>13, <1>14 DEF Walked

\* Nothing has been walked over at the start.
LEMMA InvInit == Init => IInv
<1> SUFFICES ASSUME Init PROVE IInv
    OBVIOUS
<1>1. TypeOK
    BY TypeInit
<1>2. FreshLevels
    BY DEF Init, FreshLevels, MsgPrices
<1>3. NotStarted /\ Walking /\ EndedRight /\ Sorted
    BY DEF Init, NotStarted, Walking, EndedRight, Ended
<1> QED
    BY <1>1, <1>2, <1>3 DEF IInv

\* The loop starts at the first rung, with no rung walked over.
LEMMA BeginStep == IInv /\ Begin => IInv'
<1> SUFFICES ASSUME IInv, Begin PROVE IInv'
    OBVIOUS
<1>1. TypeOK /\ TypeOK'
    BY TypeStep DEF IInv, Next
<1>2. UNCHANGED inputs /\ msgs' = msgs /\ needed' = needed /\ msgs = << >> /\ needed = NeededOrders /\ price = start
    BY DEF Begin, IInv, NotStarted
<1>3. Sorted' /\ FreshLevels'
    BY <1>2, InputsKept DEF IInv, FreshLevels, MsgPrices
<1>4. NeededOrders \in Int
    BY ConfigAssumption
<1>5. CASE NeededOrders <= 0
  <2>1. pc' = "nothing" /\ price' = price /\ start' = start
      BY <1>2, <1>5 DEF Begin, inputs
  <2> QED
      BY <2>1, <1>1, <1>2, <1>3, <1>4, <1>5 DEF IInv, NotStarted, Walking, EndedRight
<1>6. CASE NeededOrders > 0
  <2>1. pc' = "loop" /\ price' = FirstRung(orderType, start)
      BY <1>4, <1>6 DEF Begin
  <2>2. orderType \in OrderTypes /\ start \in Int /\ orderType' = orderType /\ start' = start
      BY <1>1, <1>2, PricesAssumption DEF TypeOK, inputs
  <2>3. price' = R(0)'
      BY <2>1, <2>2, Rungs DEF R
  <2>4. 0..(0 - 1) = {}
      OBVIOUS
  <2>5. Own(0)' = {} /\ Counted(0)' = {}
      BY <2>4 DEF Own, Counted
  <2>6. Cardinality({}) = 0
      BY FS_EmptySet
  <2>7. Walked(0)'
    <3>1. Len(msgs') = 0 /\ 1..Len(msgs') = {} /\ needed' = NeededOrders
        BY <1>2
    <3>2. Cardinality(Own(0)') = 0 /\ Cardinality(Counted(0)') = 0
        BY <2>5, <2>6
    <3>3. /\ Cardinality(Own(0)') + Len(msgs') + needed' = NeededOrders
          /\ Cardinality(Counted(0)') + needed' = NeededOrders
        BY <3>1, <3>2, <1>4
    <3> QED
        BY <2>3, <2>4, <3>1, <3>3 DEF Walked
  <2>8. needed' >= 0
      BY <1>2, <1>4, <1>6
  <2>9. Walking'
      BY <2>7, <2>8 DEF Walking
  <2> QED
      BY <2>1, <2>9, <1>1, <1>3, <1>4, <1>6 DEF IInv, NotStarted, EndedRight, Ended
<1> QED
    BY <1>4, <1>5, <1>6

\* A step of the loop that goes on keeps the parts of the invariant that are not
\* about the new rung.
LEMMA StillLooping ==
    ASSUME IInv, TypeOK', Looping, pc' = pc, UNCHANGED inputs, FreshLevels', Walking'
    PROVE  IInv'
<1>1. pc = "loop" /\ pc' = "loop" /\ NeededOrders > 0
  <2>1. NeededOrders \in Int /\ (NeededOrders <= 0 => FALSE)
      BY ConfigAssumption DEF IInv, NotStarted, Looping
  <2> QED
      BY <2>1 DEF Looping
<1>2. Sorted' /\ ~Ended' /\ NeededOrders \in Int
    BY <1>1, InputsKept, ConfigAssumption DEF IInv, Ended
<1> QED
    BY <1>1, <1>2 DEF IInv, NotStarted, EndedRight

\* The rung the loop is at.
LEMMA AtRung ==
    ASSUME IInv, Looping
    PROVE  /\ NeededOrders > 0 /\ needed \in Int /\ needed > 0
           /\ \E n \in Nat : Walked(n)
           /\ \A n \in Nat : Walked(n) =>
                /\ (n \in OwnRungs <=> price \in excluded)
                /\ (n \in CountedRungs <=> price \in excluded \/ price \notin ExistingPrices)
<1>1. NeededOrders \in Int /\ (NeededOrders <= 0 => FALSE)
    BY ConfigAssumption DEF IInv, NotStarted, Looping
<1>2. needed \in Int /\ needed > 0
    BY ConfigAssumption DEF IInv, TypeOK, Looping
<1>3. \E n \in Nat : Walked(n)
    BY <1>1 DEF IInv, Walking, Looping
<1>4. ASSUME NEW n \in Nat, Walked(n)
      PROVE  /\ (n \in OwnRungs <=> price \in excluded)
             /\ (n \in CountedRungs <=> price \in excluded \/ price \notin ExistingPrices)
    BY <1>4 DEF Walked, OwnRungs, CountedRungs
<1> QED
    BY <1>1, <1>2, <1>3, <1>4

\* A rung with an own order counts and gets no order.
LEMMA SkipOwnStep == IInv /\ SkipOwn => IInv'
<1> SUFFICES ASSUME IInv, SkipOwn PROVE IInv'
    OBVIOUS
<1>1. TypeOK /\ TypeOK'
    BY TypeStep DEF IInv, Next
<1>2. /\ Looping /\ price \in excluded /\ UNCHANGED inputs /\ msgs' = msgs /\ pc' = pc
      /\ price' = Outward(orderType, price, 1) /\ needed' = needed - 1
    BY DEF SkipOwn
<1>3. FreshLevels' /\ MsgPrices' = MsgPrices
    BY <1>2, InputsKept DEF IInv, FreshLevels, MsgPrices, inputs
<1>4. PICK n \in Nat : Walked(n)
    BY <1>2, AtRung
<1>5. needed \in Int /\ needed > 0 /\ n \in OwnRungs /\ n \in CountedRungs /\ Len(msgs) \in Nat
    BY <1>1, <1>2, <1>4, AtRung DEF TypeOK
<1>6. Len(msgs') + needed' = Len(msgs) + needed - 1
    BY <1>2, <1>5
<1>7. Walked(n + 1)'
    BY <1>1, <1>2, <1>3, <1>4, <1>5, <1>6, NextRung
<1>8. Walking'
    BY <1>2, <1>5, <1>7 DEF Walking
<1> QED
    BY <1>1, <1>2, <1>3, <1>8, StillLooping

\* A rung with an order of someone else does not count and gets no order.
LEMMA SkipExistingStep == IInv /\ SkipExisting => IInv'
<1> SUFFICES ASSUME IInv, SkipExisting PROVE IInv'
    OBVIOUS
<1>1. TypeOK /\ TypeOK'
    BY TypeStep DEF IInv, Next
<1>2. /\ Looping /\ price \notin excluded /\ UNCHANGED inputs /\ msgs' = msgs /\ pc' = pc
      /\ price' = Outward(orderType, price, 1) /\ needed' = needed
    BY DEF SkipExisting, Scanned
<1>3. FreshLevels' /\ MsgPrices' = MsgPrices
    BY <1>2, InputsKept DEF IInv, FreshLevels, MsgPrices, inputs
<1>4. price \in ExistingPrices
    BY ScanFinds DEF IInv, SkipExisting, Scanned
<1>5. PICK n \in Nat : Walked(n)
    BY <1>2, AtRung
<1>6. needed \in Int /\ needed > 0 /\ n \notin OwnRungs /\ n \notin CountedRungs /\ Len(msgs) \in Nat
    BY <1>1, <1>2, <1>4, <1>5, AtRung DEF TypeOK
<1>7. Walked(n + 1)'
    BY <1>1, <1>2, <1>3, <1>4, <1>5, <1>6, NextRung
<1>8. Walking'
    BY <1>2, <1>6, <1>7 DEF Walking
<1> QED
    BY <1>1, <1>2, <1>3, <1>8, StillLooping

\* A free rung counts and gets an order.
LEMMA PlaceStep == IInv /\ Place => IInv'
<1> SUFFICES ASSUME IInv, Place PROVE IInv'
    OBVIOUS
<1>1. TypeOK /\ TypeOK'
    BY TypeStep DEF IInv, Next
<1>2. /\ Looping /\ price \notin excluded /\ price > 0 /\ UNCHANGED inputs /\ pc' = pc
      /\ price' = Outward(orderType, price, 1) /\ needed' = needed - 1
    BY DEF Place, Scanned
<1>3. price \notin ExistingPrices
    BY ScanFinds DEF IInv, Place, Scanned
<1>4. PICK a \in RandomAmounts : msgs' = Append(msgs, [price |-> price, amount |-> a])
    BY DEF Place
<1>5. /\ Len(msgs) \in Nat /\ Len(msgs') = Len(msgs) + 1
      /\ \A i \in 1..Len(msgs) : msgs'[i] = msgs[i]
      /\ msgs'[Len(msgs) + 1].price = price
  <2> DEFINE m == [price |-> price, amount |-> a]
  <2>1. m \in [price : Int, amount : Nat] /\ m.price = price
      BY <1>1, <1>4, AmountType DEF TypeOK
  <2>2. msgs \in Seq([price : Int, amount : Nat]) /\ msgs' = Append(msgs, m)
      BY <1>1, <1>4 DEF TypeOK
  <2> HIDE DEF m
  <2> QED
      BY <2>1, <2>2, AppendProperties
<1>6. MsgPrices \subseteq MsgPrices' /\ MsgPrices' = MsgPrices \cup {price}
  <2>1. \A i \in 1..Len(msgs') : i \in 1..Len(msgs) \/ i = Len(msgs) + 1
      BY <1>5
  <2>2. \A i \in 1..Len(msgs) : i \in 1..Len(msgs')
      BY <1>5
  <2>3. Len(msgs) + 1 \in 1..Len(msgs')
      BY <1>5
  <2> QED
      BY <2>1, <2>2, <2>3, <1>5 DEF MsgPrices
<1>7. PICK n \in Nat : Walked(n)
    BY <1>2, AtRung
<1>8. needed \in Int /\ needed > 0 /\ n \notin OwnRungs /\ n \in CountedRungs
    BY <1>2, <1>3, <1>7, AtRung
<1>9. Len(msgs') + needed' = Len(msgs) + needed
    BY <1>2, <1>5, <1>8
<1>10. Walked(n + 1)'
    BY <1>1, <1>2, <1>6, <1>7, <1>8, <1>9, NextRung
<1>11. Walking'
    BY <1>2, <1>8, <1>10 DEF Walking
<1>12. \A i \in 1..Len(msgs) : msgs[i].price # price
  <2>1. orderType \in OrderTypes /\ start \in Int
      BY <1>1, PricesAssumption DEF TypeOK
  <2>2. \A k \in 0..(n - 1) : R(k) # R(n)
      BY <2>1, Rungs DEF R, Beyond
  <2> QED
      BY <2>2, <1>7 DEF Walked
<1>13. FreshLevels'
  <2>1. \A i, j \in 1..Len(msgs') : i # j => msgs'[i].price # msgs'[j].price
    <3>1. \A i \in 1..Len(msgs') : i \in 1..Len(msgs) \/ i = Len(msgs) + 1
        BY <1>5
    <3> QED
        BY <3>1, <1>5, <1>12 DEF IInv, FreshLevels
  <2>2. MsgPrices' \cap (excluded \cup ExistingPrices)' = {}
      BY <1>2, <1>3, <1>6, InputsKept DEF IInv, FreshLevels, inputs
  <2>3. \A p \in MsgPrices' : p > 0
      BY <1>2, <1>6 DEF IInv, FreshLevels
  <2> QED
      BY <2>1, <2>2, <2>3 DEF FreshLevels
<1> QED
    BY <1>1, <1>2, <1>11, <1>13, StillLooping

\* Steps that leave the loop, or that nothing follows, keep what it has built.
LEMMA LeavingStep ==
    IInv /\ (WrongType \/ AmountPanics \/ Finish \/ Submit \/ Done \/ UNCHANGED vars) => IInv'
<1> SUFFICES ASSUME IInv, WrongType \/ AmountPanics \/ Finish \/ Submit \/ Done \/ UNCHANGED vars
             PROVE  IInv'
    OBVIOUS
<1>1. TypeOK /\ TypeOK'
    BY TypeStep DEF IInv, Next
<1>2. UNCHANGED <<inputs, price, needed, msgs>>
    BY DEF WrongType, AmountPanics, Finish, Submit, Done, vars
<1>3. Sorted' /\ FreshLevels'
    BY <1>2, InputsKept DEF IInv, FreshLevels, MsgPrices, inputs
<1>4. \A n \in Nat : Walked(n)' <=> Walked(n)
  <2> TAKE n \in Nat
  <2>1. /\ \A k \in Int : R(k)' = R(k)
        /\ ExistingPrices' = ExistingPrices /\ excluded' = excluded /\ MsgPrices' = MsgPrices
      BY <1>2, InputsKept DEF inputs, MsgPrices
  <2>2. \A k \in Nat : Own(k)' = Own(k) /\ Counted(k)' = Counted(k)
      BY <1>2, InputsKept DEF Own, Counted
  <2>3. n \in Int /\ \A k \in 0..(n - 1) : k \in Int /\ k \in Nat
      OBVIOUS
  <2>4. R(n)' = R(n) /\ \A k \in 0..(n - 1) : R(k)' = R(k)
      BY <2>1, <2>3
  <2>5. /\ (\A k \in 0..(n - 1) : R(k) \in excluded \cup ExistingPrices \cup MsgPrices)' <=>
            \A k \in 0..(n - 1) : R(k) \in excluded \cup ExistingPrices \cup MsgPrices
        /\ (\A i \in 1..Len(msgs) : \E k \in 0..(n - 1) : msgs[i].price = R(k))' <=>
            \A i \in 1..Len(msgs) : \E k \in 0..(n - 1) : msgs[i].price = R(k)
      BY <1>2, <2>1, <2>4
  <2>6. (\A k \in 0..(n - 1) : Cardinality(Counted(k)) < NeededOrders)' <=>
            \A k \in 0..(n - 1) : Cardinality(Counted(k)) < NeededOrders
      BY <2>2, <2>3
  <2>7. /\ (Cardinality(Own(n)) + Len(msgs) + needed = NeededOrders)' <=>
            Cardinality(Own(n)) + Len(msgs) + needed = NeededOrders
        /\ (Cardinality(Counted(n)) + needed = NeededOrders)' <=>
            Cardinality(Counted(n)) + needed = NeededOrders
      BY <1>2, <2>2
  <2> QED
      BY <1>2, <2>4, <2>5, <2>6, <2>7 DEF Walked
<1>5. NeededOrders \in Int /\ needed \in Int /\ price \in Int
    BY <1>1, ConfigAssumption DEF TypeOK
<1>6. NotStarted' /\ Walking'
  <2>1. CASE UNCHANGED pc
      BY <2>1, <1>2, <1>4 DEF IInv, NotStarted, Walking, inputs
  <2>2. CASE pc \in {"loop", "submit"} /\ pc' # "start"
    <3>1. NeededOrders > 0
        BY <2>2, <1>5 DEF IInv, NotStarted
    <3> QED
        BY <3>1, <2>2, <1>2, <1>4, <1>5 DEF IInv, NotStarted, Walking
  <2> QED
      BY <2>1, <2>2 DEF WrongType, AmountPanics, Finish, Submit, Done, Scanned, Looping, vars
<1>7. EndedRight'
  <2>1. CASE Finish
      BY <2>1, <1>2, <1>5 DEF Finish, EndedRight
  <2>2. CASE Submit
      BY <2>2, <1>2 DEF IInv, Submit, EndedRight, Ended
  <2>3. CASE WrongType \/ AmountPanics
      BY <2>3 DEF WrongType, AmountPanics, EndedRight, Ended
  <2>4. CASE Done \/ UNCHANGED vars
      BY <2>4 DEF IInv, Done, EndedRight, Ended, vars
  <2> QED
      BY <2>1, <2>2, <2>3, <2>4
<1> QED
    BY <1>1, <1>3, <1>6, <1>7 DEF IInv

\* The inductive invariant: at each moment there is a number of rungs the loop
\* has walked over, and all that Walked says of them.
THEOREM FillInvariant == Spec => []IInv
<1>1. IInv /\ [Next]_vars => IInv'
    BY BeginStep, SkipOwnStep, SkipExistingStep, PlaceStep, LeavingStep DEF Next
<1> QED
    BY InvInit, <1>1, PTL DEF Spec

\* FreshLevels for every book, own orders and step: no two orders of one call on
\* a level, none on a level that either picture of the market has an order on.
THEOREM FreshLevelsHolds == Spec => []FreshLevels
<1>1. IInv => FreshLevels
    BY DEF IInv
<1> QED
    BY FillInvariant, <1>1, PTL

-----------------------------------------------------------------------------
(* What the loop has left behind it *)

\* The rungs that Visited finds from the price are those the loop walked over.
LEMMA VisitedRungs ==
    ASSUME TypeOK, NEW n \in Nat, price = R(n)
    PROVE  Visited = 0..(n - 1)
<1> DEFINE f == FirstRung(orderType, start)
           d == IF orderType = "buy" THEN f - price ELSE price - f
<1>1. orderType \in OrderTypes /\ start \in Int /\ price \in Int
    BY PricesAssumption DEF TypeOK
<1>2. f \in Int
    BY <1>1, Rungs
<1>3. \A k \in 0..d : Beyond(orderType, price, Rung(orderType, start, k)) <=> k < n
  <2>1. \A j, k \in Int : j < k <=> Beyond(orderType, Rung(orderType, start, k), Rung(orderType, start, j))
      BY <1>1, Rungs
  <2>2. price = Rung(orderType, start, n) /\ n \in Int
      BY DEF R
  <2> HIDE DEF d
  <2> QED
      BY <2>1, <2>2
<1>4. d = n * Step /\ n * Step \in Int /\ n <= n * Step
  <2>1. price = Outward(orderType, f, n)
      BY DEF R, Rung
  <2>2. n * Step \in Int /\ n <= n * Step
      BY StepAssumption
  <2> DEFINE a == n * Step
  <2>3. a \in Int /\ price = IF orderType = "buy" THEN f - a ELSE f + a
      BY <2>1, <2>2 DEF Outward
  <2> HIDE DEF a, f
  <2>4. d = a
      BY <2>3, <1>2
  <2> QED
      BY <2>2, <2>4 DEF a
<1>5. Visited = {k \in 0..d : Beyond(orderType, price, Rung(orderType, start, k))}
    BY Zenon DEF Visited
<1>6. d \in Int /\ n <= d
    BY <1>4
<1> HIDE DEF d, f
<1> QED
    BY <1>3, <1>5, <1>6

\* Before its first step the loop has visited nothing.
LEMMA NothingVisited ==
    ASSUME TypeOK, price = start
    PROVE  Visited = {}
<1>1. orderType \in OrderTypes /\ start \in Int
    BY PricesAssumption DEF TypeOK
<1> DEFINE f == FirstRung(orderType, start)
<1>2. f \in Int /\ \A k \in Nat : Rung(orderType, start, k) \in Int
    BY <1>1, Rungs
<1>3. IF orderType = "buy" THEN f <= start ELSE f >= start
  <2>1. SpreadSteps > 0 => (SpreadSteps \div 2) * Step \in Nat
      BY SpreadAssumption, StepAssumption
  <2> QED
      BY <1>1, <2>1, SpreadAssumption DEF FirstRung, Outward
<1>4. \A k \in Nat : ~Beyond(orderType, price, Rung(orderType, start, k))
  <2> TAKE k \in Nat
  <2>1. k * Step \in Nat
      BY StepAssumption
  <2> DEFINE a == k * Step
  <2>2. Rung(orderType, start, k) = IF orderType = "buy" THEN f - a ELSE f + a
      BY DEF Rung, Outward
  <2>3. a \in Nat
      BY <2>1
  <2> HIDE DEF a, f
  <2> QED
      BY <2>2, <2>3, <1>1, <1>2, <1>3 DEF Beyond
<1> QED
    BY <1>4 DEF Visited

\* NoHole for every book, own orders and step.
THEOREM NoHoleHolds == Spec => []NoHole
<1>1. IInv => NoHole
  <2> SUFFICES ASSUME IInv, pc = "loop" \/ Ended
               PROVE  \A k \in Visited : R(k) \in excluded \cup ExistingPrices \cup MsgPrices
      BY DEF NoHole, R
  <2>1. NeededOrders \in Int /\ TypeOK /\ pc # "start"
      BY ConfigAssumption DEF IInv, Ended
  <2>2. CASE NeededOrders <= 0
    <3>1. Visited = {}
        BY <2>1, <2>2, NothingVisited DEF IInv, NotStarted
    <3> QED
        BY <3>1
  <2>3. CASE NeededOrders > 0
    <3>1. PICK n \in Nat : Walked(n)
        BY <2>1, <2>3 DEF IInv, Walking
    <3>2. Visited = 0..(n - 1)
        BY <2>1, <3>1, VisitedRungs DEF Walked
    <3> QED
        BY <3>1, <3>2 DEF Walked
  <2> QED
      BY <2>1, <2>2, <2>3
<1> QED
    BY FillInvariant, <1>1, PTL

\* Quota for every book, own orders and step: the loop counts exactly the bot's
\* orders on the levels it walked over.
THEOREM QuotaHolds == Spec => []Quota
<1>1. IInv => Quota
  <2> SUFFICES ASSUME IInv, pc = "loop" \/ (Ended /\ NeededOrders > 0)
               PROVE  LET own == Cardinality({k \in Visited : Rung(orderType, start, k) \in excluded})
                      IN  /\ pc = "loop" => own + Len(msgs) + needed = NeededOrders
                          /\ Ended => own + Len(msgs) = NeededOrders \/ price <= 0
      BY DEF Quota
  <2>1. NeededOrders \in Int /\ TypeOK /\ pc # "start" /\ NeededOrders > 0
    <3>1. NeededOrders \in Int /\ TypeOK /\ pc # "start"
        BY ConfigAssumption DEF IInv, Ended
    <3> QED
        BY <3>1 DEF IInv, NotStarted
  <2>2. PICK n \in Nat : Walked(n)
      BY <2>1 DEF IInv, Walking
  <2>3. Visited = 0..(n - 1)
      BY <2>1, <2>2, VisitedRungs DEF Walked
  <2>4. {k \in Visited : Rung(orderType, start, k) \in excluded} = Own(n)
      BY <2>3 DEF Own, OwnRungs, R
  <2>5. Cardinality(Own(n)) + Len(msgs) + needed = NeededOrders /\ Cardinality(Own(n)) \in Nat
      BY <2>2, Counts DEF Walked
  <2>6. Ended => needed = 0 \/ price <= 0
    <3>1. needed >= 0 /\ needed \in Int
        BY <2>1 DEF IInv, Walking, TypeOK
    <3> QED
        BY <3>1, <2>1 DEF IInv, EndedRight
  <2>7. Len(msgs) \in Nat
      BY <2>1 DEF TypeOK
  <2>8. /\ pc = "loop" => Cardinality(Own(n)) + Len(msgs) + needed = NeededOrders
        /\ Ended => Cardinality(Own(n)) + Len(msgs) = NeededOrders \/ price <= 0
      BY <2>5, <2>6, <2>7
  <2> QED
      BY <2>4, <2>8, Zenon
<1> QED
    BY FillInvariant, <1>1, PTL

\* The book has room for the rungs that did not count: each carries an order of
\* someone else, and no two the same.
LEMMA WalkBounded ==
    ASSUME TypeOK, NEW n \in Nat, Walked(n), NeededOrders > 0, needed >= 0
    PROVE  /\ IsFiniteSet(ExistingPrices)
           /\ Cardinality(ExistingPrices) \in Nat
           /\ n <= NeededOrders + Cardinality(ExistingPrices)
<1> DEFINE I == 0..(n - 1)
           U == I \ Counted(n)
<1>1. IsFiniteSet(ExistingPrices) /\ Cardinality(ExistingPrices) \in Nat
  <2> DEFINE D == 1..Len(existing)
             f == [i \in D |-> existing[i].price]
  <2>1. IsFiniteSet(D)
      BY FS_Interval DEF TypeOK
  <2>2. f \in Surjection(D, ExistingPrices)
      BY DEF Surjection, ExistingPrices
  <2>3. IsFiniteSet(ExistingPrices)
    <3> HIDE DEF D, f
    <3> QED
        BY <2>1, <2>2, FS_Surjection
  <2> QED
      BY <2>3, FS_CardinalityType
<1>2. IsFiniteSet(I) /\ Cardinality(I) = n
  <2>1. 0 \in Int /\ n - 1 \in Int /\ (0 > n - 1 => n = 0) /\ (~(0 > n - 1) => (n - 1) - 0 + 1 = n)
      OBVIOUS
  <2>2. /\ IsFiniteSet(0..(n - 1))
        /\ 0 > n - 1 => Cardinality(0..(n - 1)) = 0
        /\ ~(0 > n - 1) => Cardinality(0..(n - 1)) = (n - 1) - 0 + 1
      BY <2>1, FS_Interval, Zenon
  <2> QED
      BY <2>1, <2>2, Zenon
<1>3. I \cap Counted(n) = Counted(n)
    BY DEF Counted
<1>4. IsFiniteSet(U) /\ Cardinality(U) = n - Cardinality(Counted(n))
  <2> HIDE DEF I
  <2> QED
      BY <1>2, <1>3, FS_Difference
<1>5. Cardinality(U) <= Cardinality(ExistingPrices)
  <2> DEFINE g == [k \in U |-> R(k)]
  <2>1. \A k \in U : R(k) \in ExistingPrices /\ k \in Int
      BY DEF Counted, CountedRungs
  <2>2. \A j, k \in U : R(j) = R(k) => j = k
    <3>1. orderType \in OrderTypes /\ start \in Int
        BY PricesAssumption DEF TypeOK
    <3>2. /\ \A k \in Int : R(k) \in Int
          /\ \A j, k \in Int : j < k <=> Beyond(orderType, R(k), R(j))
        BY <3>1, Rungs DEF R
    <3> TAKE j, k \in U
    <3>3. j \in Int /\ k \in Int
        BY <2>1
    <3>4. R(j) = R(k) => ~(j < k) /\ ~(k < j)
        BY <3>2, <3>3 DEF Beyond
    <3> QED
        BY <3>3, <3>4
  <2> HIDE DEF U
  <2>3. g \in [U -> ExistingPrices] /\ \A j, k \in U : g[j] = g[k] => j = k
      BY <2>1, <2>2
  <2>4. g \in Injection(U, ExistingPrices)
    <3> HIDE DEF g
    <3> QED
        BY <2>3, Fun_IsInj
  <2> HIDE DEF g
  <2> QED
      BY <2>4, <1>1, FS_Injection
<1>6. Cardinality(Counted(n)) + needed = NeededOrders /\ Cardinality(Counted(n)) \in Nat
    BY Counts DEF Walked
<1>7. NeededOrders \in Int /\ needed \in Int
    BY ConfigAssumption DEF TypeOK
<1> HIDE DEF U
<1> QED
    BY <1>1, <1>4, <1>5, <1>6, <1>7

\* The loop had a reason to go on at every rung it walked over.
LEMMA WalkedRungs ==
    ASSUME TypeOK, FreshLevels, NEW n \in Nat, Walked(n), NEW j \in 0..(n - 1)
    PROVE  /\ Cardinality(Counted(j)) < NeededOrders /\ Cardinality(Counted(j)) \in Nat
           /\ R(j) > 0 /\ R(j) \in Int
<1>1. j \in Nat
    OBVIOUS
<1>2. Cardinality(Counted(j)) < NeededOrders
    BY DEF Walked
<1>3. Cardinality(Counted(j)) \in Nat
    BY <1>1, Counts
<1>4. R(j) \in Int
  <2>1. orderType \in OrderTypes /\ start \in Int
      BY PricesAssumption DEF TypeOK
  <2> QED
      BY <2>1, <1>1, Rungs DEF R
<1>5. \A p \in excluded \cup ExistingPrices : p > 0
  <2>1. \A i \in 1..Len(existing) : existing[i] \in AggregatedOrder
      BY DEF TypeOK
  <2>2. \A i \in 1..Len(existing) : existing[i].price \in Prices
      BY <2>1 DEF AggregatedOrder
  <2>3. ExistingPrices \subseteq Prices /\ excluded \subseteq Prices
      BY <2>2 DEF TypeOK, ExistingPrices
  <2>4. \A p \in Prices : p > 0
      BY PricesAssumption
  <2> QED
      BY <2>3, <2>4
<1>6. \A p \in MsgPrices : p > 0
    BY DEF FreshLevels
<1>7. R(j) > 0
  <2>1. R(j) \in excluded \cup ExistingPrices \cup MsgPrices
      BY DEF Walked
  <2> QED
      BY <2>1, <1>5, <1>6
<1> QED
    BY <1>2, <1>3, <1>4, <1>7

\* MatchesLadder for every book, own orders, start price and step: the loop
\* places exactly the orders of LadderPrices.
THEOREM MatchesLadderHolds == Spec => []MatchesLadder
<1> DEFINE B == ExistingPrices
           counts(k) == LET p == Rung(orderType, start, k) IN p \in excluded \/ p \notin B
           ends(k) == \/ Cardinality({i \in 0..(k - 1) : counts(i)}) >= NeededOrders
                      \/ Rung(orderType, start, k) <= 0
           last == CHOOSE k \in 0..(NeededOrders + Cardinality(B)) :
                       ends(k) /\ \A j \in 0..(k - 1) : ~ends(j)
           Goal == LadderPrices(orderType, ExistingPrices, excluded, start, NeededOrders)
<1>1. Goal = IF NeededOrders <= 0 THEN {}
             ELSE {Rung(orderType, start, i) : i \in 0..(last - 1)} \ (excluded \cup B)
    BY Zenon DEF LadderPrices
<1>2. IInv => MatchesLadder
  <2> SUFFICES ASSUME IInv, Ended PROVE MsgPrices = Goal
      BY DEF MatchesLadder
  <2>1. NeededOrders \in Int /\ TypeOK /\ pc # "start"
      BY ConfigAssumption DEF IInv, Ended
  <2>2. CASE NeededOrders <= 0
    <3>1. msgs = << >>
        BY <2>2 DEF IInv, NotStarted
    <3>2. MsgPrices = {}
        BY <3>1 DEF MsgPrices
    <3> QED
        BY <1>1, <2>2, <3>2
  <2>3. CASE NeededOrders > 0
    <3>1. needed >= 0 /\ needed \in Int /\ (needed <= 0 \/ price <= 0) /\ price \in Int
        BY <2>1, <2>3 DEF IInv, Walking, EndedRight, TypeOK
    <3>2. PICK n \in Nat : Walked(n)
        BY <2>1, <2>3 DEF IInv, Walking
    <3>3. \A k \in Nat : {i \in 0..(k - 1) : counts(i)} = Counted(k)
        BY DEF Counted, CountedRungs, R
    <3>4. \A k \in Nat : ends(k) <=> Cardinality(Counted(k)) >= NeededOrders \/ R(k) <= 0
        BY <3>3 DEF R
    <3>5. ends(n)
      <4>1. Cardinality(Counted(n)) + needed = NeededOrders /\ Cardinality(Counted(n)) \in Nat
          BY <3>2, Counts DEF Walked
      <4>2. price = R(n)
          BY <3>2 DEF Walked
      <4> HIDE DEF ends
      <4> QED
          BY <4>1, <4>2, <3>1, <3>4, <2>1
    <3>6. \A j \in 0..(n - 1) : ~ends(j)
      <4> TAKE j \in 0..(n - 1)
      <4>1. /\ Cardinality(Counted(j)) < NeededOrders /\ Cardinality(Counted(j)) \in Nat
            /\ R(j) > 0 /\ R(j) \in Int
          BY <2>1, <3>2, WalkedRungs DEF IInv
      <4>2. j \in Nat
          OBVIOUS
      <4> HIDE DEF ends
      <4> QED
          BY <4>1, <4>2, <3>4, <2>1
    <3>7. n \in 0..(NeededOrders + Cardinality(B))
        BY <2>1, <2>3, <3>1, <3>2, WalkBounded
    <3>8. last = n
      <4> HIDE DEF ends, B
      <4>1. /\ last \in 0..(NeededOrders + Cardinality(B))
            /\ ends(last) /\ \A j \in 0..(last - 1) : ~ends(j)
          BY <3>5, <3>6, <3>7
      <4> HIDE DEF last
      <4>2. ~(last < n) /\ ~(n < last)
          BY <4>1, <3>5, <3>6
      <4> QED
          BY <4>1, <4>2
    <3>9. MsgPrices = {R(i) : i \in 0..(n - 1)} \ (excluded \cup ExistingPrices)
      <4>1. MsgPrices \subseteq {R(i) : i \in 0..(n - 1)}
          BY <3>2 DEF Walked, MsgPrices
      <4>2. MsgPrices \cap (excluded \cup ExistingPrices) = {}
          BY DEF IInv, FreshLevels
      <4>3. \A i \in 0..(n - 1) : R(i) \in excluded \cup ExistingPrices \cup MsgPrices
          BY <3>2 DEF Walked
      <4> QED
          BY <4>1, <4>2, <4>3
    <3>10. ~(NeededOrders <= 0)
        BY <2>1, <2>3
    <3>11. Goal = {R(i) : i \in 0..(n - 1)} \ (excluded \cup ExistingPrices)
      <4> HIDE DEF last, Goal
      <4> QED
          BY <1>1, <3>8, <3>10 DEF R
    <3> QED
        BY <3>9, <3>11
  <2> QED
      BY <2>1, <2>2, <2>3
<1> QED
    BY FillInvariant, <1>2, PTL
=============================================================================
