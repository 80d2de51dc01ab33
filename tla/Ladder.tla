------------------------------- MODULE Ladder -------------------------------
(***************************************************************************)
(* The geometry of one side of the order book, for app/orders.go: which    *)
(* prices the bot's ladder visits and which of them it has to fill.        *)
(*                                                                         *)
(* Prices are integers, multiples of the smallest price difference; "buy"  *)
(* ladders go down from the start price, "sell" ladders go up.             *)
(***************************************************************************)
EXTENDS Integers, FiniteSets

CONSTANTS
    Step,           \* GetPriceStepDec
    SpreadSteps     \* GetSpreadSteps

ASSUME StepAssumption == Step \in Nat \ {0}
ASSUME SpreadAssumption == SpreadSteps \in Int

OrderTypes == {"buy", "sell"}

\* p is farther from the middle of the book than q.
Beyond(t, p, q) == IF t = "buy" THEN p < q ELSE p > q

Other(t) == IF t = "buy" THEN "sell" ELSE "buy"

\* The first price of a side, 0 when there is none (getSpread).
Best(t, P) == IF P = {} THEN 0 ELSE CHOOSE p \in P : \A q \in P \ {p} : Beyond(t, q, p)

\* n steps outward from p.
Outward(t, p, n) == IF t = "buy" THEN p - n * Step ELSE p + n * Step

\* Half of the configured spread is left empty on each side.
FirstRung(t, start) ==
    IF SpreadSteps > 0 THEN Outward(t, start, SpreadSteps \div 2) ELSE start

Rung(t, start, k) == Outward(t, FirstRung(t, start), k)

\* What fillOrders should place, said without its loop: walk outward until
\* `needed` rungs are the bot's own or free, or prices end; fill the free ones.
LadderPrices(t, book, own, start, needed) ==
    LET counts(k) == LET p == Rung(t, start, k) IN p \in own \/ p \notin book
        ends(k) == \/ Cardinality({i \in 0..(k - 1) : counts(i)}) >= needed
                   \/ Rung(t, start, k) <= 0
        last == CHOOSE k \in 0..(needed + Cardinality(book)) :
                    ends(k) /\ \A j \in 0..(k - 1) : ~ends(j)
    IN  IF needed <= 0 THEN {}
        ELSE {Rung(t, start, i) : i \in 0..(last - 1)} \ (own \cup book)
=============================================================================
