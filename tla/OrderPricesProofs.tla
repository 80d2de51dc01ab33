-------------------------- MODULE OrderPricesProofs --------------------------
(***************************************************************************)
(* Lemmas about where the two ladders start, for any precision, step,      *)
(* spread and prices: what the three roundings of getStartPrice can do.    *)
(*                                                                         *)
(* The quotients are rounded, the second one half to even, so the number   *)
(* of steps to go back from the best sell may be larger than the exact one *)
(* would be; StepsFit says that it never leads beyond the best buy.        *)
(***************************************************************************)
EXTENDS OrderPrices, LadderProofs

-----------------------------------------------------------------------------
(* The roundings *)

\* Banker's rounding is off by a half at most.
LEMMA RoundBounds ==
    ASSUME NEW a \in Int, NEW b \in Nat \ {0}
    PROVE  /\ RoundHalfEven(a, b) \in Int
           /\ 2 * (b * RoundHalfEven(a, b)) <= 2 * a + b
           /\ a >= 0 => RoundHalfEven(a, b) >= 0
<1> DEFINE q == a \div b  r == a % b
<1>1. q \in Int /\ r \in Int /\ 0 <= r /\ r < b /\ a = b * q + r
    BY Division
<1>2. RoundHalfEven(a, b) = IF 2 * r < b \/ (2 * r = b /\ q % 2 = 0) THEN q ELSE q + 1
    BY DEF RoundHalfEven
<1>3. a >= 0 => q >= 0
  <2> SUFFICES ASSUME a >= 0, q <= -1 PROVE FALSE
    BY <1>1
  <2> HIDE DEF q, r
  <2>1. b * q <= b * (-1)
    BY <1>1, Times
  <2> QED BY <2>1, <1>1
<1> HIDE DEF q, r
<1>4. b * q \in Int /\ b * (q + 1) = b * q + b
  BY <1>1
<1>5. q % 2 \in Int
  BY <1>1
<1> DEFINE c == RoundHalfEven(a, b)
<1>6. (c = q /\ 2 * r <= b) \/ (c = q + 1 /\ 2 * r >= b)
  BY <1>1, <1>2, <1>5
<1> HIDE DEF c
<1>7. c \in Int /\ 2 * (b * c) <= 2 * a + b /\ (a >= 0 => c >= 0)
  BY <1>1, <1>3, <1>4, <1>6
<1> QED BY <1>7 DEF c

\* A quotient is too large by half of the smallest fraction at most.
LEMMA QuoBounds ==
    ASSUME NEW a \in Int, NEW b \in Nat \ {0}
    PROVE  /\ Quo(a, b) \in Int
           /\ 2 * (b * Quo(a, b)) <= 2 * (a * One) + b
           /\ a >= 0 => Quo(a, b) >= 0
<1> DEFINE e == a * One * One
           q == e \div b
           c == RoundHalfEven(q, One)
<1>1. One \in Nat \ {0} /\ e \in Int /\ (a >= 0 => e >= 0)
    BY OneAssumption
<1>2. q \in Int /\ b * q <= e /\ e < b * q + b
  <2> HIDE DEF e
  <2> QED
      BY <1>1, Division
<1>3. c \in Int /\ 2 * (One * c) <= 2 * q + One /\ (q >= 0 => c >= 0)
  <2> HIDE DEF q
  <2> QED
      BY <1>1, <1>2, RoundBounds
<1>4. Quo(a, b) = c
    BY DEF Quo
<1>5. a >= 0 => q >= 0
  <2> SUFFICES ASSUME a >= 0, q <= -1 PROVE FALSE
      BY <1>2
  <2> HIDE DEF q, e
  <2>1. b * q <= b * (-1)
      BY <1>2, Times
  <2> QED
      BY <2>1, <1>1, <1>2
<1>6. One * (2 * (b * c)) <= One * (2 * (a * One) + b)
  <2> HIDE DEF c, q
  <2>1. b * (2 * (One * c)) <= b * (2 * q + One)
      BY <1>1, <1>2, <1>3, Times
  <2>2. b * (2 * q + One) = 2 * (b * q) + b * One
      BY <1>1, <1>2
  <2>3. b * (2 * (One * c)) = One * (2 * (b * c))
      BY <1>1, <1>3
  <2>4. One * (2 * (a * One) + b) = 2 * e + b * One
      BY <1>1
  <2> HIDE DEF e
  <2> QED
      BY <2>1, <2>2, <2>3, <2>4, <1>1, <1>2, <1>3
<1>7. 2 * (b * c) <= 2 * (a * One) + b
  <2> HIDE DEF c, q, e
  <2> QED
      BY <1>1, <1>3, <1>6, Cancel
<1> HIDE DEF c
<1> QED
    BY <1>2, <1>3, <1>4, <1>5, <1>7

\* The steps subtracted from the best sell do not reach beyond the best buy.
LEMMA StepsFit ==
    ASSUME NEW diff \in Int, diff > Step
    PROVE  NoOfSteps(diff) \in Nat /\ Step * NoOfSteps(diff) <= diff
<1> DEFINE q == Quo(diff, Step)
           m == Quo(q, 2 * One)
           n == m \div One
<1>1. One \in Nat \ {0} /\ Step \in Nat \ {0} /\ 2 * One \in Nat \ {0}
    BY OneAssumption, StepAssumption
<1>2. q \in Int /\ 2 * (Step * q) <= 2 * (diff * One) + Step /\ q >= 0
    BY <1>1, QuoBounds
<1>3. m \in Int /\ 2 * ((2 * One) * m) <= 2 * (q * One) + 2 * One /\ m >= 0
  <2> HIDE DEF q
  <2> QED
      BY <1>1, <1>2, QuoBounds
<1>4. n \in Int /\ One * n <= m /\ m < One * n + One
  <2> HIDE DEF m
  <2> QED
      BY <1>1, <1>3, Division
<1>5. NoOfSteps(diff) = n
    BY DEF NoOfSteps
<1> HIDE DEF q, m, n
<1>6. n >= 0
  <2> SUFFICES ASSUME n <= -1 PROVE FALSE
      BY <1>4
  <2>1. One * n <= One * (-1)
      BY <1>1, <1>4, Times
  <2> QED
      BY <2>1, <1>1, <1>3, <1>4
<1>7. 2 * m <= q + 1
  <2>1. (2 * One) * (2 * m) <= (2 * One) * (q + 1)
      BY <1>1, <1>2, <1>3
  <2> QED
      BY <2>1, <1>1, <1>2, <1>3, Cancel
<1>8. 2 * (One * n) <= q + 1
    BY <1>1, <1>2, <1>3, <1>4, <1>7
<1> DEFINE k == One * n
<1>9. k \in Nat /\ (n >= 1 => k >= 1)
    BY <1>1, <1>4, <1>6
<1>10. Step * (2 * k) <= Step * (q + 1)
    BY <1>1, <1>2, <1>8, <1>9, Times
<1>11. 4 * (Step * k) <= 2 * (diff * One) + 3 * Step
    BY <1>1, <1>2, <1>9, <1>10
<1>12. CASE k >= 2
  <2>1. Step * 2 <= Step * k
      BY <1>1, <1>9, <1>12, Times
  <2>2. 2 * (Step * k) <= 2 * (diff * One)
      BY <2>1, <1>1, <1>9, <1>11
  <2>3. Step * k = One * (Step * n) /\ diff * One = One * diff
      BY <1>1, <1>4
  <2>4. One * (Step * n) <= One * diff
      BY <2>2, <2>3, <1>1, <1>4
  <2>5. Step * n <= diff
      BY <2>4, <1>1, <1>4, Cancel
  <2> QED
      BY <2>5, <1>4, <1>5, <1>6
<1>13. CASE k <= 1
  <2>1. n <= 1
    <3> SUFFICES ASSUME n >= 2 PROVE FALSE
        BY <1>4
    <3>1. One * 2 <= One * n
        BY <1>1, <1>4, Times
    <3> QED
        BY <3>1, <1>1, <1>13, <1>9
  <2>2. n = 0 \/ n = 1
      BY <2>1, <1>4, <1>6
  <2>3. Step * n <= diff
      BY <2>2, <1>1
  <2> QED
      BY <2>3, <1>4, <1>5, <1>6
<1> HIDE DEF k
<1> QED
    BY <1>9, <1>12, <1>13

\* A truncated price is the price or less, by less than the last decimal of the
\* step.
LEMMA TruncateBounds ==
    ASSUME NEW p \in Int
    PROVE  /\ TruncateToStep(p) \in Int
           /\ TruncateToStep(p) <= p
           /\ p < TruncateToStep(p) + (One \div Factor)
<1> DEFINE g == One \div Factor
           k == (p * Factor) \div One
           c == (k * One) \div Factor
<1>1. Factor \in Nat \ {0} /\ One \in Nat \ {0} /\ p * Factor \in Int
    BY OneAssumption, FactorAssumption
<1>2. g \in Int /\ One = Factor * g
    BY <1>1, FactorAssumption, Division
<1>3. k \in Int /\ One * k <= p * Factor /\ p * Factor < One * k + One
    BY <1>1, Division
<1>4. c \in Int /\ Factor * c <= k * One /\ k * One < Factor * c + Factor
  <2> DEFINE e == k * One
             r == e % Factor
  <2>1. e \in Int
    <3> HIDE DEF k
    <3> QED
        BY <1>1, <1>3
  <2> HIDE DEF e
  <2>2. c \in Int /\ e = Factor * c + r /\ r \in Int /\ 0 <= r /\ r < Factor
      BY <2>1, <1>1, Division DEF e
  <2> HIDE DEF c, r
  <2> QED
      BY <2>1, <2>2, <1>1 DEF e
<1>5. TruncateToStep(p) = c
    BY DEF TruncateToStep
<1> HIDE DEF g, k, c
<1>6. k * One = Factor * (k * g)
    BY <1>1, <1>2, <1>3
<1>7. k * g \in Int
    BY <1>2, <1>3
<1>8. c <= k * g
  <2>1. Factor * c <= Factor * (k * g)
      BY <1>4, <1>6
  <2> QED
      BY <2>1, <1>1, <1>4, <1>7, Cancel
<1>9. k * g <= c
  <2> SUFFICES ASSUME c + 1 <= k * g PROVE FALSE
      BY <1>4, <1>7
  <2>1. Factor * (c + 1) <= Factor * (k * g)
      BY <1>1, <1>4, <1>7, Times
  <2>2. Factor * (c + 1) = Factor * c + Factor
      BY <1>1, <1>4
  <2> QED
      BY <2>1, <2>2, <1>1, <1>4, <1>6, <1>7
<1>10. c = k * g
    BY <1>4, <1>7, <1>8, <1>9
<1>11. Factor * c = One * k
    BY <1>1, <1>3, <1>6, <1>10
<1>12. c <= p
  <2>1. Factor * c <= Factor * p
      BY <1>1, <1>3, <1>11
  <2> QED
      BY <2>1, <1>1, <1>4, Cancel
<1>13. p < c + g
  <2> SUFFICES ASSUME c + g <= p PROVE FALSE
      BY <1>2, <1>4
  <2>1. Factor * (c + g) <= Factor * p
      BY <1>1, <1>2, <1>4, Times
  <2>2. Factor * (c + g) = Factor * c + Factor * g
      BY <1>1, <1>2, <1>4
  <2> QED
      BY <2>1, <2>2, <1>1, <1>2, <1>3, <1>11
<1> QED
    BY <1>4, <1>5, <1>12, <1>13 DEF g

-----------------------------------------------------------------------------
(* The start price *)

\* getStartPriceFromSpread: not above the best sell; not below the best buy when
\* they are more than a step apart.
LEMMA SpreadBounds ==
    ASSUME NEW buy \in Nat, NEW sell \in Nat
    PROVE  LET raw == FromSpread(buy, sell) IN
           /\ raw \in Int
           /\ sell # 0 => raw <= sell
           /\ sell # 0 /\ (buy = 0 \/ sell - buy <= Step) => raw = sell
           /\ buy # 0 /\ (sell = 0 \/ sell - buy > Step) => raw >= buy
<1> DEFINE raw == FromSpread(buy, sell)
           n == NoOfSteps(sell - buy)
<1>1. Step \in Nat \ {0} /\ StartPrice \in Nat
    BY StepAssumption, StartPriceAssumption
<1>2. CASE buy # 0 /\ sell # 0 /\ sell - buy > Step
  <2>1. raw = sell - Step * n
      BY <1>1, <1>2 DEF FromSpread
  <2>2. n \in Nat /\ Step * n <= sell - buy
      BY <1>2, StepsFit
  <2> HIDE DEF raw, n
  <2>3. Step * n \in Nat
      BY <2>2, <1>1
  <2>4. raw \in Int /\ raw <= sell /\ raw >= buy
      BY <2>1, <2>2, <2>3
  <2>5. buy # 0 /\ sell # 0 /\ ~(sell - buy <= Step)
      BY <1>1, <1>2
  <2>6. /\ raw \in Int
        /\ sell # 0 => raw <= sell
        /\ sell # 0 /\ (buy = 0 \/ sell - buy <= Step) => raw = sell
        /\ buy # 0 /\ (sell = 0 \/ sell - buy > Step) => raw >= buy
      BY <2>4, <2>5
  <2> QED
      BY <2>6 DEF raw
<1>3. CASE ~(buy # 0 /\ sell # 0 /\ sell - buy > Step)
  <2>1. raw = IF buy = 0 /\ sell = 0 THEN StartPrice ELSE IF sell = 0 THEN buy + Step ELSE sell
      BY <1>1, <1>3 DEF FromSpread
  <2> HIDE DEF raw
  <2>2. /\ raw \in Int
        /\ sell # 0 => raw = sell
        /\ buy # 0 /\ sell = 0 => raw >= buy
      BY <2>1, <1>1
  <2> QED
      BY <2>2, <1>3 DEF raw
<1> QED
    BY <1>2, <1>3

\* The start price is a number, whatever the last trade.
LEMMA StartType ==
    ASSUME NEW buy \in Nat, NEW sell \in Nat, NEW last, \A h \in last : h.price \in Int
    PROVE  SellStart(buy, sell, last) \in Int
<1>1. UntruncatedStart(buy, sell, last) \in Int
  <2> DEFINE usable == {h \in last : h.price > 0 /\ h.price <= sell /\ h.price >= buy}
             chosen == CHOOSE h \in usable : TRUE
  <2>1. FromSpread(buy, sell) \in Int
      BY SpreadBounds
  <2>2. usable # {} => chosen \in last
      OBVIOUS
  <2>3. UntruncatedStart(buy, sell, last) =
          IF SpreadSteps > 0 \/ usable = {} THEN FromSpread(buy, sell)
          ELSE IF chosen.orderType = "sell" THEN chosen.price + Step ELSE chosen.price
      BY Zenon DEF UntruncatedStart
  <2> HIDE DEF usable, chosen
  <2>4. usable # {} => chosen.price \in Int
      BY <2>2
  <2> QED
      BY <2>1, <2>3, <2>4, StepAssumption
<1> QED
    BY <1>1, TruncateBounds DEF SellStart

\* A spread of at least two steps, of a step that "%f" shows.
WideSpread == SpreadSteps >= 2 /\ One \div Factor <= Step

\* The first sell is above the first buy; the first buy is below the best sell;
\* the first sell is above every price that is not above the best buy and is below
\* the best sell.  An empty side has the price 0.
THEOREM LaddersStartApart ==
    ASSUME WideSpread, NEW buy \in Nat, NEW sell \in Nat, NEW last
    PROVE  LET start == SellStart(buy, sell, last)
               firstSell == FirstRung("sell", start)
               firstBuy == FirstRung("buy", start - Step)
           IN  /\ start \in Int /\ firstSell \in Int /\ firstBuy \in Int
               /\ firstBuy < firstSell
               /\ sell # 0 => firstBuy < sell
               /\ \A p \in Int : buy # 0 /\ p <= buy /\ (sell # 0 => p < sell) => p < firstSell
<1> DEFINE raw == FromSpread(buy, sell)
           start == SellStart(buy, sell, last)
           firstSell == FirstRung("sell", start)
           firstBuy == FirstRung("buy", start - Step)
           grain == One \div Factor
           half == SpreadSteps \div 2
<1>1. Step \in Nat \ {0} /\ SpreadSteps \in Int /\ SpreadSteps >= 2
    BY StepAssumption, SpreadAssumption DEF WideSpread
<1>2. start = TruncateToStep(raw)
    BY <1>1 DEF SellStart, UntruncatedStart
<1>3. /\ raw \in Int
      /\ sell # 0 => raw <= sell
      /\ sell # 0 /\ (buy = 0 \/ sell - buy <= Step) => raw = sell
      /\ buy # 0 /\ (sell = 0 \/ sell - buy > Step) => raw >= buy
    BY SpreadBounds
<1>4. start \in Int /\ start <= raw /\ raw < start + Step
  <2>1. grain \in Int /\ grain <= Step
      BY OneAssumption, FactorAssumption DEF WideSpread
  <2>2. TruncateToStep(raw) \in Int /\ TruncateToStep(raw) <= raw /\ raw < TruncateToStep(raw) + grain
      BY <1>3, TruncateBounds
  <2> HIDE DEF raw, start, grain
  <2> QED
      BY <1>1, <1>2, <1>3, <2>1, <2>2
<1>5. half \in Nat /\ half >= 1
    BY <1>1
<1>6. half * Step \in Nat /\ half * Step >= Step
  <2> HIDE DEF half
  <2>1. Step * 1 <= Step * half
      BY <1>1, <1>5, Times
  <2> QED
      BY <2>1, <1>1, <1>5
<1>7. firstSell = start + half * Step /\ firstBuy = (start - Step) - half * Step
    BY <1>1 DEF FirstRung, Outward
<1> DEFINE gap == half * Step
<1> HIDE DEF raw, start, half, gap, firstSell, firstBuy
<1>8. gap \in Nat /\ gap >= Step /\ firstSell = start + gap /\ firstBuy = start - Step - gap
    BY <1>4, <1>6, <1>7, <1>1 DEF gap
<1>9. firstSell \in Int /\ firstBuy \in Int /\ firstBuy < firstSell /\ (sell # 0 => firstBuy < sell)
    BY <1>1, <1>3, <1>4, <1>8
<1>10. raw < firstSell
    BY <1>1, <1>3, <1>4, <1>8
<1>11. ASSUME NEW p \in Int, buy # 0, p <= buy, sell # 0 => p < sell
       PROVE  p < firstSell
  <2>1. CASE sell # 0 /\ sell - buy <= Step
      BY <2>1, <1>3, <1>9, <1>10, <1>11
  <2>2. CASE sell = 0 \/ sell - buy > Step
      BY <2>2, <1>3, <1>9, <1>10, <1>11
  <2>3. sell - buy <= Step \/ sell - buy > Step
      BY <1>1
  <2> QED
      BY <2>1, <2>2, <2>3
<1> QED
    BY <1>4, <1>9, <1>11 DEF start, firstSell, firstBuy
=============================================================================
