----------------------------- MODULE OrderPrices -----------------------------
(***************************************************************************)
(* Where the two ladders of app/orders.go start: getStartPrice,            *)
(* getStartPriceFromSpread and internal.TruncateToStep.                    *)
(*                                                                         *)
(* A LegacyDec is an integer count of its smallest fraction, 1/One; One is *)
(* 10^18 in the code.  Its arithmetic is exact but for the quotients.      *)
(***************************************************************************)
EXTENDS Ladder

CONSTANTS
    One,            \* the LegacyDec 1
    Factor,         \* 10^decimals of the step, as "%f" shows it: at most 10^6
    StartPrice      \* GetStartPriceDec

ASSUME OneAssumption == One \in Nat \ {0}
ASSUME FactorAssumption == Factor \in Nat \ {0} /\ One % Factor = 0
ASSUME StartPriceAssumption == StartPrice \in Nat \ {0}

\* Banker's rounding of a / b.
RoundHalfEven(a, b) ==
    LET q == a \div b  twice == 2 * (a % b) IN
    IF twice < b \/ (twice = b /\ q % 2 = 0) THEN q ELSE q + 1

\* LegacyDec.Quo works with twice the digits and rounds the lower half away.
Quo(a, b) == RoundHalfEven((a * One * One) \div b, One)

\* Variant of NoOfSteps: all of them, and one more.
NoOfStepsBeyond(diff) == Quo(diff, Step) \div One + 1

\* Half the steps that fit between best buy and best sell.
NoOfSteps(diff) == Quo(Quo(diff, Step), 2 * One) \div One

\* getStartPriceFromSpread; a side without orders has the price 0.
FromSpread(buy, sell) ==
    CASE buy = 0 /\ sell = 0 -> StartPrice
      [] buy = 0 /\ sell # 0 -> sell
      [] buy # 0 /\ sell = 0 -> buy + Step
      [] buy # 0 /\ sell # 0 /\ sell - buy <= Step -> sell
      [] OTHER -> sell - Step * NoOfSteps(sell - buy)

\* getStartPrice: without a configured spread the last trade says where the
\* market is.  last is {} or the set of the last trade; when it cannot be read
\* it is {}, too.
UntruncatedStart(buy, sell, last) ==
    LET usable == {h \in last : h.price > 0 /\ h.price <= sell /\ h.price >= buy} IN
    IF SpreadSteps > 0 \/ usable = {} THEN FromSpread(buy, sell)
    ELSE LET h == CHOOSE h \in usable : TRUE IN
         IF h.orderType = "sell" THEN h.price + Step ELSE h.price

\* TruncateToStep: only the decimals of the step are kept, whatever its digits.
TruncateToStep(p) == (((p * Factor) \div One) * One) \div Factor

SellStart(buy, sell, last) == TruncateToStep(UntruncatedStart(buy, sell, last))
BuyStart(buy, sell, last) == SellStart(buy, sell, last) - Step
=============================================================================
