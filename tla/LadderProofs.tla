----------------------------- MODULE LadderProofs -----------------------------
(***************************************************************************)
(* Lemmas about the ladder, for the modules that prove something of it:    *)
(* numbers and finite sets of prices, the rungs, and LadderPrices.         *)
(*                                                                         *)
(* Induction is by the least counterexample (LeastNatural): that a finite  *)
(* set of prices has a best one, and that the walk of LadderPrices comes   *)
(* to an end within the bound its definition gives it.                     *)
(***************************************************************************)
EXTENDS Ladder, FiniteSetTheorems, FunctionTheorems, TLAPS

-----------------------------------------------------------------------------
(* Numbers and rungs *)

\* Every set of naturals with an element has a least one.
LEMMA LeastNatural ==
    ASSUME NEW S, S \subseteq Nat, S # {}
    PROVE  \E m \in S : \A k \in S : ~(k < m)
<1> DEFINE T == {0..(m - 1) : m \in S}
<1>1. \A m \in S : 0..(m - 1) \in FiniteSubsetsOf(Nat)
  <2> TAKE m \in S
  <2>1. m \in Int /\ m - 1 \in Int /\ 0..(m - 1) \subseteq Nat
      OBVIOUS
  <2>2. IsFiniteSet(0..(m - 1))
      BY <2>1, FS_Interval
  <2> QED
      BY <2>1, <2>2 DEF FiniteSubsetsOf
<1>2. T \subseteq FiniteSubsetsOf(Nat) /\ T # {}
    BY <1>1
<1> HIDE DEF T
<1>3. PICK x \in T : \A y \in T : ~(<<y, x>> \in StrictSubsetOrdering(Nat))
    BY <1>2, FS_StrictSubsetOrderingWellFounded, WFMin
<1>4. PICK m \in S : x = 0..(m - 1)
    BY <1>3 DEF T
<1>5. ASSUME NEW k \in S, k < m PROVE FALSE
  <2>1. 0..(k - 1) \subseteq 0..(m - 1) /\ k \in 0..(m - 1) /\ k \notin 0..(k - 1)
      BY <1>5
  <2>2. 0..(k - 1) # x
      BY <2>1, <1>4
  <2>3. <<0..(k - 1), x>> \in StrictSubsetOrdering(Nat)
      BY <2>1, <2>2, <1>1, <1>4 DEF StrictSubsetOrdering, FiniteSubsetsOf
  <2> QED
      BY <2>3, <1>3 DEF T
<1> QED
    BY <1>5

\* Quotient and remainder.
LEMMA Division ==
    ASSUME NEW a \in Int, NEW b \in Nat \ {0}
    PROVE  /\ a \div b \in Int /\ a % b \in Int
           /\ 0 <= a % b /\ a % b < b
           /\ a = b * (a \div b) + (a % b)
    OBVIOUS

\* An inequality times a number, and divided by one.
LEMMA Times ==
    ASSUME NEW c \in Nat, NEW x \in Int, NEW y \in Int, x <= y
    PROVE  c * x <= c * y
    OBVIOUS

LEMMA Cancel ==
    ASSUME NEW c \in Nat \ {0}, NEW x \in Int, NEW y \in Int, c * x <= c * y
    PROVE  x <= y
    OBVIOUS

\* Rungs are prices one step apart, each beyond those before it.
LEMMA Rungs ==
    ASSUME NEW t \in OrderTypes, NEW s \in Int
    PROVE  /\ FirstRung(t, s) \in Int
           /\ \A k \in Int : Rung(t, s, k) \in Int
           /\ Rung(t, s, 0) = FirstRung(t, s)
           /\ \A k \in Int : Rung(t, s, k + 1) = Outward(t, Rung(t, s, k), 1)
           /\ \A j, k \in Int : j < k <=> Beyond(t, Rung(t, s, k), Rung(t, s, j))
<1> USE StepAssumption, SpreadAssumption
<1>1. FirstRung(t, s) \in Int
    BY DEF FirstRung, Outward, OrderTypes
<1> DEFINE f == FirstRung(t, s)
<1>2. \A k \in Int : Rung(t, s, k) = IF t = "buy" THEN f - k * Step ELSE f + k * Step
    BY DEF Rung, Outward
<1> HIDE DEF f
<1>3. f \in Int
    BY <1>1 DEF f
<1>4. \A k \in Int : k * Step \in Int /\ (k + 1) * Step = k * Step + Step
    OBVIOUS
<1>5. \A j, k \in Int : j < k <=> j * Step < k * Step
    OBVIOUS
<1>6. \A k \in Int : Rung(t, s, k) \in Int
    BY <1>2, <1>3, <1>4
<1>7. Rung(t, s, 0) = f
    BY <1>2, <1>3
<1>8. \A k \in Int : Rung(t, s, k + 1) = Outward(t, Rung(t, s, k), 1)
    BY <1>2, <1>3, <1>4 DEF Outward
<1>9. \A j, k \in Int : j < k <=> Beyond(t, Rung(t, s, k), Rung(t, s, j))
  <2> TAKE j, k \in Int
  <2> DEFINE a == j * Step  b == k * Step
  <2>1. a \in Int /\ b \in Int /\ (j < k <=> a < b)
      BY <1>4, <1>5
  <2>2. /\ Rung(t, s, j) = IF t = "buy" THEN f - a ELSE f + a
        /\ Rung(t, s, k) = IF t = "buy" THEN f - b ELSE f + b
      BY <1>2
  <2> HIDE DEF a, b
  <2> QED
      BY <2>1, <2>2, <1>3 DEF Beyond
<1> QED
    BY <1>1, <1>6, <1>7, <1>8, <1>9 DEF f

\* The sets the loop counts with are finite, and a rung more changes their
\* cardinality by one or not at all.
LEMMA CountRungs ==
    ASSUME NEW n \in Nat, NEW P
    PROVE  /\ IsFiniteSet({k \in 0..(n - 1) : k \in P})
           /\ Cardinality({k \in 0..(n - 1) : k \in P}) \in Nat
           /\ n \in P => Cardinality({k \in 0..n : k \in P}) = Cardinality({k \in 0..(n - 1) : k \in P}) + 1
           /\ n \notin P => Cardinality({k \in 0..n : k \in P}) = Cardinality({k \in 0..(n - 1) : k \in P})
<1> DEFINE C == {k \in 0..(n - 1) : k \in P}
<1>1. IsFiniteSet(0..(n - 1))
    BY FS_Interval
<1>2. IsFiniteSet(C)
    BY <1>1, FS_Subset
<1>3. {k \in 0..n : k \in P} = IF n \in P THEN C \cup {n} ELSE C
    OBVIOUS
<1>4. n \notin C
    OBVIOUS
<1> HIDE DEF C
<1>5. Cardinality(C) \in Nat
    BY <1>2, FS_CardinalityType
<1>6. Cardinality(C \cup {n}) = Cardinality(C) + 1
    BY <1>2, <1>4, FS_AddElement
<1> QED
    BY <1>2, <1>3, <1>5, <1>6 DEF C

-----------------------------------------------------------------------------
(* Finite sets of prices *)

\* A finite set with an element has one that no other is beyond the middle of.
LEMMA FiniteBest ==
    ASSUME NEW t \in OrderTypes, NEW P, P \subseteq Int, IsFiniteSet(P), P # {}
    PROVE  \E p \in P : \A q \in P \ {p} : Beyond(t, q, p)
<1> DEFINE Bestless(S) == S \subseteq Int /\ S # {} /\ ~\E p \in S : \A q \in S \ {p} : Beyond(t, q, p)
           N == {n \in Nat : \E S \in SUBSET P : Cardinality(S) = n /\ Bestless(S)}
<1> SUFFICES ASSUME Bestless(P) PROVE FALSE
    OBVIOUS
<1>1. \A S \in SUBSET P : IsFiniteSet(S) /\ Cardinality(S) \in Nat
    BY FS_Subset, FS_CardinalityType
<1>2. N # {} /\ N \subseteq Nat
    BY <1>1
<1>3. PICK n \in N : \A k \in N : ~(k < n)
    BY <1>2, LeastNatural
<1>4. PICK S \in SUBSET P : Cardinality(S) = n /\ Bestless(S)
    OBVIOUS
<1>5. PICK x \in S : TRUE
    BY <1>4
<1> DEFINE R == S \ {x}
<1>6. R \in SUBSET P /\ x \in Int /\ R \subseteq Int
    BY <1>4
<1>7. Cardinality(R) = n - 1
    BY <1>1, <1>4, FS_RemoveElement
<1>8. Cardinality(R) \in Nat /\ n \in Nat
    BY <1>1, <1>2, <1>6
<1>9. ~Bestless(R)
  <2>1. Cardinality(R) < n
      BY <1>7, <1>8
  <2> HIDE DEF R
  <2> QED
      BY <2>1, <1>3, <1>6, <1>8
<1>10. CASE R = {}
  <2>1. \A q \in S \ {x} : Beyond(t, q, x)
      BY <1>10
  <2> QED
      BY <2>1, <1>4
<1>11. CASE R # {}
  <2>1. PICK p \in R : \A q \in R \ {p} : Beyond(t, q, p)
      BY <1>6, <1>9, <1>11
  <2>2. p \in Int /\ p # x /\ p \in S
      BY <1>6
  <2>3. CASE Beyond(t, x, p)
    <3>1. \A q \in S \ {p} : Beyond(t, q, p)
        BY <2>1, <2>3
    <3> QED
        BY <3>1, <2>2, <1>4
  <2>4. CASE ~Beyond(t, x, p)
    <3>1. Beyond(t, p, x)
        BY <2>2, <2>4, <1>6 DEF Beyond
    <3>2. \A q \in S \ {x} : Beyond(t, q, x)
      <4> TAKE q \in S \ {x}
      <4>1. CASE q = p
          BY <4>1, <3>1
      <4>2. CASE q # p
        <5>1. Beyond(t, q, p) /\ q \in Int
            BY <2>1, <4>2, <1>6
        <5> QED
            BY <5>1, <3>1, <2>2, <1>6 DEF Beyond
      <4> QED
          BY <4>1, <4>2
    <3> QED
        BY <3>2, <1>4
  <2> QED
      BY <2>3, <2>4
<1> QED
    BY <1>10, <1>11

\* Two rungs are at two prices.
LEMMA RungsDiffer ==
    ASSUME NEW t \in OrderTypes, NEW s \in Int, NEW j \in Int, NEW k \in Int, Rung(t, s, j) = Rung(t, s, k)
    PROVE  j = k
<1>1. /\ Rung(t, s, j) \in Int /\ Rung(t, s, k) \in Int
      /\ j < k <=> Beyond(t, Rung(t, s, k), Rung(t, s, j))
      /\ k < j <=> Beyond(t, Rung(t, s, j), Rung(t, s, k))
    BY Rungs
<1>2. ~(j < k) /\ ~(k < j)
    BY <1>1 DEF Beyond
<1> QED
    BY <1>2

\* No rung is on the inner side of the first one.
LEMMA RungsOutward ==
    ASSUME NEW t \in OrderTypes, NEW s \in Int, NEW k \in Nat
    PROVE  /\ t = "buy" => Rung(t, s, k) <= FirstRung(t, s)
           /\ t = "sell" => Rung(t, s, k) >= FirstRung(t, s)
<1> DEFINE f == FirstRung(t, s)  a == k * Step
<1>1. Rung(t, s, k) = IF t = "buy" THEN f - a ELSE f + a
    BY DEF Rung, Outward
<1>2. a \in Nat /\ f \in Int
    BY StepAssumption, Rungs
<1> HIDE DEF f, a
<1>3. /\ t = "buy" => Rung(t, s, k) <= f
      /\ t = "sell" => Rung(t, s, k) >= f
    BY <1>1, <1>2
<1> QED
    BY <1>3 DEF f

-----------------------------------------------------------------------------
(* LadderPrices *)

\* Of the first n rungs those at a price of the book are no more than it has.
LEMMA RungsTaken ==
    ASSUME NEW t \in OrderTypes, NEW s \in Int, NEW n \in Nat, NEW book, IsFiniteSet(book),
           NEW C, C \subseteq 0..(n - 1), \A i \in (0..(n - 1)) \ C : Rung(t, s, i) \in book
    PROVE  n <= Cardinality(C) + Cardinality(book)
<1> DEFINE I == 0..(n - 1)
           U == I \ C
           g == [k \in U |-> Rung(t, s, k)]
<1>1. IsFiniteSet(I) /\ Cardinality(I) = n
  <2>1. 0 \in Int /\ n - 1 \in Int /\ (0 > n - 1 => n = 0) /\ (~(0 > n - 1) => (n - 1) - 0 + 1 = n)
      OBVIOUS
  <2>2. /\ IsFiniteSet(0..(n - 1))
        /\ 0 > n - 1 => Cardinality(0..(n - 1)) = 0
        /\ ~(0 > n - 1) => Cardinality(0..(n - 1)) = (n - 1) - 0 + 1
      BY <2>1, FS_Interval, Zenon
  <2> QED
      BY <2>1, <2>2, Zenon
<1>2. IsFiniteSet(C) /\ Cardinality(C) \in Nat /\ Cardinality(book) \in Nat
    BY <1>1, FS_Subset, FS_CardinalityType
<1>3. I \cap C = C
    OBVIOUS
<1>4. Cardinality(U) = n - Cardinality(C)
  <2> HIDE DEF I
  <2>1. Cardinality(I \ C) = Cardinality(I) - Cardinality(I \cap C)
      BY <1>1, FS_Difference
  <2> QED
      BY <2>1, <1>1, <1>3
<1>5. Cardinality(U) <= Cardinality(book)
  <2>1. U \subseteq Int /\ \A k \in U : Rung(t, s, k) \in book
      OBVIOUS
  <2>2. \A j, k \in U : Rung(t, s, j) = Rung(t, s, k) => j = k
      BY <2>1, RungsDiffer
  <2> HIDE DEF U
  <2>3. g \in [U -> book] /\ \A j, k \in U : g[j] = g[k] => j = k
      BY <2>1, <2>2
  <2>4. g \in Injection(U, book)
    <3> HIDE DEF g
    <3> QED
        BY <2>3, Fun_IsInj
  <2> HIDE DEF g
  <2> QED
      BY <2>4, FS_Injection
<1> HIDE DEF U
<1> QED
    BY <1>2, <1>4, <1>5

\* The walk ends: LadderPrices are the free ones of some number of rungs, all of
\* them at a price.
LEMMA LadderWalk ==
    ASSUME NEW t \in OrderTypes, NEW s \in Int, NEW needed \in Nat \ {0},
           NEW book, IsFiniteSet(book), NEW mine
    PROVE  \E n \in Nat :
             /\ LadderPrices(t, book, mine, s, needed) =
                  {Rung(t, s, i) : i \in 0..(n - 1)} \ (mine \cup book)
             /\ \A i \in 0..(n - 1) : Rung(t, s, i) > 0
<1> DEFINE counts(k) == LET p == Rung(t, s, k) IN p \in mine \/ p \notin book
           Count(k) == {i \in 0..(k - 1) : counts(i)}
           ends(k) == \/ Cardinality({i \in 0..(k - 1) : counts(i)}) >= needed
                      \/ Rung(t, s, k) <= 0
           bound == needed + Cardinality(book)
           last == CHOOSE k \in 0..(needed + Cardinality(book)) :
                       ends(k) /\ \A j \in 0..(k - 1) : ~ends(j)
           E == {k \in Nat : ends(k)}
<1>1. bound \in Nat /\ Cardinality(book) \in Nat
    BY FS_CardinalityType
<1>2. \A k \in Nat : Cardinality(Count(k)) \in Nat
  <2> TAKE k \in Nat
  <2>1. IsFiniteSet(0..(k - 1)) /\ Count(k) \in SUBSET (0..(k - 1))
      BY FS_Interval
  <2> HIDE DEF Count
  <2> QED
      BY <2>1, FS_Subset, FS_CardinalityType
<1>3. \A k \in Nat : k <= Cardinality(Count(k)) + Cardinality(book)
  <2> TAKE k \in Nat
  <2>1. Count(k) \subseteq 0..(k - 1) /\ \A i \in (0..(k - 1)) \ Count(k) : Rung(t, s, i) \in book
      OBVIOUS
  <2> HIDE DEF Count
  <2> QED
      BY <2>1, RungsTaken
<1>4. \A k \in Nat : ends(k) <=> Cardinality(Count(k)) >= needed \/ Rung(t, s, k) <= 0
    OBVIOUS
<1>5. bound \in E
  <2> HIDE DEF Count, ends
  <2>1. bound = needed + Cardinality(book) /\ bound <= Cardinality(Count(bound)) + Cardinality(book)
      BY <1>1, <1>3
  <2>2. Cardinality(Count(bound)) >= needed
    <3> HIDE DEF bound
    <3> QED
        BY <2>1, <1>1, <1>2
  <2> QED
      BY <2>2, <1>1, <1>4
<1> HIDE DEF ends
<1>6. PICK n \in E : \A k \in E : ~(k < n)
    BY <1>5, LeastNatural
<1>7. n \in Nat /\ ends(n) /\ \A j \in 0..(n - 1) : ~ends(j)
    BY <1>6
<1>8. n \in 0..bound
    BY <1>1, <1>5, <1>6
<1>9. last \in 0..bound /\ ends(last) /\ \A j \in 0..(last - 1) : ~ends(j)
    BY <1>7, <1>8, Zenon
<1>10. LadderPrices(t, book, mine, s, needed) = {Rung(t, s, i) : i \in 0..(last - 1)} \ (mine \cup book)
  <2>1. ~(needed <= 0)
      OBVIOUS
  <2>2. LadderPrices(t, book, mine, s, needed) =
          IF needed <= 0 THEN {} ELSE {Rung(t, s, i) : i \in 0..(last - 1)} \ (mine \cup book)
      BY Zenon DEF LadderPrices, ends
  <2> QED
      BY <2>1, <2>2, Zenon
<1> HIDE DEF last
<1>11. last \in Nat
    BY <1>1, <1>9
<1>12. \A i \in 0..(last - 1) : Rung(t, s, i) > 0
  <2> TAKE i \in 0..(last - 1)
  <2>1. i \in Nat
      BY <1>11
  <2>2. ~ends(i)
      BY <1>9
  <2>3. ~(Rung(t, s, i) <= 0)
      BY <2>1, <2>2, <1>4, Zenon
  <2>4. Rung(t, s, i) \in Int
      BY <2>1, Rungs
  <2> QED
      BY <2>3, <2>4
<1> QED
    BY <1>10, <1>11, <1>12

\* What LadderPrices promises: free prices, finitely many, none on the inner side
\* of the first rung.
LEMMA LadderPricesFree ==
    ASSUME NEW t \in OrderTypes, NEW s \in Int, NEW needed \in Nat \ {0},
           NEW book, IsFiniteSet(book), NEW mine
    PROVE  LET P == LadderPrices(t, book, mine, s, needed) IN
           /\ P \subseteq Nat \ {0} /\ IsFiniteSet(P)
           /\ P \cap (mine \cup book) = {}
           /\ \A p \in P : /\ t = "buy" => p <= FirstRung(t, s)
                           /\ t = "sell" => p >= FirstRung(t, s)
<1> DEFINE P == LadderPrices(t, book, mine, s, needed)
<1>1. PICK n \in Nat : /\ P = {Rung(t, s, i) : i \in 0..(n - 1)} \ (mine \cup book)
                       /\ \A i \in 0..(n - 1) : Rung(t, s, i) > 0
    BY LadderWalk
<1> HIDE DEF P
<1>2. \A i \in 0..(n - 1) :
        /\ Rung(t, s, i) \in Nat \ {0}
        /\ t = "buy" => Rung(t, s, i) <= FirstRung(t, s)
        /\ t = "sell" => Rung(t, s, i) >= FirstRung(t, s)
  <2> TAKE i \in 0..(n - 1)
  <2>1. i \in Nat
      OBVIOUS
  <2>2. Rung(t, s, i) \in Int /\ Rung(t, s, i) > 0
      BY <2>1, <1>1, Rungs
  <2> QED
      BY <2>1, <2>2, RungsOutward
<1>3. IsFiniteSet(P)
  <2> DEFINE I == 0..(n - 1)
             R == {Rung(t, s, i) : i \in I}
             f == [i \in I |-> Rung(t, s, i)]
  <2>1. IsFiniteSet(I)
      BY FS_Interval
  <2>2. f \in Surjection(I, R)
      BY DEF Surjection
  <2>3. P \in SUBSET R
      BY <1>1
  <2> HIDE DEF I, R, f
  <2>4. IsFiniteSet(R)
      BY <2>1, <2>2, FS_Surjection
  <2> QED
      BY <2>3, <2>4, FS_Subset
<1> QED
    BY <1>1, <1>2, <1>3 DEF P

-----------------------------------------------------------------------------
(* The first order of a side *)

Price == Nat \ {0}

\* Finite sets of anything.
LEMMA FiniteParts ==
    ASSUME NEW S, NEW A \in FiniteSubsetsOf(S)
    PROVE  /\ A \subseteq S /\ IsFiniteSet(A)
           /\ {} \in FiniteSubsetsOf(S)
           /\ \A B \in SUBSET A : B \in FiniteSubsetsOf(S)
           /\ \A B \in FiniteSubsetsOf(S) : A \cup B \in FiniteSubsetsOf(S)
           /\ \A x \in S : A \cup {x} \in FiniteSubsetsOf(S)
<1>1. A \subseteq S /\ IsFiniteSet(A)
  BY DEF FiniteSubsetsOf
<1>2. {} \in FiniteSubsetsOf(S)
  BY FS_EmptySet DEF FiniteSubsetsOf
<1>3. ASSUME NEW B \in SUBSET A PROVE B \in FiniteSubsetsOf(S)
  BY <1>1, FS_Subset DEF FiniteSubsetsOf
<1>4. ASSUME NEW B \in FiniteSubsetsOf(S) PROVE A \cup B \in FiniteSubsetsOf(S)
  <2>1. B \subseteq S /\ IsFiniteSet(B)
    BY DEF FiniteSubsetsOf
  <2>2. IsFiniteSet(A \cup B)
    BY <1>1, <2>1, FS_Union
  <2> QED BY <1>1, <2>1, <2>2 DEF FiniteSubsetsOf
<1>5. ASSUME NEW x \in S PROVE A \cup {x} \in FiniteSubsetsOf(S)
  <2>1. IsFiniteSet(A \cup {x})
    BY <1>1, FS_AddElement
  <2> QED BY <1>1, <2>1 DEF FiniteSubsetsOf
<1> QED BY <1>1, <1>2, <1>3, <1>4, <1>5

\* The first price of a side is one of its prices, and none is before it.
LEMMA BestOfSide ==
    ASSUME NEW t \in OrderTypes, NEW P \in FiniteSubsetsOf(Price)
    PROVE  /\ Best(t, P) \in Nat
           /\ P = {} => Best(t, P) = 0
           /\ P # {} => Best(t, P) \in P /\ Best(t, P) # 0
           /\ \A p \in P : /\ t = "buy" => p <= Best(t, P)
                           /\ t = "sell" => Best(t, P) <= p
<1>1. P \subseteq Nat /\ P \subseteq Int /\ IsFiniteSet(P) /\ 0 \notin P
  BY FiniteParts DEF Price
<1>2. CASE P = {}
  BY <1>2 DEF Best
<1>3. CASE P # {}
  <2> DEFINE best == CHOOSE p \in P : \A q \in P \ {p} : Beyond(t, q, p)
  <2>1. \E p \in P : \A q \in P \ {p} : Beyond(t, q, p)
    BY <1>1, <1>3, FiniteBest
  <2>2. best \in P /\ \A q \in P \ {best} : Beyond(t, q, best)
    BY <2>1, Zenon
  <2>3. Best(t, P) = best
    BY <1>3 DEF Best
  <2> HIDE DEF best
  <2>4. best \in Nat /\ best # 0
    BY <2>2, <1>1
  <2>5. ASSUME NEW p \in P
        PROVE  (t = "buy" => p <= best) /\ (t = "sell" => best <= p)
    <3>1. p = best \/ Beyond(t, p, best)
      BY <2>2
    <3>2. p \in Nat
      BY <1>1
    <3> QED BY <3>1, <3>2, <2>4 DEF Beyond
  <2> QED BY <2>2, <2>3, <2>4, <2>5, <1>3
<1> QED BY <1>2, <1>3

=============================================================================
