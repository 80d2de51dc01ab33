--------------------------- MODULE CommandsProofs ---------------------------
(***************************************************************************)
(* Proofs about Commands, for any orders, denominations, balances, limits   *)
(* and any fee that the reserve covers: types, and that a withdrawal leaves *)
(* the reserve less its fee.                                                *)
(*                                                                         *)
(* The type invariant is not inductive: a withdrawal must be known to be    *)
(* built from what was read, and once the node has taken a transaction the  *)
(* account can pay for it, because until the next block nothing but that    *)
(* transaction takes coins away.                                            *)
(***************************************************************************)
EXTENDS Commands, FiniteSetTheorems, TLAPS

USE OrdersAssumption, DenomsAssumption, BalanceAssumption, LimitAssumption,
    FeeAssumption, BoundAssumption

\* Withdrawals are what WithdrawAll makes of the coins it has read.
BuiltFromSeen(S) == \A tx \in S : tx.cancels = {} => tx.coins = Withdrawable(tx.seen)

\* What the node has taken can be paid for.
Payable == \A tx \in pending : FeeOf(tx) <= balance["ubze"]

IInv == TypeOK /\ BuiltFromSeen(command) /\ BuiltFromSeen(pending) /\ Payable

-----------------------------------------------------------------------------
(* The operators *)

\* Sets of orders are finite, so what cancelling returns and costs is a number.
LEMMA CountType ==
    ASSUME NEW S \in SUBSET (Buys \cup Sells)
    PROVE  /\ Cardinality(S) \in Nat /\ Cardinality(S \cap Buys) \in Nat
           /\ Cardinality(S \cap Sells) \in Nat
<1>1. IsFiniteSet(Buys \cup Sells)
  BY FS_Union
<1>2. IsFiniteSet(S) /\ IsFiniteSet(S \cap Buys) /\ IsFiniteSet(S \cap Sells)
  BY <1>1, FS_Subset
<1> QED BY <1>2, FS_CardinalityType

LEMMA UnlockedType ==
    ASSUME NEW S \in SUBSET (Buys \cup Sells), NEW d \in Denoms
    PROVE  Unlocked(S)[d] \in Nat
<1>1. Size * Cardinality(S \cap Buys) \in Nat /\ Size * Cardinality(S \cap Sells) \in Nat
  BY CountType
<1> QED BY <1>1 DEF Unlocked

LEMMA NothingUnlocked ==
    ASSUME NEW d \in Denoms
    PROVE  Unlocked({})[d] = 0
<1>1. {} \cap Buys = {} /\ {} \cap Sells = {} /\ Cardinality({}) = 0
  BY FS_EmptySet
<1>2. Size * 0 = 0
  OBVIOUS
<1> QED BY <1>1, <1>2 DEF Unlocked

LEMMA FeeType ==
    ASSUME NEW tx \in Transactions
    PROVE  FeeOf(tx) \in Nat /\ (tx.cancels = {} => FeeOf(tx) = Fee)
<1>1. tx.cancels \in SUBSET (Buys \cup Sells)
  BY DEF Transactions
<1>2. Cardinality(tx.cancels) \in Nat
  BY <1>1, CountType
<1>3. CASE tx.cancels = {}
  BY <1>3 DEF FeeOf
<1>4. CASE tx.cancels # {}
  BY <1>2, <1>4 DEF FeeOf
<1> QED BY <1>3, <1>4

\* Reading the balances gives naturals, and what does not panic is sent as such.
LEMMA WithdrawalType ==
    ASSUME TypeOK, NEW P \in SUBSET Denoms, ~Panics(Withdrawable(Restricted(P)))
    PROVE  Withdrawal(Withdrawable(Restricted(P)), Restricted(P)) \in Transactions
<1> DEFINE seen == Restricted(P)
           coins == Withdrawable(seen)
<1>1. seen \in [Denoms -> Nat]
  BY DEF Restricted, TypeOK
<1>2. coins \in [Denoms -> Int]
  BY <1>1 DEF Withdrawable
<1>3. \A d \in Denoms : ~(coins[d] < 0)
  BY DEF Panics
<1>4. coins \in [Denoms -> Nat]
  BY <1>2, <1>3
<1> QED BY <1>1, <1>4 DEF Withdrawal, Transactions

LEMMA CancellationType ==
    ASSUME NEW S \in SUBSET (Buys \cup Sells)
    PROVE  Cancellation(S) \in Transactions
BY DEF Cancellation, Transactions, Nothing

-----------------------------------------------------------------------------
(* The invariant *)

LEMMA InitInv == Init => IInv
<1> SUFFICES ASSUME Init PROVE IInv
  OBVIOUS
<1>1. TypeOK
  BY DEF Init, TypeOK
<1> QED BY <1>1 DEF Init, IInv, BuiltFromSeen, Payable

\* A cancellation of anything, none if it is of nothing.
LEMMA CancelStep ==
    ASSUME IInv, NEW S \in SUBSET (Buys \cup Sells),
           command' = IF S = {} THEN {} ELSE {Cancellation(S)}
    PROVE  /\ command' \subseteq Transactions /\ BuiltFromSeen(command')
           /\ \A tx, other \in command' : tx = other
<1>1. CASE S = {}
  BY <1>1 DEF BuiltFromSeen
<1>2. CASE S # {}
  <2>1. command' = {Cancellation(S)} /\ Cancellation(S).cancels # {}
    BY <1>2 DEF Cancellation
  <2> QED BY <2>1, CancellationType DEF BuiltFromSeen
<1> QED BY <1>1, <1>2

\* A step that changes nothing but command.
LEMMA CommandStep ==
    ASSUME IInv, UNCHANGED <<orders, balance, pending>>, disturbances' \in 0..MaxDisturbances,
           command' \subseteq Transactions, BuiltFromSeen(command'),
           \A tx, other \in command' : tx = other
    PROVE  IInv'
<1>1. TypeOK'
  BY DEF IInv, TypeOK
<1>2. BuiltFromSeen(pending)' /\ BuiltFromSeen(command)'
  BY DEF IInv, BuiltFromSeen
<1>3. Payable'
  BY DEF IInv, Payable, FeeOf
<1> QED BY <1>1, <1>2, <1>3 DEF IInv

\* A step that submits what the node accepts, or nothing.
LEMMA SubmitStep ==
    ASSUME IInv, UNCHANGED <<orders, balance>>, disturbances' \in 0..MaxDisturbances,
           command' = {},
           pending' = pending \/ \E tx \in command : Accepted(tx) /\ pending' = {tx}
    PROVE  IInv'
<1>1. CASE pending' = pending
  BY <1>1 DEF IInv, TypeOK, BuiltFromSeen, Payable, FeeOf
<1>2. ASSUME NEW tx \in command, Accepted(tx), pending' = {tx}
      PROVE  IInv'
  <2>1. tx \in Transactions
    BY DEF IInv, TypeOK
  <2>2. TypeOK'
    BY <1>2, <2>1 DEF IInv, TypeOK
  <2>3. BuiltFromSeen(pending)' /\ BuiltFromSeen(command)'
    BY <1>2 DEF IInv, BuiltFromSeen
  <2>4. Payable'
    BY <1>2 DEF Payable, Accepted, FeeOf
  <2> QED BY <2>2, <2>3, <2>4 DEF IInv
<1> QED BY <1>1, <1>2

LEMMA DisturbType == ASSUME IInv, Disturb PROVE disturbances' \in 0..MaxDisturbances
BY DEF IInv, TypeOK, Disturb

\* The coins after a transaction has paid its fee and its messages have succeeded.
LEMMA ExecutedType ==
    ASSUME IInv, NEW tx \in pending, NEW d \in Denoms
    PROVE  /\ Less(balance, FeeOf(tx))[d] \in Nat
           /\ tx.coins[d] <= Less(balance, FeeOf(tx))[d] =>
                Less(balance, FeeOf(tx))[d] + Unlocked(tx.cancels)[d] - tx.coins[d] \in Nat
<1>1. tx \in Transactions /\ balance \in [Denoms -> Nat] /\ FeeOf(tx) <= balance["ubze"]
  BY DEF IInv, TypeOK, Payable
<1>2. FeeOf(tx) \in Nat
  BY <1>1, FeeType
<1>3. Less(balance, FeeOf(tx))[d] \in Nat
  BY <1>1, <1>2 DEF Less
<1>4. tx.coins[d] \in Nat /\ tx.cancels \in SUBSET (Buys \cup Sells)
  BY <1>1 DEF Transactions
<1>5. Unlocked(tx.cancels)[d] \in Nat
  BY <1>4, UnlockedType
<1> HIDE DEF Less, Unlocked
<1> QED BY <1>3, <1>4, <1>5

LEMMA ExecuteStep == ASSUME IInv, Execute PROVE IInv'
<1>1. PICK tx \in pending :
        LET left == Less(balance, FeeOf(tx)) IN
        IF left["ubze"] < 0 THEN UNCHANGED <<orders, balance>>
        ELSE IF tx.cancels \subseteq orders /\ \A d \in Denoms : tx.coins[d] <= left[d]
        THEN /\ orders' = orders \ tx.cancels
             /\ balance' = [d \in Denoms |-> left[d] + Unlocked(tx.cancels)[d] - tx.coins[d]]
        ELSE balance' = left /\ UNCHANGED orders
  BY DEF Execute
<1> DEFINE left == Less(balance, FeeOf(tx))
<1>2. balance \in [Denoms -> Nat] /\ orders \subseteq Buys \cup Sells
  BY DEF IInv, TypeOK
<1>3. left \in [Denoms -> Nat]
  <2>1. \A d \in Denoms : left[d] \in Nat
    BY ExecutedType
  <2>2. left = [d \in Denoms |-> left[d]]
    BY DEF Less
  <2> QED BY <2>1, <2>2
<1>4. balance' \in [Denoms -> Nat] /\ orders' \subseteq Buys \cup Sells
  <2>1. CASE left["ubze"] < 0
    BY <1>1, <1>2, <2>1
  <2>2. CASE /\ ~(left["ubze"] < 0)
             /\ tx.cancels \subseteq orders /\ \A d \in Denoms : tx.coins[d] <= left[d]
    <3>1. /\ orders' = orders \ tx.cancels
          /\ balance' = [d \in Denoms |-> left[d] + Unlocked(tx.cancels)[d] - tx.coins[d]]
      BY <1>1, <2>2
    <3>2. \A d \in Denoms : left[d] + Unlocked(tx.cancels)[d] - tx.coins[d] \in Nat
      BY <2>2, ExecutedType
    <3> QED BY <1>2, <3>1, <3>2
  <2>3. CASE /\ ~(left["ubze"] < 0)
             /\ ~(tx.cancels \subseteq orders /\ \A d \in Denoms : tx.coins[d] <= left[d])
    BY <1>1, <1>2, <1>3, <2>3
  <2> QED BY <2>1, <2>2, <2>3
<1>5. pending' = {} /\ UNCHANGED <<command, disturbances>>
  BY DEF Execute
<1>6. TypeOK'
  BY <1>4, <1>5 DEF IInv, TypeOK
<1> QED BY <1>5, <1>6 DEF IInv, BuiltFromSeen, Payable

LEMMA FilledStep == ASSUME IInv, NEW o \in Buys \cup Sells, Filled(o) PROVE IInv'
<1> DEFINE d == IF o \in Buys THEN "base" ELSE "ubze"
<1>1. /\ orders' = orders \ {o} /\ balance' = [balance EXCEPT ![d] = @ + Size]
      /\ UNCHANGED <<command, pending>>
  BY DEF Filled
<1>2. d \in Denoms /\ balance \in [Denoms -> Nat]
  BY DEF IInv, TypeOK
<1>3. balance' \in [Denoms -> Nat] /\ balance["ubze"] <= balance'["ubze"]
  BY <1>1, <1>2
<1>4. TypeOK'
  BY <1>1, <1>3, DisturbType DEF IInv, TypeOK, Filled
<1>5. \A tx \in pending : FeeOf(tx) \in Nat /\ FeeOf(tx) <= balance["ubze"]
  BY FeeType DEF IInv, TypeOK, Payable
<1>6. Payable'
  <2> HIDE DEF d
  <2>1. \A n \in Nat : n <= balance["ubze"] => n <= balance'["ubze"]
    BY <1>2, <1>3
  <2> QED BY <1>1, <1>5, <2>1 DEF Payable, FeeOf
<1> QED BY <1>1, <1>4, <1>6 DEF IInv, BuiltFromSeen

LEMMA StepInv == IInv /\ [Next]_vars => IInv'
<1> SUFFICES ASSUME IInv, [Next]_vars PROVE IInv'
  OBVIOUS
<1>1. CASE RunCancel
  <2>1. PICK listed \in Listings : command' = IF listed = {} THEN {} ELSE {Cancellation(listed)}
    BY <1>1 DEF RunCancel
  <2>2. listed \in SUBSET (Buys \cup Sells)
    BY DEF Listings, IInv, TypeOK
  <2>3. disturbances' \in 0..MaxDisturbances
    BY <1>1 DEF RunCancel, IInv, TypeOK
  <2> QED BY <1>1, <2>1, <2>2, <2>3, CancelStep, CommandStep DEF RunCancel
<1>2. CASE RunCancelOnSome
  <2>1. PICK fetched \in SUBSET orders :
           command' = IF fetched = {} THEN {} ELSE {Cancellation(fetched)}
    BY <1>2 DEF RunCancelOnSome, Listings
  <2>2. fetched \in SUBSET (Buys \cup Sells)
    BY DEF IInv, TypeOK
  <2>3. disturbances' \in 0..MaxDisturbances
    BY <1>2, DisturbType DEF RunCancelOnSome
  <2> QED BY <1>2, <2>1, <2>2, <2>3, CancelStep, CommandStep DEF RunCancelOnSome
<1>3. CASE RunWithdraw
  <2>1. PICK P \in Pages :
           command' = IF Panics(Withdrawable(Restricted(P))) THEN {}
                      ELSE {Withdrawal(Withdrawable(Restricted(P)), Restricted(P))}
    BY <1>3 DEF RunWithdraw
  <2>2. P \in SUBSET Denoms
    BY DEF Pages, Held
  <2>3. CASE Panics(Withdrawable(Restricted(P)))
    <3>1. command' = {} /\ BuiltFromSeen(command')
      BY <2>1, <2>3 DEF BuiltFromSeen
    <3> QED BY <1>3, <3>1, CommandStep DEF RunWithdraw, IInv, TypeOK
  <2>4. CASE ~Panics(Withdrawable(Restricted(P)))
    <3> DEFINE tx == Withdrawal(Withdrawable(Restricted(P)), Restricted(P))
    <3>1. tx \in Transactions
      BY <2>2, <2>4, WithdrawalType DEF IInv
    <3>2. tx.coins = Withdrawable(tx.seen)
      BY DEF Withdrawal
    <3>3. command' = {tx}
      BY <2>1, <2>4
    <3> HIDE DEF tx
    <3>4. command' \subseteq Transactions /\ BuiltFromSeen(command')
      BY <3>1, <3>2, <3>3 DEF BuiltFromSeen
    <3> QED BY <1>3, <3>3, <3>4, CommandStep DEF RunWithdraw, IInv, TypeOK
  <2> QED BY <2>3, <2>4
<1>4. CASE Submit
  BY <1>4, SubmitStep DEF Submit, IInv, TypeOK
<1>5. CASE SubmitFails
  <2>1. disturbances' \in 0..MaxDisturbances
    BY <1>5, DisturbType DEF SubmitFails
  <2>2. pending' = pending \/ \E tx \in command : Accepted(tx) /\ pending' = {tx}
    <3>1. CASE \E tx \in command : Accepted(tx)
      BY <1>5, <3>1 DEF SubmitFails, IInv, TypeOK, Accepted
    <3>2. CASE ~\E tx \in command : Accepted(tx)
      BY <1>5, <3>2 DEF SubmitFails
    <3> QED BY <3>1, <3>2
  <2> QED BY <1>5, <2>1, <2>2, SubmitStep DEF SubmitFails
<1>6. CASE Execute
  BY <1>6, ExecuteStep
<1>7. ASSUME NEW o \in Buys \cup Sells, Filled(o) PROVE IInv'
  BY <1>7, FilledStep
<1>8. CASE UNCHANGED vars
  BY <1>8 DEF vars, IInv, TypeOK, BuiltFromSeen, Payable, FeeOf
<1> QED BY <1>1, <1>2, <1>3, <1>4, <1>5, <1>6, <1>7, <1>8 DEF Next

\* Withdrawals are built from what was read, and what the node has taken can be
\* paid for.
THEOREM CommandsInvariant == Spec => []IInv
BY InitInv, StepInv, PTL DEF Spec

\* Balances never get negative and no command sends a negative amount.
THEOREM CommandsTypeCorrect == Spec => []TypeOK
<1>1. IInv => TypeOK
  BY DEF IInv
<1> QED BY <1>1, CommandsInvariant, PTL

-----------------------------------------------------------------------------
(* What a withdrawal leaves *)

\* Only a block takes transactions out of the mempool.
LEMMA OnlyExecute ==
    ASSUME [Next]_vars, pending # {}, pending' = {}
    PROVE  Execute
<1>1. ~(UNCHANGED pending)
  OBVIOUS
<1>2. ~Submit
  BY DEF Submit
<1>3. ~SubmitFails
  BY DEF SubmitFails
<1> QED BY <1>1, <1>2, <1>3 DEF Next, vars, RunCancel, RunCancelOnSome, RunWithdraw, Filled

\* A withdrawal that finds the account as it was read leaves the reserve less
\* its fee of the ubze, and nothing of any other coin.
LEMMA WithdrawalLeaves ==
    ASSUME IInv, Execute, NEW tx \in pending, tx.cancels = {}, tx.seen = balance,
           NEW d \in Denoms
    PROVE  IF d = "ubze" THEN balance'[d] + Fee <= Reserve ELSE balance'[d] = 0
<1> DEFINE left == Less(balance, FeeOf(tx))
<1>1. /\ tx \in Transactions /\ balance \in [Denoms -> Nat]
      /\ FeeOf(tx) <= balance["ubze"] /\ tx.coins = Withdrawable(tx.seen)
  BY DEF IInv, TypeOK, Payable, BuiltFromSeen
<1>2. FeeOf(tx) = Fee
  BY <1>1, FeeType
<1>3. /\ left["ubze"] = balance["ubze"] - Fee
      /\ \A e \in Denoms \ {"ubze"} : left[e] = balance[e]
  BY <1>1, <1>2 DEF Less
<1>4. /\ tx.coins["ubze"] = balance["ubze"] - Reserve
      /\ \A e \in Denoms \ {"ubze"} : tx.coins[e] = balance[e]
  BY <1>1, <1>2 DEF Withdrawable
<1>5. ~(left["ubze"] < 0)
  BY <1>1, <1>2, <1>3
<1>6. \A e \in Denoms : tx.coins[e] <= left[e]
  BY <1>1, <1>3, <1>4
<1>7. balance' = [e \in Denoms |-> left[e] + Unlocked(tx.cancels)[e] - tx.coins[e]]
  <2>1. \A other \in pending : other = tx
    BY DEF IInv, TypeOK
  <2> QED BY <1>5, <1>6, <2>1 DEF Execute
<1>8. balance'[d] = left[d] + 0 - tx.coins[d]
  BY <1>7, NothingUnlocked
<1> HIDE DEF left
<1>9. CASE d = "ubze"
  BY <1>1, <1>3, <1>4, <1>8, <1>9
<1>10. CASE d # "ubze"
  BY <1>1, <1>3, <1>4, <1>8, <1>10
<1> QED BY <1>9, <1>10

\* ... so every withdrawal that is not overtaken does what it is for.
THEOREM LeavesTheReserveHolds == Spec => LeavesTheReserve
<1> DEFINE Leaves ==
        \A tx \in pending : tx.cancels = {} /\ tx.seen = balance /\ pending' = {} =>
           \A d \in Denoms :
              IF d = "ubze" THEN balance'[d] + Fee <= Reserve ELSE balance'[d] = 0
<1>1. IInv /\ [Next]_vars => [Leaves]_vars
  <2> SUFFICES ASSUME IInv, [Next]_vars, NEW tx \in pending,
                      tx.cancels = {}, tx.seen = balance, pending' = {}, NEW d \in Denoms
               PROVE  IF d = "ubze" THEN balance'[d] + Fee <= Reserve ELSE balance'[d] = 0
    OBVIOUS
  <2>1. Execute
    BY OnlyExecute
  <2> QED BY <2>1, WithdrawalLeaves
<1> QED BY <1>1, CommandsInvariant, PTL DEF Spec, LeavesTheReserve
=============================================================================
