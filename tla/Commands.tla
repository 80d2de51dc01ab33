------------------------------ MODULE Commands ------------------------------
(***************************************************************************)
(* The two commands that take a market maker down: `cancel` (app/cancel.go) *)
(* cancels the orders, `withdraw` (app/withdraw.go) sends what the account  *)
(* holds to another address.  Each run is a process of its own: it lists,   *)
(* with a limit, makes one transaction of what it has listed, and ends when *)
(* the node has taken that, before any block.  The operator starts one      *)
(* after the other, as often as needed and in any order.                    *)
(*                                                                         *)
(* Meanwhile others fill the orders.  An order locks Size coins; it pays    *)
(* Size of the other denomination when it is filled.  A process starts with *)
(* an empty cache and signs with the sequence of the last block, so the     *)
(* node takes nothing from it while the account has a transaction waiting   *)
(* (module Broadcaster).                                                    *)
(***************************************************************************)
EXTENDS Integers, FiniteSets

CONSTANTS
    Buys, Sells,        \* the orders in the book at the start
    Size,               \* what an order locks
    Denoms,             \* denominations of the account, with ubze and the base
    Balance0,           \* what it holds at the start
    Limit,              \* the limit of the listing in CancelAllOrders, 500
    Page,               \* the page of a balance query without pagination
    Reserve,            \* what WithdrawAll leaves for the fee, 20_000
    Fee,                \* of a message
    MaxDisturbances     \* bound: orders filled or left out, transactions lost

ASSUME OrdersAssumption == IsFiniteSet(Buys) /\ IsFiniteSet(Sells) /\ Buys \cap Sells = {}
ASSUME DenomsAssumption == IsFiniteSet(Denoms) /\ {"ubze", "base"} \subseteq Denoms
ASSUME BalanceAssumption == Balance0 \in [Denoms -> Nat] /\ Size \in Nat
ASSUME LimitAssumption == Limit \in Nat \ {0} /\ Page \in Nat \ {0}
\* At 0.1 ubze for a unit of gas a MsgSend costs about half of the reserve.
ASSUME FeeAssumption == Reserve \in Nat /\ Fee \in Nat \ {0} /\ Fee <= Reserve
ASSUME BoundAssumption == MaxDisturbances \in Nat

VARIABLES
    orders,         \* the account's orders in the book
    balance,        \* its free coins
    command,        \* {} or the set of the transaction the running command will submit
    pending,        \* the same for the account's transaction in the mempool
    disturbances    \* disturbances so far

vars == <<orders, balance, command, pending, disturbances>>

Nothing == [d \in Denoms |-> 0]

\* A transaction cancels orders or sends coins; seen is what the command has read.
Cancellation(S) == [cancels |-> S, coins |-> Nothing, seen |-> Nothing]
Withdrawal(coins, seen) == [cancels |-> {}, coins |-> coins, seen |-> seen]
Transactions ==
    [cancels : SUBSET (Buys \cup Sells), coins : [Denoms -> Nat], seen : [Denoms -> Nat]]

\* Types; balances never get negative, and a command never sends a negative amount.
TypeOK ==
    /\ orders \subseteq Buys \cup Sells
    /\ balance \in [Denoms -> Nat]
    /\ command \subseteq Transactions /\ pending \subseteq Transactions
    /\ \A tx, other \in command : tx = other
    /\ \A tx, other \in pending : tx = other
    /\ disturbances \in 0..MaxDisturbances

Init ==
    /\ orders = Buys \cup Sells
    /\ balance = Balance0
    /\ command = {} /\ pending = {}
    /\ disturbances = 0

Disturb == disturbances < MaxDisturbances /\ disturbances' = disturbances + 1

Least(a, b) == IF a < b THEN a ELSE b

\* What the account gets back when orders are cancelled.
Unlocked(S) ==
    [d \in Denoms |-> CASE d = "ubze" -> Size * Cardinality(S \cap Buys)
                        [] d = "base" -> Size * Cardinality(S \cap Sells)
                        [] OTHER -> 0]

FeeOf(tx) == Fee * (IF tx.cancels = {} THEN 1 ELSE Cardinality(tx.cancels))

-----------------------------------------------------------------------------
(* The commands *)

\* Variant of Listings: the sells are not appended.
ListingsOfBuys == {S \in SUBSET (orders \cap Buys) : Cardinality(S) <= Limit}

\* GetAddressActiveOrders: as many orders as the limit lets through.
Listings == {S \in SUBSET orders : Cardinality(S) = Least(Limit, Cardinality(orders))}

\* CancelAllOrders up to CancelOrders; without orders it is done.
RunCancel ==
    /\ command = {}
    /\ \E listed \in Listings :
         command' = IF listed = {} THEN {} ELSE {Cancellation(listed)}
    /\ UNCHANGED <<orders, balance, pending, disturbances>>

\* The details of some of the orders cannot be fetched: they are left out.
RunCancelOnSome ==
    /\ command = {} /\ Disturb
    /\ \E listed \in Listings : \E fetched \in SUBSET listed :
         /\ fetched # listed
         /\ command' = IF fetched = {} THEN {} ELSE {Cancellation(fetched)}
    /\ UNCHANGED <<orders, balance, pending>>

\* GetAddressBalances: the chain lists denominations the account has, a page.
Held == {d \in Denoms : balance[d] > 0}
Pages == {P \in SUBSET Held : Cardinality(P) = Least(Page, Cardinality(Held))}

Restricted(P) == [d \in Denoms |-> IF d \in P THEN balance[d] ELSE 0]

\* Variants of Withdrawable: nothing is kept, and it is kept of every denomination.
WithdrawableAll(seen) == seen
WithdrawableLessEach(seen) == [d \in Denoms |-> IF seen[d] = 0 THEN 0 ELSE seen[d] - Reserve]

\* What WithdrawAll makes of the coins it has read; a zero amount is left out.
Withdrawable(seen) == [seen EXCEPT !["ubze"] = IF @ = 0 THEN 0 ELSE @ - Reserve]

\* Variant of Panics: a coin is made of any amount.
PanicsNever(coins) == FALSE

\* NewCoin does not take a negative amount: less ubze than the reserve.
Panics(coins) == \E d \in Denoms : coins[d] < 0

\* WithdrawAll up to Send; a run that panics, like one without a destination or
\* one whose query fails, has done nothing.
RunWithdraw ==
    /\ command = {}
    /\ \E P \in Pages :
         LET seen == Restricted(P)  coins == Withdrawable(seen) IN
         command' = IF Panics(coins) THEN {} ELSE {Withdrawal(coins, seen)}
    /\ UNCHANGED <<orders, balance, pending, disturbances>>

\* What its messages need to succeed; MsgSend without coins is not valid.
Succeeds(tx) ==
    /\ tx.cancels \subseteq orders
    /\ tx.cancels = {} => tx.coins # Nothing
    /\ \A d \in Denoms : tx.coins[d] <= balance[d]

\* The simulation succeeds and the node takes it.
Accepted(tx) == pending = {} /\ Succeeds(tx) /\ FeeOf(tx) <= balance["ubze"]

\* Broadcast: with an answer the command knows what has become of it ...
Submit ==
    /\ \E tx \in command : pending' = IF Accepted(tx) THEN {tx} ELSE pending
    /\ command' = {}
    /\ UNCHANGED <<orders, balance, disturbances>>

\* ... it may also fail or be interrupted, before or after the node has taken it.
SubmitFails ==
    /\ command # {} /\ Disturb
    /\ pending' \in {pending, pending \cup {tx \in command : Accepted(tx)}}
    /\ command' = {}
    /\ UNCHANGED <<orders, balance>>

-----------------------------------------------------------------------------
(* The chain and the market *)

Less(coins, fee) == [d \in Denoms |-> coins[d] - (IF d = "ubze" THEN fee ELSE 0)]

\* A block: the fee is paid first, then all the messages succeed or none.
Execute ==
    /\ \E tx \in pending :
         LET left == Less(balance, FeeOf(tx)) IN
         IF left["ubze"] < 0 THEN UNCHANGED <<orders, balance>>
         ELSE IF tx.cancels \subseteq orders /\ \A d \in Denoms : tx.coins[d] <= left[d]
         THEN /\ orders' = orders \ tx.cancels
              /\ balance' = [d \in Denoms |-> left[d] + Unlocked(tx.cancels)[d] - tx.coins[d]]
         ELSE balance' = left /\ UNCHANGED orders
    /\ pending' = {}
    /\ UNCHANGED <<command, disturbances>>

\* Somebody fills an order.
Filled(o) ==
    /\ o \in orders /\ Disturb
    /\ orders' = orders \ {o}
    /\ balance' = [balance EXCEPT ![IF o \in Buys THEN "base" ELSE "ubze"] = @ + Size]
    /\ UNCHANGED <<command, pending>>

Next ==
    \/ RunCancel \/ RunCancelOnSome \/ RunWithdraw
    \/ Submit \/ SubmitFails \/ Execute
    \/ \E o \in Buys \cup Sells : Filled(o)

Spec == Init /\ [][Next]_vars

\* Commands end, blocks are made, and the operator does not give up.
FairSpec ==
    /\ Spec
    /\ WF_vars(Submit) /\ WF_vars(Execute)
    /\ SF_vars(RunCancel) /\ SF_vars(RunWithdraw)

-----------------------------------------------------------------------------
(* Properties *)

\* A withdrawal that finds the account as the command has read it succeeds: of
\* all that was read only the reserve is left, less the fee that it has paid.
\* Neither a cancellation nor a filled order may come in between.
LeavesTheReserve ==
    [][\A tx \in pending : tx.cancels = {} /\ tx.seen = balance /\ pending' = {} =>
          \A d \in Denoms :
             IF d = "ubze" THEN balance'[d] + Fee <= Reserve ELSE balance'[d] = 0]_vars

\* The account cannot pay for cancelling all that CancelAllOrders would list.
CannotPay == balance["ubze"] < Fee * Least(Limit, Cardinality(orders))

\* Cancelling again and again ends with no orders, however many there are, with
\* orders filled or left out on the way and transactions that fail for that,
\* unless the account is left without the coins to pay for it.
OrdersEnd == <>[](orders = {} \/ CannotPay)

Home == \A d \in Denoms : balance[d] = 0 \/ (d = "ubze" /\ balance[d] <= Reserve)

\* Less ubze than the reserve is left, so a withdrawal panics or cannot be paid,
\* and no cancellation will change that.
Stranded == balance["ubze"] < Reserve /\ (orders = {} \/ CannotPay)

\* In whatever order the commands are run, what the orders have locked and what
\* the account holds comes home in the end, or is stranded behind too small a
\* balance: never is there enough to pay and nothing happens.
ComesHome == <>[](Home \/ Stranded)
=============================================================================
