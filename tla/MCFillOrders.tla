---------------------------- MODULE MCFillOrders ----------------------------
\* Finite instances of FillOrders: a few price levels, every book and every
\* set of own orders on them.
EXTENDS FillOrders

\* The prices of S, best first for a side of type t.
BestFirst(S, t) ==
    CHOOSE f \in [1..Cardinality(S) -> S] :
        \A i, j \in DOMAIN f : i < j => Beyond(t, f[j], f[i])

\* Every list of one side, and the same with one order of the other type in it.
AllBooks ==
    UNION {
        LET list == BestFirst(S, t) IN
        { [i \in 1..Cardinality(S) |->
              [price |-> list[i], orderType |-> IF i = wrong THEN other ELSE t]] :
            wrong \in 0..Cardinality(S), other \in OrderTypes} :
        S \in SUBSET Prices, t \in OrderTypes}

\* On and between the rungs of ladders with step 2.
Levels == {2, 3, 4, 5, 6}
Starts == {0, 3, 4}
Ranges == {<<2, 3>>, <<3, 2>>}
=============================================================================
