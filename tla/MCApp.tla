-------------------------------- MODULE MCApp --------------------------------
\* A finite instance of App: others have small orders around the start price.
EXTENDS App

TwoUnits == {2}
OneOffer == {[price |-> 6, amount |-> 1]}
TwoWalls == [t \in OrderTypes |-> {[price |-> IF t = "buy" THEN 2 ELSE 9, amount |-> 2]}]
=============================================================================
