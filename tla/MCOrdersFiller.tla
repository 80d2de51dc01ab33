---------------------------- MODULE MCOrdersFiller ----------------------------
\* Finite instances of OrdersFiller: a price level is two units wide; others have
\* orders around the start price, between the levels, too.
EXTENDS OrdersFiller

NearStart == {13, 18}

\* One step above the best own buy.
NextToBuys == {24}
=============================================================================
