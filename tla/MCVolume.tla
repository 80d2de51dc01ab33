------------------------------ MODULE MCVolume ------------------------------
\* Finite instances of Volume: the order amounts and the gaps of the books a
\* call may read.
EXTENDS Volume

SmallAmounts == {1, 2}
OneAmount == {1}
WideGap == {"wide"}
SomeGaps == {"narrow", "wide"}
=============================================================================
