------------------------------ MODULE MCCommands ------------------------------
\* A finite instance of Commands: more orders than one listing, a third
\* denomination.
EXTENDS Commands

ThreeDenoms == {"ubze", "base", "dust"}
SomeCoins == [d \in ThreeDenoms |-> IF d = "ubze" THEN 4 ELSE IF d = "base" THEN 0 ELSE 1]
=============================================================================
