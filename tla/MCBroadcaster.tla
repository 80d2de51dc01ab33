--------------------------- MODULE MCBroadcaster ---------------------------
\* Finite instances of Broadcaster: the goroutines of one process, and two
\* processes (the running bot and a cancel command) on one account.
EXTENDS Broadcaster, TLC

CONSTANTS mm, cancel, c1, c2

OneProcess == {mm}
TwoProcesses == {mm, cancel}
Callers == {c1, c2}

SameOwner == [c \in Callers |-> mm]
OwnOwner == (c1 :> mm @@ c2 :> cancel)

CallerSymmetry == Permutations(Callers)
=============================================================================
