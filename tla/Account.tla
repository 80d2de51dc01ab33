------------------------------ MODULE Account ------------------------------
(***************************************************************************)
(* What app/service/broadcaster.go promises the code that calls Broadcast, *)
(* without sequence numbers, caches, mutexes, answers or retries: an       *)
(* account whose log takes one request at a time, in which                 *)
(*   - a process has one call under way and a call makes one request,      *)
(*   - a call returns nil only for a request the log has taken,            *)
(*   - a call that returns an error leaves its request open: it may still  *)
(*     be taken, later, but while a taken request of unknown outcome is    *)
(*     not in a block, nothing else of that process is taken.              *)
(* Broadcaster implements it (Broadcaster!ImplementsAccount).              *)
(***************************************************************************)
EXTENDS Naturals, Sequences

CONSTANTS
    Process,        \* programs that use the account
    Caller,         \* goroutines that call Broadcast
    Owner           \* Owner[c]: the process caller c runs in

VARIABLES
    phase,          \* "idle", "called" (nothing sent yet) or "asked"
    asked,          \* requests made by each caller so far
    open,           \* requests the chain has neither taken nor refused
    log,            \* requests taken, in their order on the chain
    committed,      \* prefix of log that is in blocks
    confirmed,      \* requests for which Broadcast returned nil
    evicted         \* the chain has forgotten a request it had taken

vars == <<phase, asked, open, log, committed, confirmed, evicted>>

Request == [by : Caller, n : Nat]

Latest(c) == [by |-> c, n |-> asked[c]]

Pending == (committed + 1)..Len(log)

Init ==
    /\ phase = [c \in Caller |-> "idle"]
    /\ asked = [c \in Caller |-> 0]
    /\ open = {}
    /\ log = << >>
    /\ committed = 0
    /\ confirmed = {}
    /\ evicted = FALSE

\* Broadcast is called: no other call of the same process is under way.
Call(c) ==
    /\ \A d \in Caller : Owner[d] = Owner[c] => phase[d] = "idle"
    /\ phase' = [phase EXCEPT ![c] = "called"]
    /\ UNCHANGED <<asked, open, log, committed, confirmed, evicted>>

\* The only request of this call leaves.
Ask(c) ==
    /\ phase[c] = "called"
    /\ phase' = [phase EXCEPT ![c] = "asked"]
    /\ asked' = [asked EXCEPT ![c] = @ + 1]
    /\ open' = open \cup {Latest(c)'}
    /\ UNCHANGED <<log, committed, confirmed, evicted>>

\* The chain takes request r, whose caller may have given up on it; it never
\* does so behind a pending request of the same process of unknown outcome.
Take(r) ==
    /\ r \in open
    /\ evicted \/ \A i \in Pending : Owner[log[i].by] = Owner[r.by] => log[i] \in confirmed
    /\ open' = open \ {r}
    /\ log' = Append(log, r)
    /\ UNCHANGED <<phase, asked, committed, confirmed, evicted>>

Refuse(r) ==
    /\ r \in open
    /\ open' = open \ {r}
    /\ UNCHANGED <<phase, asked, log, committed, confirmed, evicted>>

\* Broadcast returns nil.
Confirm(c) ==
    /\ phase[c] = "asked"
    /\ evicted \/ \E i \in 1..Len(log) : log[i] = Latest(c)
    /\ phase' = [phase EXCEPT ![c] = "idle"]
    /\ confirmed' = confirmed \cup {Latest(c)}
    /\ UNCHANGED <<asked, open, log, committed, evicted>>

\* Broadcast returns an error.
Fail(c) ==
    /\ phase[c] # "idle"
    /\ phase' = [phase EXCEPT ![c] = "idle"]
    /\ UNCHANGED <<asked, open, log, committed, confirmed, evicted>>

Crash(p) ==
    /\ phase' = [c \in Caller |-> IF Owner[c] = p THEN "idle" ELSE phase[c]]
    /\ UNCHANGED <<asked, open, log, committed, confirmed, evicted>>

Commit ==
    /\ \E n \in Pending : committed' = n
    /\ UNCHANGED <<phase, asked, open, log, confirmed, evicted>>

Evict ==
    /\ \E n \in Pending : log' = SubSeq(log, 1, n - 1)
    /\ evicted' = TRUE
    /\ UNCHANGED <<phase, asked, open, committed, confirmed>>

Next ==
    \/ \E c \in Caller : Call(c) \/ Ask(c) \/ Confirm(c) \/ Fail(c)
    \/ \E r \in open : Take(r) \/ Refuse(r)
    \/ \E p \in Process : Crash(p)
    \/ Commit \/ Evict

Spec == Init /\ [][Next]_vars
=============================================================================
