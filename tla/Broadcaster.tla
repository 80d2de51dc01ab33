---------------------------- MODULE Broadcaster ----------------------------
(***************************************************************************)
(* app/service/broadcaster.go: every order, cancel and withdraw message of *)
(* the bot leaves through Broadcaster.Broadcast, which signs it with the   *)
(* next sequence number of the account.  The sequence is cached between    *)
(* calls, because the chain's account query only knows committed blocks    *)
(* while the bot sends several transactions within one block.              *)
(*                                                                         *)
(* A call is split at its remote calls: account query, simulation and      *)
(* BroadcastTx (request, CheckTx at the node, answer).  Between any two    *)
(* steps the node may commit a block or forget a pending transaction, an   *)
(* answer may be lost, a request may be delivered after its caller gave up *)
(* on it, and a process may restart.  The node is external: a transaction  *)
(* passes simulation and CheckTx only with the sequence that follows the   *)
(* transactions already accepted.                                          *)
(***************************************************************************)
EXTENDS Naturals, Sequences, FiniteSets

CONSTANTS
    Process,        \* binaries that sign with this account: mm, cancel, withdraw-all
    Caller,         \* goroutines that call Broadcast
    Owner,          \* Owner[c]: the process caller c runs in
    NoCaller,       \* value of a free mutex
    Quota,          \* bound: successful broadcasts wanted by each caller
    MaxFaults       \* bound: environment faults in a behaviour

ASSUME OwnerAssumption == Owner \in [Caller -> Process]
ASSUME NoCallerAssumption == NoCaller \notin Caller
ASSUME BoundsAssumption == Quota \in Nat /\ MaxFaults \in Nat

VARIABLES
    sequenceValid,  \* Broadcaster.sequenceValid of each process
    cachedSequence, \* Broadcaster.cachedSequence of each process
    mu,             \* Broadcaster.mu: the caller that holds it, or NoCaller
    pc,             \* where each caller is inside Broadcast
    sequence,       \* Broadcast's local variable sequence
    reply,          \* the node's answer on its way back to a caller
    sends,          \* BroadcastTx requests made by each caller
    confirmed,      \* transactions for which Broadcast returned nil
    inflight,       \* requests the node has not processed yet
    log,            \* accepted transactions; log[i] used sequence i - 1
    committed,      \* prefix of log that is in blocks; the rest is the mempool
    faults,         \* environment faults so far
    evicted         \* the node has forgotten an accepted transaction

cacheVars  == <<sequenceValid, cachedSequence>>
callVars   == <<mu, pc, sequence, reply>>
nodeVars   == <<log, committed, evicted>>
recordVars == <<sends, confirmed>>
vars == <<cacheVars, callVars, nodeVars, recordVars, inflight, faults>>

Tx == [by : Caller, n : Nat, seq : Nat]

Pc == {"idle", "query", "simulate", "send", "wait"}

\* Type of every variable: sequences are never negative, and what is in blocks
\* is a prefix of what CheckTx accepted.
TypeOK ==
    /\ sequenceValid \in [Process -> BOOLEAN]
    /\ cachedSequence \in [Process -> Nat]
    /\ mu \in [Process -> Caller \cup {NoCaller}]
    /\ pc \in [Caller -> Pc]
    /\ sequence \in [Caller -> Nat]
    /\ reply \in [Caller -> {"none", "ok", "rejected"}]
    /\ sends \in [Caller -> Nat]
    /\ confirmed \in SUBSET Tx
    /\ inflight \in SUBSET Tx
    /\ log \in Seq(Tx)
    /\ committed \in 0..Len(log)
    /\ faults \in Nat
    /\ evicted \in BOOLEAN

Init ==
    /\ sequenceValid = [p \in Process |-> FALSE]
    /\ cachedSequence = [p \in Process |-> 0]
    /\ mu = [p \in Process |-> NoCaller]
    /\ pc = [c \in Caller |-> "idle"]
    /\ sequence = [c \in Caller |-> 0]
    /\ reply = [c \in Caller |-> "none"]
    /\ sends = [c \in Caller |-> 0]
    /\ confirmed = {}
    /\ inflight = {}
    /\ log = << >>
    /\ committed = 0
    /\ faults = 0
    /\ evicted = FALSE

-----------------------------------------------------------------------------

\* The sequence the node's check state expects next.
CheckSequence == Len(log)

\* The sequence the account query answers: that of the last block.
CommittedSequence == committed

Mempool == (committed + 1)..Len(log)

\* The environment does harm in this step.
Fault ==
    /\ faults < MaxFaults
    /\ faults' = faults + 1

\* The transaction caller c signs for its n-th request.
TxOf(c, n) == [by |-> c, n |-> n, seq |-> sequence[c]]

DoneBy(c) == {t \in confirmed : t.by = c}

\* Broadcast returns: the deferred Unlock, the local variables go out of scope.
Return(c) ==
    /\ mu' = [mu EXCEPT ![Owner[c]] = NoCaller]
    /\ pc' = [pc EXCEPT ![c] = "idle"]
    /\ sequence' = [sequence EXCEPT ![c] = 0]
    /\ reply' = [reply EXCEPT ![c] = "none"]

-----------------------------------------------------------------------------
\* Broadcast, up to the simulation

\* Variant: no mutex around the sequence.
AcquireUnlocked(c) ==
    /\ pc[c] = "idle"
    /\ Cardinality(DoneBy(c)) < Quota
    /\ mu' = [mu EXCEPT ![Owner[c]] = c]

Acquire(c) ==
    /\ pc[c] = "idle"
    /\ Cardinality(DoneBy(c)) < Quota
    /\ mu[Owner[c]] = NoCaller
    /\ mu' = [mu EXCEPT ![Owner[c]] = c]

\* Variant: the cache moves on when a sequence is handed out, not when it is used.
StartCachedTaking(c) ==
    /\ Acquire(c)
    /\ sequenceValid[Owner[c]]
    /\ sequence' = [sequence EXCEPT ![c] = cachedSequence[Owner[c]]]
    /\ cachedSequence' = [cachedSequence EXCEPT ![Owner[c]] = @ + 1]
    /\ pc' = [pc EXCEPT ![c] = "simulate"]
    /\ UNCHANGED <<sequenceValid, reply, nodeVars, recordVars, inflight, faults>>

StartCached(c) ==
    /\ Acquire(c)
    /\ sequenceValid[Owner[c]]
    /\ sequence' = [sequence EXCEPT ![c] = cachedSequence[Owner[c]]]
    /\ pc' = [pc EXCEPT ![c] = "simulate"]
    /\ UNCHANGED <<cacheVars, reply, nodeVars, recordVars, inflight, faults>>

StartQuery(c) ==
    /\ Acquire(c)
    /\ ~sequenceValid[Owner[c]]
    /\ pc' = [pc EXCEPT ![c] = "query"]
    /\ UNCHANGED <<cacheVars, sequence, reply, nodeVars, recordVars, inflight, faults>>

\* Variant: the answer taken for one too many.
QueryAccountMinusOne(c) ==
    /\ pc[c] = "query"
    /\ sequence' = [sequence EXCEPT ![c] = CommittedSequence - 1]
    /\ pc' = [pc EXCEPT ![c] = "simulate"]
    /\ UNCHANGED <<cacheVars, mu, reply, nodeVars, recordVars, inflight, faults>>

QueryAccount(c) ==
    /\ pc[c] = "query"
    /\ sequence' = [sequence EXCEPT ![c] = CommittedSequence]
    /\ pc' = [pc EXCEPT ![c] = "simulate"]
    /\ UNCHANGED <<cacheVars, mu, reply, nodeVars, recordVars, inflight, faults>>

Simulate(c) ==
    /\ pc[c] = "simulate"
    /\ sequence[c] = CheckSequence
    /\ pc' = [pc EXCEPT ![c] = "send"]
    /\ UNCHANGED <<cacheVars, mu, sequence, reply, nodeVars, recordVars, inflight, faults>>

\* Variant: a failed simulation leaves the cache alone.
SimulateFailsKeeping(c) ==
    /\ pc[c] = "simulate"
    /\ \/ sequence[c] # CheckSequence /\ UNCHANGED faults
       \/ Fault
    /\ Return(c)
    /\ UNCHANGED <<cacheVars, nodeVars, recordVars, inflight>>

\* Wrong sequence, or any other failure of the simulation: the cache is dropped.
SimulateFails(c) ==
    /\ pc[c] = "simulate"
    /\ \/ sequence[c] # CheckSequence /\ UNCHANGED faults
       \/ Fault
    /\ sequenceValid' = [sequenceValid EXCEPT ![Owner[c]] = FALSE]
    /\ Return(c)
    /\ UNCHANGED <<cachedSequence, nodeVars, recordVars, inflight>>

\* An error return that leaves the cache as it is: no connection, the account
\* query, signing, encoding or fee computation failed, or BroadcastTx failed
\* before its request left.
FailKeepingCache(c) ==
    /\ pc[c] \in {"query", "simulate", "send"}
    /\ Fault
    /\ Return(c)
    /\ UNCHANGED <<cacheVars, nodeVars, recordVars, inflight>>

-----------------------------------------------------------------------------
\* BroadcastTx

Send(c) ==
    /\ pc[c] = "send"
    /\ sends' = [sends EXCEPT ![c] = @ + 1]
    /\ inflight' = inflight \cup {TxOf(c, sends'[c])}
    /\ pc' = [pc EXCEPT ![c] = "wait"]
    /\ UNCHANGED <<cacheVars, mu, sequence, reply, nodeVars, confirmed, faults>>

\* The answer r to transaction t reaches t.by if it still waits for it.
Answer(t, r) ==
    reply' = IF pc[t.by] = "wait" /\ sends[t.by] = t.n
             THEN [reply EXCEPT ![t.by] = r]
             ELSE reply

CheckTx(t) ==
    /\ t \in inflight
    /\ t.seq = CheckSequence
    /\ inflight' = inflight \ {t}
    /\ log' = Append(log, t)
    /\ Answer(t, "ok")
    /\ UNCHANGED <<cacheVars, mu, pc, sequence, committed, evicted, recordVars, faults>>

CheckTxRejects(t) ==
    /\ t \in inflight
    /\ \/ t.seq # CheckSequence /\ UNCHANGED faults
       \/ Fault
    /\ inflight' = inflight \ {t}
    /\ Answer(t, "rejected")
    /\ UNCHANGED <<cacheVars, mu, pc, sequence, nodeVars, recordVars>>

\* Variant: TxResponse.Code is not looked at.
SucceedWhateverCode(c) ==
    /\ pc[c] = "wait" /\ reply[c] # "none"
    /\ cachedSequence' = [cachedSequence EXCEPT ![Owner[c]] = sequence[c] + 1]
    /\ sequenceValid' = [sequenceValid EXCEPT ![Owner[c]] = TRUE]
    /\ confirmed' = confirmed \cup {TxOf(c, sends[c])}
    /\ Return(c)
    /\ UNCHANGED <<sends, nodeVars, inflight, faults>>

\* TxResponse.Code = 0: the next call uses sequence + 1 without asking.
Succeed(c) ==
    /\ pc[c] = "wait" /\ reply[c] = "ok"
    /\ cachedSequence' = [cachedSequence EXCEPT ![Owner[c]] = sequence[c] + 1]
    /\ sequenceValid' = [sequenceValid EXCEPT ![Owner[c]] = TRUE]
    /\ confirmed' = confirmed \cup {TxOf(c, sends[c])}
    /\ Return(c)
    /\ UNCHANGED <<sends, nodeVars, inflight, faults>>

Rejected(c) ==
    /\ pc[c] = "wait" /\ reply[c] = "rejected"
    /\ sequenceValid' = [sequenceValid EXCEPT ![Owner[c]] = FALSE]
    /\ Return(c)
    /\ UNCHANGED <<cachedSequence, recordVars, nodeVars, inflight, faults>>

\* Variant: a lost answer counts as a used sequence.
AnswerLostMovingOn(c) ==
    /\ pc[c] = "wait"
    /\ Fault
    /\ cachedSequence' = [cachedSequence EXCEPT ![Owner[c]] = sequence[c] + 1]
    /\ Return(c)
    /\ UNCHANGED <<sequenceValid, recordVars, nodeVars, inflight>>

\* BroadcastTx returns an error although the request left: whether the node
\* has processed, will process or never sees it, the cache is kept.
AnswerLost(c) ==
    /\ pc[c] = "wait"
    /\ Fault
    /\ Return(c)
    /\ UNCHANGED <<cacheVars, recordVars, nodeVars, inflight>>

-----------------------------------------------------------------------------
\* The node and the operating system

Commit ==
    /\ \E n \in Mempool : committed' = n
    /\ UNCHANGED <<cacheVars, callVars, recordVars, inflight, log, evicted, faults>>

\* The node drops a pending transaction and, with it, those that follow it.
Evict ==
    /\ Fault
    /\ \E n \in Mempool : log' = SubSeq(log, 1, n - 1)
    /\ evicted' = TRUE
    /\ UNCHANGED <<cacheVars, callVars, recordVars, inflight, committed>>

\* Process p dies and is started again: everything in memory is lost.
Restart(p) ==
    /\ Fault
    /\ sequenceValid' = [sequenceValid EXCEPT ![p] = FALSE]
    /\ cachedSequence' = [cachedSequence EXCEPT ![p] = 0]
    /\ mu' = [mu EXCEPT ![p] = NoCaller]
    /\ pc' = [c \in Caller |-> IF Owner[c] = p THEN "idle" ELSE pc[c]]
    /\ sequence' = [c \in Caller |-> IF Owner[c] = p THEN 0 ELSE sequence[c]]
    /\ reply' = [c \in Caller |-> IF Owner[c] = p THEN "none" ELSE reply[c]]
    /\ UNCHANGED <<recordVars, nodeVars, inflight>>

\* Nothing is left to do: every quota is met and every request processed.
Quiescent ==
    /\ \A c \in Caller : pc[c] = "idle" /\ Cardinality(DoneBy(c)) >= Quota
    /\ inflight = {}
    /\ Mempool = {}
    /\ UNCHANGED vars

CallerStep(c) ==
    \/ StartCached(c) \/ StartQuery(c) \/ QueryAccount(c)
    \/ Simulate(c) \/ SimulateFails(c) \/ Send(c)
    \/ Succeed(c) \/ Rejected(c)

Next ==
    \/ \E c \in Caller : CallerStep(c) \/ FailKeepingCache(c) \/ AnswerLost(c)
    \/ \E t \in inflight : CheckTx(t) \/ CheckTxRejects(t)
    \/ \E p \in Process : Restart(p)
    \/ Commit \/ Evict \/ Quiescent

Spec == Init /\ [][Next]_vars

\* Goroutines run, the node answers what it received and blocks are made.
\* Faults, Restart and Evict are not fair: they may happen, no one waits for them.
Fairness ==
    /\ \A c \in Caller : WF_vars(CallerStep(c))
    /\ WF_vars(\E t \in inflight : CheckTx(t) \/ CheckTxRejects(t))
    /\ WF_vars(Commit)

FairSpec == Spec /\ Fairness
-----------------------------------------------------------------------------
\* Properties

\* A call that returned nil (broadcaster.go:273-281) put its transaction into
\* the chain's log under the sequence it signed, whatever answers, requests or
\* processes were lost around it; only the node itself can forget it again.
ConfirmedAccepted ==
    ~evicted =>
        \A t \in confirmed : t.seq < Len(log) /\ log[t.seq + 1] = t

\* The cached sequence may fall behind the chain (a lost answer, another
\* process) but never runs ahead of it unless the node forgot a transaction.
CacheNotAhead ==
    ~evicted =>
        \A p \in Process : sequenceValid[p] => cachedSequence[p] <= CheckSequence

\* A process never gets a second transaction into the mempool behind one whose
\* outcome it does not know: after a lost answer, a crash or a request that was
\* given up, nothing more is accepted from it until that one is in a block.
\* This is why a retry after an unknown outcome reads a book that shows it.
NoPileUpBehindUnknown ==
    ~evicted =>
        \A i, j \in Mempool :
            i < j /\ Owner[log[i].by] = Owner[log[j].by] => log[i] \in confirmed

\* "Lock to prevent concurrent broadcasts with sequence mismatch"
\* (broadcaster.go:109): while no fault has happened and process p alone has
\* used the account, every attempt of p, of whichever goroutine, carries the
\* sequence the node expects, even when its earlier ones are still pending.
SequenceFits ==
    \A p \in Process :
        /\ faults = 0
        /\ \A i \in 1..Len(log) : Owner[log[i].by] = p
        => \A c \in Caller :
              Owner[c] = p /\ pc[c] \in {"simulate", "send"} =>
                  sequence[c] = CheckSequence

\* However the cache was left behind (lost answers, restarts, evictions, other
\* processes on the same account), callers that keep trying all get through.
EveryCallerSucceeds == <>(\A c \in Caller : Cardinality(DoneBy(c)) >= Quota)
-----------------------------------------------------------------------------
\* What callers see of this module: calls, requests and the chain's log without
\* the numbers the transactions were signed with.

RequestOf(t) == [by |-> t.by, n |-> t.n]

PhaseOf(c) ==
    CASE pc[c] = "idle" -> "idle"
      [] pc[c] = "wait" -> "asked"
      [] OTHER          -> "called"

Promise == INSTANCE Account WITH
    phase <- [c \in Caller |-> PhaseOf(c)],
    asked <- sends,
    open <- {RequestOf(t) : t \in inflight},
    log <- [i \in 1..Len(log) |-> RequestOf(log[i])],
    committed <- committed,
    confirmed <- {RequestOf(t) : t \in confirmed},
    evicted <- evicted

\* Broadcast as a whole (broadcaster.go:104-284) implements Account: whatever is
\* lost, late or restarted, a process makes one request at a time, reports
\* success only for a request the chain has taken, and never gets a second
\* request taken behind one whose outcome it does not know.
ImplementsAccount == Promise!Spec
=============================================================================
