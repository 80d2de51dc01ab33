------------------------- MODULE BroadcasterProofs -------------------------
(***************************************************************************)
(* Proofs about Broadcaster, for any processes, callers, quotas and number *)
(* of faults: type correctness, ConfirmedAccepted, CacheNotAhead,          *)
(* NoPileUpBehindUnknown and SequenceFits, and that it implements Account. *)
(*                                                                         *)
(* None of them is inductive alone.  What makes them so is an account      *)
(* of every place a sequence number can be while a call is under way - the *)
(* cache, a caller's local variable, a request in flight, an answer in     *)
(* flight - and of what is known about the mempool when that number is the *)
(* one the node expects next.                                              *)
(***************************************************************************)
EXTENDS Broadcaster, TLAPS

\* Only the holder of its process's mutex is inside Broadcast.
LockInv == \A c \in Caller : pc[c] # "idle" => mu[Owner[c]] = c

\* The log is gapless: the i-th accepted transaction used sequence i - 1.
LogInv == \A i \in 1..Len(log) : log[i].seq = i - 1

\* A request in flight is one its caller has sent; if the caller still waits
\* for it, it carries the caller's sequence.
FlightInv ==
    \A t \in inflight :
        /\ t.n <= sends[t.by]
        /\ pc[t.by] = "wait" /\ sends[t.by] = t.n => t.seq = sequence[t.by]

\* Answers go to callers that wait, and "ok" means the transaction is logged.
ReplyInv ==
    \A c \in Caller :
        /\ reply[c] # "none" => pc[c] = "wait"
        /\ reply[c] = "ok" /\ ~evicted =>
              /\ sequence[c] < Len(log)
              /\ log[sequence[c] + 1] = TxOf(c, sends[c])

\* No sequence in use is ahead of the chain.
SequenceBound ==
    ~evicted =>
        /\ \A p \in Process : sequenceValid[p] => cachedSequence[p] <= Len(log)
        /\ \A c \in Caller : sequence[c] <= Len(log)
        /\ \A t \in inflight : t.seq <= Len(log)

\* Every pending transaction of process p, except perhaps log[k], is confirmed.
KnownBut(p, k) ==
    \A i \in Mempool : Owner[log[i].by] = p /\ i # k => log[i] \in confirmed

Known(p) == KnownBut(p, 0)

\* Whoever holds the sequence the node expects next has no pending
\* transaction with an unknown outcome.
KnownByCache ==
    \A p \in Process :
        sequenceValid[p] /\ cachedSequence[p] = Len(log) => Known(p)

KnownByCaller ==
    \A c \in Caller :
        pc[c] \in {"simulate", "send"} /\ sequence[c] = Len(log) => Known(Owner[c])

KnownInFlight ==
    \A t \in inflight : t.seq = Len(log) => Known(Owner[t.by])

KnownByReply ==
    \A c \in Caller :
        reply[c] = "ok" /\ sequence[c] + 1 = Len(log) => KnownBut(Owner[c], Len(log))

KnownInv ==
    ~evicted => KnownByCache /\ KnownByCaller /\ KnownInFlight /\ KnownByReply

IInv ==
    /\ TypeOK
    /\ LockInv
    /\ LogInv
    /\ FlightInv
    /\ ReplyInv
    /\ SequenceBound
    /\ KnownInv
    /\ ConfirmedAccepted
    /\ NoPileUpBehindUnknown

\* While no fault has happened and process p alone used the account, the cache
\* follows the chain step by step.
Alone(p) == faults = 0 /\ \A i \in 1..Len(log) : Owner[log[i].by] = p

QuietFlight ==
    faults = 0 =>
        /\ ~evicted
        /\ \A t \in inflight :
              pc[t.by] = "wait" /\ sends[t.by] = t.n /\ reply[t.by] = "none"

CallFits(c) ==
    /\ pc[c] = "query" => Len(log) = 0
    /\ pc[c] \in {"simulate", "send"} => sequence[c] = Len(log)
    /\ pc[c] = "wait" =>
          /\ reply[c] = "none" => sequence[c] = Len(log)
          /\ reply[c] = "ok" => sequence[c] + 1 = Len(log)
          /\ reply[c] # "rejected"

CacheFits(p) ==
    (\A c \in Caller : Owner[c] = p => reply[c] # "ok") =>
        /\ sequenceValid[p] => cachedSequence[p] = Len(log)
        /\ ~sequenceValid[p] => Len(log) = 0

Fits(p) == CacheFits(p) /\ \A c \in Caller : Owner[c] = p => CallFits(c)

FitsInv == \A p \in Process : Alone(p) => Fits(p)
-----------------------------------------------------------------------------

\* Every variable keeps its type in every step of Broadcaster.
LEMMA TypeStep == TypeOK /\ [Next]_vars => TypeOK'
<1> SUFFICES ASSUME TypeOK, [Next]_vars PROVE TypeOK'
    OBVIOUS
<1> USE OwnerAssumption DEF TypeOK, Pc, cacheVars, callVars, nodeVars, recordVars
<1>0. Len(log) \in Nat
    OBVIOUS
<1>1. ASSUME NEW c \in Caller, StartCached(c) PROVE TypeOK'
    BY <1>1 DEF StartCached, Acquire
<1>2. ASSUME NEW c \in Caller, StartQuery(c) PROVE TypeOK'
    BY <1>2 DEF StartQuery, Acquire
<1>3. ASSUME NEW c \in Caller, QueryAccount(c) PROVE TypeOK'
    BY <1>3 DEF QueryAccount, CommittedSequence
<1>4. ASSUME NEW c \in Caller, Simulate(c) PROVE TypeOK'
    BY <1>4 DEF Simulate
<1>5. ASSUME NEW c \in Caller, SimulateFails(c) PROVE TypeOK'
    BY <1>5 DEF SimulateFails, Return, Fault
<1>6. ASSUME NEW c \in Caller, FailKeepingCache(c) PROVE TypeOK'
    BY <1>6 DEF FailKeepingCache, Return, Fault
<1>7. ASSUME NEW c \in Caller, Send(c) PROVE TypeOK'
    <2>1. TxOf(c, sends'[c]) \in Tx
        BY <1>7 DEF Send, TxOf, Tx
    <2> QED
        BY <1>7, <2>1 DEF Send
<1>8. ASSUME NEW t \in inflight, CheckTx(t) PROVE TypeOK'
    <2>1. t \in Tx /\ t.by \in Caller
        BY DEF Tx
    <2>2. log' \in Seq(Tx) /\ Len(log') = Len(log) + 1
        BY <1>8, <2>1 DEF CheckTx
    <2>3. reply' \in [Caller -> {"none", "ok", "rejected"}]
        BY <1>8, <2>1 DEF CheckTx, Answer
    <2> QED
        BY <1>0, <1>8, <2>2, <2>3 DEF CheckTx
<1>9. ASSUME NEW t \in inflight, CheckTxRejects(t) PROVE TypeOK'
    <2>1. t \in Tx /\ t.by \in Caller
        BY DEF Tx
    <2>2. reply' \in [Caller -> {"none", "ok", "rejected"}]
        BY <1>9, <2>1 DEF CheckTxRejects, Answer
    <2>3. faults' \in Nat
        BY <1>9 DEF CheckTxRejects, Fault
    <2> QED
        BY <1>9, <2>2, <2>3 DEF CheckTxRejects
<1>10. ASSUME NEW c \in Caller, Succeed(c) PROVE TypeOK'
    <2>1. TxOf(c, sends[c]) \in Tx
        BY DEF TxOf, Tx
    <2> QED
        BY <1>10, <2>1 DEF Succeed, Return
<1>11. ASSUME NEW c \in Caller, Rejected(c) PROVE TypeOK'
    BY <1>11 DEF Rejected, Return
<1>12. ASSUME NEW c \in Caller, AnswerLost(c) PROVE TypeOK'
    BY <1>12 DEF AnswerLost, Return, Fault
<1>13. ASSUME Commit PROVE TypeOK'
    <2>1. committed' \in 0..Len(log)
        BY <1>0, <1>13 DEF Commit, Mempool
    <2> QED
        BY <1>13, <2>1 DEF Commit
<1>14. ASSUME Evict PROVE TypeOK'
    <2>1. PICK n \in Mempool : log' = SubSeq(log, 1, n - 1)
        BY <1>14 DEF Evict
    <2>2. n \in Nat /\ n > committed /\ n <= Len(log)
        BY <1>0, <2>1 DEF Mempool
    <2>3. log' \in Seq(Tx) /\ Len(log') = n - 1
        BY <2>1, <2>2
    <2> QED
        BY <1>14, <2>2, <2>3 DEF Evict, Fault
<1>15. ASSUME NEW p \in Process, Restart(p) PROVE TypeOK'
    BY <1>15 DEF Restart, Fault
<1>16. ASSUME UNCHANGED vars PROVE TypeOK'
    BY <1>16 DEF vars
<1> QED
    BY <1>1, <1>2, <1>3, <1>4, <1>5, <1>6, <1>7, <1>8, <1>9, <1>10, <1>11,
       <1>12, <1>13, <1>14, <1>15, <1>16
    DEF Next, CallerStep, Quiescent

\* The initial state is well typed.
LEMMA TypeInit == Init => TypeOK
<1>1. << >> \in Seq(Tx) /\ 0 \in 0..Len(<< >>)
    OBVIOUS
<1>2. {} \in SUBSET Tx
    OBVIOUS
<1> SUFFICES ASSUME Init PROVE TypeOK
    OBVIOUS
<1>3. log \in Seq(Tx) /\ committed \in 0..Len(log)
    BY <1>1 DEF Init
<1>4. confirmed \in SUBSET Tx /\ inflight \in SUBSET Tx
    BY <1>2 DEF Init
<1>5. sequenceValid \in [Process -> BOOLEAN] /\ evicted \in BOOLEAN
    BY DEF Init
<1> QED
    BY <1>3, <1>4, <1>5 DEF Init, TypeOK, Pc

\* Sequences stay natural numbers and the blocks a prefix of the log.
THEOREM TypeCorrect == Spec => []TypeOK
    BY TypeInit, TypeStep, PTL DEF Spec

-----------------------------------------------------------------------------

\* The components of transactions, and where the mempool lies in the log.
LEMMA TxTypes ==
    ASSUME TypeOK
    PROVE  /\ Len(log) \in Nat
           /\ \A t \in inflight : t \in Tx /\ t.by \in Caller /\ t.n \in Nat /\ t.seq \in Nat
           /\ \A i \in 1..Len(log) :
                 log[i] \in Tx /\ log[i].by \in Caller /\ log[i].n \in Nat /\ log[i].seq \in Nat
           /\ Mempool \subseteq 1..Len(log)
<1>1. Len(log) \in Nat /\ committed \in Nat
    BY DEF TypeOK
<1>2. \A i \in 1..Len(log) : log[i] \in Tx
    BY DEF TypeOK
<1> QED
    BY <1>1, <1>2 DEF TypeOK, Tx, Mempool

\* Nothing is cached, sent or logged at first.
LEMMA InductiveInit == Init => IInv
<1> SUFFICES ASSUME Init PROVE IInv
    OBVIOUS
<1>1. TypeOK
    BY TypeInit
<1>2. Len(log) = 0 /\ Mempool = {}
    BY DEF Init, Mempool
<1> QED
    BY <1>1, <1>2
    DEF Init, IInv, LockInv, LogInv, FlightInv, ReplyInv, SequenceBound,
        KnownInv, KnownByCache, KnownByCaller, KnownInFlight, KnownByReply,
        Known, KnownBut, ConfirmedAccepted, NoPileUpBehindUnknown

\* Where caller c's sequence comes from in a step that only moves callers: it
\* is given up, kept, copied from the cache or queried.
Moves(c) ==
    /\ pc'[c] = "wait" => pc[c] = "wait" /\ sequence'[c] = sequence[c]
    /\ reply'[c] # "none" => pc'[c] = "wait" /\ reply'[c] = reply[c]
    /\ \/ sequence'[c] = 0 /\ pc'[c] \notin {"simulate", "send"}
       \/ /\ sequence'[c] = sequence[c]
          /\ pc'[c] \in {"simulate", "send"} => pc[c] \in {"simulate", "send"}
       \/ sequenceValid[Owner[c]] /\ sequence'[c] = cachedSequence[Owner[c]]
       \/ sequence'[c] = committed

\* A step that changes neither the node nor the records, lets caches only be
\* dropped and only moves callers preserves the invariant: it can take no
\* sequence out of anything but the cache, the node and itself.
LEMMA InductiveQuiet ==
    ASSUME IInv, TypeOK', LockInv',
           UNCHANGED <<log, committed, evicted, sends, confirmed, inflight>>,
           \A p \in Process :
               sequenceValid'[p] => sequenceValid[p] /\ cachedSequence'[p] = cachedSequence[p],
           \A c \in Caller : Moves(c)
    PROVE  IInv'
<1> USE OwnerAssumption DEF IInv
<1>1. LogInv' /\ ConfirmedAccepted' /\ NoPileUpBehindUnknown'
    BY DEF LogInv, ConfirmedAccepted, NoPileUpBehindUnknown, Mempool, CheckSequence
<1>2. FlightInv'
    BY TxTypes DEF FlightInv, Moves
<1>3. ReplyInv'
    BY DEF ReplyInv, TxOf, Moves, TypeOK
<1>4. Len(log) \in Nat /\ committed <= Len(log) /\ committed \in Nat
    BY TxTypes DEF TypeOK
<1>5. SequenceBound'
    <2> SUFFICES ASSUME ~evicted, NEW c \in Caller PROVE sequence'[c] <= Len(log)
        BY DEF SequenceBound
    <2>1. sequence[c] <= Len(log)
        BY DEF SequenceBound
    <2>2. sequenceValid[Owner[c]] => cachedSequence[Owner[c]] <= Len(log)
        BY DEF SequenceBound
    <2> QED
        BY <1>4, <2>1, <2>2 DEF Moves
<1>6. KnownInv'
    <2> SUFFICES ASSUME ~evicted
                 PROVE  (KnownByCache /\ KnownByCaller /\ KnownInFlight /\ KnownByReply)'
        BY DEF KnownInv
    <2>1. KnownByCache /\ KnownByCaller /\ KnownInFlight /\ KnownByReply
        BY DEF KnownInv
    <2>2. \A p, k : KnownBut(p, k)' = KnownBut(p, k)
        BY DEF KnownBut, Mempool
    <2>3. KnownByCache' /\ KnownInFlight'
        BY <2>1, <2>2 DEF KnownByCache, KnownInFlight, Known
    <2>4. KnownByReply'
        BY <2>1, <2>2 DEF KnownByReply, Moves
    <2>5. KnownByCaller'
        <3> SUFFICES ASSUME NEW c \in Caller, pc'[c] \in {"simulate", "send"},
                            sequence'[c] = Len(log)
                     PROVE  KnownBut(Owner[c], 0)
            BY <2>2 DEF KnownByCaller, Known
        <3>1. CASE sequence'[c] = committed
            BY <1>4, <3>1 DEF KnownBut, Mempool
        <3>2. CASE sequenceValid[Owner[c]] /\ sequence'[c] = cachedSequence[Owner[c]]
            BY <2>1, <3>2 DEF KnownByCache, Known
        <3>3. CASE sequence'[c] = sequence[c] /\ pc[c] \in {"simulate", "send"}
            BY <2>1, <3>3 DEF KnownByCaller, Known
        <3> QED
            BY <3>1, <3>2, <3>3 DEF Moves
    <2> QED
        BY <2>3, <2>4, <2>5
<1> QED
    BY <1>1, <1>2, <1>3, <1>5, <1>6

\* The steps that fall under InductiveQuiet.
LEMMA InductiveCall ==
    ASSUME IInv, TypeOK', NEW c \in Caller,
           \/ StartCached(c) \/ StartQuery(c) \/ QueryAccount(c) \/ Simulate(c)
           \/ SimulateFails(c) \/ FailKeepingCache(c) \/ Rejected(c) \/ AnswerLost(c)
    PROVE  IInv'
<1> USE OwnerAssumption, NoCallerAssumption
    DEF cacheVars, callVars, nodeVars, recordVars
<1>1. TypeOK /\ LockInv /\ ReplyInv
    BY DEF IInv
<1>2. CASE StartCached(c) \/ StartQuery(c)
    <2>1. LockInv'
        <3>1. Acquire(c) /\ (pc' = [pc EXCEPT ![c] = "simulate"] \/ pc' = [pc EXCEPT ![c] = "query"])
            BY <1>2 DEF StartCached, StartQuery
        <3>2. \A d \in Caller : pc[d] # "idle" => Owner[d] # Owner[c]
            BY <1>1, <3>1 DEF Acquire, LockInv
        <3> SUFFICES ASSUME NEW d \in Caller, pc'[d] # "idle" PROVE mu'[Owner[d]] = d
            BY DEF LockInv
        <3>3. CASE d = c
            BY <1>1, <3>1, <3>3 DEF Acquire, TypeOK
        <3>4. CASE d # c
            BY <1>1, <3>1, <3>2, <3>4 DEF Acquire, LockInv, TypeOK
        <3> QED
            BY <3>3, <3>4
    <2>2. \A d \in Caller : Moves(d)
        <3> SUFFICES ASSUME NEW d \in Caller PROVE Moves(d)
            OBVIOUS
        <3>1. CASE d = c
            BY <1>1, <1>2, <3>1 DEF StartCached, StartQuery, Acquire, Moves, ReplyInv, TypeOK
        <3>2. CASE d # c
            BY <1>1, <1>2, <3>2 DEF StartCached, StartQuery, Acquire, Moves, ReplyInv, TypeOK
        <3> QED
            BY <3>1, <3>2
    <2> QED
        BY <1>2, <2>1, <2>2, InductiveQuiet DEF StartCached, StartQuery
<1>3. CASE QueryAccount(c) \/ Simulate(c)
    <2>1. LockInv'
        BY <1>1, <1>3 DEF QueryAccount, Simulate, LockInv, TypeOK
    <2>2. \A d \in Caller : Moves(d)
        BY <1>1, <1>3 DEF QueryAccount, Simulate, CommittedSequence, Moves, ReplyInv, TypeOK
    <2> QED
        BY <1>3, <2>1, <2>2, InductiveQuiet DEF QueryAccount, Simulate
<1>4. CASE SimulateFails(c) \/ FailKeepingCache(c) \/ Rejected(c) \/ AnswerLost(c)
    <2>0. Return(c) /\ pc[c] # "idle" /\ UNCHANGED <<nodeVars, recordVars, inflight>>
        BY <1>4 DEF SimulateFails, FailKeepingCache, Rejected, AnswerLost
    <2>1. LockInv'
        BY <1>1, <2>0 DEF Return, LockInv, TypeOK
    <2>2. \A d \in Caller : Moves(d)
        BY <1>1, <2>0 DEF Return, Moves, ReplyInv, TypeOK
    <2>3. \A p \in Process :
              sequenceValid'[p] => sequenceValid[p] /\ cachedSequence'[p] = cachedSequence[p]
        BY <1>1, <1>4 DEF SimulateFails, FailKeepingCache, Rejected, AnswerLost, TypeOK
    <2> QED
        BY <2>0, <2>1, <2>2, <2>3, InductiveQuiet
<1> QED
    BY <1>2, <1>3, <1>4

\* A restart gives up every sequence its process had.
LEMMA InductiveRestart ==
    ASSUME IInv, TypeOK', NEW p \in Process, Restart(p)
    PROVE  IInv'
<1> USE OwnerAssumption DEF cacheVars, callVars, nodeVars, recordVars
<1>1. TypeOK /\ LockInv /\ ReplyInv
    BY DEF IInv
<1>2. LockInv'
    BY <1>1 DEF Restart, LockInv, TypeOK
<1>3. \A c \in Caller : Moves(c)
    BY <1>1 DEF Restart, Moves, ReplyInv, TypeOK
<1>4. \A q \in Process :
          sequenceValid'[q] => sequenceValid[q] /\ cachedSequence'[q] = cachedSequence[q]
    BY <1>1 DEF Restart, TypeOK
<1> QED
    BY <1>2, <1>3, <1>4, InductiveQuiet DEF Restart

\* A request inherits what is known of the mempool from its caller.
LEMMA InductiveSend ==
    ASSUME IInv, TypeOK', NEW c \in Caller, Send(c)
    PROVE  IInv'
<1> USE OwnerAssumption DEF IInv, cacheVars, callVars, nodeVars, recordVars
<1> DEFINE t == TxOf(c, sends[c] + 1)
<1>1. /\ pc[c] = "send" /\ pc' = [pc EXCEPT ![c] = "wait"]
      /\ sends' = [sends EXCEPT ![c] = @ + 1] /\ inflight' = inflight \cup {t}
      /\ t.by = c /\ t.n = sends[c] + 1 /\ t.seq = sequence[c]
      /\ reply[c] = "none"
      /\ UNCHANGED <<cacheVars, mu, sequence, reply, log, committed, evicted, confirmed>>
    BY DEF Send, TxOf, TypeOK, ReplyInv
<1> HIDE DEF t
<1>2. LockInv'
    BY <1>1 DEF LockInv, TypeOK
<1>3. LogInv' /\ ConfirmedAccepted' /\ NoPileUpBehindUnknown'
    BY <1>1 DEF LogInv, ConfirmedAccepted, NoPileUpBehindUnknown, Mempool, CheckSequence
<1>4. FlightInv'
    BY <1>1, TxTypes DEF FlightInv, TypeOK
<1>5. ReplyInv'
    BY <1>1 DEF ReplyInv, TxOf, TypeOK
<1>6. SequenceBound'
    BY <1>1 DEF SequenceBound, TypeOK
<1>7. KnownInv'
    <2> SUFFICES ASSUME ~evicted
                 PROVE  (KnownByCache /\ KnownByCaller /\ KnownInFlight /\ KnownByReply)'
        BY <1>1 DEF KnownInv
    <2>1. KnownByCache /\ KnownByCaller /\ KnownInFlight /\ KnownByReply
        BY DEF KnownInv
    <2>2. \A p, k : KnownBut(p, k)' = KnownBut(p, k)
        BY <1>1 DEF KnownBut, Mempool
    <2>3. KnownByCache' /\ KnownByReply' /\ KnownByCaller'
        BY <1>1, <2>1, <2>2 DEF KnownByCache, KnownByReply, KnownByCaller, Known, TypeOK
    <2>4. KnownInFlight'
        BY <1>1, <2>1, <2>2 DEF KnownInFlight, KnownByCaller, Known
    <2> QED
        BY <2>3, <2>4
<1> QED
    BY <1>2, <1>3, <1>4, <1>5, <1>6, <1>7

\* What CheckTx accepts becomes the end of the log.  No sequence was ahead of
\* the log, so none but the accepted caller's own fits the longer log, and what
\* was known with the accepted transaction's sequence still is.
LEMMA InductiveCheckTx ==
    ASSUME IInv, TypeOK', NEW t \in inflight, CheckTx(t)
    PROVE  IInv'
<1> USE OwnerAssumption DEF IInv
<1>1. /\ t.seq = Len(log) /\ inflight' = inflight \ {t} /\ log' = Append(log, t)
      /\ Answer(t, "ok")
      /\ UNCHANGED <<sequenceValid, cachedSequence, mu, pc, sequence, committed, evicted,
                     sends, confirmed>>
    BY DEF CheckTx, CheckSequence, cacheVars, recordVars
<1>2. /\ Len(log) \in Nat /\ committed \in Nat /\ committed <= Len(log)
      /\ t \in Tx /\ t.by \in Caller
      /\ Len(log') = Len(log) + 1 /\ log'[Len(log) + 1] = t
      /\ \A i \in 1..Len(log) : log'[i] = log[i]
    BY <1>1, TxTypes DEF TypeOK
<1>3. /\ Mempool' = Mempool \cup {Len(log) + 1} /\ Mempool \subseteq 1..Len(log)
      /\ \A i \in Mempool' : i \in Nat /\ i <= Len(log) + 1
    BY <1>1, <1>2 DEF Mempool
<1>4. \A c \in Caller :
          reply'[c] # reply[c] => c = t.by /\ pc[c] = "wait" /\ sends[c] = t.n /\ t.seq = sequence[c]
    BY <1>1, <1>2 DEF Answer, FlightInv, TypeOK
<1>5. LockInv' /\ FlightInv'
    BY <1>1 DEF LockInv, FlightInv
<1>6. LogInv'
    BY <1>1, <1>2 DEF LogInv
<1>7. ReplyInv'
    <2> SUFFICES ASSUME NEW c \in Caller, reply'[c] # "none"
                 PROVE  /\ pc[c] = "wait"
                        /\ reply'[c] = "ok" /\ ~evicted =>
                              /\ sequence[c] < Len(log')
                              /\ log'[sequence[c] + 1] = TxOf(c, sends[c])
        BY <1>1 DEF ReplyInv, TxOf
    <2>0. sequence[c] \in Nat
        BY DEF TypeOK
    <2>1. CASE reply'[c] = reply[c]
        BY <1>2, <2>0, <2>1 DEF ReplyInv
    <2>2. CASE reply'[c] # reply[c]
        <3>1. t = TxOf(c, sends[c])
            BY <1>2, <1>4, <2>2 DEF Tx, TxOf
        <3> QED
            BY <1>1, <1>2, <1>4, <2>0, <2>2, <3>1
    <2> QED
        BY <2>1, <2>2
<1>8. SequenceBound'
    BY <1>1, <1>2, TxTypes DEF SequenceBound, TypeOK
<1>9. KnownInv'
    <2> SUFFICES ASSUME ~evicted
                 PROVE  (KnownByCache /\ KnownByCaller /\ KnownInFlight /\ KnownByReply)'
        BY <1>1 DEF KnownInv
    <2>1. KnownByCache' /\ KnownByCaller' /\ KnownInFlight'
        BY <1>1, <1>2 DEF KnownByCache, KnownByCaller, KnownInFlight, SequenceBound
    <2>2. KnownByReply'
        <3> SUFFICES ASSUME NEW c \in Caller, reply'[c] = "ok", sequence[c] = Len(log),
                            NEW i \in Mempool', Owner[log'[i].by] = Owner[c], i # Len(log')
                     PROVE  log'[i] \in confirmed
            <4>1. \A c \in Caller : sequence[c] \in Nat
                BY DEF TypeOK
            <4>2. \A c \in Caller : sequence[c] + 1 = Len(log') => sequence[c] = Len(log)
                BY <1>2, <4>1
            <4> QED
                BY <1>1, <4>2 DEF KnownByReply, KnownBut
        <3>1. c = t.by
            <4>1. CASE reply[c] = "ok"
                <5>1. sequence[c] < Len(log)
                    BY <4>1 DEF ReplyInv
                <5> QED
                    BY <1>2, <5>1
            <4>2. CASE reply[c] # "ok"
                BY <1>4, <4>2
            <4> QED
                BY <4>1, <4>2
        <3>2. i \in Mempool /\ log'[i] = log[i]
            BY <1>2, <1>3
        <3>3. Known(Owner[t.by])
            BY <1>1 DEF KnownInv, KnownInFlight
        <3>4. i # 0
            BY <3>2 DEF Mempool, TypeOK
        <3> QED
            BY <3>1, <3>2, <3>3, <3>4 DEF Known, KnownBut
    <2> QED
        BY <2>1, <2>2
<1>10. ConfirmedAccepted'
    <2> SUFFICES ASSUME ~evicted, NEW u \in confirmed
                 PROVE  u.seq < Len(log') /\ log'[u.seq + 1] = u
        BY <1>1 DEF ConfirmedAccepted
    <2>1. u.seq \in Nat
        BY DEF TypeOK, Tx
    <2>2. u.seq < Len(log) /\ log[u.seq + 1] = u
        BY DEF ConfirmedAccepted
    <2> QED
        BY <1>2, <2>1, <2>2
<1>11. NoPileUpBehindUnknown'
    <2> SUFFICES ASSUME ~evicted, NEW i \in Mempool', NEW j \in Mempool', i < j,
                        Owner[log'[i].by] = Owner[log'[j].by]
                 PROVE  log'[i] \in confirmed
        BY <1>1 DEF NoPileUpBehindUnknown
    <2>0. i \in Nat /\ j \in Nat /\ j <= Len(log) + 1
        BY <1>3
    <2>1. i \in Mempool /\ log'[i] = log[i]
        BY <1>2, <1>3, <2>0
    <2>2. CASE j = Len(log) + 1
        <3>1. Known(Owner[t.by])
            BY <1>1 DEF KnownInv, KnownInFlight
        <3>2. i # 0 /\ Owner[log[i].by] = Owner[t.by]
            BY <1>2, <2>1, <2>2 DEF Mempool
        <3> QED
            BY <2>1, <3>1, <3>2 DEF Known, KnownBut
    <2>3. CASE j # Len(log) + 1
        BY <1>2, <1>3, <2>1, <2>3 DEF NoPileUpBehindUnknown
    <2> QED
        BY <2>2, <2>3
<1> QED
    BY <1>5, <1>6, <1>7, <1>8, <1>9, <1>10, <1>11

\* A rejection changes one answer, to one that claims nothing.
LEMMA InductiveCheckTxRejects ==
    ASSUME IInv, TypeOK', NEW t \in inflight, CheckTxRejects(t)
    PROVE  IInv'
<1> USE OwnerAssumption DEF IInv
<1>1. /\ inflight' = inflight \ {t} /\ Answer(t, "rejected")
      /\ UNCHANGED <<sequenceValid, cachedSequence, mu, pc, sequence, log, committed,
                     evicted, sends, confirmed>>
    BY DEF CheckTxRejects, cacheVars, recordVars, nodeVars
<1>2. \A c \in Caller : reply'[c] # reply[c] => pc[c] = "wait" /\ reply'[c] = "rejected"
    BY <1>1, TxTypes DEF Answer, TypeOK
<1>3. LockInv' /\ LogInv' /\ FlightInv' /\ SequenceBound'
    BY <1>1 DEF LockInv, LogInv, FlightInv, SequenceBound
<1>4. ReplyInv'
    BY <1>1, <1>2 DEF ReplyInv, TxOf
<1>5. KnownInv'
    <2> SUFFICES ASSUME ~evicted
                 PROVE  (KnownByCache /\ KnownByCaller /\ KnownInFlight /\ KnownByReply)'
        BY <1>1 DEF KnownInv
    <2>1. KnownByCache /\ KnownByCaller /\ KnownInFlight /\ KnownByReply
        BY DEF KnownInv
    <2>2. \A p, k : KnownBut(p, k)' = KnownBut(p, k)
        BY <1>1 DEF KnownBut, Mempool
    <2> QED
        BY <1>1, <1>2, <2>1, <2>2
        DEF KnownByCache, KnownByCaller, KnownInFlight, KnownByReply, Known
<1>6. ConfirmedAccepted' /\ NoPileUpBehindUnknown'
    BY <1>1 DEF ConfirmedAccepted, NoPileUpBehindUnknown, CheckSequence, Mempool
<1> QED
    BY <1>3, <1>4, <1>5, <1>6

\* The caller that got "ok" confirms the one transaction its process did not
\* know about, and only then the cache moves past it.
LEMMA InductiveSucceed ==
    ASSUME IInv, TypeOK', NEW c \in Caller, Succeed(c)
    PROVE  IInv'
<1> USE OwnerAssumption DEF IInv
<1> DEFINE t == TxOf(c, sends[c])
<1>1. /\ pc[c] = "wait" /\ reply[c] = "ok"
      /\ cachedSequence' = [cachedSequence EXCEPT ![Owner[c]] = sequence[c] + 1]
      /\ sequenceValid' = [sequenceValid EXCEPT ![Owner[c]] = TRUE]
      /\ confirmed' = confirmed \cup {t}
      /\ t.seq = sequence[c]
      /\ Return(c)
      /\ UNCHANGED <<sends, log, committed, evicted, inflight>>
    BY DEF Succeed, nodeVars, TxOf
<1> HIDE DEF t
<1>2. Len(log) \in Nat /\ sequence[c] \in Nat
    BY TxTypes DEF TypeOK
<1>3. ~evicted => sequence[c] < Len(log) /\ log[sequence[c] + 1] = t
    BY <1>1 DEF ReplyInv, t
<1>4. LockInv'
    BY <1>1 DEF LockInv, Return, TypeOK
<1>5. LogInv' /\ NoPileUpBehindUnknown'
    BY <1>1 DEF LogInv, NoPileUpBehindUnknown, Mempool
<1>6. FlightInv'
    BY <1>1, TxTypes DEF FlightInv, Return, TypeOK
<1>7. ReplyInv'
    BY <1>1 DEF ReplyInv, Return, TypeOK, TxOf
<1>8. SequenceBound'
    BY <1>1, <1>2, <1>3 DEF SequenceBound, Return, TypeOK
<1>9. KnownInv'
    <2> SUFFICES ASSUME ~evicted
                 PROVE  (KnownByCache /\ KnownByCaller /\ KnownInFlight /\ KnownByReply)'
        BY <1>1 DEF KnownInv
    <2>1. KnownByCache /\ KnownByCaller /\ KnownInFlight /\ KnownByReply
        BY DEF KnownInv
    <2>2. \A p, k : KnownBut(p, k) => KnownBut(p, k)'
        BY <1>1 DEF KnownBut, Mempool
    <2>3. KnownByCaller' /\ KnownInFlight' /\ KnownByReply'
        BY <1>1, <2>1, <2>2 DEF KnownByCaller, KnownInFlight, KnownByReply, Known, Return, TypeOK
    <2>4. KnownByCache'
        <3> SUFFICES ASSUME NEW p \in Process, sequenceValid'[p], cachedSequence'[p] = Len(log)
                     PROVE  KnownBut(p, 0)'
            BY <1>1 DEF KnownByCache, Known
        <3>1. CASE p = Owner[c]
            <4>1. sequence[c] + 1 = Len(log)
                BY <1>1, <3>1 DEF TypeOK
            <4>2. KnownBut(p, Len(log)) /\ log[Len(log)] = t
                BY <1>1, <1>3, <2>1, <3>1, <4>1 DEF KnownByReply
            <4> QED
                BY <1>1, <4>2 DEF KnownBut, Mempool
        <3>2. CASE p # Owner[c]
            BY <1>1, <2>1, <2>2, <3>2 DEF KnownByCache, Known, TypeOK
        <3> QED
            BY <3>1, <3>2
    <2> QED
        BY <2>3, <2>4
<1>10. ConfirmedAccepted'
    BY <1>1, <1>2, <1>3 DEF ConfirmedAccepted, CheckSequence
<1> QED
    BY <1>4, <1>5, <1>6, <1>7, <1>8, <1>9, <1>10

\* A block only moves pending transactions out of the mempool.
LEMMA InductiveCommit ==
    ASSUME IInv, TypeOK', Commit
    PROVE  IInv'
<1> USE DEF IInv, cacheVars, callVars, recordVars
<1>1. UNCHANGED <<cacheVars, callVars, recordVars, inflight, log, evicted>>
    BY DEF Commit
<1>2. Mempool' \subseteq Mempool
    BY <1>1, TxTypes DEF Commit, Mempool, TypeOK
<1>3. LockInv' /\ LogInv' /\ FlightInv' /\ ReplyInv' /\ SequenceBound' /\ ConfirmedAccepted'
    BY <1>1
    DEF LockInv, LogInv, FlightInv, ReplyInv, SequenceBound, ConfirmedAccepted, CheckSequence, TxOf
<1>4. KnownInv'
    <2>1. \A p, k : KnownBut(p, k) => KnownBut(p, k)'
        BY <1>1, <1>2 DEF KnownBut
    <2> QED
        BY <1>1, <2>1
        DEF KnownInv, KnownByCache, KnownByCaller, KnownInFlight, KnownByReply, Known
<1>5. NoPileUpBehindUnknown'
    BY <1>1, <1>2 DEF NoPileUpBehindUnknown
<1> QED
    BY <1>3, <1>4, <1>5

\* After an eviction nothing is promised but the shape of log and calls.
LEMMA InductiveEvict ==
    ASSUME IInv, TypeOK', Evict
    PROVE  IInv'
<1> USE DEF IInv, cacheVars, callVars, recordVars
<1>1. PICK n \in Mempool : log' = SubSeq(log, 1, n - 1)
    BY DEF Evict
<1>2. evicted' = TRUE /\ UNCHANGED <<cacheVars, callVars, recordVars, inflight>>
    BY DEF Evict
<1>3. n \in Nat /\ n > 0 /\ n <= Len(log) /\ Len(log) \in Nat
    BY TxTypes DEF Mempool, TypeOK
<1>4. Len(log') = n - 1 /\ \A i \in 1..Len(log') : log'[i] = log[i] /\ i \in 1..Len(log)
    BY <1>1, <1>3 DEF TypeOK
<1>5. LogInv'
    BY <1>4 DEF LogInv
<1>6. LockInv' /\ FlightInv' /\ ReplyInv'
    BY <1>2 DEF LockInv, FlightInv, ReplyInv
<1> QED
    BY <1>2, <1>5, <1>6
    DEF SequenceBound, KnownInv, ConfirmedAccepted, NoPileUpBehindUnknown

\* Every step of Broadcaster preserves the invariant.
LEMMA InductiveNext == IInv /\ [Next]_vars => IInv'
<1> SUFFICES ASSUME IInv, [Next]_vars PROVE IInv'
    OBVIOUS
<1>1. TypeOK'
    BY TypeStep DEF IInv
<1>2. CASE UNCHANGED vars
    BY <1>1, <1>2
    DEF IInv, LockInv, LogInv, FlightInv, ReplyInv, SequenceBound, KnownInv, KnownByCache,
        KnownByCaller, KnownInFlight, KnownByReply, Known, KnownBut, ConfirmedAccepted,
        NoPileUpBehindUnknown, CheckSequence, Mempool, TxOf, vars, cacheVars, callVars,
        nodeVars, recordVars
<1>3. ASSUME NEW c \in Caller, CallerStep(c) \/ FailKeepingCache(c) \/ AnswerLost(c)
      PROVE  IInv'
    BY <1>1, <1>3, InductiveCall, InductiveSend, InductiveSucceed DEF CallerStep
<1>4. ASSUME NEW t \in inflight, CheckTx(t) \/ CheckTxRejects(t)
      PROVE  IInv'
    BY <1>1, <1>4, InductiveCheckTx, InductiveCheckTxRejects
<1>5. ASSUME NEW p \in Process, Restart(p)
      PROVE  IInv'
    BY <1>1, <1>5, InductiveRestart
<1> QED
    BY <1>1, <1>2, <1>3, <1>4, <1>5, InductiveCommit, InductiveEvict DEF Next, Quiescent

\* The strengthening that holds all of them together.
THEOREM Invariant == Spec => []IInv
    BY InductiveInit, InductiveNext, PTL DEF Spec

\* A transaction whose broadcast returned nil is in the log under its sequence.
THEOREM ConfirmedAcceptedHolds == Spec => []ConfirmedAccepted
<1>1. IInv => ConfirmedAccepted
    BY DEF IInv
<1> QED
    BY <1>1, Invariant, PTL

\* The cache never runs ahead of the chain.
THEOREM CacheNotAheadHolds == Spec => []CacheNotAhead
<1>1. IInv => CacheNotAhead
    BY DEF IInv, SequenceBound, CacheNotAhead, CheckSequence
<1> QED
    BY <1>1, Invariant, PTL

\* Nothing is accepted from a process behind a transaction it does not know of.
THEOREM NoPileUpHolds == Spec => []NoPileUpBehindUnknown
<1>1. IInv => NoPileUpBehindUnknown
    BY DEF IInv
<1> QED
    BY <1>1, Invariant, PTL

-----------------------------------------------------------------------------

\* A step after which there is still no fault is not one that counts a fault.
LEMMA NoFault ==
    ASSUME TypeOK, Next, faults' = 0
    PROVE  /\ faults = 0
           /\ \A c \in Caller : ~FailKeepingCache(c) /\ ~AnswerLost(c)
           /\ \A c \in Caller : SimulateFails(c) => sequence[c] # Len(log)
           /\ \A t \in inflight : CheckTxRejects(t) => t.seq # Len(log)
           /\ \A p \in Process : ~Restart(p)
           /\ ~Evict
<1>1. faults \in Nat /\ ~Fault
    BY DEF Fault, TypeOK
<1>2. faults = 0
    BY <1>1
    DEF Next, CallerStep, StartCached, StartQuery, QueryAccount, Simulate, SimulateFails, Send,
        Succeed, Rejected, FailKeepingCache, AnswerLost, CheckTx, CheckTxRejects, Restart,
        Commit, Evict, Quiescent, vars
<1> QED
    BY <1>1, <1>2
    DEF FailKeepingCache, AnswerLost, SimulateFails, CheckTxRejects, CheckSequence, Restart, Evict

\* Without faults a request is in flight only while its caller waits for it.
LEMMA QuietFlightStep == IInv /\ QuietFlight /\ [Next]_vars => QuietFlight'
<1> SUFFICES ASSUME IInv, QuietFlight, [Next]_vars, faults' = 0
             PROVE  QuietFlight'
    BY DEF QuietFlight
<1> USE OwnerAssumption DEF cacheVars, callVars, nodeVars, recordVars
<1>1. TypeOK /\ ReplyInv /\ FlightInv
    BY DEF IInv
<1>2. CASE UNCHANGED vars
    BY <1>2 DEF QuietFlight, vars
<1> SUFFICES ASSUME Next PROVE QuietFlight'
    BY <1>2
<1>3. faults = 0
    BY <1>1, NoFault
<1>4. /\ ~evicted
      /\ \A t \in inflight : pc[t.by] = "wait" /\ sends[t.by] = t.n /\ reply[t.by] = "none"
      /\ \A t \in inflight : t \in Tx /\ t.by \in Caller /\ t.seq = sequence[t.by]
    BY <1>1, <1>3, TxTypes DEF QuietFlight, FlightInv
<1>5. ASSUME NEW c \in Caller,
             \/ StartCached(c) \/ StartQuery(c) \/ QueryAccount(c) \/ Simulate(c)
             \/ SimulateFails(c) \/ Succeed(c) \/ Rejected(c)
      PROVE  QuietFlight'
    <2>1. /\ \A t \in inflight : t.by # c
          /\ \A d \in Caller : d # c => pc'[d] = pc[d] /\ reply'[d] = reply[d]
          /\ UNCHANGED <<inflight, sends, evicted>>
        BY <1>1, <1>4, <1>5
        DEF StartCached, StartQuery, Acquire, QueryAccount, Simulate, SimulateFails, Succeed,
            Rejected, Return, TypeOK
    <2> QED
        BY <1>4, <2>1 DEF QuietFlight
<1>6. ASSUME NEW c \in Caller, Send(c) PROVE QuietFlight'
    <2>1. /\ \A t \in inflight : t.by # c
          /\ reply'[c] = "none" /\ pc'[c] = "wait"
          /\ \A d \in Caller : d # c => pc'[d] = pc[d] /\ reply'[d] = reply[d] /\ sends'[d] = sends[d]
          /\ evicted' = evicted
        BY <1>1, <1>4, <1>6 DEF Send, ReplyInv, TypeOK
    <2>2. \A t \in inflight' : t \in inflight \/ (t.by = c /\ t.n = sends'[c])
        BY <1>6 DEF Send, TxOf
    <2> QED
        BY <1>4, <2>1, <2>2 DEF QuietFlight
<1>7. ASSUME NEW t \in inflight, CheckTx(t) \/ CheckTxRejects(t) PROVE QuietFlight'
    <2>1. \A u \in inflight : u # t => u.by # t.by
        BY <1>4 DEF Tx
    <2>2. \A d \in Caller : d # t.by => reply'[d] = reply[d]
        BY <1>1, <1>7 DEF CheckTx, CheckTxRejects, Answer, TypeOK
    <2>3. inflight' = inflight \ {t} /\ UNCHANGED <<pc, sends, evicted>>
        BY <1>7 DEF CheckTx, CheckTxRejects
    <2> QED
        BY <1>4, <2>1, <2>2, <2>3 DEF QuietFlight
<1>8. CASE Commit
    BY <1>4, <1>8 DEF Commit, QuietFlight
<1> QED
    BY <1>1, <1>2, <1>5, <1>6, <1>7, <1>8, NoFault DEF Next, CallerStep, Quiescent

\* Callers of p other than c are outside Broadcast while c is inside.
LEMMA OneInside ==
    ASSUME LockInv, NEW c \in Caller, pc[c] # "idle"
    PROVE  \A d \in Caller : Owner[d] = Owner[c] /\ d # c => pc[d] = "idle"
    BY DEF LockInv

\* The call of a lone process meets, at each of its steps, the chain as its
\* sequence says; the calls of other processes do not disturb it.
LEMMA FitsCall ==
    ASSUME IInv, QuietFlight, FitsInv, Next, faults' = 0, NEW p \in Process, Alone(p),
           NEW c \in Caller, CallerStep(c)
    PROVE  Fits(p)'
<1> USE OwnerAssumption DEF cacheVars, callVars, nodeVars, recordVars
<1>1. TypeOK /\ LockInv /\ ReplyInv /\ Fits(p)
    BY DEF IInv, FitsInv
<1>2. /\ \A d \in Caller : d # c => /\ pc'[d] = pc[d] /\ reply'[d] = reply[d]
                                    /\ sequence'[d] = sequence[d]
      /\ \A q \in Process : q # Owner[c] => /\ sequenceValid'[q] = sequenceValid[q]
                                            /\ cachedSequence'[q] = cachedSequence[q]
      /\ UNCHANGED <<log, committed>>
    BY <1>1
    DEF CallerStep, StartCached, StartQuery, Acquire, QueryAccount, Simulate, SimulateFails,
        Send, Succeed, Rejected, Return, TypeOK
<1>3. CASE Owner[c] # p
    <2>1. CacheFits(p)'
        BY <1>1, <1>2, <1>3 DEF Fits, CacheFits
    <2>2. \A d \in Caller : Owner[d] = p => CallFits(d)'
        BY <1>1, <1>2, <1>3 DEF Fits, CallFits
    <2> QED
        BY <2>1, <2>2 DEF Fits
<1> SUFFICES ASSUME Owner[c] = p PROVE Fits(p)'
    BY <1>3
<1>4. CallFits(c) /\ CacheFits(p)
    BY <1>1 DEF Fits
<1>5. \A d \in Caller : Owner[d] = p /\ d # c => CallFits(d)'
    BY <1>1, <1>2 DEF Fits, CallFits
<1>6. CASE StartCached(c) \/ StartQuery(c)
    <2>1. \A d \in Caller : Owner[d] = p => reply[d] = "none"
        BY <1>1, <1>6, NoCallerAssumption DEF StartCached, StartQuery, Acquire, LockInv, ReplyInv
    <2>2. /\ sequenceValid[p] => cachedSequence[p] = Len(log)
          /\ ~sequenceValid[p] => Len(log) = 0
        BY <1>4, <2>1 DEF CacheFits
    <2>3. CacheFits(p)'
        BY <1>2, <1>6, <2>2 DEF CacheFits, StartCached, StartQuery
    <2>4. CallFits(c)'
        BY <1>1, <1>2, <1>6, <2>2 DEF CallFits, StartCached, StartQuery, TypeOK
    <2> QED
        BY <1>5, <2>3, <2>4 DEF Fits
<1>7. CASE QueryAccount(c) \/ Simulate(c) \/ Send(c)
    <2>1. UNCHANGED <<reply, sequenceValid, cachedSequence, log>>
        BY <1>7 DEF QueryAccount, Simulate, Send
    <2>2. CacheFits(p)'
        BY <1>4, <2>1 DEF CacheFits
    <2>3. reply[c] = "none"
        BY <1>1, <1>7 DEF ReplyInv, QueryAccount, Simulate, Send
    <2>4. CallFits(c)'
        BY <1>1, <1>4, <1>7, <2>1, <2>3
        DEF CallFits, QueryAccount, CommittedSequence, Simulate, Send, TypeOK
    <2> QED
        BY <1>5, <2>2, <2>4 DEF Fits
<1>8. ~SimulateFails(c)
    <2>1. SimulateFails(c) => pc[c] = "simulate" /\ sequence[c] # Len(log)
        BY <1>1, NoFault DEF SimulateFails
    <2> QED
        BY <1>4, <2>1 DEF CallFits
<1>9. ~Rejected(c)
    BY <1>4 DEF Rejected, CallFits
<1>10. CASE Succeed(c)
    <2>1. sequence[c] + 1 = Len(log)
        BY <1>4, <1>10 DEF Succeed, CallFits
    <2>2. sequenceValid'[p] /\ cachedSequence'[p] = Len(log)
        BY <1>1, <1>10, <2>1 DEF Succeed, TypeOK
    <2>3. pc'[c] = "idle"
        BY <1>1, <1>10 DEF Succeed, Return, TypeOK
    <2> QED
        BY <1>2, <1>5, <2>2, <2>3 DEF Fits, CacheFits, CallFits
<1> QED
    BY <1>6, <1>7, <1>8, <1>9, <1>10 DEF CallerStep

\* The node answers the one request of p that is under way with the sequence
\* p signed; what it accepts from others ends p being alone.
LEMMA FitsNode ==
    ASSUME IInv, QuietFlight, FitsInv, Next, faults' = 0, NEW p \in Process, Alone(p), Alone(p)',
           NEW t \in inflight, CheckTx(t) \/ CheckTxRejects(t)
    PROVE  Fits(p)'
<1> USE OwnerAssumption
<1>1. TypeOK /\ LockInv /\ FlightInv /\ ReplyInv /\ Fits(p) /\ Len(log) \in Nat
    BY TxTypes DEF IInv, FitsInv
<1>2. /\ t \in Tx /\ t.by \in Caller
      /\ pc[t.by] = "wait" /\ reply[t.by] = "none" /\ sends[t.by] = t.n
      /\ t.seq = sequence[t.by]
    BY <1>1, TxTypes, NoFault DEF QuietFlight, FlightInv
<1>3. UNCHANGED <<sequenceValid, cachedSequence, pc, sequence>>
    BY DEF CheckTx, CheckTxRejects, cacheVars
<1>4. CASE CheckTx(t)
    <2>1. /\ Len(log') = Len(log) + 1 /\ log'[Len(log) + 1] = t /\ t.seq = Len(log)
          /\ reply' = [reply EXCEPT ![t.by] = "ok"]
        BY <1>1, <1>2, <1>4 DEF CheckTx, CheckSequence, Answer, TypeOK
    <2>2. Owner[t.by] = p
        BY <1>1, <2>1 DEF Alone
    <2>3. CacheFits(p)'
        BY <1>1, <1>2, <2>1, <2>2 DEF CacheFits, TypeOK
    <2>4. CallFits(t.by)'
        BY <1>1, <1>2, <1>3, <2>1 DEF CallFits, TypeOK
    <2>5. \A d \in Caller : Owner[d] = p /\ d # t.by => CallFits(d)'
        BY <1>1, <1>2, <1>3, <2>2, OneInside DEF CallFits
    <2> QED
        BY <2>3, <2>4, <2>5 DEF Fits
<1>5. CASE CheckTxRejects(t)
    <2>1. t.seq # Len(log) /\ UNCHANGED log /\ reply' = [reply EXCEPT ![t.by] = "rejected"]
        BY <1>1, <1>2, <1>5, NoFault DEF CheckTxRejects, Answer, nodeVars
    <2>2. Owner[t.by] # p
        BY <1>1, <1>2, <2>1 DEF Fits, CallFits
    <2>3. \A d \in Caller : Owner[d] = p => reply'[d] = reply[d]
        BY <1>1, <2>1, <2>2 DEF TypeOK
    <2>4. CacheFits(p)'
        BY <1>1, <1>3, <2>1, <2>3 DEF Fits, CacheFits
    <2>5. \A d \in Caller : Owner[d] = p => CallFits(d)'
        BY <1>1, <1>3, <2>1, <2>3 DEF Fits, CallFits
    <2> QED
        BY <2>4, <2>5 DEF Fits
<1> QED
    BY <1>4, <1>5

\* A lone process stays in step with the chain.
LEMMA FitsStep == IInv /\ QuietFlight /\ FitsInv /\ [Next]_vars => FitsInv'
<1> SUFFICES ASSUME IInv, QuietFlight, FitsInv, [Next]_vars, NEW p \in Process, Alone(p)'
             PROVE  Fits(p)'
    BY DEF FitsInv
<1>1. TypeOK
    BY DEF IInv
<1>2. CASE UNCHANGED vars
    BY <1>2
    DEF FitsInv, Alone, Fits, CallFits, CacheFits, vars, cacheVars, callVars, nodeVars
<1> SUFFICES ASSUME Next PROVE Fits(p)'
    BY <1>2
<1>3. faults' = 0 /\ faults = 0
    BY <1>1, NoFault DEF Alone
<1>4. ~Evict
    BY <1>1, <1>3, NoFault
<1>5. Len(log) <= Len(log') /\ \A i \in 1..Len(log) : log'[i] = log[i]
    <2>1. CASE UNCHANGED log
        BY <1>1, <2>1, TxTypes
    <2>2. ASSUME NEW t \in inflight, CheckTx(t)
          PROVE  Len(log) <= Len(log') /\ \A i \in 1..Len(log) : log'[i] = log[i]
        BY <1>1, <2>2, TxTypes DEF CheckTx, TypeOK
    <2> QED
        BY <1>4, <2>1, <2>2
        DEF Next, CallerStep, StartCached, StartQuery, QueryAccount, Simulate, SimulateFails,
            Send, Succeed, Rejected, FailKeepingCache, AnswerLost, CheckTxRejects, Restart,
            Commit, Quiescent, vars, nodeVars
<1>6. Alone(p)
    BY <1>3, <1>5, TxTypes, <1>1, TypeStep DEF Alone, TypeOK
<1>7. CASE Commit
    BY <1>6, <1>7
    DEF FitsInv, Fits, CallFits, CacheFits, Commit, cacheVars, callVars
<1> QED
    BY <1>1, <1>2, <1>3, <1>4, <1>6, <1>7, NoFault, FitsCall, FitsNode DEF Next, Quiescent

\* A lone process in a run without faults always signs the expected sequence.
THEOREM SequenceFitsHolds == Spec => []SequenceFits
<1>1. Init => QuietFlight /\ FitsInv
    BY DEF Init, QuietFlight, FitsInv, Fits, CacheFits, CallFits
<1>2. Spec => [](QuietFlight /\ FitsInv)
    BY <1>1, Invariant, QuietFlightStep, FitsStep, PTL DEF Spec
<1>3. FitsInv => SequenceFits
    BY OwnerAssumption DEF FitsInv, Fits, CallFits, Alone, SequenceFits, CheckSequence
<1> QED
    BY <1>2, <1>3, PTL

-----------------------------------------------------------------------------
(* Broadcaster implements Account.  The step-by-step argument uses the       *)
(* inductive invariant (a request in flight with the sequence the node       *)
(* expects has nothing unknown before it) and one more fact: two requests in *)
(* flight are never the same request.                                        *)

\* A caller's n-th request leaves once.
UniqueFlight ==
    \A t, u \in inflight : t.by = u.by /\ t.n = u.n => t = u

LEMMA UniqueStep == TypeOK /\ FlightInv /\ UniqueFlight /\ [Next]_vars => UniqueFlight'
<1> SUFFICES ASSUME TypeOK, FlightInv, UniqueFlight, [Next]_vars
             PROVE  UniqueFlight'
    OBVIOUS
<1>1. CASE inflight' \subseteq inflight
    BY <1>1 DEF UniqueFlight
<1>2. ASSUME NEW c \in Caller, Send(c)
      PROVE  UniqueFlight'
    <2>1. sends'[c] = sends[c] + 1 /\ sends[c] \in Nat
        BY <1>2 DEF Send, TypeOK
    <2>2. TxOf(c, sends'[c]).by = c /\ TxOf(c, sends'[c]).n = sends'[c]
        BY DEF TxOf
    <2>3. \A t \in inflight : t.by = c => t.n # sends'[c]
        <3> SUFFICES ASSUME NEW t \in inflight, t.by = c
                     PROVE  t.n # sends'[c]
            OBVIOUS
        <3>1. t.n <= sends[c] /\ t.n \in Nat
            BY DEF FlightInv, TypeOK, Tx
        <3> QED
            BY <2>1, <3>1
    <2>4. inflight' = inflight \cup {TxOf(c, sends'[c])}
        BY <1>2 DEF Send
    <2> QED
        BY <2>2, <2>3, <2>4 DEF UniqueFlight
<1>3. CASE UNCHANGED vars
    BY <1>1, <1>3 DEF vars
<1>4. CASE Next
    <2>1. ASSUME NEW c \in Caller, CallerStep(c) \/ FailKeepingCache(c) \/ AnswerLost(c)
          PROVE  UniqueFlight'
        BY <1>1, <1>2, <2>1
           DEF CallerStep, StartCached, StartQuery, QueryAccount, Simulate, SimulateFails,
               Succeed, Rejected, FailKeepingCache, AnswerLost
    <2>2. ASSUME NEW t \in inflight, CheckTx(t) \/ CheckTxRejects(t)
          PROVE  UniqueFlight'
        BY <1>1, <2>2 DEF CheckTx, CheckTxRejects
    <2>3. ASSUME (\E p \in Process : Restart(p)) \/ Commit \/ Evict \/ Quiescent
          PROVE  UniqueFlight'
        BY <1>1, <2>3 DEF Restart, Commit, Evict, Quiescent, vars
    <2> QED
        BY <1>4, <2>1, <2>2, <2>3 DEF Next
<1> QED
    BY <1>3, <1>4
-----------------------------------------------------------------------------
\* The mapping of one part of the state at a time.

LEMMA LatestIsTx ==
    ASSUME NEW c \in Caller
    PROVE  /\ Promise!Latest(c) = RequestOf(TxOf(c, sends[c]))
           /\ Promise!Latest(c)' = [by |-> c, n |-> sends'[c]]
    BY DEF Promise!Latest, RequestOf, TxOf

\* The abstract log changes with the log only.
LEMMA SameLog ==
    ASSUME UNCHANGED log
    PROVE  UNCHANGED [i \in 1..Len(log) |-> RequestOf(log[i])]
    BY DEF RequestOf

LEMMA LogPoint ==
    ASSUME TypeOK, NEW i \in 1..Len(log)
    PROVE  /\ [j \in 1..Len(log) |-> RequestOf(log[j])][i] = RequestOf(log[i])
           /\ log[i] \in Tx
    BY DEF TypeOK

LEMMA LogLength ==
    ASSUME TypeOK
    PROVE  Len([j \in 1..Len(log) |-> RequestOf(log[j])]) = Len(log)
    BY DEF TypeOK

\* Steps inside a call that callers cannot tell from waiting, and call entry.
LEMMA RefineCall ==
    ASSUME IInv, NEW c \in Caller
    PROVE  /\ StartCached(c) \/ StartQuery(c) => Promise!Call(c)
           /\ QueryAccount(c) \/ Simulate(c) => UNCHANGED Promise!vars
           /\ SimulateFails(c) \/ FailKeepingCache(c) \/ Rejected(c) \/ AnswerLost(c)
                => Promise!Fail(c)
<1> USE DEF PhaseOf, RequestOf
<1>0. pc \in [Caller -> Pc] /\ Owner[c] \in Process /\ mu \in [Process -> Caller \cup {NoCaller}]
    BY OwnerAssumption DEF IInv, TypeOK
<1>1. ASSUME StartCached(c) \/ StartQuery(c) PROVE Promise!Call(c)
    <2>1. /\ pc[c] = "idle" /\ mu[Owner[c]] = NoCaller
          /\ UNCHANGED <<nodeVars, recordVars, inflight>>
          /\ pc' \in {[pc EXCEPT ![c] = "simulate"], [pc EXCEPT ![c] = "query"]}
        BY <1>1 DEF StartCached, StartQuery, Acquire
    <2>2. ASSUME NEW d \in Caller, Owner[d] = Owner[c] PROVE pc[d] = "idle"
        BY <2>1, <2>2, NoCallerAssumption DEF IInv, LockInv
    <2>3. [d \in Caller |-> PhaseOf(d)]' = [[d \in Caller |-> PhaseOf(d)] EXCEPT ![c] = "called"]
        BY <1>0, <2>1
    <2> QED
        BY <2>1, <2>2, <2>3 DEF Promise!Call, nodeVars, recordVars
<1>2. ASSUME QueryAccount(c) \/ Simulate(c) PROVE UNCHANGED Promise!vars
    <2>1. /\ UNCHANGED <<nodeVars, recordVars, inflight>>
          /\ pc[c] \in {"query", "simulate"}
          /\ pc' \in {[pc EXCEPT ![c] = "simulate"], [pc EXCEPT ![c] = "send"]}
        BY <1>2 DEF QueryAccount, Simulate
    <2>2. UNCHANGED [d \in Caller |-> PhaseOf(d)]
        BY <1>0, <2>1
    <2> QED
        BY <2>1, <2>2 DEF Promise!vars, nodeVars, recordVars
<1>3. ASSUME SimulateFails(c) \/ FailKeepingCache(c) \/ Rejected(c) \/ AnswerLost(c)
      PROVE  Promise!Fail(c)
    <2>1. /\ UNCHANGED <<nodeVars, recordVars, inflight>>
          /\ pc[c] \in {"query", "simulate", "send", "wait"}
          /\ pc' = [pc EXCEPT ![c] = "idle"]
        BY <1>3 DEF SimulateFails, FailKeepingCache, Rejected, AnswerLost, Return
    <2>2. [d \in Caller |-> PhaseOf(d)]' = [[d \in Caller |-> PhaseOf(d)] EXCEPT ![c] = "idle"]
        BY <1>0, <2>1
    <2> QED
        BY <2>1, <2>2 DEF Promise!Fail, nodeVars, recordVars
<1> QED
    BY <1>1, <1>2, <1>3

LEMMA RefineSend ==
    ASSUME IInv, NEW c \in Caller, Send(c)
    PROVE  Promise!Ask(c)
<1>0. pc \in [Caller -> Pc] /\ sends \in [Caller -> Nat] /\ inflight \subseteq Tx
    BY DEF IInv, TypeOK
<1>1. /\ pc[c] = "send" /\ pc' = [pc EXCEPT ![c] = "wait"]
      /\ sends' = [sends EXCEPT ![c] = @ + 1]
      /\ inflight' = inflight \cup {TxOf(c, sends'[c])}
      /\ UNCHANGED <<nodeVars, confirmed>>
    BY DEF Send
<1>2. /\ PhaseOf(c) = "called"
      /\ [d \in Caller |-> PhaseOf(d)]' = [[d \in Caller |-> PhaseOf(d)] EXCEPT ![c] = "asked"]
    BY <1>0, <1>1 DEF PhaseOf
<1>3. Promise!Latest(c)' = RequestOf(TxOf(c, sends'[c]))
    BY DEF Promise!Latest, RequestOf, TxOf
<1>4. {RequestOf(t) : t \in inflight}' = {RequestOf(t) : t \in inflight} \cup {Promise!Latest(c)'}
    BY <1>1, <1>3 DEF RequestOf
<1>5. UNCHANGED {RequestOf(t) : t \in confirmed}
    BY <1>1 DEF RequestOf
<1> QED
    BY <1>1, <1>2, <1>4, <1>5, SameLog DEF Promise!Ask, nodeVars

LEMMA RefineSucceed ==
    ASSUME IInv, NEW c \in Caller, Succeed(c)
    PROVE  Promise!Confirm(c)
<1>0. pc \in [Caller -> Pc] /\ TypeOK
    BY DEF IInv, TypeOK
<1>1. /\ pc[c] = "wait" /\ reply[c] = "ok" /\ pc' = [pc EXCEPT ![c] = "idle"]
      /\ confirmed' = confirmed \cup {TxOf(c, sends[c])}
      /\ UNCHANGED <<sends, nodeVars, inflight>>
    BY DEF Succeed, Return
<1>2. /\ PhaseOf(c) = "asked"
      /\ [d \in Caller |-> PhaseOf(d)]' = [[d \in Caller |-> PhaseOf(d)] EXCEPT ![c] = "idle"]
    BY <1>0, <1>1 DEF PhaseOf
<1>3. evicted \/ \E i \in 1..Len(log) : RequestOf(log[i]) = Promise!Latest(c)
    <2> SUFFICES ASSUME ~evicted
                 PROVE  \E i \in 1..Len(log) : RequestOf(log[i]) = Promise!Latest(c)
        OBVIOUS
    <2>1. /\ sequence[c] < Len(log) /\ log[sequence[c] + 1] = TxOf(c, sends[c])
          /\ sequence[c] \in Nat /\ Len(log) \in Nat
        BY <1>1 DEF IInv, ReplyInv, TypeOK
    <2>2. sequence[c] + 1 \in 1..Len(log)
        BY <2>1
    <2> QED
        BY <2>1, <2>2, LatestIsTx
<1>4. {RequestOf(t) : t \in confirmed}' = {RequestOf(t) : t \in confirmed} \cup {Promise!Latest(c)}
    BY <1>1, LatestIsTx DEF RequestOf
<1>5. UNCHANGED {RequestOf(t) : t \in inflight}
    BY <1>1 DEF RequestOf
<1> QED
    BY <1>0, <1>1, <1>2, <1>3, <1>4, <1>5, SameLog, LogPoint, LogLength
       DEF Promise!Confirm, nodeVars

LEMMA SamePhase ==
    ASSUME UNCHANGED pc
    PROVE  UNCHANGED [c \in Caller |-> PhaseOf(c)]
    BY DEF PhaseOf

LEMMA SameConfirmed ==
    ASSUME UNCHANGED confirmed
    PROVE  UNCHANGED {RequestOf(t) : t \in confirmed}
    BY DEF RequestOf

\* A request that is decided leaves the open ones, and no other does.
LEMMA OpenWithout ==
    ASSUME IInv, UniqueFlight, NEW t \in inflight, inflight' = inflight \ {t}
    PROVE  {RequestOf(u) : u \in inflight}' = {RequestOf(u) : u \in inflight} \ {RequestOf(t)}
<1>1. \A u \in inflight : u # t => RequestOf(u) # RequestOf(t)
    BY DEF UniqueFlight, RequestOf
<1> QED
    BY <1>1 DEF RequestOf

LEMMA RefineCheckTx ==
    ASSUME IInv, UniqueFlight, NEW t \in inflight, CheckTx(t)
    PROVE  Promise!Take(RequestOf(t))
<1> DEFINE mapped == [j \in 1..Len(log) |-> RequestOf(log[j])]
<1>0. TypeOK /\ t \in Tx /\ Len(log) \in Nat
    BY DEF IInv, TypeOK
<1>1. /\ t.seq = Len(log)
      /\ inflight' = inflight \ {t} /\ log' = Append(log, t)
      /\ UNCHANGED <<pc, sends, confirmed, committed, evicted>>
    BY DEF CheckTx, CheckSequence, recordVars
<1>2. /\ Len(log') = Len(log) + 1 /\ log'[Len(log) + 1] = t
      /\ \A i \in 1..Len(log) : log'[i] = log[i]
    BY <1>0, <1>1 DEF TypeOK
<1>3. mapped' = Append(mapped, RequestOf(t))
    <2>1. Len(mapped) = Len(log)
        BY <1>0, LogLength
    <2>2. mapped' = [j \in 1..(Len(log) + 1) |-> RequestOf(log'[j])]
        BY <1>2 DEF RequestOf
    <2>3. \A j \in 1..Len(log) : mapped[j] = RequestOf(log'[j])
        BY <1>2
    <2> QED
        BY <1>0, <1>2, <2>1, <2>2, <2>3 DEF RequestOf
<1>4. evicted \/ \A i \in Promise!Pending :
          Owner[mapped[i].by] = Owner[RequestOf(t).by] => mapped[i] \in {RequestOf(u) : u \in confirmed}
    <2> SUFFICES ASSUME ~evicted, NEW i \in Promise!Pending,
                        Owner[mapped[i].by] = Owner[RequestOf(t).by]
                 PROVE  mapped[i] \in {RequestOf(u) : u \in confirmed}
        OBVIOUS
    <2>1. Promise!Pending = Mempool
        BY <1>0, LogLength DEF Promise!Pending, Mempool
    <2>2. i \in Mempool /\ i \in 1..Len(log) /\ i # 0
        BY <1>0, <2>1 DEF Mempool, TypeOK
    <2>3. mapped[i] = RequestOf(log[i]) /\ log[i] \in Tx
        BY <1>0, <2>2, LogPoint
    <2>4. Owner[log[i].by] = Owner[t.by]
        BY <2>3 DEF RequestOf
    <2>5. KnownInFlight
        BY DEF IInv, KnownInv
    <2>6. log[i] \in confirmed
        BY <1>1, <2>2, <2>4, <2>5 DEF KnownInFlight, Known, KnownBut
    <2> QED
        BY <2>3, <2>6
<1>5. RequestOf(t) \in {RequestOf(u) : u \in inflight}
    OBVIOUS
<1> QED
    BY <1>1, <1>3, <1>4, <1>5, OpenWithout, SamePhase, SameConfirmed DEF Promise!Take

LEMMA RefineChain ==
    ASSUME IInv, UniqueFlight
    PROVE  /\ \A t \in inflight : CheckTxRejects(t) => Promise!Refuse(RequestOf(t))
           /\ Commit => Promise!Commit
           /\ Evict => Promise!Evict
<1>0. TypeOK /\ Len(log) \in Nat
    BY DEF IInv, TypeOK
<1>1. ASSUME NEW t \in inflight, CheckTxRejects(t) PROVE Promise!Refuse(RequestOf(t))
    <2>1. inflight' = inflight \ {t} /\ UNCHANGED <<pc, nodeVars, recordVars>>
        BY <1>1 DEF CheckTxRejects
    <2>2. RequestOf(t) \in {RequestOf(u) : u \in inflight}
        OBVIOUS
    <2> QED
        BY <2>1, <2>2, OpenWithout, SamePhase, SameConfirmed, SameLog
           DEF Promise!Refuse, nodeVars, recordVars
<1>2. Promise!Pending = Mempool
    BY <1>0, LogLength DEF Promise!Pending, Mempool
<1>3. ASSUME Commit PROVE Promise!Commit
    <2>1. UNCHANGED <<pc, recordVars, inflight, log, evicted>>
        BY <1>3 DEF Commit, callVars
    <2>2. UNCHANGED {RequestOf(u) : u \in inflight}
        BY <2>1 DEF RequestOf
    <2>3. \E n \in Promise!Pending : committed' = n
        BY <1>2, <1>3 DEF Commit
    <2> QED
        BY <2>1, <2>2, <2>3, SamePhase, SameConfirmed, SameLog DEF Promise!Commit, recordVars
<1>4. ASSUME Evict PROVE Promise!Evict
    <2> DEFINE mapped == [j \in 1..Len(log) |-> RequestOf(log[j])]
    <2>1. UNCHANGED <<pc, recordVars, inflight, committed>> /\ evicted' = TRUE
        BY <1>4 DEF Evict, callVars
    <2>2. UNCHANGED {RequestOf(u) : u \in inflight}
        BY <2>1 DEF RequestOf
    <2>3. PICK n \in Mempool : log' = SubSeq(log, 1, n - 1)
        BY <1>4 DEF Evict
    <2>4. n \in 1..Len(log) /\ log \in Seq(Tx)
        BY <1>0 DEF Mempool, TypeOK
    <2>5. Len(log') = n - 1 /\ \A j \in 1..(n - 1) : log'[j] = log[j]
        BY <2>3, <2>4
    <2>6. mapped' = [j \in 1..(n - 1) |-> RequestOf(log[j])]
        BY <2>5 DEF RequestOf
    <2>7. SubSeq(mapped, 1, n - 1) = [j \in 1..(n - 1) |-> mapped[j]]
        BY <2>4, <1>0, LogLength
    <2>8. \A j \in 1..(n - 1) : mapped[j] = RequestOf(log[j])
        BY <2>4
    <2>9. mapped' = SubSeq(mapped, 1, n - 1)
        BY <2>6, <2>7, <2>8
    <2>10. n \in Promise!Pending
        BY <1>2, <2>3
    <2> QED
        BY <2>1, <2>2, <2>9, <2>10, SamePhase, SameConfirmed DEF Promise!Evict, recordVars
<1> QED
    BY <1>1, <1>3, <1>4

LEMMA RefineRestart ==
    ASSUME IInv, NEW p \in Process, Restart(p)
    PROVE  Promise!Crash(p)
<1>1. /\ pc' = [c \in Caller |-> IF Owner[c] = p THEN "idle" ELSE pc[c]]
      /\ UNCHANGED <<recordVars, nodeVars, inflight>>
    BY DEF Restart
<1>2. [c \in Caller |-> PhaseOf(c)]' =
          [c \in Caller |-> IF Owner[c] = p THEN "idle" ELSE [d \in Caller |-> PhaseOf(d)][c]]
    BY <1>1 DEF PhaseOf
<1>3. UNCHANGED {RequestOf(u) : u \in inflight}
    BY <1>1 DEF RequestOf
<1> QED
    BY <1>1, <1>2, <1>3, SameConfirmed, SameLog DEF Promise!Crash, recordVars, nodeVars

\* Every step is a step of Account or leaves what callers see as it is.
LEMMA RefineStep == IInv /\ UniqueFlight /\ [Next]_vars => [Promise!Next]_Promise!vars
<1> SUFFICES ASSUME IInv, UniqueFlight, [Next]_vars
             PROVE  Promise!Next \/ UNCHANGED Promise!vars
    OBVIOUS
<1>1. ASSUME NEW c \in Caller, CallerStep(c) \/ FailKeepingCache(c) \/ AnswerLost(c)
      PROVE  Promise!Next \/ UNCHANGED Promise!vars
    BY <1>1, RefineCall, RefineSend, RefineSucceed DEF CallerStep, Promise!Next
<1>2. ASSUME NEW t \in inflight, CheckTx(t) \/ CheckTxRejects(t)
      PROVE  Promise!Next
    <2>1. RequestOf(t) \in {RequestOf(u) : u \in inflight}
        OBVIOUS
    <2>2. Promise!Take(RequestOf(t)) \/ Promise!Refuse(RequestOf(t))
        BY <1>2, RefineCheckTx, RefineChain
    <2> QED
        BY <2>1, <2>2 DEF Promise!Next
<1>3. ASSUME NEW p \in Process, Restart(p) PROVE Promise!Next
    BY <1>3, RefineRestart DEF Promise!Next
<1>4. ASSUME Commit \/ Evict PROVE Promise!Next
    BY <1>4, RefineChain DEF Promise!Next
<1>5. ASSUME UNCHANGED vars PROVE UNCHANGED Promise!vars
    <2>1. UNCHANGED <<pc, sends, inflight, log, committed, confirmed, evicted>>
        BY <1>5 DEF vars, callVars, nodeVars, recordVars
    <2>2. UNCHANGED {RequestOf(u) : u \in inflight}
        BY <2>1 DEF RequestOf
    <2> QED
        BY <2>1, <2>2, SamePhase, SameConfirmed, SameLog DEF Promise!vars
<1> QED
    BY <1>1, <1>2, <1>3, <1>4, <1>5 DEF Next, Quiescent

LEMMA RefineInit == Init => Promise!Init /\ UniqueFlight
<1> SUFFICES ASSUME Init PROVE Promise!Init /\ UniqueFlight
    OBVIOUS
<1>1. [c \in Caller |-> PhaseOf(c)] = [c \in Caller |-> "idle"]
    BY DEF Init, PhaseOf
<1>2. [i \in 1..Len(log) |-> RequestOf(log[i])] = << >>
    BY DEF Init
<1> QED
    BY <1>1, <1>2 DEF Init, Promise!Init, UniqueFlight

\* Broadcaster implements Account (broadcaster.go:104-284): for any callers and
\* processes, whatever is lost, late, restarted or forgotten.
THEOREM Implements == Spec => ImplementsAccount
<1>1. IInv /\ UniqueFlight /\ [Next]_vars => UniqueFlight'
    BY UniqueStep DEF IInv
<1>2. Spec => []UniqueFlight
    BY <1>1, RefineInit, Invariant, PTL DEF Spec
<1> QED
    BY <1>2, RefineInit, RefineStep, Invariant, PTL DEF Spec, ImplementsAccount, Promise!Spec
=============================================================================
