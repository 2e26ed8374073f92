----------------------------- MODULE Turnstile -----------------------------
(***************************************************************************)
(* Turnstiles: blocking, wakeup and priority inheritance for mutexes and   *)
(* rwlocks (uts/common/os/turnstil.c, uts/common/sys/turnstil.h), with the *)
(* part of uts/common/disp/thread.c that changes a thread's priority.      *)
(*                                                                         *)
(* The operators below are the bodies of the turnstile functions; a client *)
(* module (RWLock, Mutex) turns them into actions by adding its own part   *)
(* of the step.  turnstile_table has TURNSTILE_HASH_SIZE = 1 chain, so one *)
(* dispatcher lock, tc_lock, covers every synchronization object.  The     *)
(* locals of the one turnstile_block or turnstile_wakeup that can be under *)
(* way (its caller holds tc_lock) are the variables pi_cur and wk.         *)
(***************************************************************************)
EXTENDS SleepQ

CONSTANTS
    Threads,      \* kthread_t's
    Locks,        \* synchronization objects; numbers, their locking order
    Turnstiles,   \* turnstile_t's: one is allocated with each thread
    Priorities,   \* assigned (t_pri) priorities
    DynamicPri,   \* whether assigned priorities change during the run
    NULL

ASSUME TurnstileAssumption ==
    /\ IsFiniteSet(Threads)
    /\ Locks \subseteq Int
    /\ Priorities \subseteq Nat /\ Priorities # {} /\ IsFiniteSet(Priorities)
    /\ DynamicPri \in BOOLEAN
    /\ NULL \notin Threads /\ NULL \notin Locks /\ NULL \notin Turnstiles

VARIABLES
    tc_lock,      \* the thread holding the hash chain lock, or NULL
    tc_chain,     \* [Locks]: the active turnstile (tc_first..ts_next), or NULL
    ts_free,      \* [Turnstiles]: the turnstiles on its freelist
    ts_waiters,   \* [Turnstiles]: number of blocked threads
    ts_sleepq,    \* [Turnstiles]: its writer and reader sleep queues
    ts_inheritor, \* [Turnstiles]: thread inheriting priority from it, or NULL
    ts_epri,      \* [Turnstiles]: the priority inherited
    t_ts,         \* [Threads]: attached turnstile
    t_prioinv,    \* [Threads]: turnstiles it inherits from
    t_pri,        \* [Threads]: assigned priority
    t_epri,       \* [Threads]: inherited priority, 0 when none
    t_wchan,      \* [Threads]: object it sleeps on, or NULL
    pi_cur,       \* turnstile_block's cursor 't' in the blocking chain, or NULL
    wk            \* turnstile_wakeup's qnum, nthreads, owner and lock

chain_vars == <<tc_chain, ts_free, ts_waiters, t_ts, t_wchan>>
pi_vars == <<ts_inheritor, ts_epri, t_prioinv, t_epri>>
ts_vars == <<tc_lock, chain_vars, pi_vars, ts_sleepq, t_pri, pi_cur, wk>>

Queues == {"W", "R"}              \* TS_WRITER_Q, TS_READER_Q
MaxOf(S) == CHOOSE x \in S : \A y \in S : y <= x
NoWakeup == [q |-> "W", n |-> 0, owner |-> NULL, sobj |-> NULL]

(* INHERITED and DISP_PRIO of sys/thread.h, for every thread at once.      *)
Prio(pri, epri) ==
    [t \in Threads |-> IF epri[t] > 0 THEN epri[t] ELSE pri[t]]
DISP_PRIO == Prio(t_pri, t_epri)

(* The first thread of a queue has its highest priority; 0 if empty.       *)
HeadPrio(q) == IF q = <<>> THEN 0 ELSE DISP_PRIO[Head(q)]

TurnstileInit ==
    /\ tc_lock = NULL
    /\ tc_chain = [l \in Locks |-> NULL]
    /\ ts_free = [ts \in Turnstiles |-> {}]
    /\ ts_waiters = [ts \in Turnstiles |-> 0]
    /\ ts_sleepq = [ts \in Turnstiles |-> [q \in Queues |-> <<>>]]
    /\ ts_inheritor = [ts \in Turnstiles |-> NULL]
    /\ ts_epri = [ts \in Turnstiles |-> 0]
    /\ t_ts \in [Threads -> Turnstiles]
    /\ \A t, u \in Threads : t_ts[t] = t_ts[u] => t = u
    /\ t_prioinv = [t \in Threads |-> {}]
    /\ t_pri \in [Threads -> Priorities]
    /\ t_epri = [t \in Threads |-> 0]
    /\ t_wchan = [t \in Threads |-> NULL]
    /\ pi_cur = NULL
    /\ wk = NoWakeup

(* Types of the turnstile state, for the clients' type invariants.         *)
TurnstileTypeOK ==
    /\ tc_lock \in Threads \cup {NULL}
    /\ tc_chain \in [Locks -> Turnstiles \cup {NULL}]
    /\ ts_free \in [Turnstiles -> SUBSET Turnstiles]
    /\ ts_waiters \in [Turnstiles -> Nat]
    /\ ts_sleepq \in [Turnstiles -> [Queues -> Seq(Threads)]]
    /\ ts_inheritor \in [Turnstiles -> Threads \cup {NULL}]
    /\ ts_epri \in [Turnstiles -> Priorities \cup {0}]
    /\ t_ts \in [Threads -> Turnstiles]
    /\ t_prioinv \in [Threads -> SUBSET Turnstiles]
    /\ t_pri \in [Threads -> Priorities]
    /\ t_epri \in [Threads -> Priorities \cup {0}]
    /\ t_wchan \in [Threads -> Locks \cup {NULL}]
    /\ pi_cur \in Threads \cup {NULL}
    /\ wk \in [q : Queues, n : Nat, owner : Threads \cup {NULL},
               sobj : Locks \cup {NULL}]
-----------------------------------------------------------------------------
(* turnstile_lookup, turnstile_exit: take and drop the chain lock.  The    *)
(* active turnstile found by the lookup is tc_chain[sobj].                 *)
turnstile_lookup(t) ==
    /\ tc_lock = NULL
    /\ tc_lock' = t
    /\ UNCHANGED <<chain_vars, pi_vars, ts_sleepq, t_pri, pi_cur, wk>>

turnstile_exit(t) ==
    /\ tc_lock = t
    /\ tc_lock' = NULL
    /\ UNCHANGED <<chain_vars, pi_vars, ts_sleepq, t_pri, pi_cur, wk>>

(* Faulty variant: the new priority does not move the thread in its queue. *)
ChangePriInPlace(t, prio) == ts_sleepq

(* turnstile_change_pri: requeue a sleeping thread at its new priority.    *)
turnstile_change_pri(t, prio) ==
    LET ts == t_ts[t]
        q  == IF t \in Elems(ts_sleepq[ts]["W"]) THEN "W" ELSE "R"
    IN  [ts_sleepq EXCEPT ![ts][q] =
            sleepq_insert(sleepq_dequeue(@, t), t, prio)]

(* thread_change_epri, for a running (TS_ONPROC, TS_RUN) or sleeping t.    *)
thread_change_epri(t, epri) ==
    /\ t_epri' = [t_epri EXCEPT ![t] = epri]
    /\ ts_sleepq' = IF t_wchan[t] = NULL THEN ts_sleepq
                    ELSE turnstile_change_pri(t, Prio(t_pri, t_epri'))

(* thread_change_pri: a new assigned priority, from priocntl() or the      *)
(* class's tick.  The thread lock of a sleeping thread is tc_lock.         *)
thread_change_pri(t, pri) ==
    /\ t_wchan[t] # NULL => tc_lock = NULL
    /\ t_pri' = [t_pri EXCEPT ![t] = pri]
    /\ ts_sleepq' = IF t_wchan[t] = NULL THEN ts_sleepq
                    ELSE turnstile_change_pri(t, Prio(t_pri', t_epri))
    /\ UNCHANGED <<tc_lock, chain_vars, pi_vars, pi_cur, wk>>

(* CL_SLEEP and CL_WAKEUP: the class may give the thread a new assigned    *)
(* priority as it goes to sleep and as it is woken (the timeshare class    *)
(* does), higher or lower than the one it had.                             *)
ClassPri(t) ==
    {[t_pri EXCEPT ![t] = p] : p \in IF DynamicPri THEN Priorities ELSE {t_pri[t]}}

(* turnstile_pi_inherit: returns 1 when inheritance is necessary.  The     *)
(* update of the turnstile and of the inheritor's t_prioinv list; pri are  *)
(* the assigned priorities at that point.                                  *)
Inverted(pri, inheritor, epri) == epri > pri[inheritor]

turnstile_pi_inherit(pri, ts, inheritor, epri) ==
    IF ~Inverted(pri, inheritor, epri) THEN
        UNCHANGED <<ts_inheritor, ts_epri, t_prioinv>>
    ELSE IF ts_inheritor[ts] = NULL THEN
        /\ ts_inheritor' = [ts_inheritor EXCEPT ![ts] = inheritor]
        /\ ts_epri' = [ts_epri EXCEPT ![ts] = epri]
        /\ t_prioinv' = [t_prioinv EXCEPT ![inheritor] = @ \cup {ts}]
    ELSE /\ ts_epri' = [ts_epri EXCEPT ![ts] = IF @ < epri THEN epri ELSE @]
         /\ UNCHANGED <<ts_inheritor, t_prioinv>>

(* Faulty variant: the inheritor is recorded but never made to run faster. *)
NeverRaises(pri, inheritor, epri) == FALSE

(* Its last part: change the inheritor's effective priority if it rises.   *)
RaisesPrio(pri, inheritor, epri) ==
    Inverted(pri, inheritor, epri) /\ epri > Prio(pri, t_epri)[inheritor]

(* turnstile_pi_waive(ts), called by the inheritor itself.  (The code      *)
(* leaves ts_epri as it is; it is not read again before it is set.)        *)
turnstile_pi_waive(ts) ==
    LET inheritor == ts_inheritor[ts]
        rest      == t_prioinv[inheritor] \ {ts}
        new_epri  == MaxOf({0} \cup {ts_epri[x] : x \in rest})
    IN  /\ t_prioinv' = [t_prioinv EXCEPT ![inheritor] = rest]
        /\ ts_inheritor' = [ts_inheritor EXCEPT ![ts] = NULL]
        /\ IF new_epri # DISP_PRIO[inheritor]
           THEN thread_change_epri(inheritor, new_epri)
           ELSE UNCHANGED <<t_epri, ts_sleepq>>
        /\ ts_epri' = [ts_epri EXCEPT ![ts] = 0]

-----------------------------------------------------------------------------
(* turnstile_block, up to the walk: donate or stash the thread's own       *)
(* turnstile and go to sleep on the active one.                            *)
turnstile_block(t, qnum, sobj) ==
    LET first == tc_chain[sobj] = NULL
        ts    == IF first THEN t_ts[t] ELSE tc_chain[sobj]
    IN  /\ tc_lock = t
        /\ tc_chain' = [tc_chain EXCEPT ![sobj] = ts]
        /\ ts_free' = IF first THEN ts_free
                      ELSE [ts_free EXCEPT ![ts] = @ \cup {t_ts[t]}]
        /\ t_ts' = [t_ts EXCEPT ![t] = ts]
        /\ t_wchan' = [t_wchan EXCEPT ![t] = sobj]
        /\ t_pri' \in ClassPri(t)
        /\ ts_waiters' = [ts_waiters EXCEPT ![ts] = @ + 1]
        /\ ts_sleepq' = [ts_sleepq EXCEPT ![ts][qnum] =
                            sleepq_insert(@, t, Prio(t_pri', t_epri))]
        /\ pi_cur' = t
        /\ UNCHANGED <<tc_lock, pi_vars, wk>>

(* Faulty variant: only the immediate owner inherits.                      *)
WalkEndsAtOnce(owner) == TRUE

(* One iteration of its walk of the blocking chain; owner is SOBJ_OWNER of *)
(* what the cursor sleeps on.  The walk ends, and the chain lock is        *)
(* dropped, at an unowned object, at an owner that needs no inheritance or *)
(* at one that is not itself asleep.                                       *)
PiWalkEnds(owner) ==
    \/ owner = NULL
    \/ ~Inverted(t_pri, owner, DISP_PRIO[pi_cur])
    \/ t_wchan[owner] = NULL

turnstile_block_pi(t, owner) ==
    /\ tc_lock = t
    /\ IF owner = NULL THEN UNCHANGED <<pi_vars, ts_sleepq>>
       ELSE /\ turnstile_pi_inherit(t_pri, t_ts[pi_cur], owner, DISP_PRIO[pi_cur])
            /\ IF RaisesPrio(t_pri, owner, DISP_PRIO[pi_cur])
               THEN thread_change_epri(owner, DISP_PRIO[pi_cur])
               ELSE UNCHANGED <<t_epri, ts_sleepq>>
    /\ pi_cur' = IF PiWalkEnds(owner) THEN NULL ELSE owner
    /\ tc_lock' = IF PiWalkEnds(owner) THEN NULL ELSE t
    /\ UNCHANGED <<chain_vars, t_pri, wk>>

(* Faulty variant: the lock is given up without waiving the inheritance.   *)
KeepInheritance(t) ==
    tc_lock = t /\ UNCHANGED ts_vars

(* turnstile_wakeup(ts, qnum, nthreads, owner), in three steps: waive the  *)
(* caller's inheritance; wake the threads one by one; drop the chain lock. *)
turnstile_wakeup_waive(t) ==
    LET ts == tc_chain[wk.sobj]
    IN  /\ tc_lock = t
        /\ IF ts_inheritor[ts] # NULL THEN turnstile_pi_waive(ts)
           ELSE UNCHANGED <<pi_vars, ts_sleepq>>
        /\ UNCHANGED <<tc_lock, chain_vars, t_pri, pi_cur, wk>>

(* The thread the next iteration of the wakeup loop wakes.                 *)
WakeNext == Head(ts_sleepq[tc_chain[wk.sobj]][wk.q])

(* Faulty variant: the turnstile handed out stays on the freelist.         *)
DetachShared(ts, s) ==
    \/ /\ \E f \in ts_free[ts] : t_ts' = [t_ts EXCEPT ![s] = f]
       /\ UNCHANGED <<tc_chain, ts_free>>
    \/ /\ ts_free[ts] = {}
       /\ tc_chain' = [tc_chain EXCEPT ![wk.sobj] = NULL]
       /\ UNCHANGED <<ts_free, t_ts>>

(* Attach a free turnstile to the thread being woken, or leave it the      *)
(* active one if it is the last.                                           *)
Detach(ts, s) ==
    \/ \E f \in ts_free[ts] :
          /\ ts_free' = [ts_free EXCEPT ![ts] = @ \ {f}]
          /\ t_ts' = [t_ts EXCEPT ![s] = f]
          /\ UNCHANGED tc_chain
    \/ /\ ts_free[ts] = {}
       /\ tc_chain' = [tc_chain EXCEPT ![wk.sobj] = NULL]
       /\ UNCHANGED <<ts_free, t_ts>>

turnstile_wakeup_one(t) ==
    LET ts   == tc_chain[wk.sobj]
        s    == WakeNext
        left == [ts_sleepq[ts] EXCEPT ![wk.q] = Tail(@)]
        wpri == HeadPrio(left["W"])
        rpri == HeadPrio(left["R"])
        epri == IF wpri > rpri THEN wpri ELSE rpri
    IN  /\ tc_lock = t
        /\ wk.n > 0
        /\ Detach(ts, s)
        /\ ts_waiters' = [ts_waiters EXCEPT ![ts] = @ - 1]
        /\ ts_sleepq' = [ts_sleepq EXCEPT ![ts] = left]
        /\ t_wchan' = [t_wchan EXCEPT ![s] = NULL]
        /\ t_pri' \in ClassPri(s)
        /\ IF s = wk.owner
           THEN /\ turnstile_pi_inherit(t_pri', ts, s, epri)
                /\ t_epri' = [t_epri EXCEPT ![s] =
                                 IF RaisesPrio(t_pri', s, epri) THEN epri ELSE @]
           ELSE UNCHANGED pi_vars
        /\ wk' = [wk EXCEPT !.n = @ - 1,
                            !.owner = IF s = @ THEN NULL ELSE @]
        /\ UNCHANGED <<tc_lock, pi_cur>>

turnstile_wakeup_done(t) ==
    /\ tc_lock = t
    /\ wk.n = 0
    /\ tc_lock' = NULL
    /\ wk' = NoWakeup
    /\ UNCHANGED <<chain_vars, pi_vars, ts_sleepq, t_pri, pi_cur>>
-----------------------------------------------------------------------------
(* The books of priority inheritance, for the clients' invariants: a       *)
(* thread that inherits from a turnstile has it on its list, at more than  *)
(* its assigned and at most its effective priority, which comes from one   *)
(* of them.                                                                *)
ListInv ==
    \A ts \in Turnstiles, i \in Threads :
        ts \in t_prioinv[i] <=> ts_inheritor[ts] = i
AmountInv ==
    \A ts \in Turnstiles, i \in Threads : ts_inheritor[ts] = i =>
        t_pri[i] < ts_epri[ts] /\ ts_epri[ts] <= DISP_PRIO[i]
SourceInv ==
    \A i \in Threads : t_epri[i] # 0 =>
        \E ts \in Turnstiles : ts_inheritor[ts] = i /\ ts_epri[ts] = t_epri[i]
=============================================================================
