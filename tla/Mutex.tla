-------------------------------- MODULE Mutex --------------------------------
(***************************************************************************)
(* Adaptive mutexes: uts/common/os/mutex.c, uts/i86/sys/mutex_im.h and the *)
(* assembly of uts/i86/ml/lock_pri.s (mutex_enter, mutex_tryenter,         *)
(* mutex_exit), with what they rely on elsewhere: the restart of an        *)
(* interrupted mutex_exit (uts/i86pc/ml/locore.s) and the order in which   *)
(* resume() publishes the thread a CPU runs (uts/i86/ml/swtch.s).          *)
(*                                                                         *)
(* mutex_exit clears the lock with a plain store, so memory order matters. *)
(* Each CPU has a FIFO store buffer, sb, for the two stores the algorithm  *)
(* is about: the clear of mutex_exit, and the CPU_THREAD of resume() when  *)
(* a thread leaves the CPU.  A store becomes visible when it drains; a     *)
(* locked instruction (cmpxchg, the bts of a dispatcher lock) waits until  *)
(* the buffer is empty.  Stores made under tc_lock are visible before its  *)
(* release, which follows them in the same buffer, and are modelled as     *)
(* immediate.  So is the CPU_THREAD of a thread that is resumed: it does   *)
(* nothing before the next barrier (the iret of a preempted thread, a      *)
(* locked instruction otherwise).                                          *)
(***************************************************************************)
EXTENDS Turnstile

CONSTANTS
    CPUs,
    Destroyable   \* the mutexes that clients destroy and initialize again

ASSUME MutexAssumption ==
    IsFiniteSet(CPUs) /\ NULL \notin CPUs /\ Destroyable \subseteq Locks

VARIABLES
    m_owner,      \* [Locks]: the lock word in memory: owner, waiters bit, dead
    cpu_thread,   \* [CPUs]: CPU_THREAD in memory, as other CPUs see it
    cur,          \* [CPUs]: the thread the CPU is executing, or NULL (idle)
    sb,           \* [CPUs]: stores not yet visible, oldest first
    held,         \* [Threads]: the mutexes the thread's code holds
    pc, lk,       \* [Threads]: where it is, in an operation on which lock
    owner,        \* [Threads]: mutex_vector_enter's 'owner'
    scan,         \* [Threads]: CPUs its search has yet to look at
    panicstr

m_vars == <<m_owner, cpu_thread, cur, sb, held, pc, lk, owner, scan, panicstr>>
vars == <<m_vars, ts_vars>>

Free == [owner |-> NULL, waiters |-> FALSE, dead |-> FALSE]
Owned(t) == [Free EXCEPT !.owner = t]
Clear(l) == [what |-> "clear", of |-> l]
CpuIdle == [what |-> "cpu", of |-> NULL]

(* mutex_owner: the SOBJ_OWNER of mutexes.                                 *)
mutex_owner(l) == m_owner[l].owner

Init ==
    /\ TurnstileInit
    /\ m_owner = [l \in Locks |-> Free]
    /\ cpu_thread = [c \in CPUs |-> NULL]
    /\ cur = [c \in CPUs |-> NULL]
    /\ sb = [c \in CPUs |-> <<>>]
    /\ held = [t \in Threads |-> {}]
    /\ pc = [t \in Threads |-> "run"]
    /\ lk = [t \in Threads |-> NULL]
    /\ owner = [t \in Threads |-> NULL]
    /\ scan = [t \in Threads |-> {}]
    /\ panicstr = FALSE

Running(t, c) == cur[c] = t
At(t, label) == ~panicstr /\ pc[t] = label /\ \E c \in CPUs : Running(t, c)

(* A locked instruction: the CPU's own stores have drained.                *)
Fenced(t) == \A c \in CPUs : cur[c] = t => sb[c] = <<>>

Goto(t, label) == pc' = [pc EXCEPT ![t] = label]
SetWord(l, w) == m_owner' = [m_owner EXCEPT ![l] = w]

(* Faulty variant: a word with its waiters bit set passes for unheld.      *)
FreeIfWaiters(l) == m_owner[l] = Free \/ m_owner[l].waiters

(* The word a cmpxchg against zero replaces.                               *)
Available(l) == m_owner[l] = Free

(* That cmpxchg, when it succeeds.                                         *)
Acquire(t, l) ==
    /\ SetWord(l, Owned(t))
    /\ held' = [held EXCEPT ![t] = @ \cup {l}]
    /\ Goto(t, "run")
-----------------------------------------------------------------------------
(* The processor: a buffered store becomes visible.                        *)
Drain(c) ==
    /\ sb[c] # <<>>
    /\ sb' = [sb EXCEPT ![c] = Tail(@)]
    /\ LET s == Head(sb[c]) IN
       IF s.what = "clear"
       THEN SetWord(s.of, Free) /\ UNCHANGED cpu_thread
       ELSE cpu_thread' = [cpu_thread EXCEPT ![c] = s.of] /\ UNCHANGED m_owner
    /\ UNCHANGED <<cur, held, pc, lk, owner, scan, panicstr, ts_vars>>

(* The trap return of locore.s: a thread interrupted between the test and  *)
(* the store of mutex_exit goes back to the test.                          *)
RestartPC(label) == IF label = "commit" THEN "exit" ELSE label

(* swtch(): a thread that sleeps, or is preempted while it holds no        *)
(* dispatcher lock, leaves the CPU; resume() publishes the idle thread.    *)
SwitchOut(t, c) ==
    /\ ~panicstr
    /\ cur[c] = t /\ sb[c] = <<>>
    /\ tc_lock # t
    /\ cur' = [cur EXCEPT ![c] = NULL]
    /\ sb' = [sb EXCEPT ![c] = <<CpuIdle>>]
    /\ pc' = [pc EXCEPT ![t] = RestartPC(@)]
    /\ UNCHANGED <<m_owner, cpu_thread, held, lk, owner, scan, panicstr, ts_vars>>

(* resume(): dispatch a runnable thread whose t_lock the CPU it last ran   *)
(* on has released (its idle CPU_THREAD is visible by then).               *)
Resume(t, c) ==
    /\ ~panicstr
    /\ cur[c] = NULL /\ sb[c] = <<>>
    /\ pc[t] # "sleep"
    /\ \A d \in CPUs : cur[d] # t /\ cpu_thread[d] # t
    /\ cur' = [cur EXCEPT ![c] = t]
    /\ cpu_thread' = [cpu_thread EXCEPT ![c] = t]
    /\ UNCHANGED <<m_owner, sb, held, pc, lk, owner, scan, panicstr, ts_vars>>
-----------------------------------------------------------------------------
(* mutex_enter of a mutex that comes after every one the thread holds: one *)
(* cmpxchg, or mutex_vector_enter.                                         *)
mutex_enter(t, l) ==
    /\ At(t, "run") /\ Fenced(t)
    /\ \A k \in held[t] : k < l
    /\ ~m_owner[l].dead
    /\ IF Available(l)
       THEN Acquire(t, l) /\ UNCHANGED lk
       ELSE /\ Goto(t, "spin")
            /\ lk' = [lk EXCEPT ![t] = l]
            /\ UNCHANGED <<m_owner, held>>
    /\ UNCHANGED <<cpu_thread, cur, sb, owner, scan, panicstr, ts_vars>>

(* mutex_tryenter, when it succeeds; a failure changes nothing.            *)
mutex_tryenter(t, l) ==
    /\ At(t, "run") /\ Fenced(t)
    /\ Available(l)
    /\ Acquire(t, l)
    /\ UNCHANGED <<cpu_thread, cur, sb, lk, owner, scan, panicstr, ts_vars>>

(* Back to the top of mutex_vector_enter's loop, where its locals are set  *)
(* again before they are used.                                             *)
Respin(t) ==
    /\ Goto(t, "spin")
    /\ owner' = [owner EXCEPT ![t] = NULL]
    /\ scan' = [scan EXCEPT ![t] = {}]

(* The loop of mutex_vector_enter: take the lock if it looks free ...      *)
SpinGrab(t) ==
    /\ At(t, "spin") /\ Fenced(t)
    /\ Available(lk[t])
    /\ Acquire(t, lk[t])
    /\ lk' = [lk EXCEPT ![t] = NULL]
    /\ UNCHANGED <<cpu_thread, cur, sb, owner, scan, panicstr, ts_vars>>

(* ... or note its owner and look for it on every CPU.                     *)
SpinOwner(t) ==
    LET o == mutex_owner(lk[t]) IN
    /\ At(t, "spin")
    /\ o # NULL
    /\ panicstr' = (o = t)
    /\ owner' = [owner EXCEPT ![t] = o]
    /\ scan' = [scan EXCEPT ![t] = CPUs]
    /\ Goto(t, "search")
    /\ UNCHANGED <<m_owner, cpu_thread, cur, sb, held, lk, ts_vars>>

(* One CPU of the first search; an owner that is running makes us spin.    *)
Search(t, c) ==
    /\ At(t, "search") /\ c \in scan[t]
    /\ IF cpu_thread[c] = owner[t] THEN Respin(t)
       ELSE /\ scan' = [scan EXCEPT ![t] = @ \ {c}]
            /\ Goto(t, IF scan[t] = {c} THEN "lookup" ELSE "search")
            /\ UNCHANGED owner
    /\ UNCHANGED <<m_owner, cpu_thread, cur, sb, held, lk, panicstr, ts_vars>>

VectorLookup(t) ==
    /\ At(t, "lookup") /\ Fenced(t)
    /\ turnstile_lookup(t)
    /\ Goto(t, "mark")
    /\ UNCHANGED <<m_owner, cpu_thread, cur, sb, held, lk, owner, scan, panicstr>>

(* Faulty variant: the bit is set on a free lock too.                      *)
MarkAlways(w) == [w EXCEPT !.waiters = TRUE]

(* What MUTEX_SET_WAITERS makes of the word: nothing of a free one.        *)
Mark(w) == IF w = Free THEN w ELSE [w EXCEPT !.waiters = TRUE]

(* MUTEX_SET_WAITERS: whoever owns the lock by now, unless it is free.     *)
SetWaiters(t) ==
    LET l == lk[t] IN
    /\ At(t, "mark")
    /\ SetWord(l, Mark(m_owner[l]))
    /\ scan' = [scan EXCEPT ![t] = CPUs]
    /\ Goto(t, "recheck")
    /\ UNCHANGED <<cpu_thread, cur, sb, held, lk, owner, panicstr, ts_vars>>

(* One CPU of the second search, now that the waiters bit is visible.      *)
RecheckAbort(t, c) ==
    /\ At(t, "recheck") /\ c \in scan[t]
    /\ cpu_thread[c] = owner[t]
    /\ turnstile_exit(t)
    /\ Respin(t)
    /\ UNCHANGED <<m_owner, cpu_thread, cur, sb, held, lk, panicstr>>

Recheck(t, c) ==
    /\ At(t, "recheck") /\ c \in scan[t]
    /\ cpu_thread[c] # owner[t]
    /\ scan' = [scan EXCEPT ![t] = @ \ {c}]
    /\ Goto(t, IF scan[t] = {c} THEN "confirm" ELSE "recheck")
    /\ UNCHANGED <<m_owner, cpu_thread, cur, sb, held, lk, owner, panicstr,
                   ts_vars>>

(* Faulty variant: the waiters bit is not checked again.                   *)
SameOwner(t) == mutex_owner(lk[t]) = owner[t]

(* Block if owner and waiters bit are unchanged, else go around again.     *)
Unchanged(t) ==
    mutex_owner(lk[t]) = owner[t] /\ m_owner[lk[t]].waiters

ConfirmAbort(t) ==
    /\ At(t, "confirm")
    /\ ~Unchanged(t)
    /\ turnstile_exit(t)
    /\ Respin(t)
    /\ UNCHANGED <<m_owner, cpu_thread, cur, sb, held, lk, panicstr>>

ConfirmBlock(t) ==
    /\ At(t, "confirm")
    /\ Unchanged(t)
    /\ turnstile_block(t, "W", lk[t])
    /\ Goto(t, "pi")
    /\ owner' = [owner EXCEPT ![t] = NULL]
    /\ UNCHANGED <<m_owner, cpu_thread, cur, sb, held, lk, scan, panicstr>>

EnterWill(t) ==
    LET o == mutex_owner(t_wchan[pi_cur]) IN
    /\ At(t, "pi")
    /\ panicstr' = (o = t)
    /\ turnstile_block_pi(t, o)
    /\ Goto(t, IF PiWalkEnds(o) THEN "sleep" ELSE "pi")
    /\ UNCHANGED <<m_owner, cpu_thread, cur, sb, held, lk, owner, scan>>
-----------------------------------------------------------------------------
(* mutex_exit: the caller drops a mutex it holds.                          *)
mutex_exit(t, l) ==
    /\ At(t, "run") /\ l \in held[t]
    /\ lk' = [lk EXCEPT ![t] = l]
    /\ Goto(t, "exit")
    /\ UNCHANGED <<m_owner, cpu_thread, cur, sb, held, owner, scan, panicstr,
                   ts_vars>>

(* The test of the word, and the store that clears it.                     *)
ExitTest(t) ==
    LET l == lk[t] IN
    /\ At(t, "exit")
    /\ panicstr' = (mutex_owner(l) # t)
    /\ Goto(t, IF m_owner[l] = Owned(t) THEN "commit" ELSE "vector")
    /\ UNCHANGED <<m_owner, cpu_thread, cur, sb, held, lk, owner, scan, ts_vars>>

ExitClear(t, c) ==
    /\ At(t, "commit") /\ cur[c] = t
    /\ sb' = [sb EXCEPT ![c] = Append(@, Clear(lk[t]))]
    /\ held' = [held EXCEPT ![t] = @ \ {lk[t]}]
    /\ lk' = [lk EXCEPT ![t] = NULL]
    /\ Goto(t, "run")
    /\ UNCHANGED <<m_owner, cpu_thread, cur, owner, scan, panicstr, ts_vars>>

(* mutex_vector_exit: under the chain lock, clear lock and waiters bit;    *)
(* the bit may be set though nobody blocked.                               *)
VectorExitLookup(t) ==
    /\ At(t, "vector") /\ Fenced(t)
    /\ turnstile_lookup(t)
    /\ Goto(t, "clear")
    /\ UNCHANGED <<m_owner, cpu_thread, cur, sb, held, lk, owner, scan, panicstr>>

VectorExitClear(t) ==
    /\ At(t, "clear") /\ tc_lock = t
    /\ SetWord(lk[t], Free)
    /\ held' = [held EXCEPT ![t] = @ \ {lk[t]}]
    /\ IF tc_chain[lk[t]] = NULL
       THEN tc_lock' = NULL /\ Goto(t, "run") /\ UNCHANGED wk
       ELSE /\ wk' = [q |-> "W", n |-> ts_waiters[tc_chain[lk[t]]],
                      owner |-> NULL, sobj |-> lk[t]]
            /\ Goto(t, "waive")
            /\ UNCHANGED tc_lock
    /\ lk' = [lk EXCEPT ![t] = NULL]
    /\ UNCHANGED <<cpu_thread, cur, sb, owner, scan, panicstr>>
    /\ UNCHANGED <<chain_vars, pi_vars, ts_sleepq, t_pri, pi_cur>>

WakeWaive(t) ==
    /\ At(t, "waive")
    /\ turnstile_wakeup_waive(t)
    /\ Goto(t, "wake")
    /\ UNCHANGED <<m_owner, cpu_thread, cur, sb, held, lk, owner, scan, panicstr>>

(* A woken thread goes back to the top of mutex_vector_enter's loop.       *)
WakeOne(t) ==
    /\ At(t, "wake")
    /\ turnstile_wakeup_one(t)
    /\ Respin(WakeNext)
    /\ UNCHANGED <<m_owner, cpu_thread, cur, sb, held, lk, panicstr>>

WakeDone(t) ==
    /\ At(t, "wake")
    /\ turnstile_wakeup_done(t)
    /\ Goto(t, "run")
    /\ UNCHANGED <<m_owner, cpu_thread, cur, sb, held, lk, owner, scan, panicstr>>
-----------------------------------------------------------------------------
(* mutex_destroy, by the owner of a mutex nobody else uses, and mutex_init.*)
mutex_destroy(t, l) ==
    /\ At(t, "run") /\ l \in held[t]
    /\ \A u \in Threads : lk[u] # l
    /\ panicstr' = (m_owner[l] # Free
                      /\ (m_owner[l].waiters \/ mutex_owner(l) # t))
    /\ SetWord(l, [Owned(t) EXCEPT !.dead = TRUE])
    /\ held' = [held EXCEPT ![t] = @ \ {l}]
    /\ UNCHANGED <<cpu_thread, cur, sb, pc, lk, owner, scan, ts_vars>>

mutex_init(t, l) ==
    /\ At(t, "run") /\ m_owner[l].dead
    /\ SetWord(l, Free)
    /\ UNCHANGED <<cpu_thread, cur, sb, held, pc, lk, owner, scan, panicstr,
                   ts_vars>>

(* priocntl() or a scheduling class changes an assigned priority.          *)
ChangePri(t, p) ==
    /\ DynamicPri /\ ~panicstr
    /\ p # t_pri[t]
    /\ thread_change_pri(t, p)
    /\ UNCHANGED m_vars
-----------------------------------------------------------------------------
(* What a thread does on its own once it is inside an operation.           *)
Continue(t) ==
    \/ SpinGrab(t) \/ SpinOwner(t) \/ VectorLookup(t) \/ SetWaiters(t)
    \/ \E c \in CPUs : Search(t, c) \/ RecheckAbort(t, c) \/ Recheck(t, c)
    \/ ConfirmAbort(t) \/ ConfirmBlock(t) \/ EnterWill(t)
    \/ ExitTest(t) \/ (\E c \in CPUs : ExitClear(t, c))
    \/ VectorExitLookup(t) \/ VectorExitClear(t)
    \/ WakeWaive(t) \/ WakeOne(t) \/ WakeDone(t)

Next ==
    \/ \E t \in Threads : Continue(t)
    \/ \E t \in Threads, l \in Locks :
          mutex_enter(t, l) \/ mutex_tryenter(t, l) \/ mutex_exit(t, l)
    \/ \E t \in Threads, l \in Destroyable : mutex_destroy(t, l) \/ mutex_init(t, l)
    \/ \E c \in CPUs : Drain(c)
    \/ \E t \in Threads, c \in CPUs : SwitchOut(t, c) \/ Resume(t, c)
    \/ \E t \in Threads, p \in Priorities : ChangePri(t, p)

Spec == Init /\ [][Next]_vars
-----------------------------------------------------------------------------
(* Two threads never hold a mutex at once, although mutex_exit drops it    *)
(* with a plain store that may race the cas of MUTEX_SET_WAITERS.          *)
MutualExclusion ==
    \A t, u \in Threads : t # u => held[t] \cap held[u] = {}

(* No missed wakeup: a thread asleep on a mutex (with its turnstile        *)
(* operation complete) sees it owned, with the waiters bit set, and the    *)
(* owner is neither past the waiters test of mutex_exit nor has its clear  *)
(* of the lock in a store buffer, so it must come through mutex_vector_exit*)
NoMissedWakeup ==
    \A t \in Threads :
        pc[t] = "sleep" /\ tc_lock = NULL =>
            LET l == t_wchan[t]
                o == mutex_owner(l)
            IN  /\ o # NULL /\ m_owner[l].waiters
                /\ ~(pc[o] = "commit" /\ lk[o] = l)
                /\ \A c \in CPUs : Clear(l) \notin Elems(sb[c])

(* The owner of a mutex runs at the priority of the threads asleep on it,  *)
(* along every chain of blocked owners, as long as the classes leave the   *)
(* priorities alone (DynamicPri = FALSE).  When they do not, the CL_SLEEP  *)
(* of turnstile_block is enough to break it: an owner that blocks on       *)
(* another mutex may drop below a waiter that had nothing to give it.      *)
NoPriorityInversion ==
    tc_lock = NULL =>
        \A t \in Threads : t_wchan[t] # NULL =>
            DISP_PRIO[mutex_owner(t_wchan[t])] >= DISP_PRIO[t]

(* A lock nobody holds or is dropping carries neither owner nor waiters    *)
(* bit: the next mutex_enter's cmpxchg against zero can succeed.           *)
FreeWhenDropped ==
    \A l \in Locks :
        /\ \A t \in Threads : l \notin held[t]
        /\ \A c \in CPUs : Clear(l) \notin Elems(sb[c])
        => m_owner[l] = Free \/ m_owner[l].dead
=============================================================================
