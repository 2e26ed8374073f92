------------------------------- MODULE RWLock -------------------------------
(***************************************************************************)
(* Readers/writer locks: uts/common/os/rwlock.c, its header                *)
(* uts/common/sys/rwlock_i.h and the assembly fast paths rw_enter and      *)
(* rw_exit of uts/i86/ml/lock_pri.s, on top of the turnstiles.             *)
(*                                                                         *)
(* Each compare-and-swap loop on the lock word is one atomic step (a retry *)
(* only rereads the word); everything the code does between two accesses   *)
(* to shared state is a step of its own.  Threads are clients that take    *)
(* locks in increasing order and never enter a lock they hold, and destroy *)
(* a lock only when nobody uses it; the panics of the code are kept, as    *)
(* assignments to panicstr, and shown unreachable.                         *)
(***************************************************************************)
EXTENDS Turnstile

CONSTANTS
    Readers, Writers,  \* [Locks]: the threads that read-lock, write-lock it
    Destroyable        \* the locks that clients destroy and initialize again

ASSUME RWLockAssumption ==
    /\ Readers \in [Locks -> SUBSET Threads]
    /\ Writers \in [Locks -> SUBSET Threads]
    /\ Destroyable \subseteq Locks

VARIABLES
    rw_wwwh,      \* [Locks]: the lock word, decoded
    hold,         \* [Threads][Locks]: what the thread's code believes it holds
    pc, lk, rw,   \* [Threads]: where it is, in an operation on which lock, mode
    t_kpri_req,   \* [Threads]: kernel-priority requests outstanding
    panicstr      \* whether the kernel has panicked

rw_vars == <<rw_wwwh, hold, pc, lk, rw, t_kpri_req, panicstr>>
vars == <<rw_vars, ts_vars>>

(* The lock word: the hold count and the owner share their bits, so at     *)
(* most one of rd and wr is in use; wl, ww and hw are RW_WRITE_LOCKED,     *)
(* RW_WRITE_WANTED and RW_HAS_WAITERS.                                     *)
Unheld == [rd |-> 0, wr |-> NULL, wl |-> FALSE, ww |-> FALSE, hw |-> FALSE]
RW_DOUBLE_LOCK == [Unheld EXCEPT !.rd = 1, !.wl = TRUE]
RW_LOCKED(w) == w.rd > 0 \/ w.wr # NULL
RW_WRITE_CLAIMED(w) == w.wl \/ w.ww

(* Faulty variants: a writer only respects writers; a reader ignores the   *)
(* write-wanted bit.                                                       *)
BusyIfClaimed(w, m) == RW_WRITE_CLAIMED(w)
BusyUnlessWanted(w, m) == IF m = "R" THEN w.wl ELSE RW_LOCKED(w)

(* The bits that make the lock unavailable for mode m.                     *)
lock_busy(w, m) == IF m = "R" THEN RW_WRITE_CLAIMED(w) ELSE RW_LOCKED(w)

(* old + lock_value and old - lock_value.                                  *)
Grant(w, t, m) == IF m = "R" THEN [w EXCEPT !.rd = @ + 1]
                  ELSE [w EXCEPT !.wr = t, !.wl = TRUE]

Drop(w, m) == IF m = "R" THEN [w EXCEPT !.rd = @ - 1]
              ELSE [w EXCEPT !.wr = NULL, !.wl = FALSE]

(* rw_owner: the SOBJ_OWNER of rwlocks.                                    *)
rw_owner(l) == IF rw_wwwh[l].wl THEN rw_wwwh[l].wr ELSE NULL

Init ==
    /\ TurnstileInit
    /\ rw_wwwh = [l \in Locks |-> Unheld]
    /\ hold = [t \in Threads |-> [l \in Locks |-> "none"]]
    /\ pc = [t \in Threads |-> "run"]
    /\ lk = [t \in Threads |-> NULL]
    /\ rw = [t \in Threads |-> "R"]
    /\ t_kpri_req = [t \in Threads |-> 0]
    /\ panicstr = FALSE

Kpri(t, d) == [t_kpri_req EXCEPT ![t] = @ + d]
SetHold(t, l, m) == hold' = [hold EXCEPT ![t][l] = m]
SetWord(l, w) == rw_wwwh' = [rw_wwwh EXCEPT ![l] = w]
Goto(t, label) == pc' = [pc EXCEPT ![t] = label]
At(t, label) == ~panicstr /\ pc[t] = label
Permitted(t, l, m) == t \in (IF m = "R" THEN Readers[l] ELSE Writers[l])
Begin(t, label, l, m) ==
    /\ Goto(t, label)
    /\ lk' = [lk EXCEPT ![t] = l]
    /\ rw' = [rw EXCEPT ![t] = m]

(* Back in the caller's code, with no operation under way.                 *)
Return(t) == Begin(t, "run", NULL, "R")
-----------------------------------------------------------------------------
(* rw_enter(l, m), of a lock the thread does not hold and that comes after *)
(* every lock it does hold.  A reader requests kernel priority first.      *)
rw_enter(t, l, m) ==
    /\ At(t, "run") /\ Permitted(t, l, m)
    /\ rw_wwwh[l] # RW_DOUBLE_LOCK
    /\ \A k \in Locks : hold[t][k] # "none" => k < l
    /\ Begin(t, "enter", l, m)
    /\ t_kpri_req' = IF m = "R" THEN Kpri(t, 1) ELSE t_kpri_req
    /\ UNCHANGED <<rw_wwwh, hold, panicstr, ts_vars>>

(* The lock is available: one successful casip().                          *)
EnterGrab(t) ==
    LET l == lk[t] IN
    /\ At(t, "enter")
    /\ ~lock_busy(rw_wwwh[l], rw[t])
    /\ SetWord(l, Grant(rw_wwwh[l], t, rw[t]))
    /\ SetHold(t, l, rw[t])
    /\ Return(t)
    /\ UNCHANGED <<t_kpri_req, panicstr, ts_vars>>

(* It is not; by the time the turnstile is looked up it may be again.      *)
EnterBusy(t) ==
    LET w == rw_wwwh[lk[t]] IN
    /\ At(t, "enter")
    /\ lock_busy(w, rw[t])
    /\ panicstr' = (w = RW_DOUBLE_LOCK \/ w.wr = t)
    /\ Goto(t, "slow")
    /\ UNCHANGED <<rw_wwwh, hold, lk, rw, t_kpri_req, ts_vars>>

EnterLookup(t) ==
    /\ At(t, "slow")
    /\ turnstile_lookup(t)
    /\ Goto(t, "look")
    /\ UNCHANGED <<rw_wwwh, hold, lk, rw, t_kpri_req, panicstr>>

(* The lock appears free now; try the dance again.                         *)
EnterRetry(t) ==
    /\ At(t, "look")
    /\ ~lock_busy(rw_wwwh[lk[t]], rw[t])
    /\ turnstile_exit(t)
    /\ Goto(t, "enter")
    /\ UNCHANGED <<rw_wwwh, hold, lk, rw, t_kpri_req, panicstr>>

(* The busy lock is marked as having waiters, by casip(); a reader gives   *)
(* its kernel priority back.                                               *)
EnterWait(t) ==
    LET l == lk[t]
        w == rw_wwwh[l]
    IN
    /\ At(t, "look")
    /\ lock_busy(w, rw[t])
    /\ SetWord(l, [w EXCEPT !.hw = TRUE, !.ww = @ \/ rw[t] = "W"])
    /\ t_kpri_req' = IF rw[t] = "R" THEN Kpri(t, -1) ELSE t_kpri_req
    /\ Goto(t, "block")
    /\ UNCHANGED <<hold, lk, rw, panicstr, ts_vars>>

EnterBlock(t) ==
    /\ At(t, "block")
    /\ turnstile_block(t, rw[t], lk[t])
    /\ Goto(t, "pi")
    /\ UNCHANGED <<rw_wwwh, hold, lk, rw, t_kpri_req, panicstr>>

(* The walk of the blocking chain: asleep once it ends.                    *)
EnterWill(t) ==
    LET owner == rw_owner(t_wchan[pi_cur]) IN
    /\ At(t, "pi")
    /\ panicstr' = (owner = t)
    /\ turnstile_block_pi(t, owner)
    /\ Goto(t, IF PiWalkEnds(owner) THEN "sleep" ELSE "pi")
    /\ UNCHANGED <<rw_wwwh, hold, lk, rw, t_kpri_req>>
-----------------------------------------------------------------------------
(* rw_exit: the panics on a word that contradicts the caller, and whether  *)
(* this is the final exit of a lock with waiters.                          *)
RwExitPanics(t, w) == IF w.wl THEN w.wr # t ELSE ~RW_LOCKED(w)

lock_value(w) == IF w.wl THEN "W" ELSE "R"

(* Faulty variant: any exit of a lock with waiters counts as the last.     *)
AnyExitIsFinal(w) == w.hw
FinalExit(w) ==
    LET new == Drop(w, lock_value(w)) IN new.hw /\ ~RW_LOCKED(new)

ExitDrop(t, l) ==
    LET w == rw_wwwh[l] IN
    /\ At(t, "run") /\ hold[t][l] # "none"
    /\ ~FinalExit(w)
    /\ panicstr' = RwExitPanics(t, w)
    /\ SetWord(l, Drop(w, lock_value(w)))
    /\ SetHold(t, l, "none")
    /\ t_kpri_req' = IF w.wl THEN t_kpri_req ELSE Kpri(t, -1)
    /\ UNCHANGED <<pc, lk, rw, ts_vars>>

ExitFinal(t, l) ==
    LET w == rw_wwwh[l] IN
    /\ At(t, "run") /\ hold[t][l] # "none"
    /\ FinalExit(w)
    /\ panicstr' = RwExitPanics(t, w)
    /\ Begin(t, "final", l, lock_value(w))
    /\ UNCHANGED <<rw_wwwh, hold, t_kpri_req, ts_vars>>

ExitLookup(t) ==
    /\ At(t, "final")
    /\ turnstile_lookup(t)
    /\ Goto(t, "hand")
    /\ UNCHANGED <<rw_wwwh, hold, lk, rw, t_kpri_req, panicstr>>

(* rw_readers_to_wake: the blocked readers, from the head of their queue,  *)
(* whose priority is at least that of the first blocked writer, and the    *)
(* kernel priority requested on their behalf.                              *)
rw_readers_to_wake(ts) ==
    LET wq == ts_sleepq[ts]["W"]
        rq == ts_sleepq[ts]["R"]
        wpri == IF wq = <<>> THEN -1 ELSE DISP_PRIO[Head(wq)]
    IN  PrefixLen(rq, DISP_PRIO, wpri)

(* Faulty variant: readers are woken without their kernel priority.        *)
NoKpriForReaders(ts, n) == t_kpri_req

KpriForReaders(ts, n) ==
    [t \in Threads |-> t_kpri_req[t] +
        IF \E i \in 1..n : ts_sleepq[ts]["R"][i] = t THEN 1 ELSE 0]

Wakeup(q, n, owner, l) == wk' = [q |-> q, n |-> n, owner |-> owner, sobj |-> l]

(* Faulty variant: exiting readers hand the lock to readers too.           *)
ReadersWakeReaders(t, ts) == rw_readers_to_wake(ts) > 0

(* An exiting writer prefers those readers; readers do not wake readers.   *)
GrantsReaders(t, ts) == rw[t] = "W" /\ rw_readers_to_wake(ts) > 0

(* Faulty variant: off by one, the last waiter is forgotten.               *)
WaitersLeftOffByOne(ts, n) == ts_waiters[ts] > n + 1

(* Whether waiters remain once n of them have been granted the lock.       *)
WaitersLeft(ts, n) == ts_waiters[ts] > n

(* An exiting writer grants the lock to all those readers at once, by a    *)
(* plain store to the word.                                                *)
ExitToReaders(t) ==
    LET l  == lk[t]
        ts == tc_chain[l]
        n  == rw_readers_to_wake(ts)
    IN
    /\ At(t, "hand")
    /\ GrantsReaders(t, ts)
    /\ SetWord(l, [Unheld EXCEPT !.rd = n,
                                 !.hw = WaitersLeft(ts, n),
                                 !.ww = ts_sleepq[ts]["W"] # <<>>])
    /\ t_kpri_req' = KpriForReaders(ts, n)
    /\ SetHold(t, l, "none")
    /\ Wakeup("R", n, NULL, l)
    /\ Goto(t, "waive")
    /\ UNCHANGED <<lk, rw, panicstr>>
    /\ UNCHANGED <<tc_lock, chain_vars, pi_vars, ts_sleepq, t_pri, pi_cur>>

(* Otherwise the first blocked writer becomes the owner.                   *)
ExitToWriter(t) ==
    LET l  == lk[t]
        ts == tc_chain[l]
        wq == ts_sleepq[ts]["W"]
        next_writer == Head(wq)
    IN
    /\ At(t, "hand")
    /\ ~GrantsReaders(t, ts)
    /\ SetWord(l, [Unheld EXCEPT !.wr = next_writer, !.wl = TRUE,
                                 !.hw = WaitersLeft(ts, 1),
                                 !.ww = Len(wq) > 1])
    /\ SetHold(t, l, "none")
    /\ Wakeup("W", 1, next_writer, l)
    /\ Goto(t, "waive")
    /\ UNCHANGED <<lk, rw, t_kpri_req, panicstr>>
    /\ UNCHANGED <<tc_lock, chain_vars, pi_vars, ts_sleepq, t_pri, pi_cur>>

(* turnstile_wakeup: the woken threads return from rw_enter holding it.    *)
WakeWaive(t) ==
    /\ At(t, "waive")
    /\ turnstile_wakeup_waive(t)
    /\ Goto(t, "wake")
    /\ UNCHANGED <<rw_wwwh, hold, lk, rw, t_kpri_req, panicstr>>

WakeOne(t) ==
    /\ At(t, "wake")
    /\ turnstile_wakeup_one(t)
    /\ SetHold(WakeNext, lk[WakeNext], rw[WakeNext])
    /\ Return(WakeNext)
    /\ UNCHANGED <<rw_wwwh, t_kpri_req, panicstr>>

(* The end of turnstile_wakeup; an exiting reader then drops its kpri.     *)
WakeDone(t) ==
    /\ At(t, "wake")
    /\ turnstile_wakeup_done(t)
    /\ panicstr' = (wk.owner # NULL)
    /\ t_kpri_req' = IF rw[t] = "R" THEN Kpri(t, -1) ELSE t_kpri_req
    /\ Return(t)
    /\ UNCHANGED <<rw_wwwh, hold>>
-----------------------------------------------------------------------------
(* rw_tryenter, when it succeeds; a failure changes nothing.               *)
rw_tryenter(t, l, m) ==
    LET w == rw_wwwh[l] IN
    /\ At(t, "run") /\ Permitted(t, l, m)
    /\ hold[t][l] = "none"
    /\ IF m = "R" THEN ~RW_WRITE_CLAIMED(w) ELSE w = Unheld
    /\ SetWord(l, Grant(w, t, m))
    /\ SetHold(t, l, m)
    /\ t_kpri_req' = IF m = "R" THEN Kpri(t, 1) ELSE t_kpri_req
    /\ UNCHANGED <<pc, lk, rw, panicstr, ts_vars>>

(* rw_downgrade: first the owner becomes a reader, by one atomic add; then,*)
(* if there are waiters, readers are let in as by an exiting writer.       *)
rw_downgrade(t, l) ==
    LET w == rw_wwwh[l] IN
    /\ At(t, "run") /\ hold[t][l] = "W"
    /\ panicstr' = (w.wr # t)
    /\ SetWord(l, [w EXCEPT !.rd = 1, !.wr = NULL, !.wl = FALSE])
    /\ SetHold(t, l, "R")
    /\ t_kpri_req' = Kpri(t, 1)
    /\ IF w.hw THEN Begin(t, "down", l, "W") ELSE UNCHANGED <<pc, lk, rw>>
    /\ UNCHANGED ts_vars

DowngradeLookup(t) ==
    /\ At(t, "down")
    /\ turnstile_lookup(t)
    /\ Goto(t, "share")
    /\ UNCHANGED <<rw_wwwh, hold, lk, rw, t_kpri_req, panicstr>>

DowngradeShare(t) ==
    LET l  == lk[t]
        ts == tc_chain[l]
        n  == rw_readers_to_wake(ts)
    IN
    /\ At(t, "share")
    /\ SetWord(l, [rw_wwwh[l] EXCEPT !.rd = @ + n,
                       !.hw = @ /\ ~(n > 0 /\ ts_waiters[ts] = n)])
    /\ t_kpri_req' = KpriForReaders(ts, n)
    /\ Wakeup("R", n, NULL, l)
    /\ Goto(t, "waive")
    /\ UNCHANGED <<hold, lk, rw, panicstr>>
    /\ UNCHANGED <<tc_lock, chain_vars, pi_vars, ts_sleepq, t_pri, pi_cur>>

(* rw_tryupgrade, when it succeeds: the only reader, and no writer waits.  *)
rw_tryupgrade(t, l) ==
    LET w == rw_wwwh[l] IN
    /\ At(t, "run") /\ hold[t][l] = "R" /\ Permitted(t, l, "W")
    /\ [w EXCEPT !.hw = FALSE] = [Unheld EXCEPT !.rd = 1]
    /\ SetWord(l, Grant(Drop(w, "R"), t, "W"))
    /\ SetHold(t, l, "W")
    /\ t_kpri_req' = Kpri(t, -1)
    /\ UNCHANGED <<pc, lk, rw, panicstr, ts_vars>>

(* rw_destroy, by a client that knows nobody uses the lock, and rw_init.   *)
Unused(l) == \A t \in Threads : hold[t][l] = "none" /\ lk[t] # l

rw_destroy(l) ==
    /\ ~panicstr /\ Unused(l)
    /\ rw_wwwh[l] # RW_DOUBLE_LOCK
    /\ panicstr' = (rw_wwwh[l] # Unheld)
    /\ SetWord(l, RW_DOUBLE_LOCK)
    /\ UNCHANGED <<hold, pc, lk, rw, t_kpri_req, ts_vars>>

rw_init(l) ==
    /\ ~panicstr /\ rw_wwwh[l] = RW_DOUBLE_LOCK
    /\ SetWord(l, Unheld)
    /\ UNCHANGED <<hold, pc, lk, rw, t_kpri_req, panicstr, ts_vars>>

(* priocntl() or a scheduling class changes an assigned priority.          *)
ChangePri(t, p) ==
    /\ DynamicPri /\ ~panicstr
    /\ p # t_pri[t]
    /\ thread_change_pri(t, p)
    /\ UNCHANGED rw_vars
-----------------------------------------------------------------------------
(* What a thread does on its own once it is inside an operation.           *)
Continue(t) ==
    \/ EnterGrab(t) \/ EnterBusy(t) \/ EnterLookup(t) \/ EnterRetry(t)
    \/ EnterWait(t) \/ EnterBlock(t) \/ EnterWill(t)
    \/ ExitLookup(t) \/ ExitToReaders(t) \/ ExitToWriter(t)
    \/ WakeWaive(t) \/ WakeOne(t) \/ WakeDone(t)
    \/ DowngradeLookup(t) \/ DowngradeShare(t)

rw_exit(t, l) == ExitDrop(t, l) \/ ExitFinal(t, l)

Next ==
    \/ \E t \in Threads : Continue(t)
    \/ \E t \in Threads, l \in Locks :
          \/ \E m \in {"R", "W"} : rw_enter(t, l, m) \/ rw_tryenter(t, l, m)
          \/ rw_exit(t, l) \/ rw_downgrade(t, l) \/ rw_tryupgrade(t, l)
    \/ \E l \in Destroyable : rw_destroy(l) \/ rw_init(l)
    \/ \E t \in Threads, p \in Priorities : ChangePri(t, p)

Spec == Init /\ [][Next]_vars

(* Threads in an operation keep running, a holder eventually exits, and a  *)
(* destroyed lock need not be initialized again.                           *)
Fairness ==
    /\ \A t \in Threads : WF_vars(Continue(t))
    /\ \A t \in Threads, l \in Locks : WF_vars(rw_exit(t, l))

FairSpec == Spec /\ Fairness
-----------------------------------------------------------------------------
Labels == {"run", "enter", "slow", "look", "block", "pi", "sleep",
           "final", "hand", "down", "share", "waive", "wake"}
Words == [rd : Nat, wr : Threads \cup {NULL},
          wl : BOOLEAN, ww : BOOLEAN, hw : BOOLEAN]

(* Type invariant of the turnstile and rwlock state.                       *)
TypeOK ==
    /\ TurnstileTypeOK
    /\ rw_wwwh \in [Locks -> Words]
    /\ hold \in [Threads -> [Locks -> {"none", "R", "W"}]]
    /\ pc \in [Threads -> Labels]
    /\ lk \in [Threads -> Locks \cup {NULL}]
    /\ rw \in [Threads -> Queues]
    /\ t_kpri_req \in [Threads -> Int]
    /\ panicstr \in BOOLEAN

(* The readers of a lock, and the read holds granted by a handoff to       *)
(* readers that the wakeup loop has yet to wake.                           *)
HoldersR(l) == {t \in Threads : hold[t][l] = "R"}
Pending(l, q) == IF wk.sobj = l /\ wk.q = q THEN wk.n ELSE 0

(* The threads waiting for a lock: they have set its waiters bit and have  *)
(* not been handed it.                                                     *)
Granted(t) ==
    /\ wk.sobj # NULL /\ t_wchan[t] = wk.sobj /\ rw[t] = wk.q
    /\ \E i \in 1..wk.n : ts_sleepq[t_ts[t]][wk.q][i] = t
Waiting(l, m) ==
    {t \in Threads : /\ pc[t] \in {"block", "pi", "sleep"}
                     /\ lk[t] = l /\ rw[t] = m /\ ~Granted(t)}

(* No thread of the kernel may hold for writing a lock that another one    *)
(* holds: what rw_enter, rw_tryenter, rw_tryupgrade and the direct handoff *)
(* of rw_exit_wakeup must ensure between them.                             *)
MutualExclusion ==
    \A l \in Locks, t, u \in Threads :
        hold[t][l] = "W" /\ u # t => hold[u][l] = "none"

(* The word counts exactly the threads that hold the lock or have been     *)
(* handed it: no plain store of rw_exit_wakeup and no atomic add of        *)
(* rw_downgrade loses or invents a hold.                                   *)
WordCountsHolds ==
    \A l \in Locks : LET w == rw_wwwh[l] IN w # RW_DOUBLE_LOCK =>
        /\ w.rd = Cardinality(HoldersR(l)) + Pending(l, "R")
        /\ w.wl <=> w.wr # NULL
        /\ w.wl => hold[w.wr][l] = "W" \/ (wk.sobj = l /\ wk.owner = w.wr)
        /\ ~w.wl => \A t \in Threads : hold[t][l] # "W"

(* "It is impossible for a lock to be unheld but have waiters", and the    *)
(* two waiters bits tell exactly which kinds of waiters there are: the     *)
(* next exit cannot strand a waiter nor look for one that is not there.    *)
WaitersBitsExact ==
    \A l \in Locks : LET w == rw_wwwh[l] IN
        /\ w.ww <=> Waiting(l, "W") # {}
        /\ w.hw <=> Waiting(l, "W") \cup Waiting(l, "R") # {}
        /\ w.hw => RW_LOCKED(w)

(* Kernel priority requests balance although they are given back before    *)
(* blocking and taken again by the waker on the sleeper's behalf.          *)
KpriBalanced ==
    \A t \in Threads :
        pc[t] = "run" \/ (pc[t] \in {"block", "pi", "sleep"} /\ ~Granted(t)) =>
            t_kpri_req[t] = Cardinality({l \in Locks : hold[t][l] = "R"})

(* Turnstiles are neither lost nor shared: an awake thread owns an unused  *)
(* turnstile of its own, and an active one has one stashed turnstile for   *)
(* each waiter but the first.                                              *)
TurnstileConservation ==
    /\ \A t, u \in Threads :
          t_wchan[t] = NULL =>
            /\ t # u => t_ts[u] # t_ts[t]
            /\ \A l \in Locks : tc_chain[l] # t_ts[t]
            /\ \A ts \in Turnstiles : t_ts[t] \notin ts_free[ts]
            /\ ts_waiters[t_ts[t]] = 0 /\ ts_free[t_ts[t]] = {}
    /\ \A l \in Locks : tc_chain[l] # NULL =>
          LET ts == tc_chain[l]
              sleepers == {t \in Threads : t_wchan[t] = l}
          IN  /\ \A t \in sleepers : t_ts[t] = ts
              /\ ts_waiters[ts] = Cardinality(sleepers)
              /\ Cardinality(ts_free[ts]) = ts_waiters[ts] - 1
    /\ \A l \in Locks : tc_chain[l] = NULL =>
          \A t \in Threads : t_wchan[t] # l

(* A queue holds exactly the threads asleep for that kind of access, once, *)
(* in priority order, however their priorities changed while they slept.   *)
QueuesExact ==
    \A ts \in Turnstiles, q \in Queues :
        LET sq == ts_sleepq[ts][q] IN
        /\ NoDup(sq) /\ Sorted(sq, DISP_PRIO)
        /\ Elems(sq) = {t \in Threads : t_wchan[t] # NULL /\ t_ts[t] = ts
                                          /\ rw[t] = q}

(* While no turnstile operation is under way, the owner of a write-locked  *)
(* rwlock runs at least at the priority of every thread blocked on it,     *)
(* through chains of locks and across direct handoffs, as long as assigned *)
(* priorities stay (DynamicPri = FALSE): nothing is inherited anew when    *)
(* CL_SLEEP lowers an owner that blocks, or priocntl() a thread.           *)
NoPriorityInversion ==
    tc_lock = NULL =>
        \A l \in Locks, t \in Threads :
            t_wchan[t] = l /\ rw_owner(l) # NULL =>
                DISP_PRIO[rw_owner(l)] >= DISP_PRIO[t]

(* A thread has an inherited priority only from a lock that it holds (or   *)
(* is about to hand over) and on which a thread of that priority waits;    *)
(* this too as long as assigned priorities stay.                           *)
NoLeakedPriority ==
    tc_lock = NULL => \A t \in Threads : t_epri[t] # 0 =>
        \E l \in Locks, u \in Threads :
            /\ hold[t][l] = "W" \/ (pc[t] = "down" /\ lk[t] = l)
            /\ t_wchan[u] = l /\ DISP_PRIO[u] >= t_epri[t]

(* Some writer of the lock t is blocked on has a higher assigned priority. *)
Outranked(t) == \E u \in Writers[lk[t]] : t_pri[u] > t_pri[t]

(* Requirements (1) to (4) of rwlock.c: a blocked thread, reader or        *)
(* writer, that no writer outranks gets the lock.                          *)
TopWaiterServed ==
    \A t \in Threads : (pc[t] = "sleep" /\ ~Outranked(t)) ~> pc[t] = "run"

(* The rwlocks implement the abstract ones: a hold is granted when the     *)
(* word says so, which for waiters is before they wake up, and a thread    *)
(* waits once it has set the waiters bit under the chain lock.             *)
Abs == INSTANCE AbstractRWLock WITH
    holds <- [t \in Threads |-> [l \in Locks |->
        IF t_wchan[t] = l /\ Granted(t) THEN rw[t] ELSE hold[t][l]]],
    wants <- [t \in Threads |-> [l \in Locks |->
        IF t \in Waiting(l, "R") \cup Waiting(l, "W") THEN rw[t] ELSE "none"]]
Implements == Abs!ASpec
=============================================================================
