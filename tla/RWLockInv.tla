----------------------------- MODULE RWLockInv -----------------------------
(***************************************************************************)
(* The inductive invariants of RWLock, in named parts: IInv, what is true  *)
(* between any two steps of any thread and MutualExclusion rests on;       *)
(* KpriInv, for the kernel priority requests; PriorityInv, for priority    *)
(* inheritance.                                                            *)
(***************************************************************************)
EXTENDS RWLock

(* Where a thread holds the chain lock, sleeps in a queue, has yet to get  *)
(* the lock it asked for, is in the final exit, or is between the two      *)
(* halves of rw_downgrade.                                                 *)
TcLabels == {"look", "block", "pi", "hand", "share", "waive", "wake"}
QueuedLabels == {"pi", "sleep"}
EnterLabels == {"enter", "slow", "look", "block", "pi", "sleep"}
FinalLabels == {"final", "hand"}
DownLabels == {"down", "share"}
WakeLabels == {"waive", "wake"}

Active(ts) == \E l \in Locks : tc_chain[l] = ts
WQ(l) == ts_sleepq[tc_chain[l]]["W"]
RQ(l) == ts_sleepq[tc_chain[l]]["R"]

(* The chain lock, and the locals of each thread's operation.              *)
ControlInv ==
    \A t \in Threads :
        /\ pc[t] \in TcLabels <=> tc_lock = t
        /\ pc[t] = "run" <=> lk[t] = NULL
        /\ pc[t] \in QueuedLabels => t_wchan[t] = lk[t]
        /\ pc[t] \notin QueuedLabels => t_wchan[t] = NULL
        /\ pc[t] \in EnterLabels => hold[t][lk[t]] = "none"
        /\ pc[t] \in FinalLabels => hold[t][lk[t]] = rw[t]
        /\ pc[t] \in DownLabels => hold[t][lk[t]] = "R"
        /\ pc[t] \in WakeLabels => wk.sobj = lk[t]
        /\ pc[t] = "pi" => pi_cur \in Threads /\ t_wchan[pi_cur] \in Locks

(* Which turnstile is where: in use for a lock, on the freelist of one in  *)
(* use, or attached to a thread that is awake.                             *)
ChainInv ==
    /\ \A k, l \in Locks : tc_chain[k] = tc_chain[l] /\ k # l => tc_chain[k] = NULL
    /\ \A t \in Threads : t_wchan[t] # NULL => tc_chain[t_wchan[t]] = t_ts[t]
    /\ \A t \in Threads : t_wchan[t] = NULL =>
          /\ ~Active(t_ts[t])
          /\ \A ts \in Turnstiles : t_ts[t] \notin ts_free[ts]
          /\ \A u \in Threads : t_ts[u] = t_ts[t] => u = t
    /\ \A ts \in Turnstiles : \A f \in ts_free[ts] :
          /\ ~Active(f)
          /\ \A x \in Turnstiles : f \in ts_free[x] => x = ts

(* What a turnstile holds: nothing unless it is in use; then at least one  *)
(* thread, and a stashed turnstile for each thread but one.                *)
ContentInv ==
    \A ts \in Turnstiles :
        /\ IsFiniteSet(ts_free[ts])
        /\ ts_waiters[ts] = Len(ts_sleepq[ts]["W"]) + Len(ts_sleepq[ts]["R"])
        /\ ~Active(ts) => /\ ts_waiters[ts] = 0 /\ ts_free[ts] = {}
                          /\ ts_inheritor[ts] = NULL
        /\ Active(ts) => Cardinality(ts_free[ts]) = ts_waiters[ts] - 1

(* The queues hold the sleeping threads, each once and in its own queue.   *)
QueueInv ==
    /\ \A ts \in Turnstiles, q \in Queues :
          /\ NoDup(ts_sleepq[ts][q])
          /\ \A t \in Elems(ts_sleepq[ts][q]) :
                t_wchan[t] # NULL /\ t_ts[t] = ts /\ rw[t] = q
    /\ \A t \in Threads : t_wchan[t] # NULL =>
          t \in Elems(ts_sleepq[t_ts[t]][rw[t]])

(* The wakeup in progress has threads to wake; the new owner is the first. *)
WakeupInv ==
    /\ wk.sobj = NULL => wk.n = 0
    /\ wk.n = 0 => wk.owner = NULL
    /\ wk.sobj # NULL => \E t \in Threads : pc[t] \in WakeLabels
    /\ \A t \in Threads : pc[t] = "waive" => tc_chain[wk.sobj] # NULL
    /\ wk.n > 0 =>
          /\ tc_chain[wk.sobj] # NULL
          /\ wk.n <= Len(ts_sleepq[tc_chain[wk.sobj]][wk.q])
          /\ wk.q = "W" => wk.n = 1 /\ wk.owner = Head(WQ(wk.sobj))
          /\ wk.q = "R" => wk.owner = NULL
          /\ \A t \in Threads : pc[t] \in DownLabels => lk[t] # wk.sobj

(* The word says exactly who holds the lock or has been granted it.        *)
HoldOf(l) ==
    LET w == rw_wwwh[l] IN
    IF w = RW_DOUBLE_LOCK THEN Unused(l)
    ELSE /\ w.rd = Cardinality(HoldersR(l)) + Pending(l, "R")
         /\ w.wl <=> w.wr # NULL
         /\ w.wl => w.rd = 0
         /\ w.wl => \/ hold[w.wr][l] = "W" /\ Pending(l, "W") = 0
                    \/ Pending(l, "W") = 1 /\ wk.owner = w.wr
         /\ Pending(l, "W") = 1 => w.wl /\ w.wr = wk.owner
         /\ \A t \in Threads : hold[t][l] = "W" => w.wl /\ w.wr = t

HoldInv == \A l \in Locks : HoldOf(l)

(* The bits of the word agree with the queues.                             *)
Blocker(l, m) == \E t \in Threads : pc[t] = "block" /\ lk[t] = l /\ rw[t] = m
QueuedW(l) == tc_chain[l] # NULL /\ Len(WQ(l)) > Pending(l, "W")
QueuedR(l) == tc_chain[l] # NULL /\ Len(RQ(l)) > Pending(l, "R")

BitsOf(l) ==
    LET w == rw_wwwh[l] IN
    /\ w.ww <=> QueuedW(l) \/ Blocker(l, "W")
    /\ w.hw <=> QueuedW(l) \/ QueuedR(l) \/ Blocker(l, "W") \/ Blocker(l, "R")
    /\ w.hw => RW_LOCKED(w)
    /\ w.hw /\ ~w.wl /\ ~w.ww =>
          \E d \in Threads : pc[d] \in DownLabels /\ lk[d] = l

BitsInv == \A l \in Locks : BitsOf(l)

(* Nothing changes under a thread that waits for the chain lock to hand    *)
(* the lock over or to finish a downgrade.                                 *)
HandInv ==
    /\ \A t \in Threads : pc[t] \in FinalLabels \cup DownLabels =>
          rw_wwwh[lk[t]].hw
    /\ \A t \in Threads : pc[t] \in FinalLabels /\ rw[t] = "R" =>
          rw_wwwh[lk[t]].rd = 1 /\ rw_wwwh[lk[t]].ww
    /\ \A d, e \in Threads : pc[d] \in DownLabels /\ pc[e] \in DownLabels
          /\ lk[d] = lk[e] => d = e

(* Who inherits priority from a turnstile: the owner of its lock, or the   *)
(* thread that is giving up that ownership.                                *)
InheritInv ==
    \A l \in Locks : tc_chain[l] # NULL =>
        LET i == ts_inheritor[tc_chain[l]] IN i # NULL =>
            \/ hold[i][l] = "W"
            \/ lk[i] = l /\ pc[i] \in DownLabels \cup {"waive"}

(* The inductive invariant of rwlock.c on turnstil.c: before and after     *)
(* every step the chain lock, the turnstiles, the queues, the wakeup under *)
(* way, the bits of each word and the holds of all threads agree, although *)
(* no step changes them all.                                               *)
IInv ==
    /\ TypeOK /\ ControlInv /\ ChainInv /\ ContentInv /\ QueueInv
    /\ WakeupInv /\ HoldInv /\ BitsInv /\ HandInv /\ InheritInv
-----------------------------------------------------------------------------
(* The kernel priority requests of a thread at any point of its code: one  *)
(* for each read hold, one more while a reader has requested it and does   *)
(* not hold the lock yet, or not any more.                                 *)
ReadHeld(t) == {l \in Locks : hold[t][l] = "R"}
Owes(t) == /\ rw[t] = "R"
           /\ pc[t] \in {"enter", "slow", "look", "waive", "wake"} \/ Granted(t)
KpriOf(t) ==
    /\ IsFiniteSet(ReadHeld(t))
    /\ t_kpri_req[t] = Cardinality(ReadHeld(t)) + IF Owes(t) THEN 1 ELSE 0
KpriInv ==
    \A t \in Threads : KpriOf(t) /\ (pc[t] \in DownLabels => rw[t] = "W")
-----------------------------------------------------------------------------
(* The rest concerns priorities; it is inductive relative to IInv.         *)

(* Every queue is in the order of the effective priorities.                *)
SortedInv ==
    \A ts \in Turnstiles, q \in Queues : Sorted(ts_sleepq[ts][q], DISP_PRIO)

(* A thread of the inherited priority sleeps on the turnstile.             *)
DonorInv ==
    \A l \in Locks :
        tc_chain[l] # NULL /\ ts_inheritor[tc_chain[l]] # NULL =>
            \E u \in Threads : /\ t_wchan[u] = l
                               /\ DISP_PRIO[u] >= ts_epri[tc_chain[l]]

(* What the owner of a lock has from its sleepers, unless the walk has yet *)
(* to reach the owner or the lock is being handed to it.                   *)
CoverInv ==
    \A l \in Locks, t, o \in Threads :
        /\ t_wchan[t] = l /\ t # pi_cur
        /\ rw_owner(l) = o /\ Pending(l, "W") = 0
        => \/ DISP_PRIO[t] <= t_pri[o]
           \/ /\ ts_inheritor[tc_chain[l]] = o
              /\ DISP_PRIO[t] <= ts_epri[tc_chain[l]]

(* Before it wakes anybody a thread waives what it inherited; if it grants *)
(* nobody the lock it has kept its own hold.  The walk has a cursor only   *)
(* while it is under way.                                                  *)
WaiveInv ==
    /\ \A t \in Threads : pc[t] = "waive" =>
          /\ ts_inheritor[tc_chain[wk.sobj]] \in {NULL, t}
          /\ wk.n = 0 => hold[t][wk.sobj] = "R"
    /\ pi_cur # NULL => \E t \in Threads : pc[t] = "pi"

(* With it the two properties about priority inheritance are inductive     *)
(* while assigned priorities do not change.                                *)
PriorityInv ==
    /\ SortedInv /\ ListInv /\ AmountInv /\ SourceInv
    /\ DonorInv /\ CoverInv /\ WaiveInv
=============================================================================
