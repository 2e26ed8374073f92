----------------------------- MODULE Semaphore -----------------------------
(***************************************************************************)
(* Counting semaphores: uts/common/os/semaphor.c, with setrun of           *)
(* uts/common/disp/thread.c, through which a signal (eat_signal in sig.c)  *)
(* or a request to hold the process ends an interruptible sleep.           *)
(*                                                                         *)
(* Everything between disp_lock_enter and disp_lock_exit of the sleep      *)
(* queue's lock is one step: that lock is also the thread lock of the      *)
(* sleepers, so a signal or a priority change waits for it.  sema_v adds   *)
(* to the count and wakes one thread, which has to compete for the count   *)
(* again; a signal may wake another one at the same moment.                *)
(***************************************************************************)
EXTENDS SleepQ

CONSTANTS
    Threads,      \* threads that use the semaphore
    Interruptible,\* those that have an lwp and call sema_p_sig
    Priorities,
    Initial,      \* the count of sema_init
    MaxCount      \* bound: sema_v is not called when the count is MaxCount

ASSUME SemaphoreAssumption ==
    /\ IsFiniteSet(Threads)
    /\ Interruptible \subseteq Threads
    /\ Priorities \subseteq Nat
    /\ MaxCount \in Nat /\ Initial \in 0..MaxCount

VARIABLES
    s_count,      \* units available
    s_slpq,       \* the threads asleep on the semaphore
    pc,           \* [Threads]: where the thread is
    sig,          \* [Threads]: what ISSIG and ISHOLD look at
    posted,       \* threads with a signal posted, for which setrun is due
    t_pri         \* [Threads]: dispatch priority

vars == <<s_count, s_slpq, pc, sig, posted, t_pri>>

Goto(t, label) == pc' = [pc EXCEPT ![t] = label]
Asleep(t) == t \in Elems(s_slpq)

Init ==
    /\ s_count = Initial
    /\ s_slpq = <<>>
    /\ pc = [t \in Threads |-> "run"]
    /\ sig = [t \in Threads |-> FALSE]
    /\ posted = {}
    /\ t_pri \in [Threads -> Priorities]
-----------------------------------------------------------------------------
(* sema_p and sema_p_sig: "p" is the test of the count under the lock.     *)
sema_p(t) ==
    /\ pc[t] = "run"
    /\ Goto(t, "p")
    /\ UNCHANGED <<s_count, s_slpq, sig, posted, t_pri>>

PTake(t) ==
    /\ pc[t] = "p"
    /\ s_count > 0
    /\ s_count' = s_count - 1
    /\ Goto(t, "run")
    /\ UNCHANGED <<s_slpq, sig, posted, t_pri>>

(* SEMA_BLOCK, SEMA_BLOCK_SIG: a thread with an lwp looks for a signal     *)
(* once it is on the queue.                                                *)
SEMA_BLOCK(t) ==
    /\ pc[t] = "p"
    /\ s_count = 0
    /\ s_slpq' = sleepq_insert(s_slpq, t, t_pri)
    /\ Goto(t, IF t \in Interruptible THEN "look" ELSE "swtch")
    /\ UNCHANGED <<s_count, sig, posted, t_pri>>

(* SOBJ_UNSLEEP, by a setrun that finds the thread asleep.                 *)
sema_unsleep(t) == IF Asleep(t) THEN sleepq_dequeue(s_slpq, t) ELSE s_slpq

(* Faulty variant: the thread sleeps without looking for a signal.         *)
SleepAtOnce(t) ==
    /\ pc[t] = "look" /\ Goto(t, "swtch")
    /\ UNCHANGED <<s_count, s_slpq, sig, posted, t_pri>>

LookForSignal(t) ==
    /\ pc[t] = "look"
    /\ s_slpq' = IF sig[t] THEN sema_unsleep(t) ELSE s_slpq
    /\ Goto(t, "swtch")
    /\ UNCHANGED <<s_count, sig, posted, t_pri>>

(* The return from swtch(), once someone took the thread off the queue:    *)
(* the loop goes around unless issig(FORREAL) finds a signal.  It may also *)
(* throw the signal away (one that is ignored, or that stopped the thread  *)
(* until it was continued).                                                *)
Resume(t) ==
    /\ pc[t] = "swtch"
    /\ ~Asleep(t)
    /\ \/ ~sig[t] /\ Goto(t, "p") /\ UNCHANGED sig
       \/ sig[t] /\ Goto(t, "intr") /\ UNCHANGED sig
       \/ sig[t] /\ Goto(t, "p") /\ sig' = [sig EXCEPT ![t] = FALSE]
    /\ UNCHANGED <<s_count, s_slpq, posted, t_pri>>

(* Take the first thread off the queue and make it run.                    *)
WakeHead == s_slpq' = Tail(s_slpq)

(* Faulty variant: an interrupted thread does not pass a wakeup on.        *)
KeepWakeup == UNCHANGED s_slpq

(* "In case sema_v and interrupt happen at the same time, we need to pass  *)
(* the sema_v to the next thread."                                         *)
PassOn == IF s_slpq # <<>> /\ s_count > 0 THEN WakeHead ELSE UNCHANGED s_slpq

Interrupted(t) ==
    /\ pc[t] = "intr"
    /\ PassOn
    /\ Goto(t, "run")
    /\ UNCHANGED <<s_count, sig, posted, t_pri>>

(* sema_v, by any thread or interrupt handler.                             *)
sema_v ==
    /\ s_count < MaxCount
    /\ s_count' = s_count + 1
    /\ IF s_slpq # <<>> THEN WakeHead ELSE UNCHANGED s_slpq
    /\ UNCHANGED <<pc, sig, posted, t_pri>>

(* sema_tryp, when it succeeds; a failure changes nothing.                 *)
sema_tryp(t) ==
    /\ pc[t] = "run"
    /\ s_count > 0
    /\ s_count' = s_count - 1
    /\ UNCHANGED <<s_slpq, pc, sig, posted, t_pri>>

(* sema_change_pri: sema_dequeue and sema_queue around the new priority.   *)
sema_change_pri(t, prio) ==
    IF Asleep(t) THEN sleepq_insert(sleepq_dequeue(s_slpq, t), t, prio)
    ELSE s_slpq

ChangePri(t, pri) ==
    /\ pri # t_pri[t]
    /\ t_pri' = [t_pri EXCEPT ![t] = pri]
    /\ s_slpq' = sema_change_pri(t, t_pri')
    /\ UNCHANGED <<s_count, pc, sig, posted>>
-----------------------------------------------------------------------------
(* A signal is posted under p_lock, and setrun follows under the thread    *)
(* lock: it makes a thread in an interruptible sleep run.                  *)
SigPost(t) ==
    /\ ~sig[t] /\ t \notin posted
    /\ sig' = [sig EXCEPT ![t] = TRUE]
    /\ posted' = posted \cup {t}
    /\ UNCHANGED <<s_count, s_slpq, pc, t_pri>>

setrun(t) ==
    /\ t \in posted
    /\ posted' = posted \ {t}
    /\ s_slpq' = sema_unsleep(t)
    /\ UNCHANGED <<s_count, pc, sig, t_pri>>

(* The signal is taken from a thread that returns to user mode.            *)
SigHandled(t) ==
    /\ pc[t] = "run" /\ sig[t]
    /\ sig' = [sig EXCEPT ![t] = FALSE]
    /\ UNCHANGED <<s_count, s_slpq, pc, posted, t_pri>>

Continue(t) ==
    \/ PTake(t) \/ SEMA_BLOCK(t) \/ LookForSignal(t) \/ Resume(t)
    \/ Interrupted(t)

Next ==
    \/ \E t \in Threads : Continue(t) \/ sema_p(t) \/ sema_tryp(t)
    \/ sema_v
    \/ \E t \in Interruptible : SigPost(t) \/ setrun(t) \/ SigHandled(t)
    \/ \E t \in Threads, p \in Priorities : ChangePri(t, p)

Spec == Init /\ [][Next]_vars

(* Threads in an operation keep running.                                   *)
FairSpec == Spec /\ \A t \in Threads : WF_vars(Continue(t))
-----------------------------------------------------------------------------
(* The threads that are on their way to the count, or to pass a wakeup on. *)
InFlight == {t \in Threads : pc[t] # "run" /\ ~Asleep(t)}

(* No sema_v is lost: while threads sleep, every available unit has an     *)
(* awake thread that will take it or wake another one, although a woken    *)
(* thread may find the unit taken, or leave because of a signal.           *)
NoLostV == s_slpq # <<>> => s_count <= Cardinality(InFlight)

(* No signal is lost: a thread asleep in sema_p_sig with a signal pending  *)
(* is about to look for it, or setrun is about to wake it.                 *)
SignalWakes ==
    \A t \in Interruptible :
        Asleep(t) /\ sig[t] => pc[t] = "look" \/ t \in posted

(* A thread asleep while units are available does not stay so unless the   *)
(* units are taken by others.                                              *)
SleeperServed ==
    \A t \in Threads : (Asleep(t) /\ s_count > 0) ~> (~Asleep(t) \/ s_count = 0)
=============================================================================
