------------------------------ MODULE CondVar ------------------------------
(***************************************************************************)
(* Condition variables: uts/common/os/condvar.c, with the channel wakeups  *)
(* of sleepq.c and setrun of uts/common/disp/thread.c.                     *)
(*                                                                         *)
(* A condition variable is a count of its waiters; the waiters themselves  *)
(* are on a hashed sleep queue that they share with the waiters of other   *)
(* condition variables.  What happens under the queue's lock, which is     *)
(* also the thread lock of the sleepers, is one step.  cv_signal and       *)
(* cv_broadcast look at the count before they take that lock.              *)
(*                                                                         *)
(* A timed wait arms a realtime callout whose handler is setrun on the     *)
(* waiter.  The callout may fire before the thread is asleep, after it was *)
(* woken, or while it waits for the mutex again.  The callout is modelled  *)
(* by what Callout shows of untimeout: it either removes a pending callout *)
(* and returns the ticks left, or waits for the running handler, or finds  *)
(* nothing and returns -1.                                                 *)
(*                                                                         *)
(* The users are a monitor: posters add a unit under the mutex and notify  *)
(* with or without it, waiters test for a unit before and after they wait, *)
(* also when the wait reports a timeout or a signal.                       *)
(***************************************************************************)
EXTENDS SleepQ

CONSTANTS
    Threads,         \* the waiting threads
    Posters,         \* threads that post and notify
    Cvs,             \* condition variables hashed to the one sleep queue
    Calls,           \* [Threads -> SUBSET [op, cv]]: the waits they make
    Priorities,
    Deltas,          \* ticks from now to the deadline of a timed wait
    CV_MAX_WAITERS,  \* the count stays there once it has reached it
    MaxUnits,        \* bound: units posted and not taken, per condition
    NULL

Operations == {"wait", "timedwait", "wait_sig", "timedwait_sig", "wait_stop"}

ASSUME CondVarAssumption ==
    /\ IsFiniteSet(Threads) /\ IsFiniteSet(Posters)
    /\ Threads \cap Posters = {}
    /\ Calls \in [Threads -> SUBSET [op : Operations, cv : Cvs]]
    /\ Priorities \subseteq Nat /\ Priorities # {} /\ Deltas \subseteq Nat
    /\ CV_MAX_WAITERS \in Nat \ {0} /\ MaxUnits \in Nat
    /\ NULL \notin Threads \cup Posters \cup Cvs \cup [op : Operations, cv : Cvs]

VARIABLES
    cv_waiters,   \* [Cvs]: waiters, or CV_MAX_WAITERS for "look at the queue"
    sq_queue,     \* the sleep queue
    t_wchan,      \* [Threads]: what the thread sleeps on
    t_pri,        \* [Threads]: dispatch priority (kept only while asleep)
    mp,           \* the owner of the mutex
    pc,           \* [Threads \cup Posters]
    call,         \* [Threads]: the operation and its condition variable
    left,         \* [Threads]: tim - lbolt, 0 once the deadline has passed
    callout,      \* [Threads]: "none", "pending" or "executing"
    due,          \* [Threads]: ticks until the callout is due
    ret,          \* [Threads]: value to return (1: any number of ticks left)
    sig,          \* [Threads]: what ISSIG and ISHOLD look at
    posted,       \* threads with a signal posted, for which setrun is due
    units,        \* [Cvs]: the monitor's state
    note          \* [Posters]: the condition variable to notify

queueVars == <<cv_waiters, sq_queue, t_wchan, t_pri>>
clockVars == <<left, callout, due>>
callVars == <<call, ret>>
sigVars == <<sig, posted>>
userVars == <<units, note>>
vars == <<queueVars, mp, pc, callVars, clockVars, sigVars, userVars>>

Asleep(t) == t \in Elems(sq_queue)
AnyPri == CHOOSE p \in Priorities : TRUE
Timed(o) == o \in {"timedwait", "timedwait_sig", "wait_stop"}
Interruptible(o) == o \in {"wait_sig", "timedwait_sig"}
Goto(t, label) == pc' = [pc EXCEPT ![t] = label]

Init ==
    /\ cv_waiters = [c \in Cvs |-> 0]
    /\ sq_queue = <<>>
    /\ t_wchan = [t \in Threads |-> NULL]
    /\ t_pri = [t \in Threads |-> AnyPri]
    /\ mp = NULL
    /\ pc = [t \in Threads \cup Posters |-> "run"]
    /\ call = [t \in Threads |-> NULL]
    /\ left = [t \in Threads |-> 0]
    /\ callout = [t \in Threads |-> "none"]
    /\ due = [t \in Threads |-> 0]
    /\ ret = [t \in Threads |-> 1]
    /\ sig = [t \in Threads |-> FALSE]
    /\ posted = {}
    /\ units = [c \in Cvs |-> 0]
    /\ note = [u \in Posters |-> NULL]
-----------------------------------------------------------------------------
(* The waiter's side of the monitor, with the mutex just taken or still    *)
(* held from the last wait: take a unit, wait for one, or leave.  A thread *)
(* that leaves takes its signals on the return to user mode.               *)
HasMutex(t, c) ==
    \/ pc[t] = "run" /\ mp = NULL
    \/ pc[t] = "returned" /\ call[t].cv = c

Leave(t, c) ==
    /\ HasMutex(t, c)
    /\ units' = [units EXCEPT ![c] = IF @ > 0 THEN @ - 1 ELSE 0]
    /\ mp' = NULL
    /\ Goto(t, "run")
    /\ call' = [call EXCEPT ![t] = NULL]
    /\ left' = [left EXCEPT ![t] = 0]
    /\ ret' = [ret EXCEPT ![t] = 1]
    /\ sig' = [sig EXCEPT ![t] = FALSE]
    /\ UNCHANGED <<queueVars, callout, due, posted, note>>

(* Entry to one of the cv_wait functions with the mutex held.  A timed     *)
(* wait reads lbolt; one whose deadline has passed does not sleep.         *)
cv_wait(t, w, delta) ==
    /\ HasMutex(t, w.cv)
    /\ units[w.cv] = 0
    /\ mp' = t
    /\ call' = [call EXCEPT ![t] = w]
    /\ left' = [left EXCEPT ![t] = IF Timed(w.op) THEN delta ELSE 0]
    /\ due' = [due EXCEPT ![t] = IF Timed(w.op) THEN delta ELSE 0]
    /\ CASE ~Timed(w.op) ->
              /\ ret' = [ret EXCEPT ![t] = 1] /\ Goto(t, "block")
         [] Timed(w.op) /\ (delta > 0 \/ w.op = "wait_stop") ->
              /\ ret' = [ret EXCEPT ![t] = 1] /\ Goto(t, "arm")
         [] OTHER ->
              /\ ret' = [ret EXCEPT ![t] = -1]
              /\ Goto(t, IF Interruptible(w.op) THEN "sigcheck" ELSE "returned")
    /\ UNCHANGED <<queueVars, callout, sigVars, userVars>>

(* Faulty variant: a tick too few.                                         *)
TicksShort(t) == due[t] - 1

(* realtime_timeout(setrun, curthread, timeleft): the callout is due delta *)
(* ticks from now, which may be later than tim.  cv_wait_stop computes the *)
(* ticks here, and timeout_common makes them at least one.                 *)
Ticks(t) ==
    IF call[t].op # "wait_stop" THEN due[t]
    ELSE IF left[t] = 0 THEN 1 ELSE left[t]

realtime_timeout(t) ==
    /\ pc[t] = "arm"
    /\ callout' = [callout EXCEPT ![t] = "pending"]
    /\ due' = [due EXCEPT ![t] = Ticks(t)]
    /\ Goto(t, "block")
    /\ UNCHANGED <<queueVars, mp, callVars, left, sigVars, userVars>>

(* schedctl_block(mp) dropped the mutex to send SIGWAITING and has to take *)
(* it again: the thread does not sleep.                                    *)
schedctl_block(t) ==
    /\ pc[t] = "block" /\ Interruptible(call[t].op)
    /\ mp' = NULL
    /\ Goto(t, "enter")
    /\ UNCHANGED <<queueVars, callVars, clockVars, sigVars, userVars>>

CountWaiter(c) ==
    IF cv_waiters[c] < CV_MAX_WAITERS THEN [cv_waiters EXCEPT ![c] = @ + 1]
    ELSE cv_waiters

(* CL_SLEEP assigns a priority; then the thread goes on the queue.         *)
cv_block(t, pri) ==
    /\ pc[t] = "block"
    /\ t_pri' = [t_pri EXCEPT ![t] = pri]
    /\ cv_waiters' = CountWaiter(call[t].cv)
    /\ t_wchan' = [t_wchan EXCEPT ![t] = call[t].cv]
    /\ sq_queue' = sleepq_insert(sq_queue, t, t_pri')
    /\ Goto(t, "exit")
    /\ UNCHANGED <<mp, callVars, clockVars, sigVars, userVars>>

MutexExit(t) ==
    /\ pc[t] = "exit"
    /\ mp' = NULL
    /\ Goto(t, IF call[t].op = "wait" THEN "swtch" ELSE "look")
    /\ UNCHANGED <<queueVars, callVars, clockVars, sigVars, userVars>>

(* Faulty variant: the count goes down even when it is not exact.          *)
UncountAlways(c) == [cv_waiters EXCEPT ![c] = @ - 1]

UncountSleeper(c) ==
    IF cv_waiters[c] # CV_MAX_WAITERS THEN [cv_waiters EXCEPT ![c] = @ - 1]
    ELSE cv_waiters

(* setrun(t): cv_unsleep, if the thread is asleep on a condition variable. *)
(* A thread that is running, or blocked on the mutex (turnstile_unsleep    *)
(* does nothing), is left alone.                                           *)
setrun(t) ==
    IF Asleep(t)
    THEN /\ cv_waiters' = UncountSleeper(t_wchan[t])
         /\ sq_queue' = sleepq_dequeue(sq_queue, t)
         /\ t_wchan' = [t_wchan EXCEPT ![t] = NULL]
         /\ t_pri' = [t_pri EXCEPT ![t] = AnyPri]
    ELSE UNCHANGED queueVars

(* Faulty variants: the time, or the signals, are not looked at again.     *)
LookSignals(t) == Interruptible(call[t].op) /\ sig[t]
LookTime(t) == Timed(call[t].op) /\ left[t] = 0

(* On the queue, without the mutex, not yet switched out: look whether the *)
(* deadline passed or a signal came before there was a sleeper to wake.    *)
NothingToSleepFor(t) ==
    \/ Interruptible(call[t].op) /\ sig[t]
    \/ Timed(call[t].op) /\ left[t] = 0

LookBeforeSwtch(t) ==
    /\ pc[t] = "look"
    /\ IF NothingToSleepFor(t) THEN setrun(t) ELSE UNCHANGED queueVars
    /\ Goto(t, "swtch")
    /\ UNCHANGED <<mp, callVars, clockVars, sigVars, userVars>>

(* The return from swtch().  cv_timedwait and cv_wait_stop cancel the      *)
(* callout before they take the mutex, cv_timedwait_sig after.             *)
Swtch(t) ==
    /\ pc[t] = "swtch"
    /\ ~Asleep(t)
    /\ Goto(t, IF call[t].op \in {"timedwait", "wait_stop"} THEN "untimeout"
               ELSE "enter")
    /\ UNCHANGED <<queueVars, mp, callVars, clockVars, sigVars,
                   userVars>>

Enter(t) ==
    /\ pc[t] = "enter" /\ mp = NULL
    /\ mp' = t
    /\ Goto(t, CASE call[t].op = "wait_sig" -> "sigcheck"
                 [] call[t].op = "timedwait_sig" -> "untimeout"
                 [] OTHER -> "returned")
    /\ UNCHANGED <<queueVars, callVars, clockVars, sigVars, userVars>>

AfterUntimeout(o) ==
    CASE o = "timedwait" -> "enter"
      [] o = "wait_stop" -> "stopcheck"
      [] o = "timedwait_sig" -> "sigcheck"

(* Faulty variant: a handler that has started is not waited for.           *)
NoWait(t) == TRUE

HandlerDone(t) == callout[t] # "executing"

(* untimeout(id): remove the callout and return the ticks left, or -1 once *)
(* it has run; the caller also makes -1 of no ticks left.                  *)
Untimeout(t) ==
    /\ pc[t] = "untimeout"
    /\ HandlerDone(t)
    /\ ret' = [ret EXCEPT ![t] =
                 IF callout[t] = "pending" /\ due[t] > 0 THEN 1 ELSE -1]
    /\ callout' = [callout EXCEPT ![t] = IF @ = "pending" THEN "none" ELSE @]
    /\ due' = [due EXCEPT ![t] = 0]
    /\ Goto(t, AfterUntimeout(call[t].op))
    /\ UNCHANGED <<queueVars, mp, call, left, sigVars, userVars>>

(* cv_wait_stop: stop if there is a reason to, until someone continues it. *)
StopCheck(t) ==
    /\ pc[t] \in {"stopcheck", "stopped"}
    /\ \/ Goto(t, "enter")
       \/ pc[t] = "stopcheck" /\ Goto(t, "stopped")
    /\ UNCHANGED <<queueVars, mp, callVars, clockVars, sigVars,
                   userVars>>

(* ISSIG_PENDING with the mutex held; issig(FORREAL) is called without it, *)
(* and either finds the signal or throws it away.  A held process returns  *)
(* 0 without a call of issig.                                              *)
SigCheck(t) ==
    /\ pc[t] = "sigcheck"
    /\ \/ ~sig[t] /\ Goto(t, "returned") /\ UNCHANGED <<mp, ret>>
       \/ sig[t] /\ Goto(t, "issig") /\ mp' = NULL /\ UNCHANGED ret
       \/ sig[t] /\ Goto(t, "returned") /\ ret' = [ret EXCEPT ![t] = 0]
                 /\ UNCHANGED mp
    /\ UNCHANGED <<queueVars, call, clockVars, sigVars, userVars>>

issig(t) ==
    /\ pc[t] = "issig" /\ mp = NULL
    /\ mp' = t
    /\ Goto(t, "returned")
    /\ \/ sig[t] /\ ret' = [ret EXCEPT ![t] = 0] /\ UNCHANGED sig
       \/ sig' = [sig EXCEPT ![t] = FALSE] /\ UNCHANGED ret
    /\ UNCHANGED <<queueVars, call, clockVars, posted, userVars>>
-----------------------------------------------------------------------------
(* Posters: mutex_enter, add a unit, then mutex_exit and the notification  *)
(* in either order.  The notification tests cv_waiters without a lock.     *)
Post(u, c) ==
    /\ pc[u] = "run" /\ mp = NULL
    /\ units[c] < MaxUnits
    /\ units' = [units EXCEPT ![c] = @ + 1]
    /\ mp' = u
    /\ Goto(u, "test")
    /\ note' = [note EXCEPT ![u] = c]
    /\ UNCHANGED <<queueVars, callVars, clockVars, sigVars>>

PosterExit(u) ==
    /\ mp = u
    /\ mp' = NULL
    /\ Goto(u, IF pc[u] = "notified" THEN "run" ELSE pc[u])
    /\ UNCHANGED <<queueVars, callVars, clockVars, sigVars,
                   userVars>>

Notified(u) == Goto(u, IF mp = u THEN "notified" ELSE "run")

(* Outside the lock: nothing to do if there are no waiters.                *)
TestWaiters(u) ==
    /\ pc[u] = "test"
    /\ IF cv_waiters[note[u]] > 0 THEN Goto(u, "notify") ELSE Notified(u)
    /\ UNCHANGED <<queueVars, mp, callVars, clockVars, sigVars,
                   userVars>>

(* Faulty variant: the first thread is woken whatever it sleeps on.        *)
FirstOfQueue(c) == IF sq_queue = <<>> THEN 0 ELSE 1

FirstWaiter(c) == FirstOnChan(sq_queue, t_wchan, c)

(* The count after cv_signal: CV_MAX_WAITERS & CV_WAITERS_MASK is 0 and so *)
(* is 0 & CV_WAITERS_MASK; then only the queue tells.                      *)
Signalled(c) ==
    CASE cv_waiters[c] \notin {0, CV_MAX_WAITERS} ->
            [cv_waiters EXCEPT ![c] = @ - 1]
      [] cv_waiters[c] \in {0, CV_MAX_WAITERS} /\ FirstWaiter(c) = 0 ->
            [cv_waiters EXCEPT ![c] = 0]
      [] OTHER -> cv_waiters

cv_signal(u) ==
    /\ pc[u] = "notify"
    /\ cv_waiters' = Signalled(note[u])
    /\ IF FirstWaiter(note[u]) # 0
       THEN LET t == sq_queue[FirstWaiter(note[u])]
            IN  /\ sq_queue' = sleepq_dequeue(sq_queue, t)
                /\ t_wchan' = [t_wchan EXCEPT ![t] = NULL]
                /\ t_pri' = [t_pri EXCEPT ![t] = AnyPri]
       ELSE UNCHANGED <<sq_queue, t_wchan, t_pri>>
    /\ Notified(u)
    /\ UNCHANGED <<mp, callVars, clockVars, sigVars, userVars>>

cv_broadcast(u) ==
    /\ pc[u] = "notify"
    /\ cv_waiters' = [cv_waiters EXCEPT ![note[u]] = 0]
    /\ sq_queue' = sleepq_wakeall_chan(sq_queue, t_wchan, note[u])
    /\ t_wchan' = [t \in Threads |-> IF t_wchan[t] = note[u] THEN NULL
                                     ELSE t_wchan[t]]
    /\ t_pri' = [t \in Threads |-> IF t_wchan[t] = note[u] THEN AnyPri
                                   ELSE t_pri[t]]
    /\ Notified(u)
    /\ UNCHANGED <<mp, callVars, clockVars, sigVars, userVars>>
-----------------------------------------------------------------------------
(* The clock, the callout handler, signals and priority changes.           *)
Tick ==
    /\ left' = [t \in Threads |-> IF left[t] > 0 THEN left[t] - 1 ELSE 0]
    /\ due' = [t \in Threads |-> IF callout[t] = "pending" /\ due[t] > 0
                                 THEN due[t] - 1 ELSE due[t]]
    /\ UNCHANGED <<queueVars, mp, pc, callVars, callout, sigVars,
                   userVars>>

CalloutStart(t) ==
    /\ callout[t] = "pending" /\ due[t] = 0
    /\ callout' = [callout EXCEPT ![t] = "executing"]
    /\ UNCHANGED <<queueVars, mp, pc, callVars, left, due, sigVars,
                   userVars>>

CalloutRun(t) ==
    /\ callout[t] = "executing"
    /\ setrun(t)
    /\ callout' = [callout EXCEPT ![t] = "none"]
    /\ UNCHANGED <<mp, pc, callVars, left, due, sigVars, userVars>>

(* A signal is posted under p_lock; eat_signal follows under the thread    *)
(* lock and wakes a thread that sleeps with T_WAKEABLE set.                *)
SigPost(t) ==
    /\ \E w \in Calls[t] : Interruptible(w.op)
    /\ ~sig[t] /\ t \notin posted
    /\ sig' = [sig EXCEPT ![t] = TRUE]
    /\ posted' = posted \cup {t}
    /\ UNCHANGED <<queueVars, mp, pc, callVars, clockVars, userVars>>

eat_signal(t) ==
    /\ t \in posted
    /\ posted' = posted \ {t}
    /\ IF call[t] # NULL /\ Interruptible(call[t].op) THEN setrun(t)
       ELSE UNCHANGED queueVars
    /\ UNCHANGED <<mp, pc, callVars, clockVars, sig, userVars>>

cv_change_pri(t, pri) ==
    /\ Asleep(t) /\ pri # t_pri[t]
    /\ t_pri' = [t_pri EXCEPT ![t] = pri]
    /\ sq_queue' = sleepq_insert(sleepq_dequeue(sq_queue, t), t, t_pri')
    /\ UNCHANGED <<cv_waiters, t_wchan, mp, pc, callVars, clockVars, sigVars,
                   userVars>>
-----------------------------------------------------------------------------
(* The steps of a thread inside a wait.                                    *)
Continue(t) ==
    \/ realtime_timeout(t) \/ schedctl_block(t) \/ MutexExit(t)
    \/ \E p \in Priorities : cv_block(t, p)
    \/ LookBeforeSwtch(t) \/ Swtch(t) \/ Enter(t) \/ Untimeout(t)
    \/ SigCheck(t) \/ issig(t)

Notify(u) ==
    \/ PosterExit(u) \/ TestWaiters(u) \/ cv_signal(u) \/ cv_broadcast(u)

Next ==
    \/ \E t \in Threads :
        \/ Continue(t) \/ StopCheck(t) \/ \E c \in Cvs : Leave(t, c)
        \/ CalloutStart(t) \/ CalloutRun(t)
        \/ SigPost(t) \/ eat_signal(t)
        \/ \E w \in Calls[t], d \in Deltas : cv_wait(t, w, d)
        \/ \E p \in Priorities : cv_change_pri(t, p)
    \/ \E u \in Posters : Notify(u) \/ \E c \in Cvs : Post(u, c)
    \/ Tick

Spec == Init /\ [][Next]_vars
-----------------------------------------------------------------------------
Sleepers(c) == {t \in Elems(sq_queue) : t_wchan[t] = c}

(* cv_waiters, which cv_signal and cv_broadcast read without the lock, is  *)
(* the number of sleepers, or CV_MAX_WAITERS; the shared queue is sorted   *)
(* and holds exactly the threads that sleep on some condition variable.    *)
WaitersExact ==
    /\ \A c \in Cvs :
        cv_waiters[c] < CV_MAX_WAITERS => cv_waiters[c] = Cardinality(Sleepers(c))
    /\ NoDup(sq_queue) /\ Sorted(sq_queue, t_pri)
    /\ Elems(sq_queue) = {t \in Threads : t_wchan[t] # NULL}

(* Threads on the way to test for a unit of c, and posters that have yet   *)
(* to notify.                                                              *)
Returning(c) ==
    {t \in Threads : /\ call[t] # NULL /\ call[t].cv = c
                     /\ pc[t] # "block" /\ pc[t] # "arm" /\ ~Asleep(t)}
Notifying(c) == {u \in Posters : pc[u] \in {"test", "notify"} /\ note[u] = c}

(* No notification is lost: while threads sleep on c, there are at most as *)
(* many units as awake waiters and posters that can still account for      *)
(* them, although cv_signal tests for waiters without a lock, and timeouts *)
(* and signals end waits at the same time.                                 *)
NoLostWakeup ==
    \A c \in Cvs : Sleepers(c) # {} =>
        units[c] <= Cardinality(Returning(c)) + Cardinality(Notifying(c))

(* A callout exists only while the wait that armed it goes on: setrun can  *)
(* never hit a later sleep of the same thread.                             *)
CalloutInWait ==
    \A t \in Threads : callout[t] # "none" =>
        /\ call[t] # NULL /\ Timed(call[t].op)
        /\ pc[t] \in {"block", "exit", "look", "swtch", "enter", "untimeout"}

(* -1 is returned only after the deadline, 0 only for a signal.            *)
ReturnHonest ==
    \A t \in Threads : pc[t] = "returned" =>
        /\ ret[t] = -1 => Timed(call[t].op) /\ left[t] = 0
        /\ ret[t] = 0 => Interruptible(call[t].op) /\ sig[t]

(* A pending signal ends an interruptible wait: the sleeper is about to    *)
(* look, or eat_signal is about to wake it.                                *)
SignalEndsWait ==
    \A t \in Threads :
        Asleep(t) /\ Interruptible(call[t].op) /\ sig[t]
            => pc[t] \in {"exit", "look"} \/ t \in posted

(* A timed wait needs no notification: wherever the deadline falls between *)
(* the arming of the callout, the sleep and the wakeup, a sleeper has a    *)
(* callout that will make it run, or is about to look at the time itself.  *)
TimedWaitEnds ==
    \A t \in Threads : Asleep(t) /\ Timed(call[t].op) =>
        callout[t] # "none" \/ (pc[t] \in {"exit", "look"} /\ left[t] = 0)
=============================================================================
