------------------------------- MODULE Disp -------------------------------
(***************************************************************************)
(* The dispatcher: uts/common/disp/disp.c, with the binding of threads to  *)
(* CPUs (cpu_bind_thread in uts/common/os/cpu.c), the change of a running  *)
(* or runnable thread's priority, and resume of uts/i86/ml/swtch.s.        *)
(*                                                                         *)
(* Each CPU has a run queue, and all share the queue of unbound threads of *)
(* priority kpqpri and above.  What happens under a queue's lock is one    *)
(* step, except that a thread put on a queue is visible to the CPUs that   *)
(* read disp_maxrunpri without the lock before any CPU is told: the lock   *)
(* is held meanwhile, and whoever needs it waits.  (The CPU that inserts   *)
(* is not held up, except by the lock, so it may run ahead of its message; *)
(* the code's orders are among these.)  disp() itself is a sequence of     *)
(* steps: what it looked at may have changed when it acts, and disp_ratify *)
(* is there to notice.                                                     *)
(*                                                                         *)
(* Memory is sequentially consistent here: a store is seen by every CPU    *)
(* before the CPU that made it loads anything further.  On the CPU's own   *)
(* queue the code does not enforce this.  setbackdq and setfrontdq store   *)
(* disp_maxrunpri and load cpu_dispthread with no barrier between, while   *)
(* disp_ratify, behind its membar_enter, reads disp_maxrunpri without the  *)
(* lock; with a store buffer both may read the old value, and the CPU runs *)
(* the lesser thread untold until it next switches.  The same holds of the *)
(* store of t_pri and the load of disp_maxrunpri when a running thread is  *)
(* lowered.  setkpdq takes the chosen CPU's disp_lock, with an atomic      *)
(* instruction, between the two, so the shared queue has no such gap.      *)
(*                                                                         *)
(* One partition of online CPUs; swapped threads are left out.  Which CPU  *)
(* an unbound thread is put on (cpu_choose, the comparison of queue        *)
(* lengths, cpu_chosen_level) is a matter of balance, decided from values  *)
(* read without locks and from the time: here it may be any CPU.           *)
(***************************************************************************)
EXTENDS Integers, Sequences, FiniteSetsExt

CONSTANTS
    Cpus,
    Threads,
    PriOf,        \* [Threads -> SUBSET Nat]: priorities a thread may have
    Bindings,     \* [Threads -> SUBSET (Cpus \cup {NULL})]: what it is bound to
    kpqpri,       \* from here on unbound threads go to the shared queue
    kpreemptpri,  \* from here on threads preempt the kernel
    kpq,          \* the shared queue
    NULL          \* no thread: the idle thread of a CPU; not bound

Queues == Cpus \cup {kpq}
Priorities == UNION {PriOf[t] : t \in Threads}

ASSUME DispAssumption ==
    /\ IsFiniteSet(Cpus) /\ IsFiniteSet(Threads) /\ kpq \notin Cpus
    /\ IsFiniteSet(Priorities)
    /\ PriOf \in [Threads -> (SUBSET Nat) \ {{}}]
    /\ Bindings \in [Threads -> (SUBSET (Cpus \cup {NULL})) \ {{}}]
    /\ NULL \notin Cpus \cup Threads \cup {kpq}
    /\ kpqpri \in Nat /\ kpreemptpri \in Nat

VARIABLES
    disp_q,        \* [Queues -> [q, maxrunpri, max_unbound_pri]]: the disp_t
    inserted,      \* [Cpus]: priority just put on the CPU's queue, whose lock
                   \* is still held and which the CPU must be told of; or -1
    kp_inserted,   \* priority just put on kpq, whose lock is still held; or -1
    t_state,       \* [Threads]: "RUN", "ONPROC" or "SLEEP"
    t_disp_queue,  \* [Threads]
    t_pri,         \* [Threads]: DISP_PRIO
    t_bound_cpu,   \* [Threads]
    t_cpu,         \* [Threads]: the CPU it last ran on (kept where it is read:
                   \* for threads whose binding changes)
    cpu_thread,    \* [Cpus]: the thread whose t_lock the CPU holds
    cpu_dispthread,
    cpu_runrun,
    cpu_kprunrun,
    pc,            \* [Cpus]
    lowered        \* CPUs whose thread was lowered below one of the shared queue

queueVars == <<disp_q, inserted, kp_inserted>>
threadVars == <<t_state, t_disp_queue, t_pri, t_bound_cpu, t_cpu>>
flagVars == <<cpu_runrun, cpu_kprunrun>>
cpuVars == <<cpu_thread, cpu_dispthread, flagVars, pc, lowered>>
vars == <<queueVars, threadVars, cpuVars>>

DISP_PRIO(t) == IF t = NULL THEN -1 ELSE t_pri[t]
Unlocked(x) == IF x = kpq THEN kp_inserted = -1 ELSE inserted[x] = -1
Goto(c, label) == pc' = [pc EXCEPT ![c] = label]

NoThreads == [q |-> [p \in Priorities |-> <<>>], maxrunpri |-> -1,
              max_unbound_pri |-> -1]

(* All CPUs idle, all threads asleep.                                      *)
Init ==
    /\ disp_q = [x \in Queues |-> NoThreads]
    /\ inserted = [c \in Cpus |-> -1]
    /\ kp_inserted = -1
    /\ t_state = [t \in Threads |-> "SLEEP"]
    /\ t_disp_queue = [t \in Threads |-> NULL]
    /\ t_pri \in {f \in [Threads -> Priorities] : \A t \in Threads : f[t] \in PriOf[t]}
    /\ t_bound_cpu \in {f \in [Threads -> Cpus \cup {NULL}] :
                          \A t \in Threads : f[t] \in Bindings[t]}
    /\ t_cpu = [t \in Threads |-> CHOOSE c \in Cpus : TRUE]
    /\ cpu_thread = [c \in Cpus |-> NULL]
    /\ cpu_dispthread = [c \in Cpus |-> NULL]
    /\ cpu_runrun = [c \in Cpus |-> FALSE]
    /\ cpu_kprunrun = [c \in Cpus |-> FALSE]
    /\ pc = [c \in Cpus |-> "run"]
    /\ lowered = {}
-----------------------------------------------------------------------------
(* The queues.                                                             *)
Top(q) ==
    LET active == {p \in DOMAIN q : q[p] # <<>>}
    IN  IF active = {} THEN -1 ELSE Max(active)

(* Unlink t, wherever it is in s.                                          *)
Without(s, t) ==
    LET k == CHOOSE i \in DOMAIN s : s[i] = t
    IN  [i \in 1..(Len(s) - 1) |-> IF i < k THEN s[i] ELSE s[i + 1]]

(* Faulty variant: disp_max_unbound_pri is raised only for the first       *)
(* thread of its priority.                                                 *)
InsertFirst(d, t, p, front, unbound) ==
    LET s == d.q[p]
        first == s = <<>> /\ unbound /\ p > d.max_unbound_pri
    IN  [q |-> [d.q EXCEPT ![p] = IF front THEN <<t>> \o s ELSE Append(s, t)],
         maxrunpri |-> IF s = <<>> /\ p > d.maxrunpri THEN p ELSE d.maxrunpri,
         max_unbound_pri |-> IF first THEN p ELSE d.max_unbound_pri]

(* The parts of setbackdq, setfrontdq and setkpdq that change the queue.   *)
Insert(d, t, p, front, unbound) ==
    LET s == d.q[p]
    IN  [q |-> [d.q EXCEPT ![p] = IF front THEN <<t>> \o s ELSE Append(s, t)],
         maxrunpri |-> IF s = <<>> /\ p > d.maxrunpri THEN p ELSE d.maxrunpri,
         max_unbound_pri |-> IF unbound /\ p > d.max_unbound_pri THEN p
                             ELSE d.max_unbound_pri]

(* setkpdq raises disp_max_unbound_pri only for the first thread of its    *)
(* priority.                                                               *)
InsertKp(d, t, p, front) == Insert(d, t, p, front, d.q[p] = <<>>)

(* dispdeq, and the removal of a thread in disp().                         *)
Dispdeq(d, t, p) ==
    LET q == [d.q EXCEPT ![p] = Without(@, t)]
        top == Top(q)
    IN  IF top # -1 /\ (q[p] # <<>> \/ p # d.maxrunpri) THEN [d EXCEPT !.q = q]
        ELSE [q |-> q, maxrunpri |-> top,
              max_unbound_pri |-> IF top < d.max_unbound_pri THEN top
                                  ELSE d.max_unbound_pri]

(* The places of the unbound threads of s.                                 *)
Unbound(s) == {i \in DOMAIN s : t_bound_cpu[s[i]] = NULL}

(* disp_fix_unbound_pri: the highest priority below p with an unbound      *)
(* thread.                                                                 *)
disp_fix_unbound_pri(d, p) ==
    [d EXCEPT !.max_unbound_pri =
        Max({-1} \cup {r \in Priorities : r < p /\ Unbound(d.q[r]) # {}})]

(* disp_nrunnable.                                                         *)
nrunnable(x) == Cardinality({t \in Threads : t_state[t] = "RUN" /\ t_disp_queue[t] = x})
-----------------------------------------------------------------------------
Outranked(c, p) == cpu_dispthread[c] # NULL /\ DISP_PRIO(cpu_dispthread[c]) < p

(* A CPU is told of the first thread of a priority above all others.       *)
Tells(d, c, p) == d[c].q[p] = <<>> /\ p > d[c].maxrunpri

(* cpu_resched for a thread of priority p; an idle CPU looks by itself.    *)
SetFlags(c, p) ==
    /\ cpu_runrun' = [cpu_runrun EXCEPT ![c] = @ \/ Outranked(c, p)]
    /\ cpu_kprunrun' = [cpu_kprunrun EXCEPT ![c] =
                          @ \/ (Outranked(c, p) /\ p >= kpreemptpri)]

(* Put t on a run queue with priority p and binding b.  It is on no queue  *)
(* of d, which is disp_q or, when t is moved, disp_q without t.            *)
Enqueue(d, t, p, b, front) ==
    /\ \/ \E c \in Cpus :
            /\ b = c \/ (b = NULL /\ p < kpqpri)
            /\ Unlocked(c)
            /\ disp_q' = [d EXCEPT ![c] = Insert(@, t, p, front, b = NULL)]
            /\ t_disp_queue' = [t_disp_queue EXCEPT ![t] = c]
            /\ inserted' = [inserted EXCEPT ![c] = IF Tells(d, c, p) THEN p ELSE -1]
            /\ UNCHANGED kp_inserted
       \/ /\ b = NULL /\ p >= kpqpri
          /\ Unlocked(kpq)
          /\ disp_q' = [d EXCEPT ![kpq] = InsertKp(@, t, p, front)]
          /\ t_disp_queue' = [t_disp_queue EXCEPT ![t] = kpq]
          /\ kp_inserted' = p
          /\ UNCHANGED inserted
    /\ t_state' = [t_state EXCEPT ![t] = "RUN"]
    /\ UNCHANGED flagVars

setfrontdq(t) == Enqueue(disp_q, t, t_pri[t], t_bound_cpu[t], TRUE)
setbackdq(t) == Enqueue(disp_q, t, t_pri[t], t_bound_cpu[t], FALSE)

(* The rest of setbackdq and setfrontdq: the queue's own CPU is told of a  *)
(* new first thread, and the caller drops the lock.                        *)
TellOwn(c) ==
    /\ inserted[c] # -1
    /\ SetFlags(c, inserted[c])
    /\ inserted' = [inserted EXCEPT ![c] = -1]
    /\ UNCHANGED <<disp_q, kp_inserted, threadVars, cpu_thread, cpu_dispthread,
                   pc, lowered>>

(* The rest of setkpdq: some CPU is told, and the lock is dropped.         *)
TellCpu(c) ==
    /\ kp_inserted # -1
    /\ SetFlags(c, kp_inserted)
    /\ kp_inserted' = -1
    /\ UNCHANGED <<disp_q, inserted, threadVars, cpu_thread, cpu_dispthread,
                   pc, lowered>>
-----------------------------------------------------------------------------
(* A thread is woken, by an interrupt or by a running thread; its class    *)
(* puts it at the front or the back.                                       *)
setrun(t) ==
    /\ t_state[t] = "SLEEP"
    /\ setbackdq(t) \/ setfrontdq(t)
    /\ UNCHANGED <<t_pri, t_bound_cpu, t_cpu, cpu_thread, cpu_dispthread, pc,
                   lowered>>

Running(c, t) == pc[c] = "run" /\ cpu_thread[c] = t

(* The thread of CPU c goes to sleep ...                                   *)
Sleep(c, t) ==
    /\ Running(c, t)
    /\ t_state' = [t_state EXCEPT ![t] = "SLEEP"]
    /\ t_disp_queue' = [t_disp_queue EXCEPT ![t] = NULL]
    /\ Goto(c, "swtch")
    /\ UNCHANGED <<queueVars, t_pri, t_bound_cpu, t_cpu, cpu_thread,
                   cpu_dispthread, flagVars, lowered>>

(* ... or is preempted.  On its way to swtch() it only drops the request.  *)
preempt(c, t) ==
    /\ \/ /\ Running(c, t)
          /\ cpu_runrun[c] \/ cpu_kprunrun[c]
          /\ setbackdq(t) \/ setfrontdq(t)
          /\ Goto(c, "swtch")
       \/ /\ pc[c] = "swtch" /\ cpu_thread[c] = t
          /\ cpu_kprunrun' = [cpu_kprunrun EXCEPT ![c] = FALSE]
          /\ UNCHANGED <<queueVars, t_state, t_disp_queue, cpu_runrun, pc>>
    /\ UNCHANGED <<t_pri, t_bound_cpu, t_cpu, cpu_thread, cpu_dispthread,
                   lowered>>

(* idle(): a thread on the CPU's own queue, or elsewhere.                  *)
idle(c) ==
    /\ Running(c, NULL)
    /\ Goto(c, IF nrunnable(c) > 0 THEN "swtch" ELSE "idle_getwork")
    /\ UNCHANGED <<queueVars, threadVars, cpu_thread, cpu_dispthread, flagVars,
                   lowered>>
-----------------------------------------------------------------------------
(* disp().  First a look at the shared queue, without its lock.            *)
LookAtKpq(c) ==
    /\ pc[c] = "swtch"
    /\ Goto(c, IF disp_q[kpq].maxrunpri >= 0
                  /\ disp_q[kpq].maxrunpri >= disp_q[c].maxrunpri
               THEN "getbest" ELSE "own")
    /\ UNCHANGED <<queueVars, threadVars, cpu_thread, cpu_dispthread, flagVars,
                   lowered>>

(* Thread t of queue x is dispatched to CPU c.                             *)
Take(c, x, t, label) ==
    /\ disp_q' = [disp_q EXCEPT ![x] = Dispdeq(@, t, t_pri[t])]
    /\ t_state' = [t_state EXCEPT ![t] = "ONPROC"]
    /\ t_disp_queue' = [t_disp_queue EXCEPT ![t] = c]
    /\ cpu_dispthread' = [cpu_dispthread EXCEPT ![c] = t]
    /\ lowered' = lowered \ {c}
    /\ Goto(c, label)
    /\ UNCHANGED <<inserted, kp_inserted, t_pri, t_bound_cpu, t_cpu, cpu_thread,
                   flagVars>>

(* disp_getbest: the first unbound thread of priority disp_max_unbound_pri *)
(* goes to label found.  Without one there, the priority is put right, and *)
(* the search ends with nothing, at label none.                            *)
disp_getbest(c, x, found, none) ==
    /\ Unlocked(x)
    /\ LET p == disp_q[x].max_unbound_pri
           s == IF p = -1 THEN <<>> ELSE disp_q[x].q[p]
       IN  IF Unbound(s) # {} THEN Take(c, x, s[Min(Unbound(s))], found)
           ELSE /\ disp_q' = IF p = -1 THEN disp_q
                             ELSE [disp_q EXCEPT ![x] = disp_fix_unbound_pri(@, p)]
                /\ Goto(c, none)
                /\ UNCHANGED <<inserted, kp_inserted, threadVars, cpu_thread,
                               cpu_dispthread, flagVars, lowered>>

GetBestKp(c) == pc[c] = "getbest" /\ disp_getbest(c, kpq, "ratify", "own")

(* The CPU's own queue, bound threads and all.                             *)
TakeOwn(c) ==
    /\ pc[c] = "own"
    /\ Unlocked(c)
    /\ LET p == disp_q[c].maxrunpri
       IN  IF p # -1 THEN Take(c, c, Head(disp_q[c].q[p]), "ratify")
           ELSE Goto(c, "getwork")
                /\ UNCHANGED <<queueVars, threadVars, cpu_thread,
                               cpu_dispthread, flagVars, lowered>>

(* disp_getwork, called by disp() or idle(): the shared queue as long as   *)
(* something is on it ...                                                  *)
Looking(c) == pc[c] \in {"getwork", "idle_getwork"}
Found(c) == IF pc[c] = "getwork" THEN "ratify_work" ELSE "ratify_idle"
Nothing(c) == IF pc[c] \in {"getwork", "check_work"} THEN "idle" ELSE "run"

GetWorkKp(c) ==
    /\ Looking(c) /\ disp_q[kpq].maxrunpri >= 0
    /\ disp_getbest(c, kpq, Found(c), pc[c])

(* ... or the queue of another CPU that has threads to spare.              *)
Steal(c, d) ==
    /\ Looking(c) /\ c # d
    /\ disp_q[kpq].maxrunpri = -1
    /\ nrunnable(d) > 0
    /\ disp_getbest(c, d, Found(c), Nothing(c))

(* One thread alone may be left to a CPU that has switched recently.       *)
NothingToSteal(c) ==
    /\ Looking(c)
    /\ disp_q[kpq].maxrunpri = -1
    /\ \A d \in Cpus \ {c} : nrunnable(d) <= 1
    /\ Goto(c, Nothing(c))
    /\ UNCHANGED <<queueVars, threadVars, cpu_thread, cpu_dispthread, flagVars,
                   lowered>>

(* disp() found nothing: the idle thread runs.                             *)
ChooseIdle(c) ==
    /\ pc[c] = "idle"
    /\ cpu_dispthread' = [cpu_dispthread EXCEPT ![c] = NULL]
    /\ cpu_thread' = [cpu_thread EXCEPT ![c] = NULL]
    /\ lowered' = lowered \ {c}
    /\ cpu_runrun' = [cpu_runrun EXCEPT ![c] = FALSE]
    /\ cpu_kprunrun' = [cpu_kprunrun EXCEPT ![c] = FALSE]
    /\ Goto(c, "run")
    /\ UNCHANGED <<queueVars, threadVars>>

(* disp_ratify: withdraw the requests, then look whether the choice is     *)
(* still good.                                                             *)
Ratifying(c) == pc[c] \in {"ratify", "ratify_work", "ratify_idle"}
Checking(c) == pc[c] \in {"check", "check_work", "check_idle"}

Commit(c) ==
    /\ Ratifying(c)
    /\ cpu_runrun' = [cpu_runrun EXCEPT ![c] = FALSE]
    /\ cpu_kprunrun' = [cpu_kprunrun EXCEPT ![c] = FALSE]
    /\ Goto(c, CASE pc[c] = "ratify" -> "check"
                 [] pc[c] = "ratify_work" -> "check_work"
                 [] pc[c] = "ratify_idle" -> "check_idle")
    /\ UNCHANGED <<queueVars, threadVars, cpu_thread, cpu_dispthread, lowered>>

(* Faulty variants: only one of the queues is looked at.                   *)
BetterKp(c, p) == p < disp_q[kpq].maxrunpri
BetterOwn(c, p) == p < disp_q[c].maxrunpri

Better(c, p) == p < disp_q[c].maxrunpri \/ p < disp_q[kpq].maxrunpri

(* The first half of resume(): the old thread's t_lock is dropped, which   *)
(* only sets free the CPU that waits for it.                               *)
Leave(c, next) ==
    IF cpu_thread[c] = next
    THEN Goto(c, "run") /\ UNCHANGED cpu_thread
    ELSE Goto(c, "spin") /\ cpu_thread' = [cpu_thread EXCEPT ![c] = NULL]

(* Put the thread back and try again, or leave the search to idle(); or go *)
(* on to resume().                                                         *)
Ratify(c, t) ==
    /\ Checking(c) /\ cpu_dispthread[c] = t
    /\ IF Better(c, t_pri[t])
       THEN /\ cpu_dispthread' = [cpu_dispthread EXCEPT ![c] = cpu_thread[c]]
            /\ setfrontdq(t)
            /\ Goto(c, IF pc[c] = "check" THEN "swtch" ELSE Nothing(c))
            /\ UNCHANGED cpu_thread
       ELSE /\ Leave(c, t)
            /\ UNCHANGED <<queueVars, t_state, t_disp_queue, cpu_dispthread,
                           flagVars>>
    /\ UNCHANGED <<t_pri, t_bound_cpu, t_cpu, lowered>>

(* Faulty variant: the thread's t_lock is not waited for.                  *)
NoSpin(t) == TRUE

Left(t) == \A d \in Cpus : cpu_thread[d] # t

(* The second half: wait until the CPU that t ran on has left it.          *)
resume_from_idle(c, t) ==
    /\ pc[c] = "spin" /\ cpu_dispthread[c] = t
    /\ Left(t)
    /\ cpu_thread' = [cpu_thread EXCEPT ![c] = t]
    /\ t_cpu' = [u \in Threads |-> IF u = t /\ Cardinality(Bindings[u]) > 1
                                   THEN c ELSE t_cpu[u]]
    /\ Goto(c, "run")
    /\ UNCHANGED <<queueVars, t_state, t_disp_queue, t_pri, t_bound_cpu,
                   cpu_dispthread, flagVars, lowered>>
-----------------------------------------------------------------------------
(* cpu_surrender(t), t on a CPU, with the own queue's and shared queue's   *)
(* priorities looked up now.                                               *)
cpu_surrender(t) ==
    LET c == t_disp_queue[t]
    IN  /\ cpu_runrun' = [cpu_runrun EXCEPT ![c] = TRUE]
        /\ cpu_kprunrun' = [cpu_kprunrun EXCEPT ![c] =
              \/ @
              \/ disp_q[c].maxrunpri >= kpreemptpri
              \/ disp_q[kpq].maxrunpri >= kpreemptpri]

(* Move a runnable thread: dispdeq, then setbackdq or setfrontdq.          *)
Requeue(t, p, b, front) ==
    /\ Unlocked(t_disp_queue[t])
    /\ Enqueue([disp_q EXCEPT ![t_disp_queue[t]] = Dispdeq(@, t, t_pri[t])],
               t, p, b, front)

(* The classes, and turnstile_pi_waive, look at the thread's own queue;    *)
(* the realtime class surrenders to an equal too.                          *)
MustSurrender(t, p) == p < disp_q[t_disp_queue[t]].maxrunpri
MaySurrender(t, p) == p <= disp_q[t_disp_queue[t]].maxrunpri

(* The priority of t becomes p.                                            *)
thread_change_pri(t, p) ==
    /\ p # t_pri[t]
    /\ t_pri' = [t_pri EXCEPT ![t] = p]
    /\ \/ /\ t_state[t] = "SLEEP"
          /\ UNCHANGED <<queueVars, t_state, t_disp_queue, flagVars, lowered>>
       \/ /\ t_state[t] = "RUN"
          /\ \E front \in BOOLEAN : Requeue(t, p, t_bound_cpu[t], front)
          /\ UNCHANGED lowered
       \/ /\ t_state[t] = "ONPROC"
          /\ \/ MaySurrender(t, p) /\ cpu_surrender(t) /\ UNCHANGED lowered
             \/ /\ ~MustSurrender(t, p) /\ UNCHANGED flagVars
                /\ lowered' = IF p < disp_q[kpq].maxrunpri
                              THEN lowered \cup {t_disp_queue[t]} ELSE lowered
          /\ UNCHANGED <<queueVars, t_state, t_disp_queue>>
    /\ UNCHANGED <<t_bound_cpu, t_cpu, cpu_thread, cpu_dispthread, pc>>

(* Bind t to CPU b, or to none.  A runnable thread that is unbound is      *)
(* moved; one that is bound is moved only if it last ran elsewhere.        *)
cpu_bind_thread(t, b) ==
    /\ b # t_bound_cpu[t]
    /\ t_state[t] = "RUN" => Unlocked(t_disp_queue[t])
    /\ t_bound_cpu' = [t_bound_cpu EXCEPT ![t] = b]
    /\ LET move == b = NULL \/ b # t_cpu[t]
       IN  CASE t_state[t] = "RUN" /\ move ->
                  Requeue(t, t_pri[t], b, FALSE)
             [] t_state[t] = "ONPROC" /\ b # NULL /\ move ->
                  cpu_surrender(t)
                  /\ UNCHANGED <<queueVars, t_state, t_disp_queue>>
             [] OTHER -> UNCHANGED <<queueVars, t_state, t_disp_queue, flagVars>>
    /\ UNCHANGED <<t_pri, t_cpu, cpu_thread, cpu_dispthread, pc, lowered>>
-----------------------------------------------------------------------------
CpuStep(c) ==
    \/ idle(c) \/ LookAtKpq(c) \/ GetBestKp(c) \/ TakeOwn(c) \/ GetWorkKp(c)
    \/ NothingToSteal(c) \/ ChooseIdle(c) \/ Commit(c)
    \/ \E d \in Cpus : Steal(c, d)
    \/ \E t \in Threads : Ratify(c, t) \/ resume_from_idle(c, t)

Next ==
    \/ \E c \in Cpus : CpuStep(c)
    \/ \E c \in Cpus, t \in Threads : Sleep(c, t) \/ preempt(c, t)
    \/ \E c \in Cpus : TellOwn(c) \/ TellCpu(c)
    \/ \E t \in Threads : setrun(t)
    \/ \E t \in Threads : \E p \in PriOf[t] : thread_change_pri(t, p)
    \/ \E t \in Threads : \E b \in Bindings[t] : cpu_bind_thread(t, b)

Spec == Init /\ [][Next]_vars
-----------------------------------------------------------------------------
(* CPU c has chosen its thread and will run it, or does.                   *)
Decided(c) == pc[c] \in {"run", "spin"}

On(x, p) == {disp_q[x].q[p][i] : i \in DOMAIN disp_q[x].q[p]}

(* A runnable thread is on the queue it says, once, at its priority, a     *)
(* dispatched one with one CPU; no CPU runs another thread than the one it *)
(* chose, and disp_maxrunpri is exact, whoever moves the threads.          *)
DispatchedOnce ==
    /\ \A t \in Threads : t_state[t] = "RUN" => t \in On(t_disp_queue[t], t_pri[t])
    /\ \A x \in Queues, p \in Priorities :
        /\ \A t \in On(x, p) : t_state[t] = "RUN" /\ t_disp_queue[t] = x /\ t_pri[t] = p
        /\ Cardinality(On(x, p)) = Len(disp_q[x].q[p])
    /\ \A x \in Queues : disp_q[x].maxrunpri = Top(disp_q[x].q)
    /\ \A c \in Cpus : LET t == cpu_dispthread[c] IN
        (Decided(c) \/ Ratifying(c) \/ Checking(c))
          /\ t # NULL => t_state[t] = "ONPROC" /\ t_disp_queue[t] = c
    /\ \A c \in Cpus : pc[c] = "run" => cpu_thread[c] = cpu_dispthread[c]
    /\ \A c, d \in Cpus : cpu_thread[c] = cpu_thread[d] =>
        c = d \/ cpu_thread[c] = NULL

(* disp_max_unbound_pri, which is never raised by a removal and lowered    *)
(* only by who looks for work, is not below any unbound thread: no thread  *)
(* is hidden from the CPUs that look for work.                             *)
UnboundVisible ==
    \A t \in Threads :
        t_state[t] = "RUN" /\ t_bound_cpu[t] = NULL =>
            disp_q[t_disp_queue[t]].max_unbound_pri >= t_pri[t]

(* Once the lock of its queue is dropped, a CPU does not go on with a      *)
(* thread that one on the queue outranks without being told, although the  *)
(* flags are cleared after the choice.  It takes sequential consistency    *)
(* (see above): setbackdq has no barrier between its store and its load.   *)
NoMissedPreemption ==
    \A c \in Cpus :
        LET p == disp_q[c].maxrunpri
        IN  /\ Decided(c) /\ Unlocked(c) /\ cpu_dispthread[c] # NULL
            /\ p > DISP_PRIO(cpu_dispthread[c])
            => /\ cpu_runrun[c]
               /\ p >= kpreemptpri => cpu_kprunrun[c]

(* The first thread of the shared queue is waited for by some CPU: one     *)
(* that is looking for a thread or has been told to, or one that runs a    *)
(* thread at least as important and looks at the queue when that stops.    *)
(* Only a thread lowered where it runs, which looks at its own queue, may  *)
(* be overtaken.                                                           *)
KpNoticed ==
    disp_q[kpq].maxrunpri # -1 /\ Unlocked(kpq) =>
        \E c \in Cpus :
            \/ ~Decided(c) \/ cpu_dispthread[c] = NULL
            \/ cpu_kprunrun[c]
            \/ DISP_PRIO(cpu_dispthread[c]) >= disp_q[kpq].maxrunpri
            \/ c \in lowered

(* The shared queue is for unbound threads.                                *)
KpqUnbound ==
    \A p \in Priorities : \A t \in On(kpq, p) : t_bound_cpu[t] = NULL
=============================================================================
