# The synchronization layer of the Solaris 7 kernel in TLA+

This directory holds a TLA+ model of the synchronization layer of the kernel
under `usr/src/uts`: sleep queues, turnstiles with priority inheritance,
readers/writer locks, adaptive mutexes, semaphores, condition variables,
timeouts and soft interrupts, the callback table with its checkpoints, and the
dispatcher. TLC checks the model on small instances. For any number of threads,
locks, CPUs and priorities, TLAPS proves the invariants of the readers/writer
locks, priority inheritance included, and that they implement an abstract
specification, and the invariants of the mutexes, semaphores, condition
variables, timeouts, soft interrupts, callbacks and the dispatcher: every safety
property that a passing run checks is also a theorem.

Paths below are relative to `src/usr/src/uts` unless they say otherwise.

## 1. Inventory

The repository is a whole operating system: the kernel (`uts`), the user
libraries (`lib`, `ucblib`), the commands (`cmd`, `ucbcmd`), the boot code
(`psm`, `stand`). The core that everything in the kernel rests on is its
synchronization and scheduling layer; it is small, concurrent and hard to test,
and is what this project is about.

| Component | State | Operations | Hard part |
|---|---|---|---|
| Sleep queues (`common/os/sleepq.c`) | lists of threads by priority | insert, dequeue, unsleep, wakeup | order when priorities change while asleep |
| Turnstiles (`common/os/turnstil.c`) | hash chain lock, active turnstile of each lock, its freelist, waiters, two queues, inheritor; per thread its turnstile and `t_prioinv` list | lookup, exit, block, wakeup, change_pri | inheritance through chains of sleepers, recycling of turnstiles |
| Readers/writer locks (`common/os/rwlock.c`, `common/sys/rwlock_i.h`, `i86/ml/lock_pri.s`) | one word: hold count or owner, three bits | init, destroy, enter, exit, tryenter, downgrade, tryupgrade | a word changed both by compare-and-swap and by plain stores, direct handoff, policy between readers and writers |
| Adaptive mutexes (`common/os/mutex.c`, `i86/sys/mutex_im.h`, `i86/ml/lock_pri.s`) | one word: owner, waiters bit | init, destroy, enter, tryenter, exit | exit without an atomic instruction, spinning on the state of other CPUs, store buffers |
| Thread priorities (`common/disp/thread.c`) | `t_pri`, `t_epri` | setrun, change_pri, change_epri | a thread on any kind of queue, or running |
| Condition variables (`common/os/condvar.c`) | `cv_waiters`, shared sleep queues | wait, timed and interruptible waits, signal, broadcast | timeout and signal racing a wakeup |
| Callouts (`common/os/callout.c`) | two tables of hash chains, freelist, id generator | timeout, untimeout, schedule, execute | untimeout against a running handler |
| Soft interrupts (`common/os/softint.c`) | pending list, state | softcall, softint | one kicked CPU for all requests |
| Callback tables (`common/os/callb.c`, `common/sys/callb.h`; user: `common/cpr`) | lists of callbacks and of free structures, executing flag, table busy; events of each daemon | add, delete, execute_class, lock_table, is_stopped, the CALLB_CPR macros | deletion and registration during execution, a checkpoint given up halfway |
| Semaphores (`common/os/semaphor.c`) | count, sleep queue | P, P with signals, tryP, V | wakeup given to a thread that a signal removes |
| Dispatcher (`common/disp/disp.c`, `common/os/cpu.c`, `cpupart.c`) | run queue of each CPU, the shared kp queue, dispatched thread and preemption requests of each CPU | setbackdq, setfrontdq, setkpdq, dispdeq, swtch, disp_getwork, disp_ratify, preempt, cpu_surrender, cpu_bind_thread | decisions from priorities read without locks, stealing between CPUs, requests cleared after the choice |
| Scheduling classes (`common/disp/ts.c`, `rt.c`, `ia.c`, `sysclass.c`) | class priorities, quanta | tick, sleep, wakeup, parmsset | changing the priority of a thread in any state |
| Shuttles (`common/disp/shuttle.c`) | thread states | resume, swtch, sleep | handing a CPU over without the run queue |
| STREAMS (`common/os/putnext.c`, `strsubr.c`, `streamio.c`) | perimeters (syncq), queues | putnext, entersq, qwait | re-entry and deferred messages |
| Record locks (`common/os/flock.c`) | active and sleeping lock lists, edges | lock, unlock, cancel | deadlock detection in a graph that changes |
| Memory allocator (`common/os/kmem.c`) | caches, magazines, slabs | alloc, free, reap | layers with a lock each |
| Processes, signals, VM, file systems, network, drivers | - | - | out of scope, see PROJECT.json |

How they interact. A client of a lock calls `mutex_enter`/`rw_enter`. The fast
path is one atomic instruction on the lock word. The slow path calls
`turnstile_lookup`, which takes the lock of a hash chain (there is one chain,
`TURNSTILE_HASH_SIZE` is 1, so one lock covers all turnstiles), rechecks the
word and calls `turnstile_block`. That puts the thread in a sleep queue and
walks the chain of owners (through `SOBJ_OWNER` of each lock type), raising
priorities with `thread_change_epri`, which moves a sleeping owner in *its*
queue through `SOBJ_CHANGE_PRI`. An exit of a lock with waiters takes the same
chain lock, gives up the inherited priority and wakes threads. The scheduling
classes change priorities through `thread_change_pri` at any time.

What makes each part correct: exclusion; the word tells exactly who holds the
lock and whether anyone waits, so that no exit strands a waiter; no turnstile is
lost or shared; queues stay sorted; the owner of a lock runs at the priority of
the best waiter and no longer than it owns the lock; the thread that the policy
prefers gets the lock eventually; the panics are unreachable. A semaphore loses
neither a V nor a signal. Timeouts are driven by the clock, which sets
`ct_curtime` and hands due callouts to callout threads (`cv_signal`) or to a
soft interrupt (`softcall`): none is skipped, run twice or still running after
`untimeout()` returned. A condition variable loses no notification although
`cv_signal` looks without a lock; a timed or interruptible wait, which arms a
callout and is ended by `setrun`, ends for a reason it reports truthfully and
leaves nothing armed behind. A checkpoint (`common/cpr`) walks the callback table
while the daemons in it go on: it stops all of them or starts them all again.
Everything that is woken goes through `setrun` to the dispatcher: a thread is on
one queue or with one CPU, and a better thread than the one that runs is never
overlooked.

Other parts of the kernel (rows from the scheduling classes on) use this layer
and are not modelled; section 5 says why.

## 2. Modules

| Module | Models | Role |
|---|---|---|
| `SleepQ` | `sleepq_insert`, `sleepq_dequeue`, the channel wakeups | operators on sequences |
| `Turnstile` | `turnstil.c`, `thread_change_pri`, `thread_change_epri`, `DISP_PRIO` | state of the turnstiles; the bodies of the turnstile functions as operators |
| `RWLock` | `rwlock.c`, `rw_enter`, `rw_exit` | EXTENDS `Turnstile`; the actions of the threads |
| `AbstractRWLock` | what a readers/writer lock promises | abstract specification; `RWLock` implements it |
| `Mutex` | adaptive part of `mutex.c`, `mutex_enter`, `mutex_exit`, `mutex_tryenter`; what it needs of `locore.s`, `swtch.s` | EXTENDS `Turnstile`; threads and CPUs |
| `RWLockInv` | - | the inductive invariant of `RWLock` |
| `SleepQProofs`, `TurnstileProofs`, `RWLockProofs`, `MutexProofs`, `SemaphoreProofs`, `CondVarProofs`, `CallProofs` (callouts, soft interrupts and callbacks), `DispProofs` | - | proofs |
| `Semaphore` | `semaphor.c`, `setrun` | EXTENDS `SleepQ`; threads, signals |
| `CondVar` | `condvar.c`, `setrun`, `eat_signal`, `schedctl_block` | EXTENDS `SleepQ`; a monitor: waiters, posters, the clock, callouts, signals |
| `Softint` | `softint.c` | CPUs, the list of calls |
| `Callout` | `callout.c`, `callo.h` | EXTENDS `Softint`; clients, executors, the clock |
| `Callb` | `callb.c`, `callb.h`, `cpr_stop_kernel_threads`, the end of `cpr_resume` | daemons and a checkpointing thread |
| `Disp` | `disp.c`, `cpu_bind_thread`, `thread_change_pri`, `resume` of `swtch.s` | CPUs and threads |
| `MCRWLock`, `MCMutex`, `MCCallout`, `MCCondVar`, `MCDisp` | - | symmetry and instances for TLC |

### Turnstile

Variables keep the names of the fields: `ts_waiters`, `ts_sleepq`,
`ts_inheritor`, `ts_epri`, `t_ts`, `t_prioinv`, `t_pri`, `t_epri`, `t_wchan`.
`tc_lock` is the owner of the chain lock; `tc_chain[l]` is the active turnstile
of lock `l`, what the search of the hash chain in `turnstile_lookup` finds.
`pi_cur` is the cursor of the walk in `turnstile_block` and `wk` the arguments
and progress of `turnstile_wakeup`; one of each is enough because their caller
holds `tc_lock`. A walk or a wakeup takes one step per iteration, so that
threads which do not need the chain lock run in between. `turnstile_pi_waive`
clears `ts_epri` where the code leaves the old value: it is written before it is
read again, and clearing it keeps the state space small. `ClassPri` is what
`CL_SLEEP` (`turnstil.c:265`) and `CL_WAKEUP` (`turnstil.c:350`) may do to the
assigned priority: with `DynamicPri`, the thread that blocks, and the thread that
is woken, gets any priority, higher or lower, before it is put in its queue and
before the handoff inherits. (`ts_sleep` and `ts_wakeup` choose among a few;
none of the properties may depend on which.) `DynamicPri` also enables the
changes of priority from outside, the action `ChangePri` of `RWLock` and `Mutex`.

### RWLock

The word is a record: `rd` (hold count), `wr` (owner), `wl`, `ww`, `hw`
(`RW_WRITE_LOCKED`, `RW_WRITE_WANTED`, `RW_HAS_WAITERS`). The count and the
owner share their bits in the code; that at most one is in use is part of the
invariant (`WordCountsHolds` and `HoldOf`), not of the representation.

A thread is a small state machine; `pc` is where it is.

```
run -rw_enter-> enter -EnterGrab-> run
                enter -EnterBusy-> slow -EnterLookup-> look -EnterRetry-> enter
                look -EnterWait-> block -EnterBlock-> pi -EnterWill*-> sleep
run -rw_exit (ExitDrop)-> run
run -rw_exit (ExitFinal)-> final -ExitLookup-> hand -ExitToReaders|ExitToWriter-> waive
run -rw_downgrade-> run | down -DowngradeLookup-> share -DowngradeShare-> waive
waive -WakeWaive-> wake -WakeOne*-> wake -WakeDone-> run
```

`hold[t][l]` is what the code of the client believes it holds. It changes when
the call returns, which for a thread handed the lock is when it is woken, after
the word already says so. Clients follow the kernel's rules: they take locks in
increasing order, do not enter a lock they hold, exit what they hold, and
destroy a lock only when nobody uses it. Which threads may use which lock in
which mode is a constant. Panics are assignments to `panicstr`; after one
nothing moves, so that TLC's deadlock check, which every run has on, reports a
reachable panic.

A compare-and-swap loop is one atomic step: its failed iterations change
nothing and only reread the word. `rw_tryenter` and `rw_tryupgrade` are actions
for their success only; a failure changes nothing. (The kernel priority that a
failed `rw_tryenter` takes and gives back is not visible to any other thread.)

### Mutex

`mutex_exit` drops the lock by a plain store, so the order in which stores
become visible matters. Each CPU has a FIFO store buffer `sb` with the two stores
that are made without a lock: the clear of `mutex_exit`, and the `CPU_THREAD` of
`resume()` when a thread leaves the CPU. `Drain` makes the oldest visible; an
instruction with a lock prefix is possible only when the buffer is empty. This is
the memory order of x86. Threads are preempted at any step (`SwitchOut`) and
resumed on any CPU (`Resume`); the `CPU_THREAD` of the resumed thread is visible
at once, since it does nothing before the next barrier. A thread interrupted in the critical
region of `mutex_exit` restarts it (`RestartPC`, from `locore.s`). The search of
the CPUs in `mutex_vector_enter` looks at one CPU per step and in any order,
which covers the circular order of the code. Delays between spins are left out:
they only change timing.

### Semaphore

`sema_p` and `sema_p_sig` are one state machine: `run -> p` (the test of the
count, under the lock of the sleep queue) `-> run`, or `-> look` (on the queue,
about to look for a signal; only a thread with an lwp) `-> swtch -> p` or
`-> intr -> run`. The lock of the sleep queue is also the thread lock of the
sleepers, so that a signal and a priority change are atomic against it. `sig` is
what `ISSIG` and `ISHOLD` look at; posting a signal and the `setrun` that
follows are two steps, with anything in between. `Resume` may also drop the
signal, as `issig()` does with one that is ignored.

### CondVar

The waiters of all condition variables of a hash bucket share one sleep queue,
whose lock is the thread lock of the sleepers: what happens under it is one
step. The five kinds of wait are one state machine:

```
run|returned -cv_wait-> block | arm -realtime_timeout-> block | sigcheck | returned
block -cv_block-> exit -MutexExit-> look|swtch -LookBeforeSwtch-> swtch
block -schedctl_block-> enter
swtch -Swtch-> untimeout (cv_timedwait, cv_wait_stop) | enter
enter -Enter-> returned | sigcheck | untimeout (cv_timedwait_sig)
untimeout -Untimeout-> enter | sigcheck | stopcheck
sigcheck -> returned | issig -> returned
```

`left` is `tim - lbolt`, `due` the ticks to the callout, which are counted from
`realtime_timeout`: the two drift apart by the time between the computation and
the arming. The callout is modelled by what `Callout` establishes of
`untimeout()`: it removes a pending callout, or waits for the handler, or finds
nothing. `units` is the state of the monitor: a poster adds a unit under the
mutex and notifies before or after it drops the mutex; a waiter takes a unit if
there is one, also when its wait reports a timeout or a signal.

### Callb

The list of the class, the free list and the links are as in the code, so that a
deletion under the feet of the walk is visible. A daemon is created, registers
(`CALLB_CPR_INIT`), works, is in a safe region, or exits; the checkpointing
thread (`cpr`) walks the list twice, for the checkpoint and for the resume, and
in between looks at every thread. `callb_execute_class` finds no callback
executing, since the class has one executor; its wait for one
(`callb.c:226-232`) is unreachable. A wait for a condition variable is a guard
on the condition: `CondVar` shows that no notification is lost. `From(s)`, what a
walk along `c_next` from `s` meets, is the least set that holds `s` and is closed
under the links. The names of the definitions differ from those of `Callout`, so
that one module can hold the proofs about both.

### Disp

Each queue is the `disp_t` of the code: one list per priority, `disp_maxrunpri`,
`disp_max_unbound_pri`. `disp()` is a sequence of steps per CPU:

```
run -Sleep|preempt|idle-> swtch -LookAtKpq-> getbest | own
getbest -GetBestKp-> ratify | own          own -TakeOwn-> ratify | getwork
getwork -GetWorkKp|Steal|NothingToSteal-> ratify_work | idle -ChooseIdle-> run
run (idle thread) -idle-> idle_getwork -> ratify_idle | run
ratify* -Commit-> check* -Ratify-> swtch | idle | run | spin -resume_from_idle-> run
```

`cpu_thread[c]` is the thread whose `t_lock` the CPU holds, `cpu_dispthread[c]`
the one it has chosen. `kp_inserted` is the moment between the insertion of
`setkpdq`, which a CPU that reads `disp_maxrunpri` without the lock sees, and its
call of `cpu_resched`. Which CPU an unbound thread is queued on, or told about,
is left open: `cpu_choose` decides from values read without locks and from the
time, and correctness must not depend on it. The comparison of `disp_ratify` is
one step. `lowered` is a history variable, used by one property only.

The insertion in the queue of a CPU and the message to that CPU are two steps as
well: `Enqueue` leaves the priority in `inserted[c]` with the lock of the queue
held, `TellOwn(c)` is the `cpu_resched` of `setbackdq` and `setfrontdq`
(`disp.c:1121-1124`, `1227-1230`) and the unlock. Whoever needs the lock waits;
`disp_ratify`, which does not, runs in between.

`Disp` assumes sequentially consistent memory, unlike `Mutex`, and on the queue
of a CPU the code does not enforce it: see *the missing StoreLoad order* under
Observations. `NoMissedPreemption` and `DispPreempts` are about interleavings and
say nothing of what store buffers add.

### Softint

`softhead` is the list; the free list is what is left of `NSOFTCALLS`. `kick`
are the CPUs between the unlock in `softcall` and `siron()`, `sir` those with
the interrupt pending, `sint[c]` what `softint()` does on a CPU. `softcall` may
be called on any CPU at any time. The module has no behaviour of its own: it is
run as part of `Callout`, with a second function that other parts of the kernel
request. That `softcall()` is used for at most `NSOFTCALLS` different functions
is an assumption about the callers (`SoftintAssumption`): with the merging of
equal requests it makes the list fit, and it is what the code relies on. The
panic "too many softcalls" is assumed away, not shown impossible.

### Callout

Every critical section of `ct_lock` is one step. Between them lie the handler
(`ex[e].pc = "call"`), the wait in `untimeout` (`un`), the allocation without
the lock (`alloc`), `softcall()` after the unlock (`clk = "softcall"`) and the
way of a callout thread from `callout_execute` to `cv_wait` (`"idle"`), where a
`cv_signal` is lost. `ExecuteDone` is everything from the return of the handler
to the next unlock: delete, free, broadcast, and the scan that goes on *behind*
the callout in the chain, at the run time the executor remembers. Times are
relative to `lbolt`, since the code only compares and subtracts them; `Tick`
ages them. The hash tables are one chain. Ids are numbers with the layout of
`callo.h`; its assumption that an id is not issued again while in use is a guard
of `Arm`. `c_executor` is read from the state of the executors.

### AbstractRWLock

`holds` and `wants` of each thread, and what may happen atomically: a thread
gets a lock it does not hold when its mode is free, starts to wait, is granted
the lock together with others by a release, downgrades, upgrades. No queues, no
words, no turnstiles. The refinement mapping (`Abs` in `RWLock`) says a hold
starts when the *word* grants it.

## 3. Runs

| Run | Instance | States | Shows |
|---|---|---|---|
| `rwlock_one` | 4 threads, 1 lock, 2 priorities that change, the lock destroyed and initialized again, symmetry | 35 000 | `MutualExclusion`, `WordCountsHolds`, `WaitersBitsExact`, `KpriBalanced`, `TurnstileConservation`, `QueuesExact`, and `Implements` (the refinement) |
| `rwlock_pi` | 3 threads, 2 locks, 3 priorities | 390 000 | `NoPriorityInversion`, `NoLeakedPriority`, and `IInv`, the invariant the proofs use |
| `rwlock_live` | 3 threads, 1 lock, 2 priorities, fairness | 140 000 | `TopWaiterServed` |
| `mutex` | 3 threads, 3 CPUs, 1 mutex that is destroyed and initialized again, 2 priorities that change, symmetry | 350 000 | `MutualExclusion`, `NoMissedWakeup`, `FreeWhenDropped` |
| `mutex_pi` | 3 threads, 2 CPUs, 2 mutexes taken in order, 2 priorities that do not change, symmetry | 1 600 000 | `NoPriorityInversion`, along a chain of two owners |
| `semaphore` | 3 threads, 2 of them interruptible, 2 priorities that change, count up to 2, fairness | 54 000 | `NoLostV`, `SignalWakes`, `SleeperServed` |
| `callout_normal` | 2 clients, 2 callout threads, timeouts of 2 ticks, 1 tick behind, 2 ids, CPR, fairness | 160 000 | `UntimeoutFinal`, `UntimeoutTruthful`, `StructsConserved`, `DueRuns`, `UntimeoutReturns` |
| `callout_realtime` | 1 client, 2 structures, softint on 2 CPUs with a second function, timeouts of 0 and 2 ticks (2 is long-term), 2 ticks behind, 2 ids of each kind, symmetry | 450 000 | `TypeOK`, `NoLostSoftcall`, `NoneSkipped` |
| `condvar` | 2 waiters (all five waits between them), 1 poster, 2 condition variables on one queue, 2 priorities, deadlines of 0 and 1 tick, saturation at 2 | 2 400 000 | `WaitersExact`, `NoLostWakeup`, `CalloutInWait`, `ReturnHonest`, `SignalEndsWait`, `TimedWaitEnds` |
| `callb` | 3 daemons created again and again, 3 structures, fairness | 150 000 | `CallbackValid`, `FrozenStopped`, `AllResumed`, `CheckpointEnds` |
| `disp` | 2 CPUs, 3 threads: one of low priority that is bound and unbound, one of kp priority, one bound that changes between the two | 1 600 000 | `DispatchedOnce`, `UnboundVisible`, `NoMissedPreemption`, `KpNoticed` |
| `disp_bind` | the same, the thread of kp priority is bound and unbound | - | expected violation, see Findings |

Bounds. Four threads on one lock are a holder, a thread giving it up or queued
as a writer and two more in either queue: enough for a handoff to several
readers with waiters left over, for a downgrade with both kinds waiting and for
a wakeup that empties the freelist. Two nested locks give a blocking chain of
length two, the shortest in which inheritance is indirect. Three priorities are
needed for a middle one. Three CPUs are one that has been searched, one that has
not and the searcher's own; `mutex_pi` has two, since it is not about the search
but about a chain: the owner of one mutex asleep on another. All counters of the locks are bounded by the number
of threads. `MaxCount` bounds the count of a semaphore: two units are enough for
two wakeups to overlap, and with three threads one may be woken, one interrupted
and one left asleep; a unit is also taken by `sema_tryp`. `MaxLag` bounds how far
execution falls behind the clock (at the bound time stands still, the clock
still looks for due callouts); a lag of one is needed for the clock or the
second executor to overtake the first, and two for an executor to have a due
time behind it and one before it, which is where `NoneSkipped` could fail. Two clients are one whose callout is
executing and one whose callout follows it in the chain or arrives meanwhile. Two
ids of each kind make the counters wrap all the time. `Structs` of `Callout` is
at least as large as `Clients`, which is all that can be in use; a second one
lets a client's next callout be in another structure.

Two waiters are one that a notification is meant for and one that a signal or a
timeout takes it from, or two of different condition variables on the same
queue. `CV_MAX_WAITERS` is 2 instead of 1024 so that the count saturates and is
put right again; `MaxUnits` is 1, a poster may notify without anything new to
take. A deadline of one tick already passes at every point of the wait. `Callbs`
of `Callb` bounds the structures ever allocated; a freed one is used again, and
three make a list with a middle. Two CPUs are one that decides and one that
interferes (steals, wakes, binds); three threads are the one that runs, the one
chosen and a better one that arrives. Two priorities, one on each side of
`kpqpri` and `kpreemptpri`, which are equal in the kernel as well.

Fairness (`rwlock_live`). A thread inside an operation keeps running
(`WF(Continue(t))`): the kernel dispatches every runnable thread and the model
has no threads outside these locks that could take its CPU. A holder
eventually exits (`WF(rw_exit(t, l))`): kernel code does not hold a lock for
ever. Weak fairness of the acquisition of `tc_lock` could be too weak if others
could retake it for ever; it is enough here because each of them ends up asleep
or outside, and no strong fairness is assumed. `TopWaiterServed` is restricted
to threads that no writer outranks, because the documented policy (`rwlock.c`, requirements (1) to (5)) lets higher
priority threads pass.

Fairness elsewhere is weak too. `semaphore`: threads inside `sema_p` run
on, signals and V operations need not happen; a thread stopped by job control
inside `issig()` is outside this assumption. `callout_normal`:
the clock ticks, executors run and handlers return, a thread woken in
`untimeout()` runs. CPR need not resume: `DueRuns` promises nothing once a
checkpoint has stopped the callouts. `callb`: the checkpointing thread runs on,
which includes that its `cv_timedwait` times out; nothing is assumed of the
daemons.

Each property is shown to have teeth by a mutant (the *faulty variants* in the
modules) that breaks it: a wrong busy mask, a dropped waive, an exit that does
not restart, an off-by-one in the number of waiters.

### Findings

`disp_bind`. `cpu_bind_thread` (`cpu.c:1006`) moves a runnable thread only if it
is bound to another CPU than the one it last ran on. An unbound runnable thread
of kp priority is not on that CPU's queue but on the shared one, of which
`disp.c:131` says that it holds "unbound work". Bound to the CPU it last ran on,
it stays there. `disp_getbest` skips bound threads, so that no CPU, the right one
included, takes it; and `disp_getwork` (`disp.c:1951`) and the retry after
`disp_ratify` loop as long as the queue is not empty. The thread is stuck until
its priority or binding changes again. In the run `disp` the thread that is bound
and unbound is of low priority, for which the queue of the CPU is the right one.

### Observations

What came up while modelling and is not a disagreement that a run shows.

* `turnstil.c:38` requires that the owner of a lock with waiters changes only
  under the chain lock. `rw_downgrade` (`rwlock.c:476`) changes it by an atomic
  add before `turnstile_lookup`. The runs and the proof show that this is
  harmless; the invariant has to allow for it (`DownLabels`).
* Inheritance is computed when a thread blocks or is handed a lock, and not
  again. Assigned priorities change at other moments too, and each of these can
  leave an owner below a waiter, or with more than anybody waiting gives it:
  - from outside (`rt.c:718`, through `thread_change_pri`), a blocked thread that
    is raised moves in its queue, but the owner of the lock does not inherit the
    new priority;
  - from inside, `turnstile_block` calls `CL_SLEEP` (`turnstil.c:265`). A
    timeshare thread at a kernel priority without a request for one falls to its
    user priority (`ts.c:1346-1350`). If it owns a lock whose waiter needed to
    give it nothing, it now sleeps on another lock below that waiter;
  - `CL_WAKEUP` (`turnstil.c:350`, `ts.c:1774-1781`) changes the priority of the
    thread that is woken, before the handoff inherits for the lock it is given,
    but after other locks it owns got their waiters.

  `NoPriorityInversion` of both lock types and `NoLeakedPriority` are therefore
  checked and proved for priorities that do not change (`DynamicPri = FALSE`);
  the other safety properties of the locks are checked with all three kinds of
  change and proved for both values of `DynamicPri`. `TopWaiterServed` is checked
  without changes too: "top" would mean little otherwise.
* The missing StoreLoad order of the dispatcher. `setbackdq` and `setfrontdq`
  store `disp_maxrunpri` of the CPU's queue and then load `cpu_dispthread` and
  `cpu_dispatch_pri` with no barrier between (`disp.c:1121-1124`,
  `1227-1230`). `disp_ratify` has stored the thread it chose, has its
  `membar_enter` (`disp.c:1902`) and reads `disp_maxrunpri` without the lock
  (`disp.c:1909`). With store buffers both sides can read the old value: the
  enqueuer sees a CPU that needs no message, the CPU sees no better thread, and
  the lesser thread runs without a request until the CPU next switches or is
  told of something else. The same is true of lowering a running thread: a store
  of `t_pri` followed by a load of `disp_maxrunpri`, against an insertion. For
  the shared queue `setkpdq` takes the lock of the chosen CPU (`disp.c:1297`),
  with an atomic instruction, between the two. `Disp` assumes the gap away
  (sequential consistency); with that, `NoMissedPreemption` shows that the order
  of the stores and loads in the code is right in every interleaving.
* `cv_timedwait` returns the ticks left of the callout, counted from its arming.
  They are more than the "time left from the original 'tim' value" of
  `condvar.c:171` by the ticks between the two. `ReturnHonest` states the
  direction that matters: no timeout is reported before the deadline.
* `DISP_MAXRUNPRI` looks at the queue of the CPU only. A running thread that is
  lowered below a thread of the shared queue does not surrender, against
  `disp.c:128`; another CPU or its next switch takes care of the thread. This is
  the exception `lowered` of `KpNoticed`.
* A thread left bound on the shared queue (finding `disp_bind`) can hide another
  one. `disp_getbest` finds nothing to take and lowers `disp_max_unbound_pri`;
  an unbound thread that then arrives at the same priority finds the list not
  empty, so that `setkpdq` (`disp.c:1290`) does not raise it again, and no CPU
  that looks for work sees the thread until the bound one is gone. TLC finds this for
  `UnboundVisible` with two realtime threads, one of which is bound to its last
  CPU; the run `disp` therefore binds only threads of low priority, and
  `DispVisible` has the hypothesis `BoundForGood`.
* A daemon in `CALLB_CPR_EXIT` is marked safe and counts as stopped while it is
  on its way out, so that `FrozenStopped` allows it.

## 4. Proofs

### Readers/writer locks

`RWLockProofs` proves, for every value of the constants that satisfies
`TurnstileAssumption` (finitely many threads, locks ordered by numbers, a finite nonempty set of priorities, `NULL` distinct from
all) and `RWLockAssumption` (types of the constants):

* `InductiveInvariant`: `Spec => []IInv`;
* `TypeCorrect`: `Spec => []TypeOK`;
* `Exclusion`: `Spec => []MutualExclusion`;
* `WordExact`: `Spec => []WordCountsHolds`;
* `BitsExact`: `Spec => []WaitersBitsExact`;
* `Conservation`: `Spec => []TurnstileConservation`;
* `QueueOrder`: `Spec => []QueuesExact`;
* `KpriExact`: `Spec => []KpriBalanced`;
* `Refinement`: `Spec => Implements`;
* `NoInversion` and `NothingLeaked`: `Spec => []NoPriorityInversion` and
  `Spec => []NoLeakedPriority`, with `DynamicPri = FALSE`: assigned priorities do
  not change (see Observations for why they must not; with `DynamicPri`,
  `turnstile_block` itself changes them).

Exclusion is not inductive. An exiting writer hands the lock to the head of a
queue by a plain store, so the word is right only if the queue is; the queue is
right only if turnstiles are not confused; and the plain store is right only if
nothing can change the word between the test in the final exit and the store,
which depends on the waiters bits. `IInv` is the conjunction that closes this
circle:

* `ControlInv`: who holds `tc_lock` by `pc`; the locals of each operation;
* `ChainInv`: each turnstile is active for one lock, on one freelist, or
  attached to one thread that is awake;
* `ContentInv`: `ts_waiters` counts both queues, and an active turnstile has one
  free turnstile per waiter but one;
* `QueueInv`: queues hold exactly the sleepers, once, in the queue of their mode;
* `WakeupInv`: a wakeup under way has as many threads to wake as it counts, and
  the new owner is the first writer;
* `HoldInv`: the word counts holds and grants not yet picked up;
* `BitsInv`: the bits say exactly whether writers, or anyone, waits, and a lock
  with waiters is held;
* `HandInv`: while a thread waits for the chain lock to hand over or to finish a
  downgrade, the waiters bit stays set, a last reader stays alone with a writer
  waiting, and only one thread downgrades;
* `InheritInv`: the inheritor of a turnstile is the writer of its lock, or is
  giving it up.

The argument has one lemma per action. `SleepQProofs` has what insertion and
removal do to the elements, the length, the order and the absence of duplicates.
`TurnstileProofs` has the types and frame of each turnstile function.
Its first part proves the actions of an entering thread, the plain exits, the
try operations, destruction and priority changes; then the handovers
(`ExitToReaders`, `ExitToWriter`, `DowngradeShare`) from one common lemma about
granting the lock to a prefix of a queue, then the wakeup loop, and combines them
in `NextInv`.

The second part is about the threads that wait. A sleeper is granted the lock
exactly if its place in the queue is within the wakeup under way
(`GrantedIsPending`), which turns the counts of `BitsInv` into the sets of
`WaitersBitsExact`; the two queues of a turnstile partition the sleepers of its
lock, which turns `ContentInv` into `TurnstileConservation`. Two further
invariants are inductive relative to `IInv`: `SortedInv`, that every queue is in
the order of the effective priorities, for which a change of priority has to
requeue the thread where it sleeps and nowhere else; and `KpriInv`, which says of
*every* point of the code how many kernel priority requests a thread has: one for
each read hold, and one more while it `Owes` one, which it does before it blocks,
from the moment the waker grants it the lock, and until it has finished a read
exit.

Priority inheritance. `NoPriorityInversion` holds when the chain lock is free and
is broken on purpose while a thread has it. `PriorityInv`, inductive relative to
`IInv` while assigned priorities do not change, says what holds in between:

* `ListInv`, `AmountInv`, `SourceInv` (`Books`, in `Turnstile`): `t_prioinv` of a
  thread lists exactly the turnstiles it inherits from, each gives it more than
  its assigned and at most its effective priority, and one of them gives all of
  it. `InheritBooks` and `WaiveBooks` prove once for all lock types that
  `turnstile_pi_inherit` and `turnstile_pi_waive` keep them: after a waive the
  maximum over the rest of the list is the right priority;
* `DonorInv`: a thread of the inherited priority sleeps on the turnstile. A
  sleeper that leaves is woken by the inheritor, which has waived before;
* `CoverInv`: the owner of a lock has the priority of each of its sleepers, from
  its own assignment or from this turnstile, except of the one sleeper the walk
  has its cursor on, and except while the lock is on its way to a new owner. The
  walk preserves it since an owner that rises and itself sleeps becomes the
  cursor; the handoff restores it since the new owner inherits from the heads of
  the queues left behind, which are sorted (`LeftHeads`);
* `WaiveInv`: the thread that waives is the inheritor, and if it wakes nobody it
  has become a reader.

The last part of the module shows that every step is a step of `AbstractRWLock`, or leaves
`holds` and `wants` of the mapping alone (`AbsHold`, `AbsWant`: what the mapping
gives to one thread and one lock). Most steps are invisible: a thread on its way
to the chain lock, the walk of the blocking chain, the wakeup loop, in which
`Granted` turns into `hold` for one thread at a time. The visible ones are those
that change the word: the grabs, drops, upgrades, the start of a wait, and the
handovers, where the prefix of the queue that the code counts has to be a set of
waiters the abstract release may grant (`ReadersHandOver`, `WriterHandsOver`,
`DowngradeShares`).

### Mutexes

`MutexProofs` proves, for any threads, CPUs, mutexes and turnstiles,
`MutexMutualExclusion`, `MutexFreeWhenDropped`, `MutexNoMissedWakeup` and, under
the hypothesis `DynamicPri = FALSE`, `MutexNoInversion`. The first three follow
from the inductive invariant `MutexInv`: the types; `CpuInv`, that a thread runs
on one CPU, whose `CPU_THREAD` is visible as long as the thread runs, and that a
thread past the waiters test of `mutex_exit` is running, since a switch takes it
back to the test; `WordInv`, that the word names the holder until the clear in a
store buffer is visible; `ControlInv`, `ChainInv`, `ContentInv`, `QueueInv` and
`WakeupInv` as above, simpler since a mutex wakes everybody; and the two that
carry `NoMissedWakeup`:

* `SleeperInv`: nobody is asleep on a mutex whose owner is past the test or whose
  clear is under way, unless the wakeup is in progress;
* `SearchInv`: if the owner passed the test before the waiters bit was set, it is
  still on a CPU that the second search has yet to look at. This is the argument
  of the code at `mutex.c:281`: the second search starts after the bit is visible, and
  the owner can leave its CPU only by draining the store buffer or by going back
  to the test.

`MutexNoInversion` (`Spec => []NoPriorityInversion` if `DynamicPri = FALSE`: an
owner that blocks on another mutex keeps its assigned priority, which `CL_SLEEP`
does not guarantee) needs `PriorityInv`, which under the same hypothesis is
inductive relative to `MutexInv`: the `Books` of `Turnstile` as for the
readers/writer locks; `CoverInv`, which excepts the cursor of the walk and the
mutex whose sleepers are being woken; `InheritInv`, that only the owner of a
mutex inherits from its turnstile, or the thread that has cleared the word and
has yet to waive; and `WalkInv`, that the cursor is there only during the walk.
That the owner cannot change while somebody sleeps, although `mutex_exit` takes
no lock, is `SleeperInv` once more.

### Semaphores

`SemaphoreProofs` proves for every value of the constants that satisfies
`SemaphoreAssumption` (finitely many threads, natural numbers for priorities and
counts):

* `UnitsServed`: `Spec => []NoLostV`;
* `SignalsSeen`: `Spec => []SignalWakes`.

Its inductive invariant `SemInv` adds the types and `SlpqInv`: the queue has no
duplicates and only threads at `look` or `swtch`. That is what makes the count
of `NoLostV` work: a thread that `sema_v` or an interrupted thread takes off the
queue was not on its way before and is now, so that the unit and the thread
appear together (`SetPlus`), or the woken thread takes the place of the one that
leaves (`SetSwap`).

### Condition variables

`CondVarProofs` proves all six properties of the run `condvar` for any waiters,
posters, condition variables, deadlines and any `CV_MAX_WAITERS`
(`CvWaitersExact`, `CvNoLostWakeup`, `CvCalloutInWait`, `CvReturnHonest`,
`CvSignalEndsWait`, `CvTimedWaitEnds`). `CvInv` adds to them `MonitorInv` (who
has the mutex, and that a waiter keeps it between its test for a unit and
`cv_block`, so that the unit it missed cannot be posted before it is on the
queue), `AsleepInv` (where a sleeper can be), `CalloutInv` (a callout is never
due before the deadline, and gone before `untimeout` only if it has run) and
`RetInv` (what the return value says at every point, not only at the return).
`NoLostWakeup` needs one argument per way off the queue: the thread that
`cv_signal`, `setrun` from a signal or from a timeout takes off becomes one that
accounts for a unit; a poster stops accounting for one only when it finds nobody
asleep or has woken somebody (`Flow`).

### Timeouts and soft interrupts

`CallProofs` proves all safety properties of the runs `callout_normal` and
`callout_realtime`, for any clients, structures, callout threads, CPUs, functions
and delays, any lag (`MaxLag` is any number) and any layout of the ids that
satisfies `CalloutAssumption` and `SoftintAssumption`. These say that clients are
neither callout threads nor CPUs (a handler that calls `untimeout()` on its own
callout is `SelfUntimeout`), that there is a structure for every client (a failed
allocation is a panic), that the id counter starts above the table bits and ends
below `COUNTER_HIGH`, and that `softcall()` is used for at most `NSOFTCALLS`
different functions (an assumption about the callers, on which that part of
`TypeSafe` rests), none of which is one of the two labels of `softint()`:

* `CalloutInvariant`: `Spec => []CalloutInv`;
* `TypeSafe`: `Spec => []TypeOK`;
* `CancelFinal`: `Spec => []UntimeoutFinal`;
* `CancelTruthful`: `Spec => []UntimeoutTruthful`;
* `NoCalloutSkipped`: `Spec => []NoneSkipped`;
* `StructuresSafe`: `Spec => []StructsConserved`;
* `NoLostBroadcast`: `Spec => []SleepersAwaited`, a client asleep in
  `untimeout()` has an executor inside its handler that will broadcast;
* `SoftcallWatched`: `Spec => []NoLostSoftcall`.

`CalloutInv` has one part per promise. `StructsOK`: the chain and the freelist
hold a structure once, and not both. `ExecOK`: the marked callouts are the ones
inside a handler, one executor each. `IdsOK` and `ClientsOK`: a hashed callout
has the id of its client, with or without the mark, and no two clients have the
same id; so `untimeout()` finds its own callout or none. `RanOK`: a pending
callout has not run, a marked one has been called once, one that is gone has run
or was cancelled. `WaitsOK`: a client in `untimeout()` waits for the structure of
its own callout, and if that has been reused in the meantime the id it compares
with is not in it. `TimesOK` is what `NoneSkipped` needs: `ct_runtime` is at most
one tick ahead of `lbolt`, no pending callout is before it, and, of the callouts
of one time, those being executed precede in the chain those still to be called.
This last part is the comment in `callout_execute` on why it may go on behind the
callout it has finished (`callout.c:258-261`), made precise: a new callout goes to
the head of the chain but is at least one tick ahead, so none that is due can be
in front of an executing one.

The step from one handler to the next in one critical section has a state in
between that no other thread sees, so the parts take the chain, the ids and the
executors as arguments, and `ExecuteDone` is proved as an end followed by a scan.
`TypeOK` needs arithmetic on the ids (`NextIdIssued`): subtracting `COUNTER_LOW`
and setting `COUNTER_HIGH` again keeps the table bits and the kind of the id, and
never gives 0, also when the counter wraps.

### Callbacks and checkpoints

The same module proves `CallbInvariant` (`CallbSpec => []CallbInv`) and from it
the safety properties of the run `callb`, for any finite sets of daemons and
structures: `CallbacksAlive` (`CallbackValid`), `CheckpointFrozen`
(`FrozenStopped`) and `ResumeComplete` (`AllResumed`).

The parts of `CallbInv`: `ListsOK`, the list of the class and the free list have
no structure in common and neither meets itself; `DaemonsOK`, the listed
structures are exactly those of the registered daemons, each with the flags that
the walk gives it, and a daemon is marked safe unless it works; `WalkOK`, where
the walk can be; `SeenOK`, every listed callback that the walk has not still to
call (`ToCall`) has been called, with the code of this walk; `CheckOK`, a daemon
that has been looked at does not work. `CallbackValid` rests on the executing
flag: the structure the walk stands on is listed. `AllResumed` rests on `SeenOK`,
for which a deletion must leave the rest of the walk as it was. `FrozenStopped`
needs both ends of `SeenOK`: a daemon is let out of its safe region only when it
has not been told to stop, and by the time of the check all have been told.

A list is the least set closed under its links, so what an insertion, a deletion
and a step of the walk do to it follows from closure and needs no induction:
`ReachUnfold` (one step along the list), `ReachSame` (links outside a list do not
matter to it), `ReachCut` and `CutAcyclic` (unlinking one structure takes just
that one out, from every point of the list on).

### Dispatcher

`DispProofs` proves, for any CPUs, threads, priorities and bindings that satisfy
`DispAssumption`:

* `DispOnce`: `Spec => []DispatchedOnce`;
* `DispPreempts`: `Spec => []NoMissedPreemption`, for sequentially consistent
  memory, as everything in `Disp`;
* `DispKpNoticed`: `Spec => []KpNoticed`, if `kpreemptpri <= kpqpri`. `disp.c`
  sets `kpqpri` to `kpreemptpri` (174-176, 252-254); only a tuned value breaks
  it, and `cpu_resched` then does not ask for kernel preemption when a thread
  between the two is queued;
* `DispVisible`: `Spec => [](UnboundVisible /\ KpqUnbound)`, if `BoundForGood`: no
  thread that can have a priority of the shared queue changes its binding. The
  run `disp_bind` violates `KpqUnbound` without it, and the observation on hidden
  threads in section 3 says why `UnboundVisible` needs it too. Other threads may
  be bound and unbound at any time.

`DispInv` is inductive: the types; `QueueInv`, the queues hold exactly the
runnable threads, each once, on its `t_disp_queue` and in the list of its
priority, with `disp_maxrunpri` the highest nonempty list; and `CpuInv`, a
dispatched thread belongs to the CPU that chose it, and no thread is on two
CPUs. The second half of `CpuInv` needs the spin of `resume` on `t_lock`: a
thread may be on a run queue, and be chosen elsewhere, before the CPU it leaves
has switched away from it. TLC checks `DispInv` on the instance of the run
`disp`, with `KpHigh` and `KpWaited`.

The other properties are about what a step does to each CPU, so every action is
summarised once: the choice of CPU `c` stays and its flags are not cleared
(`Quiet`) or `c` has just looked at both queues and decided (`Answered`); if its
own queue got a higher priority, that insertion is pending with the lock held, and
the lock is dropped by telling `c` (`Told`); the shared queue
grows only by an insertion that is announced (`KpStep`) and only by priorities
of `kpqpri` and above (`HighStep`). `NoMissedPreemption`, which speaks of the
moments at which the lock of the queue is free (`Unlocked`), is inductive over
these summaries together with `FirstPending`: while the lock is held, what was
put on the queue is its first thread, so that the message is about the right
priority. `KpNoticed` needs `KpWaited`, which says that between insertion and
announcement the previous top of the queue is still waited for, and `KpHigh`:
without it a thread below `kpreemptpri` on the shared queue raises no kernel
preemption. `UnboundVisible` rests on `disp_fix_unbound_pri` lowering
`disp_max_unbound_pri` only past lists without an unbound thread; on the shared
queue an insertion raises it only for the first thread of a list, which is
enough only if the threads already there are unbound (`KpqFree`), so that the
two are proved together.

### Only model-checked

Liveness (`TopWaiterServed`, `SleeperServed`, `DueRuns`, `UntimeoutReturns`,
`CheckpointEnds`): proofs under fairness are out of the prover's reach. TLC also
finds no deadlock where the runs check for one; that the panics of the lock code
are unreachable is not stated as a theorem.

## 5. Not modelled

Within the modelled files: spin mutexes and the selection of a mutex type in
`mutex_init`, lockstat probes and statistics, the behaviour of locks during a
panic, other processors' assembly (the SPARC variants differ in their memory
order). `turnstile_unsleep` is unreachable by design. Semaphores of a panicking
system; job control stops inside `issig()`; the wrap of `lbolt`; the failure of
an allocation in `callout_alloc`, a panic; the distribution of callouts over
several tables, which do not interact; handlers that wait for each other in
`untimeout()`, an error of the client. `cv_wait_sig_swap`, which is
`cv_wait_sig` for a thread that may be swapped out. Callbacks that are always
safe. In the dispatcher: swapping, CPU partitions, CPUs going off line, interrupt
threads and handoffs, the choice of a CPU for balance, liveness (a thread of low
priority may starve by design).

Of the components of the table in section 1, everything from the scheduling
classes on, which is most of the operating system by size: protocol stacks,
file systems, virtual memory, drivers and commands are each a project of their
own. PROJECT.json gives the reason for each.

## 6. Plan

1. `Shuttle` (`shuttle.c`): the handoff of a CPU past the run queues, on top of
   `Disp`; then CPUs going off line.
2. STREAMS perimeters (`putnext.c`); record locks (`flock.c`): the deadlock test
   against a graph that changes.
3. Proofs: the absence of panics in `RWLock`, which needs the acyclicity of
   blocking chains; a refinement of the callout table to an abstract timer.
