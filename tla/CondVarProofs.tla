--------------------------- MODULE CondVarProofs ---------------------------
(***************************************************************************)
(* The safety properties of CondVar hold for any sets of waiters, posters  *)
(* and condition variables, any waits, priorities and deadlines, and any   *)
(* value of CV_MAX_WAITERS.                                                *)
(***************************************************************************)
EXTENDS CondVar, SleepQProofs

WaiterLabels == {"run", "arm", "block", "exit", "look", "swtch", "enter",
                 "untimeout", "stopcheck", "stopped", "sigcheck", "issig",
                 "returned"}
PosterLabels == {"run", "test", "notify", "notified"}

CvTypeOK ==
    /\ cv_waiters \in [Cvs -> 0..CV_MAX_WAITERS]
    /\ sq_queue \in Seq(Threads)
    /\ t_wchan \in [Threads -> Cvs \cup {NULL}]
    /\ t_pri \in [Threads -> Priorities]
    /\ mp \in Threads \cup Posters \cup {NULL}
    /\ pc \in [Threads \cup Posters -> WaiterLabels \cup PosterLabels]
    /\ \A t \in Threads : pc[t] \in WaiterLabels
    /\ \A u \in Posters : pc[u] \in PosterLabels
    /\ call \in [Threads -> [op : Operations, cv : Cvs] \cup {NULL}]
    /\ left \in [Threads -> Nat]
    /\ callout \in [Threads -> {"none", "pending", "executing"}]
    /\ due \in [Threads -> Nat]
    /\ ret \in [Threads -> {-1, 0, 1}]
    /\ sig \in [Threads -> BOOLEAN]
    /\ posted \in SUBSET Threads
    /\ units \in [Cvs -> Nat]
    /\ note \in [Posters -> Cvs \cup {NULL}]

(* Who holds the mutex, and which wait a thread is in.  Between its test   *)
(* for a unit and cv_block a waiter keeps the mutex, so the unit it missed *)
(* cannot be posted before it is on the queue.                             *)
MonitorInv ==
    /\ \A t \in Threads :
        /\ pc[t] = "run" <=> call[t] = NULL
        /\ \/ pc[t] \in {"arm", "block", "exit", "sigcheck", "returned"}
           \/ pc[t] = "untimeout" /\ call[t].op = "timedwait_sig"
           => mp = t
        /\ pc[t] \in {"arm", "block"} => units[call[t].cv] = 0
        /\ pc[t] \in {"arm", "untimeout"} => Timed(call[t].op)
        /\ pc[t] \in {"sigcheck", "issig"} => Interruptible(call[t].op)
        /\ pc[t] \in {"stopcheck", "stopped"} => call[t].op = "wait_stop"
    /\ \A u \in Posters : pc[u] \in {"test", "notify"} => note[u] \in Cvs

(* The queue and the channels of the threads on it.                        *)
QueueInv ==
    /\ NoDup(sq_queue) /\ Sorted(sq_queue, t_pri)
    /\ \A t \in Threads : Asleep(t) <=> t_wchan[t] # NULL

AsleepInv ==
    \A t \in Threads : Asleep(t) =>
        /\ pc[t] \in {"exit", "look", "swtch"}
        /\ t_wchan[t] = call[t].cv

CountInv ==
    \A c \in Cvs : cv_waiters[c] < CV_MAX_WAITERS
                    => cv_waiters[c] = Cardinality(Sleepers(c))

(* A timed wait between the arming of its callout and untimeout.           *)
CalloutArmed(t) ==
    /\ call[t] # NULL /\ Timed(call[t].op)
    /\ \/ pc[t] \in {"block", "exit", "look", "swtch", "untimeout"}
       \/ pc[t] = "enter" /\ call[t].op = "timedwait_sig"

(* The callout is never due before the deadline of the wait, and is gone   *)
(* before untimeout only if it has run, after the deadline.                *)
CalloutInv ==
    \A t \in Threads :
        /\ callout[t] # "none" => CalloutArmed(t)
        /\ pc[t] = "arm" \/ callout[t] = "pending" => left[t] <= due[t]
        /\ callout[t] = "executing" => left[t] = 0
        /\ CalloutArmed(t) /\ callout[t] = "none" => left[t] = 0

RetInv ==
    \A t \in Threads :
        /\ ret[t] = -1 => call[t] # NULL /\ Timed(call[t].op) /\ left[t] = 0
        /\ ret[t] = 0 => /\ pc[t] = "returned"
                         /\ Interruptible(call[t].op) /\ sig[t]

CvInv ==
    /\ CvTypeOK /\ MonitorInv /\ QueueInv /\ AsleepInv /\ CountInv
    /\ CalloutInv /\ RetInv /\ SignalEndsWait /\ TimedWaitEnds
    /\ NoLostWakeup
-----------------------------------------------------------------------------
(* A step that leaves the queue alone keeps what is said of the queue.     *)
LEMMA SameQueue ==
    ASSUME CvInv, UNCHANGED queueVars
    PROVE  /\ QueueInv' /\ CountInv'
           /\ \A t \in Threads : Asleep(t)' <=> Asleep(t)
           /\ \A c \in Cvs : Sleepers(c)' = Sleepers(c)
BY DEF CvInv, queueVars, QueueInv, CountInv, Asleep, Sleepers

PcType(p) ==
    /\ p \in [Threads \cup Posters -> WaiterLabels \cup PosterLabels]
    /\ \A t \in Threads : p[t] \in WaiterLabels
    /\ \A u \in Posters : p[u] \in PosterLabels

(* A waiter, or a poster, goes to another label, and nobody else does.     *)
WaiterAt(t, l) ==
    /\ PcType(pc') /\ pc'[t] = l
    /\ \A s \in Threads : s # t => pc'[s] = pc[s]
    /\ \A u \in Posters : pc'[u] = pc[u]

PosterAt(u, l) ==
    /\ PcType(pc') /\ pc'[u] = l
    /\ \A v \in Posters : v # u => pc'[v] = pc[v]
    /\ \A t \in Threads : pc'[t] = pc[t]

LEMMA WaiterGoes ==
    ASSUME CvTypeOK, NEW t \in Threads, NEW l \in WaiterLabels, Goto(t, l)
    PROVE  WaiterAt(t, l)
BY CondVarAssumption DEF CvTypeOK, PcType, Goto, WaiterAt

LEMMA PosterGoes ==
    ASSUME CvTypeOK, NEW u \in Posters, NEW l \in PosterLabels, Goto(u, l)
    PROVE  PosterAt(u, l)
BY CondVarAssumption DEF CvTypeOK, PcType, Goto, PosterAt

(* The threads and the posters that can account for units of c, before and *)
(* after a step, as finite sets, and what NoLostWakeup says of them.       *)
FlowFacts(c, R, N, Rn, Nn) ==
    /\ R = Returning(c) /\ Rn = Returning(c)'
    /\ N = Notifying(c) /\ Nn = Notifying(c)'
    /\ IsFiniteSet(R) /\ IsFiniteSet(Rn) /\ IsFiniteSet(N) /\ IsFiniteSet(Nn)
    /\ Cardinality(R) \in Nat /\ Cardinality(Rn) \in Nat
    /\ Cardinality(N) \in Nat /\ Cardinality(Nn) \in Nat
    /\ Sleepers(c) # {} => units[c] <= Cardinality(R) + Cardinality(N)

NoLostOn(c) ==
    Sleepers(c) # {} =>
        units[c] <= Cardinality(Returning(c)) + Cardinality(Notifying(c))

LEMMA Flow ==
    ASSUME CvInv, NEW c \in Cvs
    PROVE  \E R, N, Rn, Nn : FlowFacts(c, R, N, Rn, Nn)
<1>1. PICK R : R = Returning(c)
  OBVIOUS
<1>2. PICK Rn : Rn = Returning(c)'
  OBVIOUS
<1>3. PICK N : N = Notifying(c)
  OBVIOUS
<1>4. PICK Nn : Nn = Notifying(c)'
  OBVIOUS
<1>5. R \subseteq Threads /\ Rn \subseteq Threads
  BY <1>1, <1>2 DEF Returning
<1>6. N \subseteq Posters /\ Nn \subseteq Posters
  BY <1>3, <1>4 DEF Notifying
<1>7. /\ IsFiniteSet(R) /\ IsFiniteSet(Rn)
      /\ IsFiniteSet(N) /\ IsFiniteSet(Nn)
  BY <1>5, <1>6, CondVarAssumption, FS_Subset
<1>8. /\ Cardinality(R) \in Nat /\ Cardinality(Rn) \in Nat
      /\ Cardinality(N) \in Nat /\ Cardinality(Nn) \in Nat
  BY <1>7, FS_CardinalityType
<1>9. Sleepers(c) # {} => units[c] <= Cardinality(R) + Cardinality(N)
  BY <1>1, <1>3 DEF CvInv, NoLostWakeup
<1> QED BY <1>1, <1>2, <1>3, <1>4, <1>7, <1>8, <1>9 DEF FlowFacts

(* NoLostWakeup on one condition variable is kept by a step that queues    *)
(* nobody on it, posts nothing on it, and takes nobody off the two sets;   *)
(* by one that takes a unit and a thread; and by one that posts a unit and *)
(* adds a poster.                                                          *)
LEMMA FlowKept ==
    ASSUME CvInv, NEW c \in Cvs, units'[c] \in Nat, units'[c] <= units[c],
           Sleepers(c)' \subseteq Sleepers(c),
           Returning(c) \subseteq Returning(c)',
           Notifying(c) \subseteq Notifying(c)'
    PROVE  NoLostOn(c)'
<1>1. PICK R, N, Rn, Nn : FlowFacts(c, R, N, Rn, Nn)
  BY Flow
<1>2. Cardinality(R) <= Cardinality(Rn) /\ Cardinality(N) <= Cardinality(Nn)
  BY <1>1, SetGrows DEF FlowFacts
<1>3. Sleepers(c)' # {} => units'[c] <= Cardinality(Rn) + Cardinality(Nn)
  <2>1. units[c] \in Nat
    BY DEF CvInv, CvTypeOK
  <2>2. Sleepers(c)' # {} => units[c] <= Cardinality(R) + Cardinality(N)
    BY <1>1 DEF FlowFacts
  <2> QED BY <2>1, <2>2, <1>1, <1>2 DEF FlowFacts
<1> QED BY <1>1, <1>3 DEF FlowFacts, NoLostOn

LEMMA FlowSame ==
    ASSUME CvInv, UNCHANGED <<units, call, note>>,
           \A c \in Cvs : Sleepers(c)' \subseteq Sleepers(c),
           \A t \in Threads : Asleep(t)' => Asleep(t),
           \A t \in Threads : pc'[t] \in {"arm", "block"}
                                => pc[t] \in {"arm", "block"},
           \A u \in Posters : pc[u] \in {"test", "notify"}
                                => pc'[u] \in {"test", "notify"}
    PROVE  NoLostWakeup'
<1>1. SUFFICES ASSUME NEW c \in Cvs PROVE NoLostOn(c)'
  BY DEF NoLostWakeup, NoLostOn
<1>2. Returning(c) \subseteq Returning(c)' /\ Notifying(c) \subseteq Notifying(c)'
  BY DEF Returning, Notifying
<1>3. units'[c] \in Nat /\ units'[c] <= units[c]
  BY DEF CvInv, CvTypeOK
<1> QED BY <1>2, <1>3, FlowKept

LEMMA FlowTaken ==
    ASSUME CvInv, NEW c \in Cvs, NEW t \in Returning(c),
           units'[c] \in Nat, units'[c] = 0 \/ units'[c] = units[c] - 1,
           Sleepers(c)' \subseteq Sleepers(c),
           Returning(c) \ {t} \subseteq Returning(c)',
           Notifying(c) \subseteq Notifying(c)'
    PROVE  NoLostOn(c)'
<1>1. PICK R, N, Rn, Nn : FlowFacts(c, R, N, Rn, Nn)
  BY Flow
<1>2. Cardinality(R) <= Cardinality(Rn) + 1 /\ Cardinality(N) <= Cardinality(Nn)
  BY <1>1, SetGrows, SetMinus DEF FlowFacts
<1>3. Sleepers(c)' # {} => units'[c] <= Cardinality(Rn) + Cardinality(Nn)
  <2>1. units[c] \in Nat
    BY DEF CvInv, CvTypeOK
  <2>2. Sleepers(c)' # {} => units[c] <= Cardinality(R) + Cardinality(N)
    BY <1>1 DEF FlowFacts
  <2> QED BY <2>1, <2>2, <1>1, <1>2 DEF FlowFacts
<1> QED BY <1>1, <1>3 DEF FlowFacts, NoLostOn

LEMMA FlowPosted ==
    ASSUME CvInv, NEW c \in Cvs, NEW u \in Notifying(c)', u \notin Notifying(c),
           units'[c] = units[c] + 1,
           Sleepers(c)' \subseteq Sleepers(c),
           Returning(c) \subseteq Returning(c)',
           Notifying(c) \subseteq Notifying(c)'
    PROVE  NoLostOn(c)'
<1>1. PICK R, N, Rn, Nn : FlowFacts(c, R, N, Rn, Nn)
  BY Flow
<1>2. Cardinality(R) <= Cardinality(Rn) /\ Cardinality(N) + 1 <= Cardinality(Nn)
  BY <1>1, SetGrows, SetPlus DEF FlowFacts
<1>3. Sleepers(c)' # {} => units'[c] <= Cardinality(Rn) + Cardinality(Nn)
  <2>1. units[c] \in Nat
    BY DEF CvInv, CvTypeOK
  <2>2. Sleepers(c)' # {} => units[c] <= Cardinality(R) + Cardinality(N)
    BY <1>1 DEF FlowFacts
  <2> QED BY <2>1, <2>2, <1>1, <1>2 DEF FlowFacts
<1> QED BY <1>1, <1>3 DEF FlowFacts, NoLostOn

(* cv_signal: a sleeper becomes a returning thread for the poster that     *)
(* leaves.                                                                 *)
LEMMA FlowHanded ==
    ASSUME CvInv, NEW c \in Cvs, NEW u, NEW t \in Returning(c)',
           t \notin Returning(c), u \in Notifying(c),
           units'[c] = units[c],
           Sleepers(c)' \subseteq Sleepers(c),
           Returning(c) \subseteq Returning(c)',
           Notifying(c) \ {u} \subseteq Notifying(c)'
    PROVE  NoLostOn(c)'
<1>1. PICK R, N, Rn, Nn : FlowFacts(c, R, N, Rn, Nn)
  BY Flow
<1>2. Cardinality(R) + 1 <= Cardinality(Rn) /\ Cardinality(N) <= Cardinality(Nn) + 1
  BY <1>1, SetMinus, SetPlus DEF FlowFacts
<1>3. Sleepers(c)' # {} => units'[c] <= Cardinality(Rn) + Cardinality(Nn)
  <2>1. units[c] \in Nat
    BY DEF CvInv, CvTypeOK
  <2>2. Sleepers(c)' # {} => units[c] <= Cardinality(R) + Cardinality(N)
    BY <1>1 DEF FlowFacts
  <2> QED BY <2>1, <2>2, <1>1, <1>2 DEF FlowFacts
<1> QED BY <1>1, <1>3 DEF FlowFacts, NoLostOn

-----------------------------------------------------------------------------
(* The waiter's steps on the monitor.                                      *)
LEMMA LeaveStep ==
    ASSUME CvInv, NEW t \in Threads, NEW c \in Cvs, Leave(t, c)
    PROVE  CvInv'
<1> USE DEF CvInv, WaiterAt
<1>0. WaiterAt(t, "run")
  BY WaiterGoes DEF Leave, WaiterLabels
<1>1. CvTypeOK'
  <2>1. call' \in [Threads -> [op : Operations, cv : Cvs] \cup {NULL}]
    BY DEF CvTypeOK, Leave
  <2>2. left' \in [Threads -> Nat]
    BY DEF CvTypeOK, Leave
  <2>3. ret' \in [Threads -> {-1, 0, 1}]
    BY DEF CvTypeOK, Leave
  <2>4. sig' \in [Threads -> BOOLEAN]
    BY DEF CvTypeOK, Leave
  <2>5. units' \in [Cvs -> Nat]
    BY DEF CvTypeOK, Leave
  <2> QED BY <1>0, <2>1, <2>2, <2>3, <2>4, <2>5
         DEF CvTypeOK, PcType, Leave, queueVars
<1>2. MonitorInv'
  BY <1>0 DEF CvTypeOK, MonitorInv, Leave, HasMutex
<1>3. QueueInv' /\ CountInv' /\ \A s \in Threads : Asleep(s)' <=> Asleep(s)
  BY SameQueue DEF Leave
<1>4. AsleepInv'
  BY <1>0, <1>3 DEF CvTypeOK, AsleepInv, Leave, HasMutex, queueVars
<1>5. CalloutInv'
  BY <1>0 DEF CvTypeOK, CalloutInv, CalloutArmed, Leave, HasMutex
<1>6. RetInv'
  BY <1>0 DEF CvTypeOK, RetInv, Leave, HasMutex
<1>7. SignalEndsWait' /\ TimedWaitEnds'
  BY <1>0, <1>3 DEF CvTypeOK, SignalEndsWait, TimedWaitEnds, AsleepInv, Leave,
     HasMutex
<1>8. NoLostWakeup'
  <2>1. SUFFICES ASSUME NEW b \in Cvs PROVE NoLostOn(b)'
    BY DEF NoLostWakeup, NoLostOn
  <2>2. Sleepers(b)' = Sleepers(b) /\ Notifying(b)' = Notifying(b)
    BY <1>0, SameQueue DEF Leave, Notifying
  <2>3. \A s \in Threads : s # t => (s \in Returning(b) <=> s \in Returning(b)')
    BY <1>0, <1>3 DEF CvTypeOK, Returning, Leave
  <2>4. CASE t \notin Returning(b)
    <3>1. Returning(b) \subseteq Returning(b)'
      BY <2>3, <2>4 DEF Returning
    <3>2. units'[b] \in Nat /\ units'[b] <= units[b]
      BY DEF CvTypeOK, Leave
    <3> QED BY <2>2, <3>1, <3>2, FlowKept
  <2>5. CASE t \in Returning(b)
    <3>1. b = c /\ pc[t] = "returned"
      BY <2>5 DEF Returning, Leave, HasMutex, MonitorInv
    <3>2. units'[b] \in Nat /\ (units'[b] = 0 \/ units'[b] = units[b] - 1)
      BY <3>1 DEF CvTypeOK, Leave
    <3>3. Returning(b) \ {t} \subseteq Returning(b)'
      BY <2>3 DEF Returning
    <3> QED BY <2>2, <2>5, <3>2, <3>3, FlowTaken
  <2> QED BY <2>4, <2>5
<1> QED BY <1>1, <1>2, <1>3, <1>4, <1>5, <1>6, <1>7, <1>8

LEMMA RealtimeTimeoutStep ==
    ASSUME CvInv, NEW t \in Threads, realtime_timeout(t)
    PROVE  CvInv'
<1> USE DEF CvInv, WaiterAt, queueVars, callVars, clockVars, sigVars, userVars
<1>0. WaiterAt(t, "block")
  BY WaiterGoes
  DEF CvTypeOK, MonitorInv, realtime_timeout, Ticks, WaiterLabels, Timed,
      Operations
<1>1. CvTypeOK'
  <2>1. callout' \in [Threads -> {"none", "pending", "executing"}]
    BY DEF CvTypeOK, realtime_timeout, Ticks
  <2>2. due' \in [Threads -> Nat]
    BY DEF CvTypeOK, realtime_timeout, Ticks
  <2> QED BY <1>0, <2>1, <2>2 DEF CvTypeOK, PcType, realtime_timeout, Ticks
<1>2. MonitorInv'
  BY <1>0
  DEF CvTypeOK, MonitorInv, realtime_timeout, Ticks, Timed, Interruptible,
      Operations
<1>3. /\ QueueInv' /\ CountInv' /\ \A s \in Threads : Asleep(s)' <=> Asleep(s)
      /\ \A c \in Cvs : Sleepers(c)' = Sleepers(c)
  BY SameQueue DEF realtime_timeout, Ticks
<1>4. AsleepInv'
  BY <1>0, <1>3 DEF CvTypeOK, AsleepInv, realtime_timeout, Ticks
<1>5. CalloutInv'
  BY <1>0
  DEF CvTypeOK, MonitorInv, CalloutInv, CalloutArmed, realtime_timeout, Ticks,
      Timed, Interruptible, Operations
<1>6. RetInv'
  BY <1>0
  DEF CvTypeOK, MonitorInv, CalloutInv, CalloutArmed, RetInv, realtime_timeout,
      Ticks, Timed, Interruptible, Operations
<1>7. SignalEndsWait' /\ TimedWaitEnds'
  BY <1>0, <1>3
  DEF CvTypeOK, SignalEndsWait, TimedWaitEnds, AsleepInv, CalloutInv,
      CalloutArmed, realtime_timeout, Ticks, Timed, Interruptible, Operations
<1>8. NoLostWakeup'
  BY <1>0, <1>3, FlowSame DEF CvTypeOK, realtime_timeout, Ticks, WaiterLabels
<1> QED BY <1>1, <1>2, <1>3, <1>4, <1>5, <1>6, <1>7, <1>8

LEMMA SchedctlBlockStep ==
    ASSUME CvInv, NEW t \in Threads, schedctl_block(t)
    PROVE  CvInv'
<1> USE DEF CvInv, WaiterAt, queueVars, callVars, clockVars, sigVars, userVars
<1>0. WaiterAt(t, "enter")
  BY WaiterGoes
  DEF CvTypeOK, MonitorInv, schedctl_block, WaiterLabels, Timed, Operations
<1>1. CvTypeOK'
  <2>1. mp' \in Threads \cup Posters \cup {NULL}
    BY DEF CvTypeOK, schedctl_block
  <2> QED BY <1>0, <2>1 DEF CvTypeOK, PcType, schedctl_block
<1>2. MonitorInv'
  BY <1>0
  DEF CvTypeOK, MonitorInv, schedctl_block, Timed, Interruptible, Operations
<1>3. /\ QueueInv' /\ CountInv' /\ \A s \in Threads : Asleep(s)' <=> Asleep(s)
      /\ \A c \in Cvs : Sleepers(c)' = Sleepers(c)
  BY SameQueue DEF schedctl_block
<1>4. AsleepInv'
  BY <1>0, <1>3 DEF CvTypeOK, AsleepInv, schedctl_block
<1>5. CalloutInv'
  BY <1>0
  DEF CvTypeOK, MonitorInv, CalloutInv, CalloutArmed, schedctl_block, Timed,
      Interruptible, Operations
<1>6. RetInv'
  BY <1>0
  DEF CvTypeOK, MonitorInv, CalloutInv, CalloutArmed, RetInv, schedctl_block,
      Timed, Interruptible, Operations
<1>7. SignalEndsWait' /\ TimedWaitEnds'
  BY <1>0, <1>3
  DEF CvTypeOK, SignalEndsWait, TimedWaitEnds, AsleepInv, CalloutInv,
      CalloutArmed, schedctl_block, Timed, Interruptible, Operations
<1>8. NoLostWakeup'
  BY <1>0, <1>3, FlowSame DEF CvTypeOK, schedctl_block, WaiterLabels
<1> QED BY <1>1, <1>2, <1>3, <1>4, <1>5, <1>6, <1>7, <1>8

LEMMA MutexExitStep ==
    ASSUME CvInv, NEW t \in Threads, MutexExit(t)
    PROVE  CvInv'
<1> USE DEF CvInv, WaiterAt, queueVars, callVars, clockVars, sigVars, userVars
<1>0. WaiterAt(t, IF call[t].op = "wait" THEN "swtch" ELSE "look")
  BY WaiterGoes
  DEF CvTypeOK, MonitorInv, MutexExit, WaiterLabels, Timed, Operations
<1>1. CvTypeOK'
  <2>1. mp' \in Threads \cup Posters \cup {NULL}
    BY DEF CvTypeOK, MutexExit
  <2> QED BY <1>0, <2>1 DEF CvTypeOK, PcType, MutexExit
<1>2. MonitorInv'
  BY <1>0 DEF CvTypeOK, MonitorInv, MutexExit, Timed, Interruptible, Operations
<1>3. /\ QueueInv' /\ CountInv' /\ \A s \in Threads : Asleep(s)' <=> Asleep(s)
      /\ \A c \in Cvs : Sleepers(c)' = Sleepers(c)
  BY SameQueue DEF MutexExit
<1>4. AsleepInv'
  BY <1>0, <1>3 DEF CvTypeOK, AsleepInv, MutexExit
<1>5. CalloutInv'
  BY <1>0
  DEF CvTypeOK, MonitorInv, CalloutInv, CalloutArmed, MutexExit, Timed,
      Interruptible, Operations
<1>6. RetInv'
  BY <1>0
  DEF CvTypeOK, MonitorInv, CalloutInv, CalloutArmed, RetInv, MutexExit, Timed,
      Interruptible, Operations
<1>7. SignalEndsWait' /\ TimedWaitEnds'
  BY <1>0, <1>3
  DEF CvTypeOK, SignalEndsWait, TimedWaitEnds, AsleepInv, CalloutInv,
      CalloutArmed, MutexExit, Timed, Interruptible, Operations
<1>8. NoLostWakeup'
  BY <1>0, <1>3, FlowSame DEF CvTypeOK, MutexExit, WaiterLabels
<1> QED BY <1>1, <1>2, <1>3, <1>4, <1>5, <1>6, <1>7, <1>8

LEMMA SwtchStep ==
    ASSUME CvInv, NEW t \in Threads, Swtch(t)
    PROVE  CvInv'
<1> USE DEF CvInv, WaiterAt, queueVars, callVars, clockVars, sigVars, userVars
<1>0. WaiterAt(t, IF call[t].op \in {"timedwait", "wait_stop"} THEN "untimeout"
                  ELSE "enter")
  BY WaiterGoes DEF CvTypeOK, MonitorInv, Swtch, WaiterLabels, Timed, Operations
<1>1. CvTypeOK'
  <2> QED BY <1>0 DEF CvTypeOK, PcType, Swtch
<1>2. MonitorInv'
  BY <1>0 DEF CvTypeOK, MonitorInv, Swtch, Timed, Interruptible, Operations
<1>3. /\ QueueInv' /\ CountInv' /\ \A s \in Threads : Asleep(s)' <=> Asleep(s)
      /\ \A c \in Cvs : Sleepers(c)' = Sleepers(c)
  BY SameQueue DEF Swtch
<1>4. AsleepInv'
  BY <1>0, <1>3 DEF CvTypeOK, AsleepInv, Swtch
<1>5. CalloutInv'
  BY <1>0
  DEF CvTypeOK, MonitorInv, CalloutInv, CalloutArmed, Swtch, Timed, Interruptible,
      Operations
<1>6. RetInv'
  BY <1>0
  DEF CvTypeOK, MonitorInv, CalloutInv, CalloutArmed, RetInv, Swtch, Timed,
      Interruptible, Operations
<1>7. SignalEndsWait' /\ TimedWaitEnds'
  BY <1>0, <1>3
  DEF CvTypeOK, SignalEndsWait, TimedWaitEnds, AsleepInv, CalloutInv,
      CalloutArmed, Swtch, Timed, Interruptible, Operations
<1>8. NoLostWakeup'
  BY <1>0, <1>3, FlowSame DEF CvTypeOK, Swtch, WaiterLabels
<1> QED BY <1>1, <1>2, <1>3, <1>4, <1>5, <1>6, <1>7, <1>8

LEMMA EnterStep ==
    ASSUME CvInv, NEW t \in Threads, Enter(t)
    PROVE  CvInv'
<1> USE DEF CvInv, WaiterAt, queueVars, callVars, clockVars, sigVars, userVars
<1>0. WaiterAt(t, CASE call[t].op = "wait_sig" -> "sigcheck"
                    [] call[t].op = "timedwait_sig" -> "untimeout"
                    [] OTHER -> "returned")
  BY WaiterGoes DEF CvTypeOK, MonitorInv, Enter, WaiterLabels, Timed, Operations
<1>1. CvTypeOK'
  <2>1. mp' \in Threads \cup Posters \cup {NULL}
    BY DEF CvTypeOK, Enter
  <2> QED BY <1>0, <2>1 DEF CvTypeOK, PcType, Enter
<1>2. MonitorInv'
  BY <1>0, CondVarAssumption
  DEF CvTypeOK, MonitorInv, Enter, Timed, Interruptible, Operations
<1>3. /\ QueueInv' /\ CountInv' /\ \A s \in Threads : Asleep(s)' <=> Asleep(s)
      /\ \A c \in Cvs : Sleepers(c)' = Sleepers(c)
  BY SameQueue DEF Enter
<1>4. AsleepInv'
  BY <1>0, <1>3 DEF CvTypeOK, AsleepInv, Enter
<1>5. CalloutInv'
  BY <1>0
  DEF CvTypeOK, MonitorInv, CalloutInv, CalloutArmed, Enter, Timed, Interruptible,
      Operations
<1>6. RetInv'
  BY <1>0
  DEF CvTypeOK, MonitorInv, CalloutInv, CalloutArmed, RetInv, Enter, Timed,
      Interruptible, Operations
<1>7. SignalEndsWait' /\ TimedWaitEnds'
  BY <1>0, <1>3
  DEF CvTypeOK, SignalEndsWait, TimedWaitEnds, AsleepInv, CalloutInv,
      CalloutArmed, Enter, Timed, Interruptible, Operations
<1>8. NoLostWakeup'
  BY <1>0, <1>3, FlowSame DEF CvTypeOK, Enter, WaiterLabels
<1> QED BY <1>1, <1>2, <1>3, <1>4, <1>5, <1>6, <1>7, <1>8

LEMMA UntimeoutStep ==
    ASSUME CvInv, NEW t \in Threads, Untimeout(t)
    PROVE  CvInv'
<1> USE DEF CvInv, WaiterAt, queueVars, callVars, clockVars, sigVars, userVars
<1>0. WaiterAt(t, AfterUntimeout(call[t].op))
  BY WaiterGoes
  DEF CvTypeOK, MonitorInv, Untimeout, AfterUntimeout, HandlerDone, WaiterLabels,
      Timed, Operations
<1>1. CvTypeOK'
  <2>1. ret' \in [Threads -> {-1, 0, 1}]
    BY DEF CvTypeOK, Untimeout, AfterUntimeout, HandlerDone
  <2>2. callout' \in [Threads -> {"none", "pending", "executing"}]
    BY DEF CvTypeOK, Untimeout, AfterUntimeout, HandlerDone
  <2>3. due' \in [Threads -> Nat]
    BY DEF CvTypeOK, Untimeout, AfterUntimeout, HandlerDone
  <2> QED BY <1>0, <2>1, <2>2, <2>3
    DEF CvTypeOK, PcType, Untimeout, AfterUntimeout, HandlerDone
<1>2. MonitorInv'
  BY <1>0
  DEF CvTypeOK, MonitorInv, Untimeout, AfterUntimeout, HandlerDone, Timed,
      Interruptible, Operations
<1>3. /\ QueueInv' /\ CountInv' /\ \A s \in Threads : Asleep(s)' <=> Asleep(s)
      /\ \A c \in Cvs : Sleepers(c)' = Sleepers(c)
  BY SameQueue DEF Untimeout, AfterUntimeout, HandlerDone
<1>4. AsleepInv'
  BY <1>0, <1>3 DEF CvTypeOK, AsleepInv, Untimeout, AfterUntimeout, HandlerDone
<1>5. CalloutInv'
  BY <1>0
  DEF CvTypeOK, MonitorInv, CalloutInv, CalloutArmed, Untimeout, AfterUntimeout,
      HandlerDone, Timed, Interruptible, Operations
<1>6. RetInv'
  BY <1>0
  DEF CvTypeOK, MonitorInv, CalloutInv, CalloutArmed, RetInv, Untimeout,
      AfterUntimeout, HandlerDone, Timed, Interruptible, Operations
<1>7. SignalEndsWait' /\ TimedWaitEnds'
  BY <1>0, <1>3
  DEF CvTypeOK, SignalEndsWait, TimedWaitEnds, AsleepInv, CalloutInv,
      CalloutArmed, Untimeout, AfterUntimeout, HandlerDone, Timed, Interruptible,
      Operations
<1>8. NoLostWakeup'
  <2>1. pc'[t] \notin {"arm", "block"}
    BY <1>0 DEF MonitorInv, Untimeout, AfterUntimeout, Timed
  <2> QED BY <1>0, <1>3, <2>1, FlowSame DEF Untimeout
<1> QED BY <1>1, <1>2, <1>3, <1>4, <1>5, <1>6, <1>7, <1>8

LEMMA StopCheckStep ==
    ASSUME CvInv, NEW t \in Threads, StopCheck(t)
    PROVE  CvInv'
<1> USE DEF CvInv, WaiterAt, queueVars, callVars, clockVars, sigVars, userVars
<1>0. WaiterAt(t, "enter") \/ WaiterAt(t, "stopped")
  BY WaiterGoes
  DEF CvTypeOK, MonitorInv, StopCheck, WaiterLabels, Timed, Operations
<1>1. CvTypeOK'
  <2> QED BY <1>0 DEF CvTypeOK, PcType, StopCheck
<1>2. MonitorInv'
  BY <1>0 DEF CvTypeOK, MonitorInv, StopCheck, Timed, Interruptible, Operations
<1>3. /\ QueueInv' /\ CountInv' /\ \A s \in Threads : Asleep(s)' <=> Asleep(s)
      /\ \A c \in Cvs : Sleepers(c)' = Sleepers(c)
  BY SameQueue DEF StopCheck
<1>4. AsleepInv'
  BY <1>0, <1>3 DEF CvTypeOK, AsleepInv, StopCheck
<1>5. CalloutInv'
  BY <1>0
  DEF CvTypeOK, MonitorInv, CalloutInv, CalloutArmed, StopCheck, Timed,
      Interruptible, Operations
<1>6. RetInv'
  BY <1>0
  DEF CvTypeOK, MonitorInv, CalloutInv, CalloutArmed, RetInv, StopCheck, Timed,
      Interruptible, Operations
<1>7. SignalEndsWait' /\ TimedWaitEnds'
  BY <1>0, <1>3
  DEF CvTypeOK, SignalEndsWait, TimedWaitEnds, AsleepInv, CalloutInv,
      CalloutArmed, StopCheck, Timed, Interruptible, Operations
<1>8. NoLostWakeup'
  BY <1>0, <1>3, FlowSame DEF CvTypeOK, StopCheck, WaiterLabels
<1> QED BY <1>1, <1>2, <1>3, <1>4, <1>5, <1>6, <1>7, <1>8

LEMMA SigCheckStep ==
    ASSUME CvInv, NEW t \in Threads, SigCheck(t)
    PROVE  CvInv'
<1> USE DEF CvInv, WaiterAt, queueVars, callVars, clockVars, sigVars, userVars
<1>0. WaiterAt(t, "returned") \/ WaiterAt(t, "issig")
  BY WaiterGoes
  DEF CvTypeOK, MonitorInv, SigCheck, WaiterLabels, Timed, Operations
<1>1. CvTypeOK'
  <2>1. mp' \in Threads \cup Posters \cup {NULL}
    BY DEF CvTypeOK, SigCheck
  <2>2. ret' \in [Threads -> {-1, 0, 1}]
    BY DEF CvTypeOK, SigCheck
  <2> QED BY <1>0, <2>1, <2>2 DEF CvTypeOK, PcType, SigCheck
<1>2. MonitorInv'
  <2>1. \/ pc'[t] = "returned" /\ mp' = mp
        \/ pc'[t] = "issig" /\ mp' = NULL
    <3>1. t \in DOMAIN pc
      BY DEF CvTypeOK
    <3> QED BY <3>1 DEF SigCheck, Goto
  <2>2. mp = t /\ Interruptible(call[t].op) /\ pc[t] = "sigcheck"
    BY DEF MonitorInv, SigCheck
  <2>3. call' = call /\ units' = units /\ note' = note
    BY DEF SigCheck
  <2> QED BY <1>0, <2>1, <2>2, <2>3 DEF MonitorInv
<1>3. /\ QueueInv' /\ CountInv' /\ \A s \in Threads : Asleep(s)' <=> Asleep(s)
      /\ \A c \in Cvs : Sleepers(c)' = Sleepers(c)
  BY SameQueue DEF SigCheck
<1>4. AsleepInv'
  BY <1>0, <1>3 DEF CvTypeOK, AsleepInv, SigCheck
<1>5. CalloutInv'
  BY <1>0
  DEF CvTypeOK, MonitorInv, CalloutInv, CalloutArmed, SigCheck, Timed,
      Interruptible, Operations
<1>6. RetInv'
  <2>1. ASSUME NEW s \in Threads, s # t
        PROVE  /\ ret'[s] = ret[s] /\ left'[s] = left[s] /\ sig'[s] = sig[s]
               /\ call'[s] = call[s] /\ pc'[s] = pc[s]
    BY <1>0, <2>1 DEF CvTypeOK, SigCheck
  <2>2. ret[t] # 0 /\ Interruptible(call[t].op)
    BY DEF RetInv, MonitorInv, SigCheck
  <2>3. ret'[t] = ret[t] \/ (ret'[t] = 0 /\ sig[t] /\ pc'[t] = "returned")
    <3>1. t \in DOMAIN pc /\ t \in DOMAIN ret
      BY DEF CvTypeOK
    <3> QED BY <3>1 DEF SigCheck, Goto
  <2>4. call' = call /\ left' = left /\ sig' = sig
    BY DEF SigCheck
  <2> QED BY <2>1, <2>2, <2>3, <2>4 DEF RetInv
<1>7. SignalEndsWait' /\ TimedWaitEnds'
  BY <1>0, <1>3
  DEF CvTypeOK, SignalEndsWait, TimedWaitEnds, AsleepInv, CalloutInv,
      CalloutArmed, SigCheck, Timed, Interruptible, Operations
<1>8. NoLostWakeup'
  BY <1>0, <1>3, FlowSame DEF CvTypeOK, SigCheck, WaiterLabels
<1> QED BY <1>1, <1>2, <1>3, <1>4, <1>5, <1>6, <1>7, <1>8

LEMMA IssigStep ==
    ASSUME CvInv, NEW t \in Threads, issig(t)
    PROVE  CvInv'
<1> USE DEF CvInv, WaiterAt, queueVars, callVars, clockVars, sigVars, userVars
<1>0. WaiterAt(t, "returned")
  BY WaiterGoes DEF CvTypeOK, MonitorInv, issig, WaiterLabels, Timed, Operations
<1>1. CvTypeOK'
  <2>1. mp' \in Threads \cup Posters \cup {NULL}
    BY DEF CvTypeOK, issig
  <2>2. ret' \in [Threads -> {-1, 0, 1}]
    BY DEF CvTypeOK, issig
  <2>3. sig' \in [Threads -> BOOLEAN]
    BY DEF CvTypeOK, issig
  <2> QED BY <1>0, <2>1, <2>2, <2>3 DEF CvTypeOK, PcType, issig
<1>2. MonitorInv'
  BY <1>0, CondVarAssumption
  DEF CvTypeOK, MonitorInv, issig, Timed, Interruptible, Operations
<1>3. /\ QueueInv' /\ CountInv' /\ \A s \in Threads : Asleep(s)' <=> Asleep(s)
      /\ \A c \in Cvs : Sleepers(c)' = Sleepers(c)
  BY SameQueue DEF issig
<1>4. AsleepInv'
  BY <1>0, <1>3 DEF CvTypeOK, AsleepInv, issig
<1>5. CalloutInv'
  BY <1>0
  DEF CvTypeOK, MonitorInv, CalloutInv, CalloutArmed, issig, Timed, Interruptible,
      Operations
<1>6. RetInv'
  <2>1. ASSUME NEW s \in Threads, s # t
        PROVE  /\ ret'[s] = ret[s] /\ left'[s] = left[s] /\ sig'[s] = sig[s]
               /\ call'[s] = call[s] /\ pc'[s] = pc[s]
    BY <1>0, <2>1 DEF CvTypeOK, issig
  <2>2. ret[t] # 0 /\ Interruptible(call[t].op)
    BY DEF RetInv, MonitorInv, issig
  <2>3. ret'[t] = ret[t] \/ (ret'[t] = 0 /\ sig'[t] /\ pc'[t] = "returned")
    BY <1>0 DEF CvTypeOK, issig
  <2>4. call' = call /\ left' = left
    BY DEF issig
  <2> QED BY <2>1, <2>2, <2>3, <2>4 DEF RetInv
<1>7. SignalEndsWait' /\ TimedWaitEnds'
  <2>1. ~Asleep(t)
    BY DEF AsleepInv, issig
  <2>2. \A s \in Threads : s # t => sig'[s] = sig[s] /\ pc'[s] = pc[s]
    BY <1>0 DEF CvTypeOK, issig
  <2>3. UNCHANGED <<call, left, callout, posted>>
    BY DEF issig
  <2> QED BY <1>3, <2>1, <2>2, <2>3 DEF SignalEndsWait, TimedWaitEnds
<1>8. NoLostWakeup'
  BY <1>0, <1>3, FlowSame DEF CvTypeOK, issig, WaiterLabels
<1> QED BY <1>1, <1>2, <1>3, <1>4, <1>5, <1>6, <1>7, <1>8

LEMMA CalloutStartStep ==
    ASSUME CvInv, NEW t \in Threads, CalloutStart(t)
    PROVE  CvInv'
<1> USE DEF CvInv, WaiterAt, queueVars, callVars, clockVars, sigVars, userVars
<1>0. pc' = pc
  BY DEF CalloutStart
<1>1. CvTypeOK'
  <2>1. callout' \in [Threads -> {"none", "pending", "executing"}]
    BY DEF CvTypeOK, CalloutStart
  <2> QED BY <1>0, <2>1 DEF CvTypeOK, PcType, CalloutStart
<1>2. MonitorInv'
  BY <1>0 DEF CvTypeOK, MonitorInv, CalloutStart, Timed, Interruptible, Operations
<1>3. /\ QueueInv' /\ CountInv' /\ \A s \in Threads : Asleep(s)' <=> Asleep(s)
      /\ \A c \in Cvs : Sleepers(c)' = Sleepers(c)
  BY SameQueue DEF CalloutStart
<1>4. AsleepInv'
  BY <1>0, <1>3 DEF CvTypeOK, AsleepInv, CalloutStart
<1>5. CalloutInv'
  BY <1>0
  DEF CvTypeOK, MonitorInv, CalloutInv, CalloutArmed, CalloutStart, Timed,
      Interruptible, Operations
<1>6. RetInv'
  BY <1>0
  DEF CvTypeOK, MonitorInv, CalloutInv, CalloutArmed, RetInv, CalloutStart, Timed,
      Interruptible, Operations
<1>7. SignalEndsWait' /\ TimedWaitEnds'
  BY <1>0, <1>3
  DEF CvTypeOK, SignalEndsWait, TimedWaitEnds, AsleepInv, CalloutInv,
      CalloutArmed, CalloutStart, Timed, Interruptible, Operations
<1>8. NoLostWakeup'
  BY <1>0, <1>3, FlowSame DEF CvTypeOK, CalloutStart, WaiterLabels
<1> QED BY <1>1, <1>2, <1>3, <1>4, <1>5, <1>6, <1>7, <1>8

LEMMA SigPostStep ==
    ASSUME CvInv, NEW t \in Threads, SigPost(t)
    PROVE  CvInv'
<1> USE DEF CvInv, WaiterAt, queueVars, callVars, clockVars, sigVars, userVars
<1>0. pc' = pc
  BY DEF SigPost
<1>1. CvTypeOK'
  <2>1. sig' \in [Threads -> BOOLEAN]
    BY DEF CvTypeOK, SigPost
  <2>2. posted' \in SUBSET Threads
    BY DEF CvTypeOK, SigPost
  <2> QED BY <1>0, <2>1, <2>2 DEF CvTypeOK, PcType, SigPost
<1>2. MonitorInv'
  BY <1>0 DEF CvTypeOK, MonitorInv, SigPost, Timed, Interruptible, Operations
<1>3. /\ QueueInv' /\ CountInv' /\ \A s \in Threads : Asleep(s)' <=> Asleep(s)
      /\ \A c \in Cvs : Sleepers(c)' = Sleepers(c)
  BY SameQueue DEF SigPost
<1>4. AsleepInv'
  BY <1>0, <1>3 DEF CvTypeOK, AsleepInv, SigPost
<1>5. CalloutInv'
  BY <1>0
  DEF CvTypeOK, MonitorInv, CalloutInv, CalloutArmed, SigPost, Timed,
      Interruptible, Operations
<1>6. RetInv'
  BY <1>0
  DEF CvTypeOK, MonitorInv, CalloutInv, CalloutArmed, RetInv, SigPost, Timed,
      Interruptible, Operations
<1>7. SignalEndsWait' /\ TimedWaitEnds'
  BY <1>0, <1>3
  DEF CvTypeOK, SignalEndsWait, TimedWaitEnds, AsleepInv, CalloutInv,
      CalloutArmed, SigPost, Timed, Interruptible, Operations
<1>8. NoLostWakeup'
  BY <1>0, <1>3, FlowSame DEF CvTypeOK, SigPost, WaiterLabels
<1> QED BY <1>1, <1>2, <1>3, <1>4, <1>5, <1>6, <1>7, <1>8

LEMMA TickStep ==
    ASSUME CvInv, Tick
    PROVE  CvInv'
<1> USE DEF CvInv, WaiterAt, queueVars, callVars, clockVars, sigVars, userVars
<1>0. pc' = pc
  BY DEF Tick
<1>1. CvTypeOK'
  <2>1. left' \in [Threads -> Nat]
    BY DEF CvTypeOK, Tick
  <2>2. due' \in [Threads -> Nat]
    BY DEF CvTypeOK, Tick
  <2> QED BY <1>0, <2>1, <2>2 DEF CvTypeOK, PcType, Tick
<1>2. MonitorInv'
  BY <1>0 DEF CvTypeOK, MonitorInv, Tick, Timed, Interruptible, Operations
<1>3. /\ QueueInv' /\ CountInv' /\ \A s \in Threads : Asleep(s)' <=> Asleep(s)
      /\ \A c \in Cvs : Sleepers(c)' = Sleepers(c)
  BY SameQueue DEF Tick
<1>4. AsleepInv'
  BY <1>0, <1>3 DEF CvTypeOK, AsleepInv, Tick
<1>5. CalloutInv'
  BY <1>0
  DEF CvTypeOK, MonitorInv, CalloutInv, CalloutArmed, Tick, Timed, Interruptible,
      Operations
<1>6. RetInv'
  BY <1>0
  DEF CvTypeOK, MonitorInv, CalloutInv, CalloutArmed, RetInv, Tick, Timed,
      Interruptible, Operations
<1>7. SignalEndsWait' /\ TimedWaitEnds'
  BY <1>0, <1>3
  DEF CvTypeOK, SignalEndsWait, TimedWaitEnds, AsleepInv, CalloutInv,
      CalloutArmed, Tick, Timed, Interruptible, Operations
<1>8. NoLostWakeup'
  BY <1>0, <1>3, FlowSame DEF CvTypeOK, Tick, WaiterLabels
<1> QED BY <1>1, <1>2, <1>3, <1>4, <1>5, <1>6, <1>7, <1>8

LEMMA CvWaitStep ==
    ASSUME CvInv, NEW t \in Threads, NEW w \in Calls[t], NEW d \in Deltas,
           cv_wait(t, w, d)
    PROVE  CvInv'
<1> USE DEF CvInv, WaiterAt, queueVars, sigVars, userVars
<1>0. /\ w \in [op : Operations, cv : Cvs] /\ w # NULL /\ d \in Nat /\ w.cv \in Cvs
      /\ w.op \in Operations
  BY CondVarAssumption
<1>1. /\ \/ pc[t] = "run" /\ mp = NULL /\ call[t] = NULL
         \/ pc[t] = "returned" /\ mp = t /\ call[t].cv = w.cv
      /\ callout[t] = "none" /\ ~Asleep(t)
  BY DEF cv_wait, HasMutex, MonitorInv, CalloutInv, CalloutArmed, AsleepInv
<1>2. \E l \in {"block", "arm", "sigcheck", "returned"}, r \in {-1, 1} :
        /\ Goto(t, l) /\ ret' = [ret EXCEPT ![t] = r]
        /\ r = -1 => Timed(w.op) /\ d = 0
        /\ l = "block" => ~Timed(w.op)
        /\ l = "arm" => Timed(w.op)
        /\ l = "sigcheck" => Interruptible(w.op)
  BY <1>0 DEF cv_wait
<1>3. PICK l \in {"block", "arm", "sigcheck", "returned"}, r \in {-1, 1} :
        /\ Goto(t, l) /\ ret' = [ret EXCEPT ![t] = r]
        /\ r = -1 => Timed(w.op) /\ d = 0
        /\ l = "block" => ~Timed(w.op)
        /\ l = "arm" => Timed(w.op)
        /\ l = "sigcheck" => Interruptible(w.op)
  BY <1>2
<1>4. WaiterAt(t, l)
  BY <1>3, WaiterGoes DEF WaiterLabels
<1>5. /\ call' = [call EXCEPT ![t] = w] /\ mp' = t /\ units[w.cv] = 0
      /\ left' = [left EXCEPT ![t] = IF Timed(w.op) THEN d ELSE 0]
      /\ due' = [due EXCEPT ![t] = IF Timed(w.op) THEN d ELSE 0]
      /\ UNCHANGED <<queueVars, callout, sigVars, userVars>>
  BY DEF cv_wait
<1>6. /\ \A s \in Threads : s # t => /\ call'[s] = call[s] /\ left'[s] = left[s]
                                     /\ due'[s] = due[s] /\ ret'[s] = ret[s]
      /\ call'[t] = w /\ ret'[t] = r /\ left'[t] \in Nat /\ due'[t] = left'[t]
      /\ d = 0 => left'[t] = 0
  BY <1>0, <1>3, <1>5 DEF CvTypeOK
<1>7. CvTypeOK'
  <2>1. call' \in [Threads -> [op : Operations, cv : Cvs] \cup {NULL}]
    BY <1>0, <1>5 DEF CvTypeOK
  <2>2. left' \in [Threads -> Nat] /\ due' \in [Threads -> Nat]
    BY <1>0, <1>5 DEF CvTypeOK
  <2>3. ret' \in [Threads -> {-1, 0, 1}]
    BY <1>3 DEF CvTypeOK
  <2> QED BY <1>4, <1>5, <2>1, <2>2, <2>3 DEF CvTypeOK, PcType
<1>8. MonitorInv'
  <2>1. \A s \in Threads : s # t => pc[s] \notin {"arm", "block", "exit",
                        "sigcheck", "returned"}
            /\ ~(pc[s] = "untimeout" /\ call[s].op = "timedwait_sig")
    BY <1>1, CondVarAssumption DEF MonitorInv
  <2> QED BY <1>0, <1>3, <1>4, <1>5, <1>6, <2>1 DEF MonitorInv
<1>9. /\ QueueInv' /\ CountInv' /\ \A s \in Threads : Asleep(s)' <=> Asleep(s)
      /\ \A c \in Cvs : Sleepers(c)' = Sleepers(c)
  BY <1>5, SameQueue
<1>10. AsleepInv'
  BY <1>1, <1>4, <1>5, <1>6, <1>9 DEF AsleepInv
<1>11. CalloutInv'
  BY <1>1, <1>3, <1>4, <1>5, <1>6 DEF CalloutInv, CalloutArmed
<1>12. RetInv'
  BY <1>0, <1>3, <1>4, <1>5, <1>6 DEF RetInv
<1>13. SignalEndsWait' /\ TimedWaitEnds'
  BY <1>1, <1>4, <1>5, <1>6, <1>9 DEF SignalEndsWait, TimedWaitEnds
<1>14. NoLostWakeup'
  <2>1. SUFFICES ASSUME NEW b \in Cvs PROVE NoLostOn(b)'
    BY DEF NoLostWakeup, NoLostOn
  <2>2. Notifying(b)' = Notifying(b)
    BY <1>4, <1>5 DEF Notifying
  <2>3. CASE t \notin Returning(b)
    <3>1. Returning(b) \subseteq Returning(b)'
      BY <1>4, <1>6, <1>9, <2>3 DEF Returning
    <3>2. units'[b] \in Nat /\ units'[b] <= units[b]
      BY <1>5 DEF CvTypeOK
    <3> QED BY <1>9, <2>2, <3>1, <3>2, FlowKept
  <2>4. CASE t \in Returning(b)
    <3>1. b = w.cv
      BY <1>1, <2>4 DEF Returning
    <3>2. units'[b] = 0
      BY <1>5, <3>1
    <3>3. Returning(b) \ {t} \subseteq Returning(b)'
      BY <1>4, <1>6, <1>9 DEF Returning
    <3> QED BY <1>9, <2>2, <2>4, <3>2, <3>3, FlowTaken
  <2> QED BY <2>3, <2>4
<1> QED BY <1>7, <1>8, <1>9, <1>10, <1>11, <1>12, <1>13, <1>14

-----------------------------------------------------------------------------
(* The posters' steps that leave the queue alone.                          *)
LEMMA PostStep ==
    ASSUME CvInv, NEW u \in Posters, NEW c \in Cvs, Post(u, c)
    PROVE  CvInv'
<1> USE DEF CvInv, PosterAt, queueVars, callVars, clockVars, sigVars
<1>0. PosterAt(u, "test")
  BY PosterGoes DEF Post, PosterLabels
<1>1. CvTypeOK'
  <2>1. units' \in [Cvs -> Nat]
    BY DEF CvTypeOK, Post
  <2>2. note' \in [Posters -> Cvs \cup {NULL}]
    BY DEF CvTypeOK, Post
  <2> QED BY <1>0, <2>1, <2>2 DEF CvTypeOK, PcType, Post
<1>2. MonitorInv'
  <2>1. \A s \in Threads : pc[s] \notin {"arm", "block", "exit",
                        "sigcheck", "returned"}
            /\ ~(pc[s] = "untimeout" /\ call[s].op = "timedwait_sig")
    BY CondVarAssumption DEF MonitorInv, Post
  <2>2. \A v \in Posters : v # u => note'[v] = note[v]
    BY DEF CvTypeOK, Post
  <2>3. note'[u] = c /\ call' = call
    BY DEF CvTypeOK, Post
  <2> QED BY <1>0, <2>1, <2>2, <2>3 DEF MonitorInv
<1>3. /\ QueueInv' /\ CountInv' /\ \A s \in Threads : Asleep(s)' <=> Asleep(s)
      /\ \A b \in Cvs : Sleepers(b)' = Sleepers(b)
  BY SameQueue DEF Post
<1>4. AsleepInv'
  BY <1>0, <1>3 DEF AsleepInv, Post
<1>5. CalloutInv'
  BY <1>0 DEF CalloutInv, CalloutArmed, Post
<1>6. RetInv'
  BY <1>0 DEF RetInv, Post
<1>7. SignalEndsWait' /\ TimedWaitEnds'
  BY <1>0, <1>3 DEF SignalEndsWait, TimedWaitEnds, Post
<1>8. NoLostWakeup'
  <2>1. SUFFICES ASSUME NEW b \in Cvs PROVE NoLostOn(b)'
    BY DEF NoLostWakeup, NoLostOn
  <2>2. Returning(b)' = Returning(b)
    BY <1>0, <1>3 DEF Returning, Post
  <2>3. Notifying(b) \subseteq Notifying(b)' /\ u \notin Notifying(b)
    BY <1>0 DEF CvTypeOK, Notifying, Post
  <2>4. CASE b = c
    <3>1. u \in Notifying(b)' /\ units'[b] = units[b] + 1
      BY <1>0, <2>4 DEF CvTypeOK, Notifying, Post
    <3> QED BY <1>3, <2>2, <2>3, <3>1, FlowPosted
  <2>5. CASE b # c
    <3>1. units'[b] \in Nat /\ units'[b] <= units[b]
      BY <2>5 DEF CvTypeOK, Post
    <3> QED BY <1>3, <2>2, <2>3, <3>1, FlowKept
  <2> QED BY <2>4, <2>5
<1> QED BY <1>1, <1>2, <1>3, <1>4, <1>5, <1>6, <1>7, <1>8

LEMMA PosterExitStep ==
    ASSUME CvInv, NEW u \in Posters, PosterExit(u)
    PROVE  CvInv'
<1> USE DEF CvInv, PosterAt, queueVars, callVars, clockVars, sigVars, userVars
<1>0. PosterAt(u, IF pc[u] = "notified" THEN "run" ELSE pc[u])
  <2> DEFINE l == IF pc[u] = "notified" THEN "run" ELSE pc[u]
  <2>1. l \in PosterLabels /\ Goto(u, l)
    BY DEF CvTypeOK, PosterExit, PosterLabels
  <2> HIDE DEF l
  <2>2. PosterAt(u, l)
    BY <2>1, PosterGoes
  <2> QED BY <2>2 DEF l
<1>1. CvTypeOK'
  BY <1>0 DEF CvTypeOK, PcType, PosterExit
<1>2. MonitorInv'
  <2>1. \A s \in Threads : pc[s] \notin {"arm", "block", "exit",
                        "sigcheck", "returned"}
            /\ ~(pc[s] = "untimeout" /\ call[s].op = "timedwait_sig")
    BY CondVarAssumption DEF MonitorInv, PosterExit
  <2> QED BY <1>0, <2>1 DEF MonitorInv, PosterExit
<1>3. /\ QueueInv' /\ CountInv' /\ \A s \in Threads : Asleep(s)' <=> Asleep(s)
      /\ \A b \in Cvs : Sleepers(b)' = Sleepers(b)
  BY SameQueue DEF PosterExit
<1>4. AsleepInv'
  BY <1>0, <1>3 DEF AsleepInv, PosterExit
<1>5. CalloutInv'
  BY <1>0 DEF CalloutInv, CalloutArmed, PosterExit
<1>6. RetInv'
  BY <1>0 DEF RetInv, PosterExit
<1>7. SignalEndsWait' /\ TimedWaitEnds'
  BY <1>0, <1>3 DEF SignalEndsWait, TimedWaitEnds, PosterExit
<1>8. NoLostWakeup'
  BY <1>0, <1>3, FlowSame DEF PosterExit
<1> QED BY <1>1, <1>2, <1>3, <1>4, <1>5, <1>6, <1>7, <1>8

(* A notification that finds no waiters.                                   *)
NotifiedLabel(u) == IF mp = u THEN "notified" ELSE "run"

LEMMA NotifiedGoes ==
    ASSUME CvTypeOK, NEW u \in Posters, Notified(u)
    PROVE  PosterAt(u, NotifiedLabel(u)) /\ NotifiedLabel(u) \in {"notified", "run"}
<1>1. NotifiedLabel(u) \in PosterLabels /\ Goto(u, NotifiedLabel(u))
  BY DEF Notified, NotifiedLabel, PosterLabels
<1>2. PosterAt(u, NotifiedLabel(u))
  BY <1>1, PosterGoes
<1> QED BY <1>2 DEF NotifiedLabel

(* What a poster's step that leaves the waiters alone keeps.               *)
LEMMA PosterKeeps ==
    ASSUME CvInv, NEW u \in Posters, NEW l \in PosterLabels, PosterAt(u, l),
           l \in {"test", "notify"} => note[u] \in Cvs,
           UNCHANGED <<mp, callVars, clockVars, sigVars, userVars>>
    PROVE  /\ PcType(pc') /\ MonitorInv' /\ CalloutInv' /\ RetInv'
<1> USE DEF CvInv, PosterAt, callVars, clockVars, sigVars, userVars
<1>1. MonitorInv'
  BY DEF MonitorInv
<1>2. CalloutInv'
  BY DEF CalloutInv, CalloutArmed
<1>3. RetInv'
  BY DEF RetInv
<1> QED BY <1>1, <1>2, <1>3

LEMMA NoSleepers ==
    ASSUME CvInv, NEW c \in Cvs, cv_waiters[c] = 0
    PROVE  Sleepers(c) = {}
<1>1. CV_MAX_WAITERS \in Nat /\ CV_MAX_WAITERS # 0 /\ IsFiniteSet(Threads)
  BY CondVarAssumption
<1>2. Cardinality(Sleepers(c)) = 0
  BY <1>1 DEF CvInv, CountInv
<1>3. Sleepers(c) \subseteq Threads
  BY LenProperties DEF CvInv, CvTypeOK, Sleepers, Elems
<1>4. IsFiniteSet(Sleepers(c))
  BY <1>1, <1>3, FS_Subset
<1> QED BY <1>2, <1>4, FS_EmptySet

LEMMA TestWaitersStep ==
    ASSUME CvInv, NEW u \in Posters, TestWaiters(u)
    PROVE  CvInv'
<1> USE DEF CvInv, queueVars, callVars, clockVars, sigVars, userVars
<1>0. note[u] \in Cvs
  BY DEF MonitorInv, TestWaiters
<1>1. PICK l \in PosterLabels :
        PosterAt(u, l) /\ (l = "notify" \/ cv_waiters[note[u]] = 0)
  <2>1. CASE cv_waiters[note[u]] > 0
    <3>1. Goto(u, "notify") /\ "notify" \in PosterLabels
      BY <2>1 DEF TestWaiters, PosterLabels
    <3> QED BY <3>1, PosterGoes
  <2>2. CASE ~(cv_waiters[note[u]] > 0)
    <3>1. Notified(u)
      BY <2>2 DEF TestWaiters
    <3>2. cv_waiters[note[u]] = 0
      BY <1>0, <2>2, CondVarAssumption DEF CvTypeOK
    <3>3. NotifiedLabel(u) \in PosterLabels /\ PosterAt(u, NotifiedLabel(u))
      BY <3>1, NotifiedGoes DEF PosterLabels
    <3> QED BY <3>2, <3>3
  <2> QED BY <2>1, <2>2
<1>2. UNCHANGED <<queueVars, mp, callVars, clockVars, sigVars, userVars>>
  BY DEF TestWaiters
<1>3. PcType(pc') /\ MonitorInv' /\ CalloutInv' /\ RetInv'
  BY <1>0, <1>1, <1>2, PosterKeeps
<1>4. CvTypeOK'
  BY <1>2, <1>3 DEF CvTypeOK, PcType
<1>5. /\ QueueInv' /\ CountInv' /\ \A s \in Threads : Asleep(s)' <=> Asleep(s)
      /\ \A b \in Cvs : Sleepers(b)' = Sleepers(b)
  BY <1>2, SameQueue
<1>6. AsleepInv'
  BY <1>1, <1>2, <1>5 DEF AsleepInv, PosterAt
<1>7. SignalEndsWait' /\ TimedWaitEnds'
  BY <1>1, <1>2, <1>5 DEF SignalEndsWait, TimedWaitEnds, PosterAt
<1>8. NoLostWakeup'
  <2>1. SUFFICES ASSUME NEW b \in Cvs PROVE NoLostOn(b)'
    BY DEF NoLostWakeup, NoLostOn
  <2>2. Returning(b)' = Returning(b)
    BY <1>1, <1>2, <1>5 DEF Returning, PosterAt
  <2>3. units'[b] \in Nat /\ units'[b] <= units[b]
    BY <1>2 DEF CvTypeOK
  <2>4. CASE l = "notify" \/ b # note[u]
    <3>1. Notifying(b) \subseteq Notifying(b)'
      BY <1>1, <1>2, <2>4 DEF Notifying, PosterAt
    <3> QED BY <1>5, <2>2, <2>3, <3>1, FlowKept
  <2>5. CASE l # "notify" /\ b = note[u]
    <3>1. Sleepers(b)' = {}
      BY <1>1, <1>5, <2>5, NoSleepers
    <3> QED BY <3>1 DEF NoLostOn
  <2> QED BY <2>4, <2>5
<1> QED BY <1>3, <1>4, <1>5, <1>6, <1>7, <1>8

-----------------------------------------------------------------------------
(* The steps on the queue.  Those that wake the threads of a set W leave   *)
(* the queue in order and the other threads on it.                         *)
Woken(W) ==
    /\ W \subseteq Elems(sq_queue)
    /\ sq_queue' \in Seq(Threads)
    /\ t_wchan' \in [Threads -> Cvs \cup {NULL}]
    /\ t_pri' \in [Threads -> Priorities]
    /\ QueueInv'
    /\ Elems(sq_queue') = Elems(sq_queue) \ W
    /\ \A s \in Threads : t_wchan'[s] = IF s \in W THEN NULL ELSE t_wchan[s]

LEMMA DequeueWakes ==
    ASSUME CvInv, NEW t \in Threads, Asleep(t),
           sq_queue' = sleepq_dequeue(sq_queue, t),
           t_wchan' = [t_wchan EXCEPT ![t] = NULL],
           t_pri' = [t_pri EXCEPT ![t] = AnyPri]
    PROVE  Woken({t})
<1> DEFINE q == sleepq_dequeue(sq_queue, t)
<1>1. sq_queue \in Seq(Threads) /\ NoDup(sq_queue) /\ t \in Elems(sq_queue)
  BY DEF CvInv, CvTypeOK, QueueInv, Asleep
<1>2. q \in Seq(Threads) /\ Elems(q) = Elems(sq_queue) \ {t} /\ NoDup(q)
  BY <1>1, DequeueQueue
<1>3. AnyPri \in Priorities
  BY CondVarAssumption DEF AnyPri
<1>4. /\ t_wchan' \in [Threads -> Cvs \cup {NULL}]
      /\ t_pri' \in [Threads -> Priorities]
  BY <1>3 DEF CvInv, CvTypeOK
<1>5. /\ \A s \in Threads : t_wchan'[s] = IF s = t THEN NULL ELSE t_wchan[s]
      /\ \A s \in Threads : s # t => t_pri'[s] = t_pri[s]
  BY DEF CvInv, CvTypeOK
<1>6. Elems(q) \subseteq Threads
  BY <1>2, LenProperties DEF Elems
<1>7. Sorted(q, t_pri')
  <2>1. Sorted(q, t_pri)
    BY <1>1, DequeueSorted DEF CvInv, QueueInv
  <2>2. \A x \in Elems(q) : t_pri'[x] = t_pri[x]
    BY <1>2, <1>5, <1>6
  <2> HIDE DEF q
  <2> QED BY <2>1, <2>2, SortedSame
<1>8. \A s \in Threads : s \in Elems(q) <=> t_wchan'[s] # NULL
  BY <1>2, <1>5 DEF CvInv, QueueInv, Asleep
<1> HIDE DEF q
<1> QED BY <1>1, <1>2, <1>4, <1>5, <1>7, <1>8 DEF Woken, QueueInv, Asleep, q

LEMMA WokenSleepers ==
    ASSUME CvInv, NEW W, Woken(W), NEW c \in Cvs
    PROVE  Sleepers(c)' = Sleepers(c) \ W
<1>1. Elems(sq_queue) \subseteq Threads
  BY LenProperties DEF CvInv, CvTypeOK, Elems
<1>2. c # NULL
  BY CondVarAssumption
<1>3. Elems(sq_queue') = Elems(sq_queue) \ W
  BY DEF Woken
<1>4. \A s \in Elems(sq_queue) \ W : t_wchan'[s] = t_wchan[s]
  BY <1>1 DEF Woken
<1> QED BY <1>3, <1>4 DEF Sleepers

(* The count is kept by a step that wakes one thread and takes it off the  *)
(* count if the count is exact.                                            *)
LEMMA OneUncounted ==
    ASSUME CvInv, NEW t \in Threads, Asleep(t), Woken({t}),
           cv_waiters' = UncountSleeper(t_wchan[t])
    PROVE  CountInv' /\ cv_waiters' \in [Cvs -> 0..CV_MAX_WAITERS]
<1>0. PICK c \in Cvs : c = t_wchan[t]
  BY DEF CvInv, CvTypeOK, QueueInv
<1>1. c \in Cvs /\ t \in Sleepers(c)
  BY <1>0 DEF Asleep, Sleepers
<1>2. CV_MAX_WAITERS \in Nat /\ cv_waiters[c] \in 0..CV_MAX_WAITERS
  BY <1>1, CondVarAssumption DEF CvInv, CvTypeOK
<1>3. Sleepers(c) \subseteq Threads /\ IsFiniteSet(Sleepers(c))
  <2>1. Sleepers(c) \subseteq Threads
    BY LenProperties DEF CvInv, CvTypeOK, Sleepers, Elems
  <2> QED BY <2>1, CondVarAssumption, FS_Subset
<1>4. \A b \in Cvs : Sleepers(b)' = Sleepers(b) \ {t}
  BY WokenSleepers
<1>5. \A b \in Cvs : b # c => Sleepers(b)' = Sleepers(b)
  BY <1>0, <1>4 DEF Sleepers
<1>6. Cardinality(Sleepers(c)') = Cardinality(Sleepers(c)) - 1
  BY <1>1, <1>3, <1>4, FS_RemoveElement
<1>7. Cardinality(Sleepers(c)) \in Nat /\ Cardinality(Sleepers(c)) # 0
  BY <1>1, <1>3, FS_CardinalityType, FS_EmptySet
<1>8. CASE cv_waiters[c] = CV_MAX_WAITERS
  <2>1. cv_waiters' = cv_waiters
    BY <1>0, <1>8 DEF UncountSleeper
  <2>2. ASSUME NEW b \in Cvs, cv_waiters'[b] < CV_MAX_WAITERS
        PROVE  cv_waiters'[b] = Cardinality(Sleepers(b)')
    <3>1. b # c
      BY <1>2, <1>8, <2>1, <2>2
    <3> QED BY <1>5, <2>1, <2>2, <3>1 DEF CvInv, CountInv
  <2> QED BY <2>1, <2>2 DEF CvInv, CvTypeOK, CountInv
<1>9. CASE cv_waiters[c] # CV_MAX_WAITERS
  <2>1. cv_waiters' = [cv_waiters EXCEPT ![c] = cv_waiters[c] - 1]
    BY <1>0, <1>9 DEF UncountSleeper
  <2>2. cv_waiters[c] < CV_MAX_WAITERS
    BY <1>2, <1>9
  <2>3. cv_waiters[c] = Cardinality(Sleepers(c))
    BY <1>1, <2>2 DEF CvInv, CountInv
  <2>4. cv_waiters[c] - 1 \in 0..CV_MAX_WAITERS
    BY <1>2, <1>7, <2>3
  <2>5. cv_waiters' \in [Cvs -> 0..CV_MAX_WAITERS]
    BY <2>1, <2>4 DEF CvInv, CvTypeOK
  <2>6. ASSUME NEW b \in Cvs, cv_waiters'[b] < CV_MAX_WAITERS
        PROVE  cv_waiters'[b] = Cardinality(Sleepers(b)')
    <3>1. CASE b = c
      BY <1>1, <1>6, <2>1, <2>3, <3>1 DEF CvInv, CvTypeOK
    <3>2. CASE b # c
      <4>1. cv_waiters'[b] = cv_waiters[b]
        BY <2>1, <3>2 DEF CvInv, CvTypeOK
      <4> QED BY <1>5, <2>6, <3>2, <4>1 DEF CvInv, CountInv
    <3> QED BY <3>1, <3>2
  <2> QED BY <2>5, <2>6 DEF CountInv
<1> QED BY <1>8, <1>9

(* setrun wakes the thread if it sleeps, and nobody else.                  *)
LEMMA SetrunWakes ==
    ASSUME CvInv, NEW t \in Threads, setrun(t)
    PROVE  /\ Woken(IF Asleep(t) THEN {t} ELSE {})
           /\ CountInv' /\ cv_waiters' \in [Cvs -> 0..CV_MAX_WAITERS]
<1>1. CASE Asleep(t)
  <2>1. Woken({t})
    BY <1>1, DequeueWakes DEF setrun
  <2> QED BY <1>1, <2>1, OneUncounted DEF setrun
<1>2. CASE ~Asleep(t)
  <2>1. UNCHANGED queueVars
    BY <1>2 DEF setrun
  <2>2. QueueInv' /\ CountInv'
    BY <2>1, SameQueue
  <2> QED BY <1>2, <2>1, <2>2 DEF Woken, CvInv, CvTypeOK, queueVars
<1> QED BY <1>1, <1>2

(* What the steps that wake threads, and change no other queue, have in    *)
(* common.                                                                 *)
LEMMA WokenKeeps ==
    ASSUME CvInv, NEW W, Woken(W),
           UNCHANGED <<call, ret, left, due, sig, units, note, mp>>,
           \A t \in Threads :
              /\ \/ pc'[t] = pc[t]
                 \/ pc[t] = "look" /\ pc'[t] = "swtch"
              /\ \/ callout'[t] = callout[t]
                 \/ callout[t] = "executing" /\ callout'[t] = "none"
    PROVE  /\ AsleepInv' /\ CalloutInv' /\ RetInv'
           /\ \A t \in Threads : Asleep(t)' <=> Asleep(t) /\ t \notin W
<1> USE DEF CvInv
<1>1. \A t \in Threads : Asleep(t)' <=> Asleep(t) /\ t \notin W
  BY DEF Woken, Asleep
<1>2. AsleepInv'
  BY <1>1 DEF AsleepInv, Woken
<1>3. CalloutInv'
  BY DEF CvTypeOK, CalloutInv, CalloutArmed
<1>4. RetInv'
  BY DEF RetInv
<1> QED BY <1>1, <1>2, <1>3, <1>4

LEMMA LookBeforeSwtchStep ==
    ASSUME CvInv, NEW t \in Threads, LookBeforeSwtch(t)
    PROVE  CvInv'
<1> USE DEF CvInv, callVars, clockVars, sigVars, userVars
<1>0. WaiterAt(t, "swtch") /\ pc[t] = "look"
  BY WaiterGoes DEF LookBeforeSwtch, WaiterLabels
<1>1. UNCHANGED <<call, ret, left, due, callout, sig, posted, units, note, mp>>
  BY DEF LookBeforeSwtch
<1>2. PICK W : /\ Woken(W) /\ W \subseteq {t}
               /\ NothingToSleepFor(t) /\ Asleep(t) => W = {t}
               /\ CountInv' /\ cv_waiters' \in [Cvs -> 0..CV_MAX_WAITERS]
  <2>1. CASE NothingToSleepFor(t)
    <3>1. setrun(t)
      BY <2>1 DEF LookBeforeSwtch
    <3> QED BY <3>1, SetrunWakes
  <2>2. CASE ~NothingToSleepFor(t)
    <3>1. UNCHANGED queueVars
      BY <2>2 DEF LookBeforeSwtch
    <3>2. QueueInv' /\ CountInv'
      BY <3>1, SameQueue
    <3>3. Woken({}) /\ cv_waiters' \in [Cvs -> 0..CV_MAX_WAITERS]
      BY <3>1, <3>2 DEF Woken, CvTypeOK, queueVars
    <3> QED BY <2>2, <3>2, <3>3
  <2> QED BY <2>1, <2>2
<1>3. CvTypeOK' /\ QueueInv'
  BY <1>0, <1>1, <1>2 DEF CvTypeOK, Woken, WaiterAt, PcType
<1>4. MonitorInv'
  BY <1>0, <1>1 DEF MonitorInv, WaiterAt
<1>5. /\ AsleepInv' /\ CalloutInv' /\ RetInv'
      /\ \A s \in Threads : Asleep(s)' <=> Asleep(s) /\ s \notin W
  BY <1>0, <1>1, <1>2, WokenKeeps DEF WaiterAt
<1>6. SignalEndsWait' /\ TimedWaitEnds'
  BY <1>0, <1>1, <1>2, <1>5
     DEF SignalEndsWait, TimedWaitEnds, NothingToSleepFor, WaiterAt
<1>7. NoLostWakeup'
  <2>1. \A c \in Cvs : Sleepers(c)' \subseteq Sleepers(c)
    BY <1>2, WokenSleepers
  <2> QED BY <1>0, <1>1, <1>5, <2>1, FlowSame DEF WaiterAt
<1> QED BY <1>2, <1>3, <1>4, <1>5, <1>6, <1>7

LEMMA CalloutRunStep ==
    ASSUME CvInv, NEW t \in Threads, CalloutRun(t)
    PROVE  CvInv'
<1> USE DEF CvInv, callVars, sigVars, userVars
<1>1. UNCHANGED <<pc, call, ret, left, due, sig, posted, units, note, mp>>
  BY DEF CalloutRun
<1>2. PICK W : /\ Woken(W) /\ (Asleep(t) => W = {t})
               /\ CountInv' /\ cv_waiters' \in [Cvs -> 0..CV_MAX_WAITERS]
  BY SetrunWakes DEF CalloutRun
<1>3. callout' \in [Threads -> {"none", "pending", "executing"}]
  BY DEF CvTypeOK, CalloutRun
<1>4. CvTypeOK' /\ QueueInv'
  BY <1>1, <1>2, <1>3 DEF CvTypeOK, Woken
<1>5. MonitorInv'
  BY <1>1 DEF MonitorInv
<1>6. /\ callout[t] = "executing" /\ callout'[t] = "none"
      /\ \A s \in Threads : s # t => callout'[s] = callout[s]
  BY DEF CvTypeOK, CalloutRun
<1>7. /\ AsleepInv' /\ CalloutInv' /\ RetInv'
      /\ \A s \in Threads : Asleep(s)' <=> Asleep(s) /\ s \notin W
  BY <1>1, <1>2, <1>6, WokenKeeps
<1>8. SignalEndsWait' /\ TimedWaitEnds'
  BY <1>1, <1>2, <1>6, <1>7 DEF SignalEndsWait, TimedWaitEnds
<1>9. NoLostWakeup'
  <2>1. \A c \in Cvs : Sleepers(c)' \subseteq Sleepers(c)
    BY <1>2, WokenSleepers
  <2> QED BY <1>1, <1>7, <2>1, FlowSame
<1> QED BY <1>2, <1>4, <1>5, <1>7, <1>8, <1>9

LEMMA EatSignalStep ==
    ASSUME CvInv, NEW t \in Threads, eat_signal(t)
    PROVE  CvInv'
<1> USE DEF CvInv, callVars, clockVars, userVars
<1>1. UNCHANGED <<pc, call, ret, left, due, callout, sig, units, note, mp>>
  BY DEF eat_signal
<1>2. PICK W : /\ Woken(W)
               /\ Asleep(t) /\ Interruptible(call[t].op) => W = {t}
               /\ CountInv' /\ cv_waiters' \in [Cvs -> 0..CV_MAX_WAITERS]
  <2>1. CASE call[t] # NULL /\ Interruptible(call[t].op)
    <3>1. setrun(t)
      BY <2>1 DEF eat_signal
    <3> QED BY <3>1, SetrunWakes
  <2>2. CASE ~(call[t] # NULL /\ Interruptible(call[t].op))
    <3>1. UNCHANGED queueVars
      BY <2>2 DEF eat_signal
    <3>2. QueueInv' /\ CountInv'
      BY <3>1, SameQueue
    <3>3. Woken({}) /\ cv_waiters' \in [Cvs -> 0..CV_MAX_WAITERS]
      BY <3>1, <3>2 DEF Woken, CvTypeOK, queueVars
    <3>4. Asleep(t) => call[t] # NULL
      BY DEF AsleepInv, MonitorInv
    <3> QED BY <2>2, <3>2, <3>3, <3>4
  <2> QED BY <2>1, <2>2
<1>3. posted' = posted \ {t}
  BY DEF eat_signal
<1>4. CvTypeOK' /\ QueueInv'
  BY <1>1, <1>2, <1>3 DEF CvTypeOK, Woken
<1>5. MonitorInv'
  BY <1>1 DEF MonitorInv
<1>6. /\ AsleepInv' /\ CalloutInv' /\ RetInv'
      /\ \A s \in Threads : Asleep(s)' <=> Asleep(s) /\ s \notin W
  BY <1>1, <1>2, WokenKeeps
<1>7. SignalEndsWait' /\ TimedWaitEnds'
  BY <1>1, <1>2, <1>3, <1>6 DEF SignalEndsWait, TimedWaitEnds
<1>8. NoLostWakeup'
  <2>1. \A c \in Cvs : Sleepers(c)' \subseteq Sleepers(c)
    BY <1>2, WokenSleepers
  <2> QED BY <1>1, <1>6, <2>1, FlowSame
<1> QED BY <1>2, <1>4, <1>5, <1>6, <1>7, <1>8

(* cv_signal takes the first waiter off the queue and off the count; when  *)
(* the count says nothing (CV_MAX_WAITERS) and the queue holds no waiter,  *)
(* the count starts again at 0.                                            *)
LEMMA CvSignalStep ==
    ASSUME CvInv, NEW u \in Posters, cv_signal(u)
    PROVE  CvInv'
<1> USE DEF CvInv, callVars, clockVars, sigVars, userVars
<1>0. PICK c \in Cvs : c = note[u] /\ pc[u] = "notify"
  BY DEF MonitorInv, cv_signal
<1>1. UNCHANGED <<call, ret, left, due, callout, sig, posted, units, note, mp>>
  BY DEF cv_signal
<1>2. PICK l \in {"notified", "run"} : PosterAt(u, l) /\ l \in PosterLabels
  BY NotifiedGoes DEF cv_signal, PosterLabels
<1>3. \A x \in Elems(sq_queue) : x \in Threads
  BY LenProperties DEF CvTypeOK, Elems
<1>4. PICK W : /\ Woken(W) /\ CountInv'
               /\ cv_waiters' \in [Cvs -> 0..CV_MAX_WAITERS]
               /\ \/ W = {} /\ Sleepers(c) = {}
                  \/ \E t \in Sleepers(c) : W = {t}
  <2> DEFINE k == FirstWaiter(c)
  <2>1. \/ k = 0 /\ Sleepers(c) = {}
        \/ /\ k # 0 /\ sq_queue[k] \in Elems(sq_queue) /\ sq_queue[k] \in Threads
           /\ t_wchan[sq_queue[k]] = c
    <3>1. sq_queue \in Seq(Threads)
      BY DEF CvTypeOK
    <3>2. \/ k = 0 /\ \A x \in Elems(sq_queue) : t_wchan[x] # c
          \/ /\ k \in DOMAIN sq_queue /\ k # 0
             /\ sq_queue[k] \in Elems(sq_queue) /\ sq_queue[k] \in Threads
             /\ t_wchan[sq_queue[k]] = c
      BY <3>1, FirstOnChanFinds DEF FirstWaiter
    <3> HIDE DEF k
    <3> QED BY <3>2 DEF Sleepers
  <2>2. CV_MAX_WAITERS \in Nat \ {0} /\ cv_waiters[c] \in 0..CV_MAX_WAITERS
    BY CondVarAssumption DEF CvTypeOK
  <2>3. CASE k = 0
    <3>1. UNCHANGED <<sq_queue, t_wchan, t_pri>>
      BY <1>0, <2>3 DEF cv_signal
    <3>2. cv_waiters[c] \in {0, CV_MAX_WAITERS}
      <4>1. cv_waiters[c] < CV_MAX_WAITERS => cv_waiters[c] = 0
        BY <2>1, <2>3, FS_EmptySet DEF CountInv
      <4> QED BY <2>2, <4>1
    <3>3. cv_waiters' = [cv_waiters EXCEPT ![c] = 0]
      BY <1>0, <2>3, <3>2 DEF cv_signal, Signalled
    <3>4. /\ cv_waiters' \in [Cvs -> 0..CV_MAX_WAITERS] /\ cv_waiters'[c] = 0
          /\ \A b \in Cvs : b # c => cv_waiters'[b] = cv_waiters[b]
      BY <2>2, <3>3 DEF CvTypeOK
    <3>5. \A b \in Cvs : Sleepers(b)' = Sleepers(b)
      BY <3>1 DEF Sleepers
    <3>6. CountInv'
      BY <2>1, <2>3, <3>4, <3>5, FS_EmptySet DEF CountInv
    <3>7. Woken({})
      BY <3>1 DEF Woken, QueueInv, Asleep, CvTypeOK
    <3> QED BY <2>1, <2>3, <3>4, <3>6, <3>7
  <2>4. CASE k # 0
    <3>1. PICK t \in Threads : t = sq_queue[k] /\ Asleep(t) /\ t_wchan[t] = c
      BY <2>1, <2>4 DEF Asleep
    <3>2. /\ sq_queue' = sleepq_dequeue(sq_queue, t)
          /\ t_wchan' = [t_wchan EXCEPT ![t] = NULL]
          /\ t_pri' = [t_pri EXCEPT ![t] = AnyPri]
      BY <1>0, <2>4, <3>1 DEF cv_signal
    <3>3. Woken({t})
      BY <3>1, <3>2, DequeueWakes
    <3>4. Sleepers(c) # {} /\ t \in Sleepers(c)
      BY <3>1 DEF Sleepers, Asleep
    <3>5. cv_waiters[c] # 0
      BY <3>4, NoSleepers
    <3>6. cv_waiters' = UncountSleeper(t_wchan[t])
      BY <1>0, <2>4, <3>1, <3>5 DEF cv_signal, Signalled, UncountSleeper
    <3>7. CountInv' /\ cv_waiters' \in [Cvs -> 0..CV_MAX_WAITERS]
      BY <3>1, <3>3, <3>6, OneUncounted
    <3> QED BY <3>3, <3>4, <3>7
  <2> QED BY <2>3, <2>4
<1>5. MonitorInv' /\ PcType(pc')
  BY <1>0, <1>1, <1>2, PosterKeeps
<1>6. CvTypeOK' /\ QueueInv'
  BY <1>1, <1>4, <1>5 DEF CvTypeOK, Woken, PcType
<1>7. /\ AsleepInv' /\ CalloutInv' /\ RetInv'
      /\ \A s \in Threads : Asleep(s)' <=> Asleep(s) /\ s \notin W
  BY <1>1, <1>2, <1>4, WokenKeeps DEF PosterAt
<1>8. SignalEndsWait' /\ TimedWaitEnds'
  BY <1>1, <1>2, <1>7 DEF SignalEndsWait, TimedWaitEnds, PosterAt
<1>9. NoLostWakeup'
  <2>1. SUFFICES ASSUME NEW b \in Cvs PROVE NoLostOn(b)'
    BY DEF NoLostWakeup, NoLostOn
  <2>2. Sleepers(b)' \subseteq Sleepers(b)
    BY <1>4, WokenSleepers
  <2>3. Returning(b) \subseteq Returning(b)'
    BY <1>1, <1>2, <1>7 DEF Returning, PosterAt
  <2>4. units'[b] \in Nat /\ units'[b] <= units[b] /\ units'[b] = units[b]
    BY <1>1 DEF CvTypeOK
  <2>5. CASE b # c
    <3>1. Notifying(b) \subseteq Notifying(b)'
      BY <1>0, <1>1, <1>2, <2>5 DEF Notifying, PosterAt
    <3> QED BY <2>2, <2>3, <2>4, <3>1, FlowKept
  <2>6. CASE b = c /\ Sleepers(c) = {}
    BY <2>2, <2>6 DEF NoLostOn
  <2>7. CASE b = c /\ Sleepers(c) # {}
    <3>1. PICK t \in Sleepers(c) : W = {t}
      BY <1>4, <2>7
    <3>2. t \in Threads /\ Asleep(t) /\ t_wchan[t] = c
      BY <1>3, <3>1 DEF Sleepers, Asleep
    <3>3. call[t] # NULL /\ call[t].cv = c /\ pc[t] \in {"exit", "look", "swtch"}
      BY <3>2 DEF AsleepInv, MonitorInv
    <3>4. t \notin Returning(b)
      BY <3>2 DEF Returning
    <3>5. t \in Returning(b)'
      BY <1>1, <1>2, <1>7, <2>7, <3>1, <3>2, <3>3 DEF Returning, PosterAt
    <3>6. Notifying(b) \ {u} \subseteq Notifying(b)' /\ u \in Notifying(b)
      BY <1>0, <1>1, <1>2, <2>7 DEF Notifying, PosterAt
    <3> QED BY <2>2, <2>3, <2>4, <3>4, <3>5, <3>6, FlowHanded
  <2> QED BY <2>5, <2>6, <2>7
<1> QED BY <1>4, <1>5, <1>6, <1>7, <1>8, <1>9

LEMMA CvBroadcastStep ==
    ASSUME CvInv, NEW u \in Posters, cv_broadcast(u)
    PROVE  CvInv'
<1> USE DEF CvInv, callVars, clockVars, sigVars, userVars
<1>0. PICK c \in Cvs : c = note[u] /\ pc[u] = "notify" /\ c # NULL
  BY CondVarAssumption DEF MonitorInv, cv_broadcast
<1>1. UNCHANGED <<call, ret, left, due, callout, sig, posted, units, note, mp>>
  BY DEF cv_broadcast
<1>2. PICK l \in {"notified", "run"} : PosterAt(u, l) /\ l \in PosterLabels
  BY NotifiedGoes DEF cv_broadcast, PosterLabels
<1>3. \A x \in Elems(sq_queue) : x \in Threads
  BY LenProperties DEF CvTypeOK, Elems
<1> DEFINE W == Sleepers(c)
           q == sleepq_wakeall_chan(sq_queue, t_wchan, c)
<1>4. Woken(W)
  <2>1. sq_queue' = q
    BY <1>0 DEF cv_broadcast
  <2>2. /\ q \in Seq(Threads) /\ NoDup(q) /\ Sorted(q, t_pri)
        /\ Elems(q) = {x \in Elems(sq_queue) : t_wchan[x] # c}
    BY WakeAllQueue DEF CvTypeOK, QueueInv
  <2>3. AnyPri \in Priorities
    BY CondVarAssumption DEF AnyPri
  <2>4. /\ t_wchan' = [t \in Threads |-> IF t_wchan[t] = c THEN NULL
                                         ELSE t_wchan[t]]
        /\ t_pri' = [t \in Threads |-> IF t_wchan[t] = c THEN AnyPri
                                       ELSE t_pri[t]]
    BY <1>0 DEF cv_broadcast
  <2>5. /\ t_wchan' \in [Threads -> Cvs \cup {NULL}]
        /\ t_pri' \in [Threads -> Priorities]
    BY <2>3, <2>4 DEF CvTypeOK
  <2>6. \A t \in Threads : t \in W <=> t_wchan[t] = c
    BY <1>0 DEF QueueInv, Asleep, Sleepers
  <2>7. W \subseteq Elems(sq_queue) /\ Elems(q) = Elems(sq_queue) \ W
    BY <2>2 DEF Sleepers
  <2>8. \A s \in Threads : t_wchan'[s] = IF s \in W THEN NULL ELSE t_wchan[s]
    BY <2>4, <2>6
  <2>9. Sorted(q, t_pri')
    <3>1. \A x \in Elems(q) : t_pri'[x] = t_pri[x]
      BY <1>3, <2>2, <2>4
    <3> HIDE DEF q
    <3> QED BY <2>2, <3>1, SortedSame
  <2>10. \A s \in Threads : s \in Elems(q) <=> t_wchan'[s] # NULL
    BY <2>7, <2>8 DEF QueueInv, Asleep
  <2> HIDE DEF q, W
  <2> QED BY <2>1, <2>2, <2>5, <2>7, <2>8, <2>9, <2>10 DEF Woken, QueueInv, Asleep
<1>5. \A b \in Cvs : Sleepers(b)' = Sleepers(b) \ W
  BY <1>4, WokenSleepers
<1>6. Sleepers(c)' = {} /\ \A b \in Cvs : b # c => Sleepers(b)' = Sleepers(b)
  BY <1>5 DEF Sleepers
<1>7. /\ cv_waiters' \in [Cvs -> 0..CV_MAX_WAITERS] /\ cv_waiters'[c] = 0
      /\ \A b \in Cvs : b # c => cv_waiters'[b] = cv_waiters[b]
  <2>1. CV_MAX_WAITERS \in Nat
    BY CondVarAssumption
  <2> QED BY <1>0, <2>1 DEF CvTypeOK, cv_broadcast
<1>8. CountInv'
  BY <1>6, <1>7, FS_EmptySet DEF CountInv
<1>9. MonitorInv' /\ PcType(pc')
  BY <1>0, <1>1, <1>2, PosterKeeps
<1>10. CvTypeOK' /\ QueueInv'
  BY <1>1, <1>4, <1>7, <1>9 DEF CvTypeOK, Woken, PcType
<1>11. /\ AsleepInv' /\ CalloutInv' /\ RetInv'
       /\ \A s \in Threads : Asleep(s)' <=> Asleep(s) /\ s \notin W
  <2> HIDE DEF W
  <2> QED BY <1>1, <1>2, <1>4, WokenKeeps DEF PosterAt
<1>12. SignalEndsWait' /\ TimedWaitEnds'
  BY <1>1, <1>2, <1>11 DEF SignalEndsWait, TimedWaitEnds, PosterAt
<1>13. NoLostWakeup'
  <2>1. SUFFICES ASSUME NEW b \in Cvs PROVE NoLostOn(b)'
    BY DEF NoLostWakeup, NoLostOn
  <2>2. CASE b = c
    BY <1>6, <2>2 DEF NoLostOn
  <2>3. CASE b # c
    <3>1. Notifying(b) \subseteq Notifying(b)'
      BY <1>0, <1>1, <1>2, <2>3 DEF Notifying, PosterAt
    <3>2. Returning(b) \subseteq Returning(b)'
      BY <1>1, <1>2, <1>11 DEF Returning, PosterAt
    <3>3. units'[b] \in Nat /\ units'[b] <= units[b]
      BY <1>1 DEF CvTypeOK
    <3>4. Sleepers(b)' \subseteq Sleepers(b)
      BY <1>6, <2>3
    <3> QED BY <3>1, <3>2, <3>3, <3>4, FlowKept
  <2> QED BY <2>2, <2>3
<1> QED BY <1>8, <1>9, <1>10, <1>11, <1>12, <1>13

(* cv_block puts the thread on the queue, once, while it has the mutex and *)
(* there is no unit to wait for.                                           *)
LEMMA CvBlockStep ==
    ASSUME CvInv, NEW t \in Threads, NEW p \in Priorities, cv_block(t, p)
    PROVE  CvInv'
<1> USE DEF CvInv, callVars, clockVars, sigVars, userVars
<1>0. PICK c \in Cvs : /\ c = call[t].cv /\ c # NULL /\ pc[t] = "block" /\ mp = t
                       /\ call[t] # NULL /\ units[c] = 0 /\ ~Asleep(t)
  <2>1. pc[t] = "block" /\ mp = t /\ call[t] # NULL /\ units[call[t].cv] = 0
    BY DEF MonitorInv, cv_block
  <2>2. call[t].cv \in Cvs
    BY <2>1 DEF CvTypeOK
  <2> QED BY <2>1, <2>2, CondVarAssumption DEF AsleepInv
<1>1. UNCHANGED <<call, ret, left, due, callout, sig, posted, units, note, mp>>
  BY DEF cv_block
<1>2. WaiterAt(t, "exit")
  BY WaiterGoes DEF cv_block, WaiterLabels
<1>3. \A x \in Elems(sq_queue) : x \in Threads
  BY LenProperties DEF CvTypeOK, Elems
<1>4. /\ t_wchan' \in [Threads -> Cvs \cup {NULL}] /\ t_wchan'[t] = c
      /\ \A s \in Threads : s # t => t_wchan'[s] = t_wchan[s]
      /\ t_pri' \in [Threads -> Priorities]
      /\ \A s \in Threads : s # t => t_pri'[s] = t_pri[s]
  BY <1>0 DEF CvTypeOK, cv_block
<1> DEFINE q == sleepq_insert(sq_queue, t, t_pri')
<1>5. /\ q \in Seq(Threads) /\ NoDup(q) /\ Sorted(q, t_pri')
      /\ Elems(q) = Elems(sq_queue) \cup {t}
  <2>1. sq_queue \in Seq(Threads) /\ NoDup(sq_queue) /\ t \notin Elems(sq_queue)
    BY <1>0 DEF CvTypeOK, QueueInv, Asleep
  <2>2. Sorted(sq_queue, t_pri')
    <3>1. \A x \in Elems(sq_queue) : t_pri'[x] = t_pri[x]
      BY <1>3, <1>4, <2>1
    <3> QED BY <3>1, SortedSame DEF QueueInv
  <2>3. \A x \in Threads : t_pri'[x] \in Nat
    BY <1>4, CondVarAssumption
  <2> QED BY <2>1, <2>2, <2>3, InsertQueue, InsertSorted
<1>6. sq_queue' = q
  BY DEF cv_block
<1> HIDE DEF q
<1>7. \A s \in Threads : Asleep(s)' <=> (Asleep(s) \/ s = t)
  BY <1>5, <1>6 DEF Asleep
<1>8. QueueInv'
  <2>1. NoDup(sq_queue') /\ Sorted(sq_queue', t_pri')
    BY <1>5, <1>6
  <2>2. \A s \in Threads : Asleep(s)' <=> t_wchan'[s] # NULL
    BY <1>0, <1>4, <1>7 DEF QueueInv
  <2> QED BY <2>1, <2>2 DEF QueueInv
<1>9. /\ Sleepers(c)' = Sleepers(c) \cup {t} /\ t \notin Sleepers(c)
      /\ \A b \in Cvs : b # c => Sleepers(b)' = Sleepers(b)
  <2>1. Elems(sq_queue') = Elems(sq_queue) \cup {t} /\ t \notin Elems(sq_queue)
    BY <1>0, <1>5, <1>6 DEF Asleep
  <2> QED BY <1>3, <1>4, <2>1 DEF Sleepers
<1>10. CV_MAX_WAITERS \in Nat /\ cv_waiters[c] \in 0..CV_MAX_WAITERS
  BY CondVarAssumption DEF CvTypeOK
<1>11. /\ cv_waiters' \in [Cvs -> 0..CV_MAX_WAITERS]
       /\ \A b \in Cvs : b # c => cv_waiters'[b] = cv_waiters[b]
       /\ cv_waiters[c] < CV_MAX_WAITERS => cv_waiters'[c] = cv_waiters[c] + 1
       /\ cv_waiters[c] >= CV_MAX_WAITERS => cv_waiters'[c] = cv_waiters[c]
  <2>1. cv_waiters' = CountWaiter(c)
    BY <1>0 DEF cv_block
  <2>2. CASE cv_waiters[c] < CV_MAX_WAITERS
    <3>1. cv_waiters' = [cv_waiters EXCEPT ![c] = cv_waiters[c] + 1]
      BY <2>1, <2>2 DEF CountWaiter
    <3>2. cv_waiters[c] + 1 \in 0..CV_MAX_WAITERS
      BY <1>10, <2>2
    <3> QED BY <1>10, <2>2, <3>1, <3>2 DEF CvTypeOK
  <2>3. CASE ~(cv_waiters[c] < CV_MAX_WAITERS)
    BY <2>1, <2>3 DEF CountWaiter, CvTypeOK
  <2> QED BY <2>2, <2>3
<1>12. CountInv'
  <2>1. IsFiniteSet(Sleepers(c))
    <3>1. Sleepers(c) \subseteq Threads
      BY <1>3 DEF Sleepers
    <3> QED BY <3>1, CondVarAssumption, FS_Subset
  <2>2. Cardinality(Sleepers(c)') = Cardinality(Sleepers(c)) + 1
    BY <1>9, <2>1, FS_AddElement
  <2>3. ASSUME NEW b \in Cvs, cv_waiters'[b] < CV_MAX_WAITERS
        PROVE  cv_waiters'[b] = Cardinality(Sleepers(b)')
    <3>1. CASE b # c
      BY <1>9, <1>11, <2>3, <3>1 DEF CountInv
    <3>2. CASE b = c
      <4>1. cv_waiters[c] < CV_MAX_WAITERS
        BY <1>10, <1>11, <2>3, <3>2
      <4>2. cv_waiters[c] = Cardinality(Sleepers(c))
        BY <4>1 DEF CountInv
      <4> QED BY <1>11, <2>2, <3>2, <4>1, <4>2
    <3> QED BY <3>1, <3>2
  <2> QED BY <2>3 DEF CountInv
<1>13. CvTypeOK'
  BY <1>1, <1>2, <1>4, <1>5, <1>6, <1>11 DEF CvTypeOK, WaiterAt, PcType
<1>14. MonitorInv'
  BY <1>0, <1>1, <1>2 DEF MonitorInv, WaiterAt
<1>15. AsleepInv'
  BY <1>0, <1>1, <1>2, <1>4, <1>7 DEF AsleepInv, WaiterAt
<1>16. CalloutInv'
  BY <1>0, <1>1, <1>2 DEF CalloutInv, CalloutArmed, WaiterAt
<1>17. RetInv'
  BY <1>0, <1>1, <1>2 DEF RetInv, WaiterAt
<1>18. SignalEndsWait' /\ TimedWaitEnds'
  <2>1. Timed(call[t].op) => callout[t] # "none" \/ left[t] = 0
    BY <1>0 DEF CalloutInv, CalloutArmed
  <2> QED BY <1>1, <1>2, <1>7, <2>1 DEF SignalEndsWait, TimedWaitEnds, WaiterAt
<1>19. NoLostWakeup'
  <2>1. SUFFICES ASSUME NEW b \in Cvs PROVE NoLostOn(b)'
    BY DEF NoLostWakeup, NoLostOn
  <2>2. CASE b = c
    <3>1. PICK R, N, Rn, Nn : FlowFacts(b, R, N, Rn, Nn)
      BY Flow
    <3>2. 0 <= Cardinality(Rn) + Cardinality(Nn)
      BY <3>1 DEF FlowFacts
    <3>3. units'[b] = 0
      BY <1>0, <1>1, <2>2
    <3> QED BY <3>1, <3>2, <3>3 DEF NoLostOn, FlowFacts
  <2>3. CASE b # c
    <3>1. Notifying(b) \subseteq Notifying(b)'
      BY <1>1, <1>2 DEF Notifying, WaiterAt
    <3>2. Returning(b) \subseteq Returning(b)'
      BY <1>0, <1>1, <1>2, <1>7, <2>3 DEF Returning, WaiterAt
    <3>3. units'[b] \in Nat /\ units'[b] <= units[b]
      BY <1>1 DEF CvTypeOK
    <3>4. Sleepers(b)' \subseteq Sleepers(b)
      BY <1>9, <2>3
    <3> QED BY <3>1, <3>2, <3>3, <3>4, FlowKept
  <2> QED BY <2>2, <2>3
<1> QED BY <1>8, <1>12, <1>13, <1>14, <1>15, <1>16, <1>17, <1>18, <1>19

LEMMA CvChangePriStep ==
    ASSUME CvInv, NEW t \in Threads, NEW p \in Priorities, cv_change_pri(t, p)
    PROVE  CvInv'
<1> USE DEF CvInv, callVars, clockVars, sigVars, userVars
<1>1. /\ UNCHANGED <<call, ret, left, due, callout, sig, posted, units, note>>
      /\ UNCHANGED <<mp, pc, cv_waiters, t_wchan>>
  BY DEF cv_change_pri
<1>2. /\ t_pri' \in [Threads -> Priorities]
      /\ \A s \in Threads : s # t => t_pri'[s] = t_pri[s]
  BY DEF CvTypeOK, cv_change_pri
<1> DEFINE r == sleepq_dequeue(sq_queue, t)
           q == sleepq_insert(r, t, t_pri')
<1>3. /\ sq_queue \in Seq(Threads) /\ NoDup(sq_queue) /\ t \in Elems(sq_queue)
      /\ Sorted(sq_queue, t_pri)
  BY DEF CvTypeOK, QueueInv, cv_change_pri, Asleep
<1>4. r \in Seq(Threads) /\ Elems(r) = Elems(sq_queue) \ {t} /\ NoDup(r)
  BY <1>3, DequeueQueue
<1>5. Sorted(r, t_pri)
  BY <1>3, DequeueSorted
<1>6. sq_queue' = q
  BY DEF cv_change_pri
<1> HIDE DEF r
<1>7. Sorted(r, t_pri')
  <2>1. \A x \in Elems(r) : x \in Threads
    BY <1>4, LenProperties DEF Elems
  <2>2. \A x \in Elems(r) : t_pri'[x] = t_pri[x]
    BY <1>2, <1>4, <2>1
  <2> QED BY <1>5, <2>2, SortedSame
<1>8. /\ q \in Seq(Threads) /\ NoDup(q) /\ Sorted(q, t_pri')
      /\ Elems(q) = Elems(sq_queue)
  <2>1. \A x \in Threads : t_pri'[x] \in Nat
    BY <1>2, CondVarAssumption
  <2>2. q \in Seq(Threads) /\ NoDup(q) /\ Elems(q) = Elems(r) \cup {t}
    BY <1>4, InsertQueue
  <2>3. Sorted(q, t_pri')
    BY <1>4, <1>7, <2>1, InsertSorted
  <2> HIDE DEF q
  <2> QED BY <1>3, <1>4, <2>2, <2>3
<1> HIDE DEF q
<1>9. /\ \A s \in Threads : Asleep(s)' <=> Asleep(s)
      /\ \A c \in Cvs : Sleepers(c)' = Sleepers(c)
  BY <1>1, <1>6, <1>8 DEF Asleep, Sleepers
<1>10. QueueInv'
  BY <1>1, <1>6, <1>8, <1>9 DEF QueueInv
<1>11. CvTypeOK'
  BY <1>1, <1>2, <1>6, <1>8 DEF CvTypeOK
<1>12. MonitorInv' /\ CalloutInv' /\ RetInv'
  BY <1>1 DEF MonitorInv, CalloutInv, CalloutArmed, RetInv
<1>13. AsleepInv' /\ CountInv' /\ SignalEndsWait' /\ TimedWaitEnds'
  BY <1>1, <1>9 DEF AsleepInv, CountInv, SignalEndsWait, TimedWaitEnds
<1>14. NoLostWakeup'
  BY <1>1, <1>9, FlowSame
<1> QED BY <1>10, <1>11, <1>12, <1>13, <1>14

-----------------------------------------------------------------------------
LEMMA CvInit == Init => CvInv
<1> SUFFICES ASSUME Init PROVE CvInv
  OBVIOUS
<1> USE DEF Init
<1>1. AnyPri \in Priorities /\ CV_MAX_WAITERS \in Nat
  BY CondVarAssumption DEF AnyPri
<1>2. Elems(sq_queue) = {} /\ sq_queue \in Seq(Threads)
  BY DEF Elems
<1>3. CvTypeOK
  BY <1>1, <1>2 DEF CvTypeOK, WaiterLabels, PosterLabels
<1>4. MonitorInv
  BY CondVarAssumption DEF MonitorInv
<1>5. QueueInv
  BY <1>2 DEF QueueInv, NoDup, Sorted, Asleep
<1>6. \A c \in Cvs : Sleepers(c) = {}
  BY <1>2 DEF Sleepers
<1>7. CountInv
  BY <1>6, FS_EmptySet DEF CountInv
<1>8. AsleepInv /\ SignalEndsWait /\ TimedWaitEnds
  BY <1>2 DEF AsleepInv, SignalEndsWait, TimedWaitEnds, Asleep
<1>9. CalloutInv /\ RetInv
  BY DEF CalloutInv, CalloutArmed, RetInv
<1>10. NoLostWakeup
  BY <1>6 DEF NoLostWakeup
<1> QED BY <1>3, <1>4, <1>5, <1>7, <1>8, <1>9, <1>10 DEF CvInv

LEMMA CvNext == CvInv /\ [Next]_vars => CvInv'
<1> SUFFICES ASSUME CvInv, [Next]_vars PROVE CvInv'
  OBVIOUS
<1>1. CASE UNCHANGED vars
  <2>1. UNCHANGED <<queueVars, mp, pc, callVars, clockVars, sigVars, userVars>>
    BY <1>1 DEF vars
  <2> USE DEF queueVars, callVars, clockVars, sigVars, userVars, CvInv
  <2>2. /\ QueueInv' /\ CountInv' /\ \A t \in Threads : Asleep(t)' <=> Asleep(t)
        /\ \A c \in Cvs : Sleepers(c)' = Sleepers(c)
    BY <2>1, SameQueue
  <2>3. CvTypeOK'
    BY <2>1 DEF CvTypeOK
  <2>4. MonitorInv' /\ CalloutInv' /\ RetInv'
    BY <2>1 DEF MonitorInv, CalloutInv, CalloutArmed, RetInv
  <2>5. AsleepInv' /\ SignalEndsWait' /\ TimedWaitEnds'
    BY <2>1, <2>2 DEF AsleepInv, SignalEndsWait, TimedWaitEnds
  <2>6. NoLostWakeup'
    BY <2>1, <2>2, FlowSame
  <2> QED BY <2>2, <2>3, <2>4, <2>5, <2>6
<1>2. ASSUME NEW t \in Threads, Continue(t) PROVE CvInv'
  BY <1>2, RealtimeTimeoutStep, SchedctlBlockStep, MutexExitStep, CvBlockStep,
     LookBeforeSwtchStep, SwtchStep, EnterStep, UntimeoutStep, SigCheckStep,
     IssigStep DEF Continue
<1>3. ASSUME NEW t \in Threads,
             \/ StopCheck(t) \/ \E c \in Cvs : Leave(t, c)
             \/ CalloutStart(t) \/ CalloutRun(t)
             \/ SigPost(t) \/ eat_signal(t)
             \/ \E w \in Calls[t], d \in Deltas : cv_wait(t, w, d)
             \/ \E p \in Priorities : cv_change_pri(t, p)
      PROVE  CvInv'
  BY <1>3, StopCheckStep, LeaveStep, CalloutStartStep, CalloutRunStep,
     SigPostStep, EatSignalStep, CvWaitStep, CvChangePriStep
<1>4. ASSUME NEW u \in Posters, Notify(u) \/ \E c \in Cvs : Post(u, c)
      PROVE  CvInv'
  BY <1>4, PosterExitStep, TestWaitersStep, CvSignalStep, CvBroadcastStep,
     PostStep DEF Notify
<1>5. CASE Tick
  BY <1>5, TickStep
<1> QED BY <1>1, <1>2, <1>3, <1>4, <1>5 DEF Next

-----------------------------------------------------------------------------
(* The inductive invariant holds in every reachable state of CondVar.      *)
THEOREM CvInvariant == Spec => []CvInv
BY CvInit, CvNext, PTL DEF Spec

(* The count that cv_signal and cv_broadcast test without the lock, and    *)
(* the shared queue, are right in every reachable state.                   *)
THEOREM CvWaitersExact == Spec => []WaitersExact
<1>1. CvInv => WaitersExact
  <2> SUFFICES ASSUME CvInv PROVE WaitersExact
    OBVIOUS
  <2>1. Elems(sq_queue) \subseteq Threads
    BY LenProperties DEF CvInv, CvTypeOK, Elems
  <2>2. Elems(sq_queue) = {t \in Threads : t_wchan[t] # NULL}
    BY <2>1 DEF CvInv, QueueInv, Asleep
  <2> QED BY <2>2 DEF CvInv, QueueInv, CountInv, WaitersExact
<1> QED BY <1>1, CvInvariant, PTL

(* No notification is lost between the test of the count and the sleep.    *)
THEOREM CvNoLostWakeup == Spec => []NoLostWakeup
<1>1. CvInv => NoLostWakeup
  BY DEF CvInv
<1> QED BY <1>1, CvInvariant, PTL

(* A callout never outlives the wait that armed it.                        *)
THEOREM CvCalloutInWait == Spec => []CalloutInWait
<1>1. CvInv => CalloutInWait
  BY DEF CvInv, CalloutInv, CalloutArmed, CalloutInWait
<1> QED BY <1>1, CvInvariant, PTL

(* A wait reports a timeout only after its deadline and an interruption    *)
(* only for a signal.                                                      *)
THEOREM CvReturnHonest == Spec => []ReturnHonest
<1>1. CvInv => ReturnHonest
  BY DEF CvInv, RetInv, ReturnHonest
<1> QED BY <1>1, CvInvariant, PTL

(* A pending signal always finds the interruptible sleeper.                *)
THEOREM CvSignalEndsWait == Spec => []SignalEndsWait
<1>1. CvInv => SignalEndsWait
  BY DEF CvInv
<1> QED BY <1>1, CvInvariant, PTL

(* A timed wait ends without a notification.                               *)
THEOREM CvTimedWaitEnds == Spec => []TimedWaitEnds
<1>1. CvInv => TimedWaitEnds
  BY DEF CvInv
<1> QED BY <1>1, CvInvariant, PTL
=============================================================================
