---------------------------- MODULE MutexProofs ----------------------------
(***************************************************************************)
(* The safety properties of Mutex hold for any sets of threads, CPUs,      *)
(* mutexes and turnstiles, whatever the store buffers delay.               *)
(***************************************************************************)
EXTENDS Mutex, TurnstileProofs

Labels == {"run", "spin", "search", "lookup", "mark", "recheck", "confirm",
           "pi", "sleep", "exit", "commit", "vector", "clear", "waive", "wake"}
(* Where a thread holds the chain lock, is queued, has noted the owner of  *)
(* the lock it wants, drops a lock, or wakes threads.                      *)
TcLabels == {"mark", "recheck", "confirm", "pi", "clear", "waive", "wake"}
QueuedLabels == {"pi", "sleep"}
OwnerLabels == {"search", "lookup", "mark", "recheck", "confirm"}
ExitLabels == {"exit", "commit", "vector", "clear"}
WakeLabels == {"waive", "wake"}

Stores == {Clear(l) : l \in Locks} \cup {CpuIdle}
Words == [owner : Threads \cup {NULL}, waiters : BOOLEAN, dead : BOOLEAN]

MutexTypeOK ==
    /\ m_owner \in [Locks -> Words]
    /\ cpu_thread \in [CPUs -> Threads \cup {NULL}]
    /\ cur \in [CPUs -> Threads \cup {NULL}]
    /\ sb \in [CPUs -> Seq(Stores)]
    /\ held \in [Threads -> SUBSET Locks]
    /\ pc \in [Threads -> Labels]
    /\ lk \in [Threads -> Locks \cup {NULL}]
    /\ owner \in [Threads -> Threads \cup {NULL}]
    /\ scan \in [Threads -> SUBSET CPUs]
    /\ panicstr \in BOOLEAN
    /\ TurnstileTypeOK

(* A thread runs on one CPU, which says so; only an idle CPU has the store *)
(* of its idle thread under way; and a thread past the test of mutex_exit  *)
(* is running, since a switch takes it back to the test.                   *)
CpuInv ==
    /\ \A c, d \in CPUs : cur[c] = cur[d] /\ cur[c] # NULL => c = d
    /\ \A c \in CPUs : cur[c] # NULL =>
          cpu_thread[c] = cur[c] /\ CpuIdle \notin Elems(sb[c])
    /\ \A c \in CPUs : NoDup(sb[c])
    /\ \A t \in Threads : pc[t] = "commit" => \E c \in CPUs : cur[c] = t

(* The word names the holder until the store that clears it is visible.    *)
WordOf(l) ==
    LET w == m_owner[l] IN
    /\ \A t \in Threads : l \in held[t] => w.owner = t /\ ~w.dead
    /\ \A c \in CPUs : Clear(l) \in Elems(sb[c]) =>
          /\ cur[c] # NULL /\ w.owner = cur[c] /\ ~w.dead
          /\ \A t \in Threads : l \notin held[t]
    /\ w.owner # NULL /\ ~w.dead =>
          l \in held[w.owner] \/ \E c \in CPUs : Clear(l) \in Elems(sb[c])
    /\ w.owner = NULL => w = Free
    /\ w.dead => \A t \in Threads : lk[t] # l

WordInv == \A l \in Locks : WordOf(l)

(* The chain lock, and the locals of each thread's operation.              *)
ControlOf(t) ==
    /\ pc[t] \in TcLabels <=> tc_lock = t
    /\ pc[t] \in {"run", "waive", "wake"} <=> lk[t] = NULL
    /\ pc[t] \in QueuedLabels => t_wchan[t] = lk[t]
    /\ pc[t] \notin QueuedLabels => t_wchan[t] = NULL
    /\ pc[t] \in ExitLabels => lk[t] \in held[t]
    /\ pc[t] \in OwnerLabels => owner[t] # NULL
    /\ pc[t] = "confirm" => scan[t] = {}
    /\ pc[t] = "pi" => pi_cur \in Threads /\ t_wchan[pi_cur] \in Locks
    /\ pc[t] \in WakeLabels => wk.sobj \in Locks
    /\ pc[t] = "waive" => tc_chain[wk.sobj] # NULL

ControlInv == \A t \in Threads : ControlOf(t)

WQ(ts) == ts_sleepq[ts]["W"]
Active(ts) == \E l \in Locks : tc_chain[l] = ts

(* Which turnstile is where: in use for a lock, on the freelist of one in  *)
(* use, or attached to a thread that is awake.                             *)
ChainInv ==
    /\ \A k, l \in Locks : tc_chain[k] = tc_chain[l] /\ k # l => tc_chain[k] = NULL
    /\ \A t \in Threads : t_wchan[t] # NULL => tc_chain[t_wchan[t]] = t_ts[t]
    /\ \A t \in Threads : t_wchan[t] = NULL =>
          /\ ~Active(t_ts[t])
          /\ \A ts \in Turnstiles : t_ts[t] \notin ts_free[ts]
          /\ \A u \in Threads : t_ts[u] = t_ts[t] => u = t
    /\ \A ts \in Turnstiles : \A f \in ts_free[ts] :
          /\ ~Active(f)
          /\ \A x \in Turnstiles : f \in ts_free[x] => x = ts

ContentInv ==
    \A ts \in Turnstiles :
        /\ IsFiniteSet(ts_free[ts])
        /\ ts_waiters[ts] = Len(WQ(ts))
        /\ ~Active(ts) => ts_waiters[ts] = 0 /\ ts_free[ts] = {}
        /\ Active(ts) => Cardinality(ts_free[ts]) = ts_waiters[ts] - 1

(* The queues hold the sleeping threads, each once.                        *)
QueueInv ==
    /\ \A ts \in Turnstiles :
          /\ NoDup(WQ(ts))
          /\ \A t \in Elems(WQ(ts)) : t_wchan[t] # NULL /\ t_ts[t] = ts
          /\ ts_sleepq[ts]["R"] = <<>>
    /\ \A t \in Threads : t_wchan[t] # NULL => t \in Elems(WQ(t_ts[t]))

(* mutex_vector_exit wakes every thread that sleeps on the mutex.          *)
WakeupInv ==
    /\ wk.q = "W" /\ wk.owner = NULL
    /\ wk.sobj = NULL => wk.n = 0
    /\ wk.sobj # NULL =>
          /\ \E t \in Threads : pc[t] \in WakeLabels
          /\ tc_chain[wk.sobj] = NULL => wk.n = 0
          /\ tc_chain[wk.sobj] # NULL => wk.n = Len(WQ(tc_chain[wk.sobj]))

(* The owner of l is past the waiters test of mutex_exit.                  *)
Dropping(l) ==
    \/ \E o \in Threads : pc[o] = "commit" /\ lk[o] = l
    \/ \E c \in CPUs : Clear(l) \in Elems(sb[c])

(* Nobody sleeps on a mutex whose owner may not see the waiters bit.       *)
SleeperInv ==
    \A t \in Threads : t_wchan[t] # NULL =>
        LET l == t_wchan[t] IN
        \/ wk.sobj = l
        \/ /\ m_owner[l].owner # NULL /\ m_owner[l].waiters
           /\ ~Dropping(l)

(* The second search: an owner that passed the test before the waiters bit *)
(* was set is running, on a CPU not yet looked at.                         *)
SearchInv ==
    \A t \in Threads :
        LET w == m_owner[lk[t]] IN
        /\ pc[t] \in {"recheck", "confirm"}
        /\ w.owner = owner[t] /\ w.waiters /\ Dropping(lk[t])
        => \E c \in scan[t] : cur[c] = owner[t]

MutexInv ==
    /\ MutexTypeOK /\ CpuInv /\ WordInv /\ ControlInv /\ ChainInv
    /\ ContentInv /\ QueueInv /\ WakeupInv /\ SleeperInv /\ SearchInv
-----------------------------------------------------------------------------
LEMMA StoreFacts ==
    /\ \A k, l \in Locks : Clear(k) = Clear(l) => k = l
    /\ \A l \in Locks : Clear(l) # CpuIdle
BY DEF Clear, CpuIdle

LEMMA WordFacts ==
    /\ Free \in Words /\ Free.owner = NULL /\ ~Free.waiters /\ ~Free.dead
    /\ \A t \in Threads : /\ Owned(t) \in Words /\ Owned(t).owner = t
                          /\ ~Owned(t).waiters /\ ~Owned(t).dead
                          /\ Owned(t) # Free
BY TurnstileAssumption DEF Free, Owned, Words

(* What a state that satisfies the invariant says of a thread that moves.  *)
LEMMA ThreadFacts ==
    ASSUME MutexInv, NEW t \in Threads
    PROVE  /\ ControlOf(t)
           /\ pc[t] \in TcLabels => tc_lock = t /\ \A u \in Threads : u # t => pc[u] \notin TcLabels
           /\ pc[t] \notin {"run", "waive", "wake"} => lk[t] \in Locks
           /\ t_wchan[t] # NULL => t_wchan[t] \in Locks
BY DEF MutexInv, ControlInv, ControlOf, MutexTypeOK, TurnstileTypeOK

LEMMA TurnstilesKept ==
    ASSUME MutexInv, UNCHANGED <<chain_vars, ts_sleepq>>
    PROVE  ChainInv' /\ ContentInv' /\ QueueInv'
<1>1. ChainInv'
  BY DEF MutexInv, ChainInv, Active, chain_vars
<1>2. ContentInv'
  BY DEF MutexInv, ContentInv, Active, chain_vars, WQ
<1>3. QueueInv'
  BY DEF MutexInv, QueueInv, chain_vars, WQ
<1> QED BY <1>1, <1>2, <1>3

(* A thread moves, and the others' locals do not change.                   *)
Moves(t, label) ==
    /\ pc' = [pc EXCEPT ![t] = label]
    /\ \A u \in Threads : u # t =>
          lk'[u] = lk[u] /\ owner'[u] = owner[u] /\ scan'[u] = scan[u]

LEMMA MovesFacts ==
    ASSUME MutexTypeOK, NEW t \in Threads, NEW label, Moves(t, label)
    PROVE  /\ pc'[t] = label
           /\ \A u \in Threads : u # t => /\ pc'[u] = pc[u] /\ lk'[u] = lk[u]
                                          /\ owner'[u] = owner[u] /\ scan'[u] = scan[u]
BY DEF Moves, MutexTypeOK

LEMMA ControlKept ==
    ASSUME MutexInv, NEW t \in Threads, NEW label, Moves(t, label),
           \A u \in Threads : u # t =>
              /\ held'[u] = held[u] /\ t_wchan'[u] = t_wchan[u]
              /\ tc_lock' = u <=> tc_lock = u
              /\ pc[u] \in TcLabels =>
                    pi_cur' = pi_cur /\ wk'.sobj = wk.sobj /\ UNCHANGED <<tc_chain, t_wchan>>,
           ControlOf(t)'
    PROVE  ControlInv'
<1>1. ASSUME NEW u \in Threads, u # t PROVE ControlOf(u)'
  <2>1. ControlOf(u) /\ MutexTypeOK
    BY DEF MutexInv, ControlInv
  <2>2. /\ pc'[u] = pc[u] /\ lk'[u] = lk[u] /\ owner'[u] = owner[u] /\ scan'[u] = scan[u]
        /\ held'[u] = held[u] /\ t_wchan'[u] = t_wchan[u]
        /\ tc_lock' = u <=> tc_lock = u
    BY <1>1, <2>1, MovesFacts
  <2>3. CASE pc[u] \in TcLabels
    BY <1>1, <2>1, <2>2, <2>3 DEF ControlOf
  <2>4. CASE pc[u] \notin TcLabels
    BY <2>1, <2>2, <2>4 DEF ControlOf, TcLabels, WakeLabels
  <2> QED BY <2>3, <2>4
<1> QED BY <1>1 DEF ControlInv

(* A step that neither the words nor the processors see, and that does not *)
(* enter the windows between a test and its use.                           *)
LEMMA LocalStep ==
    ASSUME MutexInv, NEW t \in Threads, NEW label \in Labels, Moves(t, label),
           label \notin {"commit", "recheck", "confirm"},
           UNCHANGED <<m_owner, cpu_thread, cur, sb, held>>,
           lk'[t] # NULL => lk'[t] \in Locks /\ ~m_owner[lk'[t]].dead
    PROVE  /\ CpuInv' /\ WordInv' /\ SearchInv'
           /\ UNCHANGED <<t_wchan, wk>> => SleeperInv'
<1>a. /\ pc'[t] = label
      /\ \A u \in Threads : u # t => /\ pc'[u] = pc[u] /\ lk'[u] = lk[u]
                                     /\ owner'[u] = owner[u] /\ scan'[u] = scan[u]
  BY MovesFacts DEF MutexInv
<1>1. CpuInv'
  BY <1>a DEF MutexInv, CpuInv
<1>2. WordInv'
  <2>1. SUFFICES ASSUME NEW l \in Locks PROVE WordOf(l)'
    BY DEF WordInv
  <2>2. WordOf(l)
    BY DEF MutexInv, WordInv
  <2> QED BY <2>2, <1>a, TurnstileAssumption DEF WordOf
<1>3. \A l \in Locks : Dropping(l)' => Dropping(l)
  BY <1>a DEF Dropping
<1>4. SearchInv'
  <2>1. SUFFICES ASSUME NEW u \in Threads, pc'[u] \in {"recheck", "confirm"},
                        m_owner[lk'[u]].owner = owner'[u],
                        m_owner[lk'[u]].waiters, Dropping(lk[u])'
                 PROVE  \E c \in scan'[u] : cur[c] = owner'[u]
    BY <1>a DEF SearchInv
  <2>2. u # t
    BY <1>a, <2>1
  <2>3. pc[u] = pc'[u] /\ lk'[u] = lk[u] /\ owner'[u] = owner[u] /\ scan'[u] = scan[u]
    BY <1>a, <2>2
  <2>4. lk[u] \in Locks
    BY <2>1, <2>3, ThreadFacts
  <2>5. Dropping(lk[u])
    BY <1>a, <2>1, <2>4 DEF Dropping
  <2> QED BY <2>1, <2>3, <2>5 DEF MutexInv, SearchInv
<1>5. ASSUME UNCHANGED <<t_wchan, wk>> PROVE SleeperInv'
  BY <1>3, <1>5, ThreadFacts DEF MutexInv, SleeperInv
<1> QED BY <1>1, <1>2, <1>4, <1>5

LEMMA WakeupKept ==
    ASSUME MutexInv, UNCHANGED <<wk, tc_chain, ts_sleepq>>,
           \A u \in Threads : pc[u] \in WakeLabels => pc'[u] \in WakeLabels
    PROVE  WakeupInv'
BY DEF MutexInv, WakeupInv, WQ

(* Such a step that takes or drops the chain lock at most.                 *)
LEMMA QuietStep ==
    ASSUME MutexInv, NEW t \in Threads, NEW label \in Labels, Moves(t, label),
           label \notin {"commit", "recheck", "confirm"}, pc[t] \notin WakeLabels,
           UNCHANGED <<m_owner, cpu_thread, cur, sb, held>>,
           UNCHANGED <<chain_vars, pi_vars, ts_sleepq, t_pri, pi_cur, wk>>,
           tc_lock' \in Threads \cup {NULL}, panicstr' \in BOOLEAN,
           \A u \in Threads : u # t => (tc_lock' = u <=> tc_lock = u),
           lk' \in [Threads -> Locks \cup {NULL}],
           owner' \in [Threads -> Threads \cup {NULL}],
           scan' \in [Threads -> SUBSET CPUs],
           lk'[t] # NULL => ~m_owner[lk'[t]].dead,
           ControlOf(t)'
    PROVE  MutexInv'
<1>0. UNCHANGED <<tc_chain, t_wchan>>
  BY DEF chain_vars
<1>1. MutexTypeOK'
  <2>1. pc' \in [Threads -> Labels]
    BY DEF Moves, MutexInv, MutexTypeOK
  <2>2. TurnstileTypeOK'
    BY DEF MutexInv, MutexTypeOK, TurnstileTypeOK, chain_vars, pi_vars
  <2> QED BY <2>1, <2>2 DEF MutexInv, MutexTypeOK
<1>2. CpuInv' /\ WordInv' /\ SearchInv' /\ SleeperInv'
  BY <1>0, LocalStep
<1>3. ControlInv'
  BY <1>0, ControlKept
<1>4. ChainInv' /\ ContentInv' /\ QueueInv'
  BY TurnstilesKept
<1>5. WakeupInv'
  <2>1. \A u \in Threads : pc[u] \in WakeLabels => pc'[u] \in WakeLabels
    BY MovesFacts DEF MutexInv
  <2> QED BY <1>0, <2>1, WakeupKept
<1> QED BY <1>1, <1>2, <1>3, <1>4, <1>5 DEF MutexInv

(* A mutex some thread is busy with is not destroyed.                      *)
LEMMA InUse ==
    ASSUME MutexInv, NEW t \in Threads, lk[t] # NULL
    PROVE  lk[t] \in Locks /\ ~m_owner[lk[t]].dead
BY DEF MutexInv, MutexTypeOK, WordInv, WordOf

LEMMA EnterSpins ==
    ASSUME MutexInv, NEW t \in Threads, NEW l \in Locks, mutex_enter(t, l), ~Available(l)
    PROVE  MutexInv'
<1>1. /\ pc[t] = "run" /\ ~m_owner[l].dead /\ Moves(t, "spin")
      /\ lk' = [lk EXCEPT ![t] = l]
      /\ UNCHANGED <<m_owner, held, cpu_thread, cur, sb, owner, scan, panicstr, ts_vars>>
  BY DEF mutex_enter, At, Goto, Moves, MutexInv, MutexTypeOK
<1>2. ControlOf(t)'
  <2>1. ControlOf(t) /\ pc'[t] = "spin" /\ lk'[t] = l /\ l # NULL
    BY <1>1, ThreadFacts, MovesFacts, TurnstileAssumption
    DEF MutexInv, MutexTypeOK
  <2> QED BY <1>1, <2>1
    DEF ControlOf, TcLabels, QueuedLabels, OwnerLabels, ExitLabels, WakeLabels,
        ts_vars, chain_vars
<1>3. lk' \in [Threads -> Locks \cup {NULL}] /\ lk'[t] = l
  BY <1>1 DEF MutexInv, MutexTypeOK
<1>4. /\ tc_lock' \in Threads \cup {NULL} /\ panicstr' \in BOOLEAN
      /\ owner' \in [Threads -> Threads \cup {NULL}] /\ scan' \in [Threads -> SUBSET CPUs]
  BY <1>1 DEF ts_vars, MutexInv, MutexTypeOK, TurnstileTypeOK
<1> QED BY <1>1, <1>2, <1>3, <1>4, QuietStep DEF Labels, WakeLabels, ts_vars

LEMMA SpinOwnerStep ==
    ASSUME MutexInv, NEW t \in Threads, SpinOwner(t)
    PROVE  MutexInv'
<1>0. PICK o \in Threads : o = m_owner[lk[t]].owner
  BY ThreadFacts DEF SpinOwner, At, mutex_owner, MutexInv, MutexTypeOK, Words
<1>1. /\ pc[t] = "spin" /\ Moves(t, "search")
      /\ owner' = [owner EXCEPT ![t] = o]
      /\ scan' = [scan EXCEPT ![t] = CPUs]
      /\ UNCHANGED <<m_owner, held, cpu_thread, cur, sb, lk, ts_vars>>
  BY <1>0 DEF SpinOwner, At, Goto, Moves, mutex_owner, MutexInv, MutexTypeOK
<1>2. panicstr' \in BOOLEAN
  BY DEF SpinOwner
<1>3. ControlOf(t)'
  <2>1. ControlOf(t) /\ pc'[t] = "search" /\ owner'[t] = o /\ o # NULL
    BY <1>1, ThreadFacts, MovesFacts, TurnstileAssumption
    DEF MutexInv, MutexTypeOK
  <2> QED BY <1>1, <2>1
    DEF ControlOf, TcLabels, QueuedLabels, OwnerLabels, ExitLabels, WakeLabels,
        ts_vars, chain_vars
<1>4. /\ owner' \in [Threads -> Threads \cup {NULL}] /\ scan' \in [Threads -> SUBSET CPUs]
      /\ tc_lock' \in Threads \cup {NULL} /\ lk' \in [Threads -> Locks \cup {NULL}]
  BY <1>1 DEF ts_vars, MutexInv, MutexTypeOK, TurnstileTypeOK
<1> QED BY <1>1, <1>2, <1>3, <1>4, QuietStep, InUse
  DEF Labels, WakeLabels, ts_vars

LEMMA SearchStep ==
    ASSUME MutexInv, NEW t \in Threads, NEW c \in CPUs, Search(t, c)
    PROVE  MutexInv'
<1>0. PICK label \in {"spin", "search", "lookup"} : Goto(t, label)
  BY DEF Search, Respin
<1>1. /\ pc[t] = "search" /\ Moves(t, label)
      /\ UNCHANGED <<m_owner, held, cpu_thread, cur, sb, lk, panicstr, ts_vars>>
  BY <1>0 DEF Search, At, Goto, Moves, Respin, MutexInv, MutexTypeOK
<1>2. CASE cpu_thread[c] = owner[t]
  <2>1. /\ owner' = [owner EXCEPT ![t] = NULL] /\ scan' = [scan EXCEPT ![t] = {}]
        /\ pc' = [pc EXCEPT ![t] = "spin"]
    BY <1>2 DEF Search, Respin, Goto
  <2>2. ControlOf(t)'
    <3>1. ControlOf(t) /\ pc'[t] = "spin"
      BY <2>1, ThreadFacts DEF MutexInv, MutexTypeOK
    <3> QED BY <1>1, <3>1
      DEF ControlOf, TcLabels, QueuedLabels, OwnerLabels, ExitLabels, WakeLabels,
          ts_vars, chain_vars
  <2>3. /\ owner' \in [Threads -> Threads \cup {NULL}] /\ scan' \in [Threads -> SUBSET CPUs]
        /\ tc_lock' \in Threads \cup {NULL} /\ lk' \in [Threads -> Locks \cup {NULL}]
        /\ panicstr' \in BOOLEAN
    BY <1>1, <2>1 DEF ts_vars, MutexInv, MutexTypeOK, TurnstileTypeOK
  <2> QED BY <1>1, <2>2, <2>3, QuietStep, InUse DEF Labels, WakeLabels, ts_vars
<1>3. CASE cpu_thread[c] # owner[t]
  <2>1. /\ UNCHANGED owner /\ scan' = [scan EXCEPT ![t] = @ \ {c}]
        /\ pc' = [pc EXCEPT ![t] = IF scan[t] = {c} THEN "lookup" ELSE "search"]
    BY <1>3 DEF Search, Goto
  <2>2. ControlOf(t)'
    <3>1. ControlOf(t) /\ pc'[t] \in {"search", "lookup"}
      BY <2>1, ThreadFacts DEF MutexInv, MutexTypeOK
    <3> QED BY <1>1, <2>1, <3>1
      DEF ControlOf, TcLabels, QueuedLabels, OwnerLabels, ExitLabels, WakeLabels,
          ts_vars, chain_vars
  <2>3. /\ owner' \in [Threads -> Threads \cup {NULL}] /\ scan' \in [Threads -> SUBSET CPUs]
        /\ tc_lock' \in Threads \cup {NULL} /\ lk' \in [Threads -> Locks \cup {NULL}]
        /\ panicstr' \in BOOLEAN
    BY <1>1, <2>1 DEF ts_vars, MutexInv, MutexTypeOK, TurnstileTypeOK
  <2> QED BY <1>1, <2>2, <2>3, QuietStep, InUse DEF Labels, WakeLabels, ts_vars
<1> QED BY <1>2, <1>3

(* The steps that take or drop the chain lock and move the thread.         *)
LEMMA LookupStep ==
    ASSUME MutexInv, NEW t \in Threads, VectorLookup(t) \/ VectorExitLookup(t)
    PROVE  MutexInv'
<1>0. PICK label \in {"mark", "clear"} :
         Goto(t, label) /\ pc[t] = IF label = "mark" THEN "lookup" ELSE "vector"
  BY DEF VectorLookup, VectorExitLookup, At
<1>1. /\ Moves(t, label) /\ tc_lock = NULL /\ tc_lock' = t
      /\ UNCHANGED <<m_owner, held, cpu_thread, cur, sb, lk, owner, scan, panicstr>>
      /\ UNCHANGED <<chain_vars, pi_vars, ts_sleepq, t_pri, pi_cur, wk>>
  BY <1>0 DEF VectorLookup, VectorExitLookup, turnstile_lookup, Goto, Moves
<1>2. ControlOf(t)'
  <2>1. ControlOf(t) /\ pc'[t] = label
    BY <1>1, ThreadFacts, MovesFacts DEF MutexInv
  <2> QED BY <1>0, <1>1, <2>1
    DEF ControlOf, TcLabels, QueuedLabels, OwnerLabels, ExitLabels, WakeLabels,
        chain_vars
<1>3. /\ owner' \in [Threads -> Threads \cup {NULL}] /\ scan' \in [Threads -> SUBSET CPUs]
      /\ tc_lock' \in Threads \cup {NULL} /\ lk' \in [Threads -> Locks \cup {NULL}]
      /\ panicstr' \in BOOLEAN
  BY <1>1 DEF MutexInv, MutexTypeOK
<1>4. \A u \in Threads : u # t => (tc_lock' = u <=> tc_lock = u)
  BY <1>1, TurnstileAssumption
<1> QED BY <1>0, <1>1, <1>2, <1>3, <1>4, QuietStep, InUse DEF Labels, WakeLabels

LEMMA AbortStep ==
    ASSUME MutexInv, NEW t \in Threads,
           ConfirmAbort(t) \/ \E c \in CPUs : RecheckAbort(t, c)
    PROVE  MutexInv'
<1>1. /\ pc[t] \in {"recheck", "confirm"} /\ Moves(t, "spin")
      /\ tc_lock = t /\ tc_lock' = NULL
      /\ owner' = [owner EXCEPT ![t] = NULL] /\ scan' = [scan EXCEPT ![t] = {}]
      /\ UNCHANGED <<m_owner, held, cpu_thread, cur, sb, lk, panicstr>>
      /\ UNCHANGED <<chain_vars, pi_vars, ts_sleepq, t_pri, pi_cur, wk>>
  BY
  DEF ConfirmAbort, RecheckAbort, turnstile_exit, Goto, Moves, Respin, At,
      MutexInv, MutexTypeOK
<1>2. ControlOf(t)'
  <2>1. ControlOf(t) /\ pc'[t] = "spin"
    BY <1>1, ThreadFacts, MovesFacts DEF MutexInv
  <2> QED BY <1>1, <2>1, TurnstileAssumption
    DEF ControlOf, TcLabels, QueuedLabels, OwnerLabels, ExitLabels, WakeLabels,
        chain_vars
<1>3. /\ owner' \in [Threads -> Threads \cup {NULL}] /\ scan' \in [Threads -> SUBSET CPUs]
      /\ tc_lock' \in Threads \cup {NULL} /\ lk' \in [Threads -> Locks \cup {NULL}]
      /\ panicstr' \in BOOLEAN
  BY <1>1 DEF MutexInv, MutexTypeOK
<1>4. \A u \in Threads : u # t => (tc_lock' = u <=> tc_lock = u)
  BY <1>1, TurnstileAssumption
<1> QED BY <1>1, <1>2, <1>3, <1>4, QuietStep, InUse DEF Labels, WakeLabels

LEMMA mutex_exitStep ==
    ASSUME MutexInv, NEW t \in Threads, NEW l \in Locks, mutex_exit(t, l)
    PROVE  MutexInv'
<1>1. /\ pc[t] = "run" /\ l \in held[t] /\ Moves(t, "exit")
      /\ lk' = [lk EXCEPT ![t] = l]
      /\ UNCHANGED <<m_owner, held, cpu_thread, cur, sb, owner, scan, panicstr, ts_vars>>
  BY DEF mutex_exit, At, Goto, Moves, MutexInv, MutexTypeOK
<1>2. ~m_owner[l].dead
  BY <1>1 DEF MutexInv, WordInv, WordOf
<1>3. lk' \in [Threads -> Locks \cup {NULL}] /\ lk'[t] = l
  BY <1>1 DEF MutexInv, MutexTypeOK
<1>4. ControlOf(t)'
  <2>1. ControlOf(t) /\ pc'[t] = "exit" /\ l # NULL
    BY <1>1, ThreadFacts, MovesFacts, TurnstileAssumption DEF MutexInv
  <2> QED BY <1>1, <1>3, <2>1
    DEF ControlOf, TcLabels, QueuedLabels, OwnerLabels, ExitLabels, WakeLabels,
        ts_vars, chain_vars
<1>5. /\ tc_lock' \in Threads \cup {NULL} /\ panicstr' \in BOOLEAN
      /\ owner' \in [Threads -> Threads \cup {NULL}] /\ scan' \in [Threads -> SUBSET CPUs]
  BY <1>1 DEF ts_vars, MutexInv, MutexTypeOK, TurnstileTypeOK
<1> QED BY <1>1, <1>2, <1>3, <1>4, <1>5, QuietStep DEF Labels, WakeLabels, ts_vars

(* A step of t that leaves the turnstiles alone.                           *)
LEMMA FrameStep ==
    ASSUME MutexInv, NEW t \in Threads, NEW label \in Labels, Moves(t, label),
           pc[t] \notin WakeLabels, UNCHANGED ts_vars,
           m_owner' \in [Locks -> Words],
           cpu_thread' \in [CPUs -> Threads \cup {NULL}],
           cur' \in [CPUs -> Threads \cup {NULL}],
           sb' \in [CPUs -> Seq(Stores)],
           held' \in [Threads -> SUBSET Locks],
           lk' \in [Threads -> Locks \cup {NULL}],
           owner' \in [Threads -> Threads \cup {NULL}],
           scan' \in [Threads -> SUBSET CPUs],
           panicstr' \in BOOLEAN,
           \A u \in Threads : u # t => held'[u] = held[u],
           CpuInv', WordInv', ControlOf(t)', SleeperInv', SearchInv'
    PROVE  MutexInv'
<1>1. MutexTypeOK'
  <2>1. pc' \in [Threads -> Labels]
    BY DEF Moves, MutexInv, MutexTypeOK
  <2>2. TurnstileTypeOK'
    BY DEF MutexInv, MutexTypeOK, TurnstileTypeOK, ts_vars, chain_vars, pi_vars
  <2> QED BY <2>1, <2>2 DEF MutexTypeOK
<1>2. ControlInv'
  BY ControlKept DEF ts_vars, chain_vars
<1>3. ChainInv' /\ ContentInv' /\ QueueInv'
  BY TurnstilesKept DEF ts_vars
<1>4. WakeupInv'
  <2>1. \A u \in Threads : pc[u] \in WakeLabels => pc'[u] \in WakeLabels
    BY MovesFacts DEF MutexInv
  <2> QED BY <2>1, WakeupKept DEF ts_vars, chain_vars
<1> QED BY <1>1, <1>2, <1>3, <1>4 DEF MutexInv

(* One lock's word and holds change; the others' are as they were.         *)
LEMMA OtherWords ==
    ASSUME MutexInv, NEW l \in Locks, WordOf(l)',
           UNCHANGED <<cur, sb>>,
           \A k \in Locks : k # l => m_owner'[k] = m_owner[k],
           \A u \in Threads : \A k \in Locks : k # l => (k \in held'[u] <=> k \in held[u]),
           \A u \in Threads : lk'[u] = lk[u] \/ lk'[u] = NULL
    PROVE  WordInv'
<1>1. SUFFICES ASSUME NEW k \in Locks, k # l PROVE WordOf(k)'
  BY DEF WordInv
<1>2. WordOf(k)
  BY DEF MutexInv, WordInv
<1>3. m_owner[k].owner # NULL => m_owner[k].owner \in Threads
  BY DEF MutexInv, MutexTypeOK, Words
<1> QED BY <1>1, <1>2, <1>3, TurnstileAssumption DEF WordOf

LEMMA AcquireStep ==
    ASSUME MutexInv, NEW t \in Threads, NEW l \in Locks, Available(l), Acquire(t, l),
           pc[t] \in {"run", "spin"}, lk' = [lk EXCEPT ![t] = NULL],
           UNCHANGED <<cpu_thread, cur, sb, owner, scan, panicstr, ts_vars>>
    PROVE  MutexInv'
<1>1. /\ m_owner' = [m_owner EXCEPT ![l] = Owned(t)]
      /\ held' = [held EXCEPT ![t] = @ \cup {l}]
      /\ Moves(t, "run") /\ m_owner[l] = Free
  BY DEF Acquire, SetWord, Goto, Available, Moves, MutexInv, MutexTypeOK
<1>2. /\ m_owner' \in [Locks -> Words] /\ held' \in [Threads -> SUBSET Locks]
      /\ lk' \in [Threads -> Locks \cup {NULL}]
      /\ cpu_thread' \in [CPUs -> Threads \cup {NULL}]
      /\ cur' \in [CPUs -> Threads \cup {NULL}]
      /\ sb' \in [CPUs -> Seq(Stores)]
      /\ owner' \in [Threads -> Threads \cup {NULL}]
      /\ scan' \in [Threads -> SUBSET CPUs]
      /\ panicstr' \in BOOLEAN
  BY <1>1, WordFacts DEF MutexInv, MutexTypeOK
<1>3. /\ m_owner'[l] = Owned(t) /\ \A k \in Locks : k # l => m_owner'[k] = m_owner[k]
      /\ held'[t] = held[t] \cup {l} /\ \A u \in Threads : u # t => held'[u] = held[u]
      /\ lk'[t] = NULL /\ \A u \in Threads : u # t => lk'[u] = lk[u]
      /\ pc'[t] = "run" /\ \A u \in Threads : u # t => pc'[u] = pc[u]
  BY <1>1, MovesFacts DEF MutexInv, MutexTypeOK
<1>4. /\ \A u \in Threads : l \notin held[u]
      /\ \A c \in CPUs : Clear(l) \notin Elems(sb[c])
      /\ \A u \in Threads : pc[u] = "commit" => lk[u] # l
  <2>1. WordOf(l) /\ m_owner[l].owner = NULL
    BY <1>1, WordFacts DEF MutexInv, WordInv
  <2>2. \A u \in Threads : l \notin held[u]
    BY <2>1, TurnstileAssumption DEF WordOf
  <2>3. \A c \in CPUs : Clear(l) \notin Elems(sb[c])
    BY <2>1 DEF WordOf
  <2> QED BY <2>2, <2>3, ThreadFacts DEF ControlOf, ExitLabels
<1>5. CpuInv'
  BY <1>3 DEF MutexInv, CpuInv
<1>6. WordInv'
  <2>1. WordOf(l)'
    BY <1>3, <1>4, WordFacts, TurnstileAssumption DEF WordOf
  <2> QED BY <1>3, <2>1, OtherWords
<1>7. \A k \in Locks : Dropping(k)' => Dropping(k)
  BY <1>3 DEF Dropping
<1>8. SleeperInv'
  <2>1. SUFFICES ASSUME NEW u \in Threads, t_wchan[u] # NULL, wk.sobj # t_wchan[u]
                 PROVE  LET k == t_wchan[u] IN
                        m_owner'[k].owner # NULL /\ m_owner'[k].waiters /\ ~Dropping(k)'
    BY DEF SleeperInv, ts_vars, chain_vars
  <2>2. PICK k \in Locks : k = t_wchan[u]
    BY <2>1, ThreadFacts
  <2>3. m_owner[k].owner # NULL /\ m_owner[k].waiters /\ ~Dropping(k)
    BY <2>1, <2>2 DEF MutexInv, SleeperInv
  <2>4. k # l
    BY <2>3, <1>1, WordFacts
  <2> QED BY <1>3, <1>7, <2>2, <2>3, <2>4 DEF ts_vars, chain_vars
<1>9. SearchInv'
  <2>1. SUFFICES ASSUME NEW u \in Threads, pc'[u] \in {"recheck", "confirm"},
                        m_owner'[lk'[u]].owner = owner[u],
                        m_owner'[lk'[u]].waiters, Dropping(lk[u])'
                 PROVE  \E c \in scan[u] : cur[c] = owner[u]
    BY DEF SearchInv
  <2>2. u # t /\ pc[u] = pc'[u] /\ lk'[u] = lk[u]
    BY <1>3, <2>1
  <2>3. PICK k \in Locks : k = lk[u]
    BY <2>1, <2>2, ThreadFacts
  <2>4. k # l /\ m_owner'[k] = m_owner[k]
    BY <2>1, <2>2, <2>3, <1>3, WordFacts
  <2>5. Dropping(k)
    BY <1>7, <2>1, <2>2, <2>3 DEF Dropping
  <2> QED BY <2>1, <2>2, <2>3, <2>4, <2>5 DEF MutexInv, SearchInv
<1>10. ControlOf(t)'
  <2>1. ControlOf(t)
    BY ThreadFacts
  <2> QED BY <1>3, <2>1
    DEF ControlOf, TcLabels, QueuedLabels, OwnerLabels, ExitLabels, WakeLabels,
        ts_vars, chain_vars
<1> QED BY <1>1, <1>2, <1>3, <1>5, <1>6, <1>8, <1>9, <1>10, FrameStep
  DEF Labels, WakeLabels

LEMMA mutex_enterStep ==
    ASSUME MutexInv, NEW t \in Threads, NEW l \in Locks, mutex_enter(t, l)
    PROVE  MutexInv'
<1>1. CASE Available(l)
  <2>1. /\ pc[t] = "run" /\ Acquire(t, l) /\ UNCHANGED lk
        /\ UNCHANGED <<cpu_thread, cur, sb, owner, scan, panicstr, ts_vars>>
    BY <1>1 DEF mutex_enter, At
  <2>2. lk[t] = NULL /\ lk \in [Threads -> Locks \cup {NULL}]
    BY <2>1, ThreadFacts DEF ControlOf, MutexInv, MutexTypeOK
  <2>3. lk' = [lk EXCEPT ![t] = NULL]
    BY <2>1, <2>2
  <2> QED BY <1>1, <2>1, <2>3, AcquireStep
<1>2. CASE ~Available(l)
  BY <1>2, EnterSpins
<1> QED BY <1>1, <1>2

LEMMA mutex_tryenterStep ==
    ASSUME MutexInv, NEW t \in Threads, NEW l \in Locks, mutex_tryenter(t, l)
    PROVE  MutexInv'
<1>1. /\ pc[t] = "run" /\ Available(l) /\ Acquire(t, l) /\ UNCHANGED lk
      /\ UNCHANGED <<cpu_thread, cur, sb, owner, scan, panicstr, ts_vars>>
  BY DEF mutex_tryenter, At
<1>2. lk[t] = NULL /\ lk \in [Threads -> Locks \cup {NULL}]
  BY <1>1, ThreadFacts DEF ControlOf, MutexInv, MutexTypeOK
<1>3. lk' = [lk EXCEPT ![t] = NULL]
  BY <1>1, <1>2
<1> QED BY <1>1, <1>3, AcquireStep

LEMMA SpinGrabStep ==
    ASSUME MutexInv, NEW t \in Threads, SpinGrab(t)
    PROVE  MutexInv'
<1>1. /\ pc[t] = "spin" /\ Available(lk[t]) /\ Acquire(t, lk[t])
      /\ lk' = [lk EXCEPT ![t] = NULL]
      /\ UNCHANGED <<cpu_thread, cur, sb, owner, scan, panicstr, ts_vars>>
  BY DEF SpinGrab, At
<1>2. lk[t] \in Locks
  BY <1>1, ThreadFacts
<1> QED BY <1>1, <1>2, AcquireStep

(* SleeperInv and SearchInv, when what they say of each word is kept.      *)
LEMMA SleepersKept ==
    ASSUME MutexInv, UNCHANGED <<t_wchan, wk>>,
           \A k \in Locks, u \in Threads :
              /\ t_wchan[u] = k /\ wk.sobj # k
              /\ m_owner[k].owner # NULL /\ m_owner[k].waiters /\ ~Dropping(k)
              => m_owner'[k].owner # NULL /\ m_owner'[k].waiters /\ ~Dropping(k)'
    PROVE  SleeperInv'
<1>1. SUFFICES ASSUME NEW u \in Threads, t_wchan[u] # NULL, wk.sobj # t_wchan[u]
               PROVE  LET k == t_wchan[u] IN
                      m_owner'[k].owner # NULL /\ m_owner'[k].waiters /\ ~Dropping(k)'
  BY DEF SleeperInv
<1>2. PICK k \in Locks : k = t_wchan[u]
  BY <1>1, ThreadFacts
<1>3. m_owner[k].owner # NULL /\ m_owner[k].waiters /\ ~Dropping(k)
  BY <1>1, <1>2 DEF MutexInv, SleeperInv
<1> QED BY <1>1, <1>2, <1>3

LEMMA SearchersKept ==
    ASSUME MutexInv,
           \A u \in Threads : pc'[u] \in {"recheck", "confirm"} =>
              pc[u] = pc'[u] /\ lk'[u] = lk[u] /\ owner'[u] = owner[u] /\ scan'[u] = scan[u],
           \A k \in Locks : m_owner'[k].waiters /\ Dropping(k)' =>
              /\ m_owner'[k].owner = m_owner[k].owner
              /\ m_owner[k].waiters /\ Dropping(k)
              /\ \A c \in CPUs : cur[c] # NULL /\ cur[c] = m_owner[k].owner => cur'[c] = cur[c]
    PROVE  SearchInv'
<1>1. SUFFICES ASSUME NEW u \in Threads, pc'[u] \in {"recheck", "confirm"},
                      m_owner'[lk'[u]].owner = owner'[u],
                      m_owner'[lk'[u]].waiters, Dropping(lk[u])'
               PROVE  \E c \in scan'[u] : cur'[c] = owner'[u]
  BY DEF SearchInv
<1>2. pc[u] = pc'[u] /\ lk'[u] = lk[u] /\ owner'[u] = owner[u] /\ scan'[u] = scan[u]
  BY <1>1
<1>3. PICK k \in Locks : k = lk[u]
  BY <1>1, <1>2, ThreadFacts
<1>4. Dropping(k)'
  BY <1>1, <1>2, <1>3 DEF Dropping
<1>5. /\ m_owner'[k].owner = m_owner[k].owner /\ m_owner[k].waiters /\ Dropping(k)
      /\ \A c \in CPUs : cur[c] # NULL /\ cur[c] = m_owner[k].owner => cur'[c] = cur[c]
  BY <1>1, <1>2, <1>3, <1>4
<1>6. \E c \in scan[u] : cur[c] = owner[u]
  BY <1>1, <1>2, <1>3, <1>5 DEF MutexInv, SearchInv
<1>7. owner[u] # NULL /\ scan[u] \subseteq CPUs
  BY <1>1, <1>2, ThreadFacts DEF ControlOf, OwnerLabels, MutexInv, MutexTypeOK
<1> QED BY <1>1, <1>2, <1>3, <1>5, <1>6, <1>7

(* Past the test: the word had no waiters bit.                             *)
LEMMA ExitTestStep ==
    ASSUME MutexInv, NEW t \in Threads, ExitTest(t)
    PROVE  MutexInv'
<1>0. PICK l \in Locks : l = lk[t]
  BY ThreadFacts DEF ExitTest, At
<1>1. /\ pc[t] = "exit" /\ \E c \in CPUs : cur[c] = t
      /\ pc' = [pc EXCEPT ![t] = IF m_owner[l] = Owned(t) THEN "commit" ELSE "vector"]
      /\ UNCHANGED <<m_owner, cpu_thread, cur, sb, held, lk, owner, scan, ts_vars>>
  BY <1>0 DEF ExitTest, At, Running, Goto
<1>2. panicstr' \in BOOLEAN
  BY DEF ExitTest
<1>3. ControlOf(t) /\ MutexTypeOK /\ l # NULL
  BY <1>0, ThreadFacts, TurnstileAssumption DEF MutexInv
<1>4. CASE m_owner[l] # Owned(t)
  <2>1. Moves(t, "vector") /\ pc'[t] = "vector"
    BY <1>1, <1>3, <1>4 DEF Moves, MutexTypeOK
  <2>2. ControlOf(t)'
    BY <1>0, <1>1, <1>3, <2>1
    DEF ControlOf, TcLabels, QueuedLabels, OwnerLabels, ExitLabels, WakeLabels,
        ts_vars, chain_vars
  <2>3. /\ owner' \in [Threads -> Threads \cup {NULL}] /\ scan' \in [Threads -> SUBSET CPUs]
        /\ tc_lock' \in Threads \cup {NULL} /\ lk' \in [Threads -> Locks \cup {NULL}]
    BY <1>1, <1>3 DEF ts_vars, MutexTypeOK, TurnstileTypeOK
  <2> QED BY <1>0, <1>1, <1>2, <2>1, <2>2, <2>3, QuietStep, InUse
    DEF Labels, WakeLabels, ts_vars
<1>5. CASE m_owner[l] = Owned(t)
  <2>1. Moves(t, "commit") /\ pc'[t] = "commit" /\ ~m_owner[l].waiters
    BY <1>1, <1>3, <1>5, WordFacts DEF Moves, MutexTypeOK
  <2>2. \A u \in Threads : u # t => pc'[u] = pc[u]
    BY <1>3, <2>1, MovesFacts
  <2>3. \A k \in Locks : k # l => (Dropping(k)' => Dropping(k))
    BY <1>0, <1>1, <2>1, <2>2 DEF Dropping
  <2>4. ControlOf(t)'
    BY <1>0, <1>1, <1>3, <2>1
    DEF ControlOf, TcLabels, QueuedLabels, OwnerLabels, ExitLabels, WakeLabels,
        ts_vars, chain_vars
  <2>5. CpuInv'
    BY <1>1, <2>1, <2>2 DEF MutexInv, CpuInv
  <2>6. WordInv'
    <3>1. ASSUME NEW k \in Locks PROVE WordOf(k)'
      BY <1>1 DEF MutexInv, WordInv, WordOf
    <3> QED BY <3>1 DEF WordInv
  <2>7. SleeperInv'
    BY <1>1, <2>1, <2>3, SleepersKept DEF ts_vars, chain_vars
  <2>8. SearchInv'
    BY <1>1, <2>1, <2>2, <2>3, SearchersKept
  <2>9. /\ m_owner' \in [Locks -> Words] /\ held' \in [Threads -> SUBSET Locks]
        /\ lk' \in [Threads -> Locks \cup {NULL}]
        /\ cpu_thread' \in [CPUs -> Threads \cup {NULL}]
        /\ cur' \in [CPUs -> Threads \cup {NULL}]
        /\ sb' \in [CPUs -> Seq(Stores)]
        /\ owner' \in [Threads -> Threads \cup {NULL}]
        /\ scan' \in [Threads -> SUBSET CPUs]
    BY <1>1, <1>3 DEF MutexTypeOK
  <2> QED BY <1>1, <1>2, <2>1, <2>4, <2>5, <2>6, <2>7, <2>8, <2>9, FrameStep
    DEF Labels, WakeLabels
<1> QED BY <1>4, <1>5

LEMMA SetWaitersStep ==
    ASSUME MutexInv, NEW t \in Threads, SetWaiters(t)
    PROVE  MutexInv'
<1>0. PICK l \in Locks : l = lk[t]
  BY ThreadFacts DEF SetWaiters, At
<1>00. PICK w \in Words : w = Mark(m_owner[l])
  BY DEF Mark, Words, MutexInv, MutexTypeOK
<1>1. /\ pc[t] = "mark" /\ m_owner' = [m_owner EXCEPT ![l] = w]
      /\ scan' = [scan EXCEPT ![t] = CPUs]
      /\ pc' = [pc EXCEPT ![t] = "recheck"]
      /\ UNCHANGED <<cpu_thread, cur, sb, held, lk, owner, panicstr, ts_vars>>
  BY <1>0, <1>00 DEF SetWaiters, SetWord, At, Goto
<1>2. /\ w.owner = m_owner[l].owner /\ w.dead = m_owner[l].dead
      /\ m_owner[l] = Free => w = Free
      /\ m_owner[l] # Free => w.waiters
  BY <1>00 DEF Mark, MutexInv, MutexTypeOK, Words
<1>3. ControlOf(t) /\ MutexTypeOK /\ \A u \in Threads : u # t => pc[u] \notin TcLabels
  BY <1>1, ThreadFacts DEF MutexInv, TcLabels
<1>4. Moves(t, "recheck")
  BY <1>1, <1>3 DEF Moves, MutexTypeOK
<1>5. /\ pc'[t] = "recheck" /\ \A u \in Threads : u # t => pc'[u] = pc[u]
      /\ m_owner'[l] = w /\ \A k \in Locks : k # l => m_owner'[k] = m_owner[k]
      /\ scan'[t] = CPUs
  BY <1>1, <1>3, <1>4, MovesFacts DEF MutexTypeOK
<1>6. ControlOf(t)'
  BY <1>1, <1>3, <1>5
  DEF ControlOf, TcLabels, QueuedLabels, OwnerLabels, ExitLabels, WakeLabels,
      ts_vars, chain_vars
<1>7. CpuInv'
  BY <1>1, <1>5 DEF MutexInv, CpuInv
<1>8. WordInv'
  <2>1. WordOf(l)
    BY DEF MutexInv, WordInv
  <2>2. WordOf(l)'
    BY <1>1, <1>2, <1>5, <2>1, WordFacts DEF WordOf
  <2> QED BY <1>1, <1>5, <2>2, OtherWords
<1>9. \A k \in Locks : Dropping(k)' => Dropping(k)
  BY <1>1, <1>5 DEF Dropping
<1>10. SleeperInv'
  <2>1. ASSUME NEW k \in Locks, m_owner[k].owner # NULL, m_owner[k].waiters
        PROVE  m_owner'[k].owner # NULL /\ m_owner'[k].waiters
    BY <1>2, <1>5, <2>1, WordFacts
  <2> QED BY <1>1, <1>9, <2>1, SleepersKept DEF ts_vars, chain_vars
<1>11. SearchInv'
  <2>1. SUFFICES ASSUME NEW u \in Threads, pc'[u] \in {"recheck", "confirm"},
                        m_owner'[lk[u]].owner = owner[u], Dropping(lk[u])'
                 PROVE  \E c \in scan'[u] : cur[c] = owner[u]
    BY <1>1 DEF SearchInv
  <2>2. u = t
    BY <1>3, <1>5, <2>1 DEF TcLabels
  <2>3. m_owner[l].owner = owner[t]
    BY <1>0, <1>2, <1>5, <2>1, <2>2
  <2>4. Dropping(l)
    BY <1>0, <1>1, <1>9, <2>1, <2>2 DEF Dropping
  <2>5. CASE \E o \in Threads : pc[o] = "commit" /\ lk[o] = l
    <3>1. PICK o \in Threads : pc[o] = "commit" /\ lk[o] = l
      BY <2>5
    <3>2. m_owner[l].owner = o
      BY <3>1, ThreadFacts DEF ControlOf, ExitLabels, MutexInv, WordInv, WordOf
    <3>3. \E c \in CPUs : cur[c] = o
      BY <3>1 DEF MutexInv, CpuInv
    <3> QED BY <1>5, <2>2, <2>3, <3>2, <3>3
  <2>6. CASE \E c \in CPUs : Clear(l) \in Elems(sb[c])
    BY <1>5, <2>2, <2>3, <2>6 DEF MutexInv, WordInv, WordOf
  <2> QED BY <2>4, <2>5, <2>6 DEF Dropping
<1>12. /\ m_owner' \in [Locks -> Words] /\ held' \in [Threads -> SUBSET Locks]
       /\ lk' \in [Threads -> Locks \cup {NULL}]
       /\ cpu_thread' \in [CPUs -> Threads \cup {NULL}]
       /\ cur' \in [CPUs -> Threads \cup {NULL}]
       /\ sb' \in [CPUs -> Seq(Stores)]
       /\ owner' \in [Threads -> Threads \cup {NULL}]
       /\ scan' \in [Threads -> SUBSET CPUs]
       /\ panicstr' \in BOOLEAN
  BY <1>1, <1>3 DEF MutexTypeOK
<1> QED BY <1>1, <1>4, <1>6, <1>7, <1>8, <1>10, <1>11, <1>12, FrameStep
  DEF Labels, WakeLabels

(* The CPU passed over does not run the owner.                             *)
LEMMA RecheckStep ==
    ASSUME MutexInv, NEW t \in Threads, NEW c \in CPUs, Recheck(t, c)
    PROVE  MutexInv'
<1>0. PICK label \in {"recheck", "confirm"} :
         label = IF scan[t] = {c} THEN "confirm" ELSE "recheck"
  OBVIOUS
<1>1. /\ pc[t] = "recheck" /\ c \in scan[t] /\ cpu_thread[c] # owner[t]
      /\ scan' = [scan EXCEPT ![t] = @ \ {c}]
      /\ pc' = [pc EXCEPT ![t] = label]
      /\ UNCHANGED <<m_owner, cpu_thread, cur, sb, held, lk, owner, panicstr, ts_vars>>
  BY <1>0 DEF Recheck, At, Goto
<1>2. ControlOf(t) /\ MutexTypeOK /\ \A u \in Threads : u # t => pc[u] \notin TcLabels
  BY <1>1, ThreadFacts DEF MutexInv, TcLabels
<1>3. Moves(t, label)
  BY <1>1, <1>2 DEF Moves, MutexTypeOK
<1>4. /\ pc'[t] = label /\ \A u \in Threads : u # t => pc'[u] = pc[u]
      /\ scan'[t] = scan[t] \ {c}
  BY <1>1, <1>2, <1>3, MovesFacts DEF MutexTypeOK
<1>5. ControlOf(t)'
  BY <1>0, <1>1, <1>2, <1>4
  DEF ControlOf, TcLabels, QueuedLabels, OwnerLabels, ExitLabels, WakeLabels,
      ts_vars, chain_vars
<1>6. CpuInv'
  BY <1>1, <1>4 DEF MutexInv, CpuInv
<1>7. WordInv'
  <2>1. ASSUME NEW k \in Locks PROVE WordOf(k)'
    BY <1>1 DEF MutexInv, WordInv, WordOf
  <2> QED BY <2>1 DEF WordInv
<1>8. \A k \in Locks : Dropping(k)' => Dropping(k)
  BY <1>1, <1>4 DEF Dropping
<1>9. SleeperInv'
  BY <1>1, <1>8, SleepersKept DEF ts_vars, chain_vars
<1>10. SearchInv'
  <2>1. SUFFICES ASSUME NEW u \in Threads, pc'[u] \in {"recheck", "confirm"},
                        m_owner[lk[u]].owner = owner[u], m_owner[lk[u]].waiters, Dropping(lk[u])'
                 PROVE  \E d \in scan'[u] : cur[d] = owner[u]
    BY <1>1 DEF SearchInv
  <2>2. u = t
    BY <1>2, <1>4, <2>1 DEF TcLabels
  <2>3. lk[t] \in Locks /\ owner[t] # NULL
    BY <1>1, ThreadFacts DEF ControlOf, OwnerLabels
  <2>4. Dropping(lk[t])
    BY <1>1, <1>8, <2>1, <2>2, <2>3 DEF Dropping
  <2>5. PICK d \in scan[t] : cur[d] = owner[t]
    BY <1>1, <2>1, <2>2, <2>4 DEF MutexInv, SearchInv
  <2>6. d # c
    BY <1>1, <2>3, <2>5 DEF MutexInv, CpuInv
  <2> QED BY <1>4, <2>2, <2>5, <2>6
<1>11. /\ m_owner' \in [Locks -> Words] /\ held' \in [Threads -> SUBSET Locks]
       /\ lk' \in [Threads -> Locks \cup {NULL}]
       /\ cpu_thread' \in [CPUs -> Threads \cup {NULL}]
       /\ cur' \in [CPUs -> Threads \cup {NULL}]
       /\ sb' \in [CPUs -> Seq(Stores)]
       /\ owner' \in [Threads -> Threads \cup {NULL}]
       /\ scan' \in [Threads -> SUBSET CPUs]
       /\ panicstr' \in BOOLEAN
  BY <1>1, <1>2 DEF MutexTypeOK
<1> QED BY <1>1, <1>3, <1>5, <1>6, <1>7, <1>9, <1>10, <1>11, FrameStep
  DEF Labels, WakeLabels

LEMMA AppendQueue ==
    ASSUME NEW T, NEW q \in Seq(T), NEW x \in T
    PROVE  /\ Append(q, x) \in Seq(T) /\ Elems(Append(q, x)) = Elems(q) \cup {x}
           /\ NoDup(q) /\ x \notin Elems(q) => NoDup(Append(q, x))
<1>1. /\ Len(q) \in Nat /\ DOMAIN q = 1..Len(q)
      /\ Append(q, x) \in Seq(T) /\ DOMAIN Append(q, x) = 1..(Len(q) + 1)
      /\ \A i \in 1..Len(q) : Append(q, x)[i] = q[i]
      /\ Append(q, x)[Len(q) + 1] = x
  BY LenProperties, AppendProperties
<1>2. Elems(Append(q, x)) = Elems(q) \cup {x}
  <2>1. ASSUME NEW y \in Elems(Append(q, x)) PROVE y \in Elems(q) \cup {x}
    BY <1>1 DEF Elems
  <2>2. x \in Elems(Append(q, x))
    <3>1. Len(q) + 1 \in 1..(Len(q) + 1)
      BY <1>1
    <3> QED BY <1>1, <3>1 DEF Elems
  <2>3. ASSUME NEW i \in 1..Len(q) PROVE q[i] \in Elems(Append(q, x))
    <3>1. i \in 1..(Len(q) + 1)
      BY <1>1
    <3> QED BY <1>1, <3>1 DEF Elems
  <2> QED BY <1>1, <2>1, <2>2, <2>3 DEF Elems
<1>3. ASSUME NoDup(q), x \notin Elems(q) PROVE NoDup(Append(q, x))
  BY <1>1, <1>3 DEF NoDup, Elems
<1> QED BY <1>1, <1>2, <1>3

(* The clearing store enters the buffer of the CPU that runs the owner.    *)
LEMMA ExitClearStep ==
    ASSUME MutexInv, NEW t \in Threads, NEW c \in CPUs, ExitClear(t, c)
    PROVE  MutexInv'
<1>0. PICK l \in Locks : l = lk[t]
  BY ThreadFacts DEF ExitClear, At
<1>00. PICK s \in Seq(Stores) : s = Append(sb[c], Clear(l))
  BY AppendQueue DEF Stores, MutexInv, MutexTypeOK
<1>1. /\ pc[t] = "commit" /\ cur[c] = t
      /\ sb' = [sb EXCEPT ![c] = s]
      /\ held' = [held EXCEPT ![t] = @ \ {l}]
      /\ lk' = [lk EXCEPT ![t] = NULL]
      /\ pc' = [pc EXCEPT ![t] = "run"]
      /\ UNCHANGED <<m_owner, cpu_thread, cur, owner, scan, panicstr, ts_vars>>
  BY <1>0, <1>00 DEF ExitClear, At, Goto
<1>2. ControlOf(t) /\ MutexTypeOK /\ WordOf(l) /\ CpuInv /\ l # NULL
  BY ThreadFacts, TurnstileAssumption DEF MutexInv, WordInv
<1>3. Moves(t, "run")
  BY <1>1, <1>2 DEF Moves, MutexTypeOK
<1>4. /\ pc'[t] = "run" /\ \A u \in Threads : u # t => pc'[u] = pc[u]
      /\ held'[t] = held[t] \ {l} /\ \A u \in Threads : u # t => held'[u] = held[u]
      /\ lk'[t] = NULL /\ \A u \in Threads : u # t => lk'[u] = lk[u]
      /\ sb'[c] = s /\ \A d \in CPUs : d # c => sb'[d] = sb[d]
  BY <1>1, <1>2, <1>3, MovesFacts DEF MutexTypeOK
<1>5. /\ l \in held[t] /\ m_owner[l].owner = t /\ ~m_owner[l].dead
      /\ \A d \in CPUs : Clear(l) \notin Elems(sb[d])
      /\ \A u \in Threads : u # t => l \notin held[u]
  BY <1>0, <1>1, <1>2 DEF ControlOf, ExitLabels, WordOf
<1>6. NoDup(s) /\ Elems(s) = Elems(sb[c]) \cup {Clear(l)}
  <2>1. sb[c] \in Seq(Stores) /\ Clear(l) \in Stores /\ NoDup(sb[c])
    BY <1>2 DEF MutexTypeOK, CpuInv, Stores
  <2> QED BY <1>00, <1>5, <2>1, AppendQueue
<1>7. CpuInv'
  <2>1. CpuIdle \notin Elems(sb[c])
    BY <1>1, <1>2, TurnstileAssumption DEF CpuInv
  <2> QED BY <1>1, <1>2, <1>4, <1>6, <2>1, StoreFacts DEF CpuInv
<1>8. WordInv'
  <2>1. WordOf(l)'
    <3>1. Clear(l) \in Elems(sb'[c]) /\ \A d \in CPUs : d # c => Clear(l) \notin Elems(sb'[d])
      BY <1>4, <1>5, <1>6
    <3>2. \A u \in Threads : l \notin held'[u]
      BY <1>4, <1>5
    <3> QED BY <1>1, <1>5, <3>1, <3>2, TurnstileAssumption DEF WordOf
  <2>2. ASSUME NEW k \in Locks, k # l PROVE WordOf(k)'
    <3>1. \A d \in CPUs : Clear(k) \in Elems(sb'[d]) <=> Clear(k) \in Elems(sb[d])
      BY <1>4, <1>6, <2>2, StoreFacts
    <3>2. \A u \in Threads : k \in held'[u] <=> k \in held[u]
      BY <1>4, <2>2
    <3>3. WordOf(k) /\ (m_owner[k].owner # NULL => m_owner[k].owner \in Threads)
      BY <1>2 DEF MutexInv, WordInv, MutexTypeOK, Words
    <3>4. \A u \in Threads : lk'[u] = k => lk[u] = k
      BY <1>4, TurnstileAssumption
    <3> QED BY <1>1, <3>1, <3>2, <3>3, <3>4 DEF WordOf
  <2> QED BY <2>1, <2>2 DEF WordInv
<1>9. \A k \in Locks : Dropping(k)' => Dropping(k)
  <2>1. Dropping(l)
    BY <1>0, <1>1 DEF Dropping
  <2>2. ASSUME NEW k \in Locks, k # l, Dropping(k)' PROVE Dropping(k)
    <3>1. \A d \in CPUs : Clear(k) \in Elems(sb'[d]) => Clear(k) \in Elems(sb[d])
      BY <1>4, <1>6, <2>2, StoreFacts
    <3> QED BY <1>4, <2>2, <3>1 DEF Dropping
  <2> QED BY <2>1, <2>2
<1>10. SleeperInv'
  BY <1>1, <1>9, SleepersKept DEF ts_vars, chain_vars
<1>11. SearchInv'
  BY <1>1, <1>4, <1>9, SearchersKept
<1>12. ControlOf(t)'
  BY <1>1, <1>2, <1>4
  DEF ControlOf, TcLabels, QueuedLabels, OwnerLabels, ExitLabels, WakeLabels,
      ts_vars, chain_vars
<1>13. /\ m_owner' \in [Locks -> Words] /\ held' \in [Threads -> SUBSET Locks]
       /\ lk' \in [Threads -> Locks \cup {NULL}]
       /\ cpu_thread' \in [CPUs -> Threads \cup {NULL}]
       /\ cur' \in [CPUs -> Threads \cup {NULL}]
       /\ sb' \in [CPUs -> Seq(Stores)]
       /\ owner' \in [Threads -> Threads \cup {NULL}]
       /\ scan' \in [Threads -> SUBSET CPUs]
       /\ panicstr' \in BOOLEAN
  BY <1>1, <1>2 DEF MutexTypeOK
<1> QED BY <1>1, <1>3, <1>4, <1>7, <1>8, <1>10, <1>11, <1>12, <1>13, FrameStep
  DEF Labels, WakeLabels

LEMMA mutex_destroyStep ==
    ASSUME MutexInv, NEW t \in Threads, NEW l \in Locks, mutex_destroy(t, l)
    PROVE  MutexInv'
<1>00. PICK o \in Words : o = Owned(t) /\ o.owner = t /\ o.waiters = FALSE
  BY WordFacts DEF Words
<1>0. PICK w \in Words : /\ w = [Owned(t) EXCEPT !.dead = TRUE]
                         /\ w.owner = t /\ w.waiters = FALSE /\ w.dead = TRUE
  <2> DEFINE w == [o EXCEPT !.dead = TRUE]
  <2>1. w \in Words /\ w.owner = t /\ w.waiters = FALSE /\ w.dead = TRUE
    BY <1>00 DEF Words
  <2> HIDE DEF w
  <2>2. w = [Owned(t) EXCEPT !.dead = TRUE]
    BY <1>00 DEF w
  <2> QED BY <2>1, <2>2
<1>1. /\ pc[t] = "run" /\ l \in held[t] /\ \A u \in Threads : lk[u] # l
      /\ m_owner' = [m_owner EXCEPT ![l] = w]
      /\ held' = [held EXCEPT ![t] = @ \ {l}]
      /\ UNCHANGED <<cpu_thread, cur, sb, pc, lk, owner, scan, ts_vars>>
  BY <1>0 DEF mutex_destroy, SetWord, At
<1>2. panicstr' \in BOOLEAN
  BY DEF mutex_destroy
<1>3. ControlOf(t) /\ MutexTypeOK /\ WordOf(l)
  BY ThreadFacts DEF MutexInv, WordInv
<1>4. Moves(t, "run")
  BY <1>1, <1>3 DEF Moves, MutexTypeOK
<1>5. /\ m_owner'[l] = w /\ \A k \in Locks : k # l => m_owner'[k] = m_owner[k]
      /\ held'[t] = held[t] \ {l} /\ \A u \in Threads : u # t => held'[u] = held[u]
  BY <1>1, <1>3 DEF MutexTypeOK
<1>6. /\ \A d \in CPUs : Clear(l) \notin Elems(sb[d])
      /\ \A u \in Threads : u # t => l \notin held[u]
      /\ \A u \in Threads : t_wchan[u] # l
  <2>1. \A u \in Threads : t_wchan[u] # l
    BY <1>1, ThreadFacts, TurnstileAssumption DEF ControlOf
  <2> QED BY <1>1, <1>3, <2>1 DEF WordOf
<1>7. CpuInv'
  BY <1>1 DEF MutexInv, CpuInv
<1>8. WordInv'
  <2>1. WordOf(l)'
    <3>1. m_owner'[l] = w /\ w.owner # NULL /\ w.dead
      BY <1>0, <1>5, TurnstileAssumption
    <3>2. \A u \in Threads : l \notin held'[u] /\ lk'[u] # l
      BY <1>1, <1>5, <1>6
    <3> QED BY <1>1, <1>6, <3>1, <3>2 DEF WordOf
  <2> QED BY <1>1, <1>5, <2>1, OtherWords
<1>9. \A k \in Locks : Dropping(k)' <=> Dropping(k)
  BY <1>1 DEF Dropping
<1>10. SleeperInv'
  BY <1>1, <1>5, <1>6, <1>9, SleepersKept DEF ts_vars, chain_vars
<1>11. SearchInv'
  BY <1>0, <1>1, <1>5, <1>9, SearchersKept
<1>12. ControlOf(t)'
  BY <1>1, <1>3, <1>5
  DEF ControlOf, TcLabels, QueuedLabels, OwnerLabels, ExitLabels, WakeLabels,
      ts_vars, chain_vars
<1>13. /\ m_owner' \in [Locks -> Words] /\ held' \in [Threads -> SUBSET Locks]
       /\ lk' \in [Threads -> Locks \cup {NULL}]
       /\ cpu_thread' \in [CPUs -> Threads \cup {NULL}]
       /\ cur' \in [CPUs -> Threads \cup {NULL}]
       /\ sb' \in [CPUs -> Seq(Stores)]
       /\ owner' \in [Threads -> Threads \cup {NULL}]
       /\ scan' \in [Threads -> SUBSET CPUs]
  BY <1>1, <1>3 DEF MutexTypeOK
<1> QED
  BY <1>1, <1>2, <1>4, <1>5, <1>7, <1>8, <1>10, <1>11, <1>12, <1>13, FrameStep
  DEF Labels, WakeLabels

LEMMA mutex_initStep ==
    ASSUME MutexInv, NEW t \in Threads, NEW l \in Locks, mutex_init(t, l)
    PROVE  MutexInv'
<1>1. /\ pc[t] = "run" /\ m_owner[l].dead
      /\ m_owner' = [m_owner EXCEPT ![l] = Free]
      /\ UNCHANGED <<cpu_thread, cur, sb, held, pc, lk, owner, scan, panicstr, ts_vars>>
  BY DEF mutex_init, SetWord, At
<1>2. ControlOf(t) /\ MutexTypeOK /\ WordOf(l)
  BY ThreadFacts DEF MutexInv, WordInv
<1>3. Moves(t, "run")
  BY <1>1, <1>2 DEF Moves, MutexTypeOK
<1>4. m_owner'[l] = Free /\ \A k \in Locks : k # l => m_owner'[k] = m_owner[k]
  BY <1>1, <1>2 DEF MutexTypeOK
<1>5. /\ \A d \in CPUs : Clear(l) \notin Elems(sb[d])
      /\ \A u \in Threads : l \notin held[u]
      /\ \A u \in Threads : lk[u] # l /\ t_wchan[u] # l
  <2>1. \A u \in Threads : lk[u] # l
    BY <1>1, <1>2 DEF WordOf
  <2>2. \A u \in Threads : t_wchan[u] # l
    BY <2>1, ThreadFacts, TurnstileAssumption DEF ControlOf
  <2> QED BY <1>1, <1>2, <2>1, <2>2 DEF WordOf
<1>6. CpuInv'
  BY <1>1 DEF MutexInv, CpuInv
<1>7. WordInv'
  <2>1. WordOf(l)'
    BY <1>1, <1>4, <1>5, WordFacts DEF WordOf
  <2> QED BY <1>1, <1>4, <2>1, OtherWords
<1>8. \A k \in Locks : Dropping(k)' <=> Dropping(k)
  BY <1>1 DEF Dropping
<1>9. SleeperInv'
  BY <1>1, <1>4, <1>5, <1>8, SleepersKept DEF ts_vars, chain_vars
<1>10. SearchInv'
  BY <1>1, <1>4, <1>8, WordFacts, SearchersKept
<1>11. ControlOf(t)'
  BY <1>1, <1>2
  DEF ControlOf, TcLabels, QueuedLabels, OwnerLabels, ExitLabels, WakeLabels,
      ts_vars, chain_vars
<1>12. /\ m_owner' \in [Locks -> Words] /\ held' \in [Threads -> SUBSET Locks]
       /\ lk' \in [Threads -> Locks \cup {NULL}]
       /\ cpu_thread' \in [CPUs -> Threads \cup {NULL}]
       /\ cur' \in [CPUs -> Threads \cup {NULL}]
       /\ sb' \in [CPUs -> Seq(Stores)]
       /\ owner' \in [Threads -> Threads \cup {NULL}]
       /\ scan' \in [Threads -> SUBSET CPUs]
       /\ panicstr' \in BOOLEAN
  BY <1>1, <1>2, WordFacts DEF MutexTypeOK
<1> QED BY <1>1, <1>3, <1>6, <1>7, <1>9, <1>10, <1>11, <1>12, FrameStep
  DEF Labels, WakeLabels

(* A step of a processor: no thread moves.                                 *)
LEMMA ProcessorStep ==
    ASSUME MutexInv, UNCHANGED <<held, pc, lk, owner, scan, panicstr, ts_vars>>,
           m_owner' \in [Locks -> Words],
           cpu_thread' \in [CPUs -> Threads \cup {NULL}],
           cur' \in [CPUs -> Threads \cup {NULL}],
           sb' \in [CPUs -> Seq(Stores)],
           CpuInv', WordInv', SleeperInv', SearchInv'
    PROVE  MutexInv'
<1>1. MutexTypeOK'
  <2>1. TurnstileTypeOK'
    BY DEF MutexInv, MutexTypeOK, TurnstileTypeOK, ts_vars, chain_vars, pi_vars
  <2> QED BY <2>1 DEF MutexInv, MutexTypeOK
<1>2. ControlInv'
  BY DEF MutexInv, ControlInv, ControlOf, ts_vars, chain_vars
<1>3. ChainInv' /\ ContentInv' /\ QueueInv'
  BY TurnstilesKept DEF ts_vars
<1>4. WakeupInv'
  BY WakeupKept DEF ts_vars, chain_vars
<1> QED BY <1>1, <1>2, <1>3, <1>4 DEF MutexInv

(* The oldest store of a buffer, and those behind it.                      *)
LEMMA HeadStore ==
    ASSUME MutexInv, NEW c \in CPUs, sb[c] # <<>>
    PROVE  /\ Head(sb[c]) \in Elems(sb[c]) /\ Head(sb[c]) \in Stores
           /\ Tail(sb[c]) \in Seq(Stores) /\ NoDup(Tail(sb[c]))
           /\ Elems(Tail(sb[c])) = Elems(sb[c]) \ {Head(sb[c])}
<1>1. sb[c] \in Seq(Stores) /\ NoDup(sb[c])
  BY DEF MutexInv, MutexTypeOK, CpuInv
<1>2. Len(sb[c]) > 0
  BY <1>1, LenProperties
<1> QED BY <1>1, <1>2, TailQueue

(* The clear of a mutex becomes visible.                                   *)
LEMMA DrainClear ==
    ASSUME MutexInv, NEW c \in CPUs, NEW l \in Locks, Drain(c), Head(sb[c]) = Clear(l)
    PROVE  MutexInv'
<1>1. /\ sb[c] # <<>> /\ sb' = [sb EXCEPT ![c] = Tail(sb[c])]
      /\ m_owner' = [m_owner EXCEPT ![l] = Free]
      /\ UNCHANGED <<cpu_thread, cur, held, pc, lk, owner, scan, panicstr, ts_vars>>
  BY DEF Drain, SetWord, Clear
<1>2. MutexTypeOK /\ CpuInv /\ WordOf(l)
  BY DEF MutexInv, WordInv
<1>3. /\ m_owner'[l] = Free /\ \A k \in Locks : k # l => m_owner'[k] = m_owner[k]
      /\ sb'[c] = Tail(sb[c]) /\ \A d \in CPUs : d # c => sb'[d] = sb[d]
  BY <1>1, <1>2 DEF MutexTypeOK
<1>4. /\ Clear(l) \in Elems(sb[c]) /\ Elems(sb'[c]) = Elems(sb[c]) \ {Clear(l)}
      /\ NoDup(sb'[c]) /\ sb'[c] \in Seq(Stores)
  BY <1>1, <1>3, HeadStore
<1>5. /\ cur[c] # NULL /\ m_owner[l].owner = cur[c] /\ ~m_owner[l].dead
      /\ \A u \in Threads : l \notin held[u]
  BY <1>2, <1>4 DEF WordOf
<1>6. \A d \in CPUs : Clear(l) \notin Elems(sb'[d])
  <2>1. ASSUME NEW d \in CPUs, d # c, Clear(l) \in Elems(sb[d]) PROVE FALSE
    <3>1. cur[d] = cur[c]
      BY <1>2, <1>5, <2>1 DEF WordOf
    <3> QED BY <1>2, <1>5, <2>1, <3>1 DEF CpuInv
  <2> QED BY <1>3, <1>4, <2>1
<1>7. \A k \in Locks : k # l =>
         \A d \in CPUs : Clear(k) \in Elems(sb'[d]) <=> Clear(k) \in Elems(sb[d])
  BY <1>3, <1>4, StoreFacts
<1>8. CpuInv'
  <2>1. \A d \in CPUs : NoDup(sb'[d])
    BY <1>2, <1>3, <1>4 DEF CpuInv
  <2>2. \A d \in CPUs : CpuIdle \notin Elems(sb[d]) => CpuIdle \notin Elems(sb'[d])
    BY <1>3, <1>4
  <2> QED BY <1>1, <1>2, <2>1, <2>2 DEF CpuInv
<1>9. WordInv'
  <2>1. WordOf(l)'
    BY <1>1, <1>3, <1>5, <1>6, WordFacts DEF WordOf
  <2>2. ASSUME NEW k \in Locks, k # l PROVE WordOf(k)'
    <3>1. WordOf(k) /\ \A d \in CPUs : Clear(k) \in Elems(sb'[d]) <=> Clear(k) \in Elems(sb[d])
      BY <1>7, <2>2 DEF MutexInv, WordInv
    <3> QED BY <1>1, <1>3, <2>2, <3>1 DEF WordOf
  <2> QED BY <2>1, <2>2 DEF WordInv
<1>10. Dropping(l) /\ \A k \in Locks : Dropping(k)' => Dropping(k)
  <2>1. Dropping(l)
    BY <1>4 DEF Dropping
  <2> QED BY <1>1, <1>7, <2>1 DEF Dropping
<1>11. SleeperInv'
  BY <1>1, <1>3, <1>10, SleepersKept DEF ts_vars, chain_vars
<1>12. SearchInv'
  BY <1>1, <1>3, <1>10, WordFacts, SearchersKept
<1>13. /\ m_owner' \in [Locks -> Words] /\ sb' \in [CPUs -> Seq(Stores)]
       /\ cpu_thread' \in [CPUs -> Threads \cup {NULL}]
       /\ cur' \in [CPUs -> Threads \cup {NULL}]
  BY <1>1, <1>2, <1>3, <1>4, WordFacts DEF MutexTypeOK
<1> QED BY <1>1, <1>8, <1>9, <1>11, <1>12, <1>13, ProcessorStep

(* The idle thread of a CPU becomes visible.                               *)
LEMMA DrainIdle ==
    ASSUME MutexInv, NEW c \in CPUs, Drain(c), Head(sb[c]) = CpuIdle
    PROVE  MutexInv'
<1>1. /\ sb[c] # <<>> /\ sb' = [sb EXCEPT ![c] = Tail(sb[c])]
      /\ cpu_thread' = [cpu_thread EXCEPT ![c] = NULL]
      /\ UNCHANGED <<m_owner, cur, held, pc, lk, owner, scan, panicstr, ts_vars>>
  BY DEF Drain, CpuIdle
<1>2. MutexTypeOK /\ CpuInv
  BY DEF MutexInv
<1>3. /\ cpu_thread'[c] = NULL /\ \A d \in CPUs : d # c => cpu_thread'[d] = cpu_thread[d]
      /\ sb'[c] = Tail(sb[c]) /\ \A d \in CPUs : d # c => sb'[d] = sb[d]
  BY <1>1, <1>2 DEF MutexTypeOK
<1>4. /\ CpuIdle \in Elems(sb[c]) /\ Elems(sb'[c]) = Elems(sb[c]) \ {CpuIdle}
      /\ NoDup(sb'[c]) /\ sb'[c] \in Seq(Stores)
  BY <1>1, <1>3, HeadStore
<1>5. cur[c] = NULL
  BY <1>2, <1>4 DEF CpuInv
<1>6. \A k \in Locks, d \in CPUs : Clear(k) \in Elems(sb'[d]) <=> Clear(k) \in Elems(sb[d])
  BY <1>3, <1>4, StoreFacts
<1>7. CpuInv'
  BY <1>1, <1>2, <1>3, <1>4, <1>5 DEF CpuInv
<1>8. WordInv'
  <2>1. ASSUME NEW k \in Locks PROVE WordOf(k)'
    BY <1>1, <1>6 DEF MutexInv, WordInv, WordOf
  <2> QED BY <2>1 DEF WordInv
<1>9. \A k \in Locks : Dropping(k)' => Dropping(k)
  BY <1>1, <1>6 DEF Dropping
<1>10. SleeperInv'
  BY <1>1, <1>9, SleepersKept DEF ts_vars, chain_vars
<1>11. SearchInv'
  BY <1>1, <1>9, SearchersKept
<1>12. /\ m_owner' \in [Locks -> Words] /\ sb' \in [CPUs -> Seq(Stores)]
       /\ cpu_thread' \in [CPUs -> Threads \cup {NULL}]
       /\ cur' \in [CPUs -> Threads \cup {NULL}]
  BY <1>1, <1>2, <1>3, <1>4 DEF MutexTypeOK
<1> QED BY <1>1, <1>7, <1>8, <1>10, <1>11, <1>12, ProcessorStep

LEMMA DrainStep ==
    ASSUME MutexInv, NEW c \in CPUs, Drain(c)
    PROVE  MutexInv'
<1>1. Head(sb[c]) \in Stores
  BY HeadStore DEF Drain
<1> QED BY <1>1, DrainClear, DrainIdle DEF Stores

LEMMA ResumeStep ==
    ASSUME MutexInv, NEW t \in Threads, NEW c \in CPUs, Resume(t, c)
    PROVE  MutexInv'
<1>1. /\ cur[c] = NULL /\ sb[c] = <<>> /\ \A d \in CPUs : cur[d] # t
      /\ cur' = [cur EXCEPT ![c] = t] /\ cpu_thread' = [cpu_thread EXCEPT ![c] = t]
      /\ UNCHANGED <<m_owner, sb, held, pc, lk, owner, scan, panicstr, ts_vars>>
  BY DEF Resume
<1>2. MutexTypeOK /\ CpuInv
  BY DEF MutexInv
<1>3. /\ cpu_thread'[c] = t /\ \A d \in CPUs : d # c => cpu_thread'[d] = cpu_thread[d]
      /\ cur'[c] = t /\ \A d \in CPUs : d # c => cur'[d] = cur[d]
  BY <1>1, <1>2 DEF MutexTypeOK
<1>4. Elems(sb[c]) = {}
  BY <1>1 DEF Elems
<1>5. CpuInv'
  <2>1. \A u \in Threads : (\E d \in CPUs : cur[d] = u) => \E d \in CPUs : cur'[d] = u
    BY <1>1, <1>3, TurnstileAssumption
  <2> QED BY <1>1, <1>2, <1>3, <1>4, <2>1 DEF CpuInv
<1>6. WordInv'
  <2>1. ASSUME NEW k \in Locks PROVE WordOf(k)'
    <3>1. WordOf(k) /\ Clear(k) \notin Elems(sb[c])
      BY <1>4 DEF MutexInv, WordInv
    <3> QED BY <1>1, <1>3, <3>1 DEF WordOf
  <2> QED BY <2>1 DEF WordInv
<1>7. \A k \in Locks : Dropping(k)' => Dropping(k)
  BY <1>1 DEF Dropping
<1>8. SleeperInv'
  BY <1>1, <1>7, SleepersKept DEF ts_vars, chain_vars
<1>9. SearchInv'
  BY <1>1, <1>3, <1>7, SearchersKept
<1>10. /\ m_owner' \in [Locks -> Words] /\ sb' \in [CPUs -> Seq(Stores)]
       /\ cpu_thread' \in [CPUs -> Threads \cup {NULL}]
       /\ cur' \in [CPUs -> Threads \cup {NULL}]
  BY <1>1, <1>2 DEF MutexTypeOK
<1> QED BY <1>1, <1>5, <1>6, <1>8, <1>9, <1>10, ProcessorStep

(* A thread that leaves its CPU has no store under way there, and goes     *)
(* back to the test of mutex_exit if it was past it.                       *)
LEMMA SwitchOutStep ==
    ASSUME MutexInv, NEW t \in Threads, NEW c \in CPUs, SwitchOut(t, c)
    PROVE  MutexInv'
<1>0. PICK label \in Labels : label = RestartPC(pc[t])
  BY DEF RestartPC, Labels, MutexInv, MutexTypeOK
<1>1. /\ cur[c] = t /\ sb[c] = <<>> /\ tc_lock # t
      /\ cur' = [cur EXCEPT ![c] = NULL] /\ sb' = [sb EXCEPT ![c] = <<CpuIdle>>]
      /\ pc' = [pc EXCEPT ![t] = label]
      /\ UNCHANGED <<m_owner, cpu_thread, held, lk, owner, scan, panicstr, ts_vars>>
  BY <1>0 DEF SwitchOut
<1>2. MutexTypeOK /\ CpuInv /\ ControlOf(t) /\ t # NULL
  BY ThreadFacts, TurnstileAssumption DEF MutexInv
<1>3. Moves(t, label)
  BY <1>1 DEF Moves
<1>4. /\ pc'[t] = label /\ \A u \in Threads : u # t => pc'[u] = pc[u]
      /\ cur'[c] = NULL /\ \A d \in CPUs : d # c => cur'[d] = cur[d]
      /\ sb'[c] = <<CpuIdle>> /\ \A d \in CPUs : d # c => sb'[d] = sb[d]
  BY <1>1, <1>2, <1>3, MovesFacts DEF MutexTypeOK
<1>5. Elems(sb[c]) = {} /\ Elems(sb'[c]) = {CpuIdle} /\ NoDup(sb'[c])
  BY <1>1, <1>4 DEF Elems, NoDup
<1>6. \A k \in Locks, d \in CPUs : Clear(k) \in Elems(sb'[d]) <=> Clear(k) \in Elems(sb[d])
  BY <1>4, <1>5, StoreFacts
<1>7. label = IF pc[t] = "commit" THEN "exit" ELSE pc[t]
  BY <1>0 DEF RestartPC
<1>8. CpuInv'
  <2>1. ASSUME NEW u \in Threads, pc'[u] = "commit" PROVE \E d \in CPUs : cur'[d] = u
    <3>1. u # t /\ pc[u] = "commit"
      BY <1>4, <1>7, <2>1
    <3>2. PICK d \in CPUs : cur[d] = u
      BY <1>2, <3>1 DEF CpuInv
    <3> QED BY <1>1, <1>4, <3>1, <3>2
  <2> QED BY <1>1, <1>2, <1>4, <1>5, <2>1 DEF CpuInv
<1>9. WordInv'
  <2>1. ASSUME NEW k \in Locks PROVE WordOf(k)'
    <3>1. WordOf(k) /\ Clear(k) \notin Elems(sb[c])
      BY <1>5 DEF MutexInv, WordInv
    <3> QED BY <1>1, <1>4, <1>6, <3>1 DEF WordOf
  <2> QED BY <2>1 DEF WordInv
<1>10. \A k \in Locks : Dropping(k)' => Dropping(k)
  <2>1. \A u \in Threads : pc'[u] = "commit" => pc[u] = "commit"
    BY <1>4, <1>7
  <2> QED BY <1>1, <1>6, <2>1 DEF Dropping
<1>11. SleeperInv'
  BY <1>1, <1>10, SleepersKept DEF ts_vars, chain_vars
<1>12. SearchInv'
  <2>1. \A u \in Threads : pc'[u] \in {"recheck", "confirm"} => pc[u] = pc'[u]
    BY <1>4, <1>7
  <2>2. ASSUME NEW k \in Locks, Dropping(k)' PROVE m_owner[k].owner # t
    <3>1. WordOf(k)
      BY DEF MutexInv, WordInv
    <3>2. CASE \E o \in Threads : pc'[o] = "commit" /\ lk'[o] = k
      <4>1. PICK o \in Threads : pc'[o] = "commit" /\ lk[o] = k
        BY <1>1, <3>2
      <4>2. o # t /\ pc[o] = "commit"
        BY <1>4, <1>7, <4>1
      <4>3. k \in held[o]
        BY <4>1, <4>2, ThreadFacts DEF ControlOf, ExitLabels
      <4> QED BY <3>1, <4>2, <4>3 DEF WordOf
    <3>3. CASE \E d \in CPUs : Clear(k) \in Elems(sb'[d])
      <4>1. PICK d \in CPUs : Clear(k) \in Elems(sb[d])
        BY <1>6, <3>3
      <4>2. cur[d] = m_owner[k].owner /\ d # c
        BY <1>5, <3>1, <4>1 DEF WordOf
      <4> QED BY <1>1, <1>2, <4>2 DEF CpuInv
    <3> QED BY <2>2, <3>2, <3>3 DEF Dropping
  <2> QED BY <1>1, <1>4, <1>10, <2>1, <2>2, SearchersKept
<1>13. ControlOf(t)'
  BY <1>1, <1>2, <1>4, <1>7
  DEF ControlOf, TcLabels, QueuedLabels, OwnerLabels, ExitLabels, WakeLabels,
      ts_vars, chain_vars
<1>14. /\ m_owner' \in [Locks -> Words] /\ held' \in [Threads -> SUBSET Locks]
       /\ lk' \in [Threads -> Locks \cup {NULL}]
       /\ cpu_thread' \in [CPUs -> Threads \cup {NULL}]
       /\ cur' \in [CPUs -> Threads \cup {NULL}]
       /\ owner' \in [Threads -> Threads \cup {NULL}]
       /\ scan' \in [Threads -> SUBSET CPUs]
       /\ panicstr' \in BOOLEAN
  BY <1>1, <1>2 DEF MutexTypeOK
<1>15. sb' \in [CPUs -> Seq(Stores)]
  <2>1. <<CpuIdle>> \in Seq(Stores)
    BY DEF Stores
  <2> QED BY <1>1, <1>2, <2>1 DEF MutexTypeOK
<1>16. pc[t] \notin WakeLabels
  BY <1>1, <1>2 DEF ControlOf, TcLabels, WakeLabels
<1> QED
  BY <1>1, <1>3, <1>8, <1>9, <1>11, <1>12, <1>13, <1>14, <1>15, <1>16, FrameStep
-----------------------------------------------------------------------------
(* The turnstile operations preserve what is true of the turnstiles and    *)
(* the queues, whoever calls them.                                         *)
TsInv == TurnstileTypeOK /\ ChainInv /\ ContentInv /\ QueueInv

LEMMA QueueFacts ==
    ASSUME TsInv, NEW ts \in Turnstiles
    PROVE  /\ WQ(ts) \in Seq(Threads) /\ Len(WQ(ts)) \in Nat /\ NoDup(WQ(ts))
           /\ Elems(WQ(ts)) \subseteq Threads
           /\ ts_sleepq[ts]["R"] = <<>> /\ AllNoDup
<1>1. WQ(ts) \in Seq(Threads)
  BY DEF TsInv, TurnstileTypeOK, WQ, Queues
<1>2. Len(WQ(ts)) \in Nat /\ Elems(WQ(ts)) \subseteq Threads
  BY <1>1, LenProperties DEF Elems
<1>3. NoDup(WQ(ts)) /\ ts_sleepq[ts]["R"] = <<>>
  BY DEF TsInv, QueueInv
<1>4. AllNoDup
  BY DEF TsInv, QueueInv, AllNoDup, Queues, WQ, NoDup
<1> QED BY <1>1, <1>2, <1>3, <1>4

LEMMA SleepsOn ==
    ASSUME TsInv, NEW t \in Threads, t_wchan[t] # NULL
    PROVE  /\ t_wchan[t] \in Locks /\ tc_chain[t_wchan[t]] = t_ts[t] /\ t_ts[t] \in Turnstiles
           /\ t \in Elems(WQ(t_ts[t]))
           /\ \E q \in Queues : t \in Elems(ts_sleepq[t_ts[t]][q])
           /\ \A l \in Locks : tc_chain[l] = t_ts[t] => l = t_wchan[t]
<1>1. t_wchan[t] \in Locks /\ t_ts[t] \in Turnstiles /\ tc_chain[t_wchan[t]] = t_ts[t]
  BY DEF TsInv, TurnstileTypeOK, ChainInv
<1>2. t \in Elems(WQ(t_ts[t]))
  BY DEF TsInv, QueueInv
<1>3. \A l \in Locks : tc_chain[l] = t_ts[t] => l = t_wchan[t]
  BY <1>1, TurnstileAssumption DEF TsInv, ChainInv
<1> QED BY <1>1, <1>2, <1>3 DEF WQ, Queues

LEMMA RequeueTs ==
    ASSUME TsInv, TurnstileTypeOK', NEW x, Requeued(x, ts_sleepq'), UNCHANGED chain_vars
    PROVE  TsInv' /\ \A ts \in Turnstiles : Len(WQ(ts))' = Len(WQ(ts))
<1>0. UNCHANGED <<tc_chain, ts_free, ts_waiters, t_ts, t_wchan>>
  BY DEF chain_vars
<1>1. \A ts \in Turnstiles : /\ Len(WQ(ts))' = Len(WQ(ts))
                             /\ Elems(WQ(ts))' = Elems(WQ(ts))
                             /\ NoDup(WQ(ts))'
  BY DEF Requeued, WQ, Queues
<1>2. ASSUME NEW ts \in Turnstiles PROVE ts_sleepq'[ts]["R"] = <<>>
  <2>1. Len(ts_sleepq'[ts]["R"]) = 0 /\ ts_sleepq'[ts]["R"] \in Seq(Threads)
    <3>1. Len(ts_sleepq[ts]["R"]) = 0
      BY QueueFacts
    <3> QED BY <3>1 DEF Requeued, Queues
  <2> QED BY <2>1, EmptySeq
<1>3. ChainInv'
  BY <1>0 DEF TsInv, ChainInv, Active
<1>4. ContentInv'
  BY <1>0, <1>1 DEF TsInv, ContentInv, Active
<1>5. QueueInv'
  <2>1. \A t \in Threads : t_wchan[t] # NULL => t_ts[t] \in Turnstiles
    BY DEF TsInv, TurnstileTypeOK
  <2> QED BY <1>0, <1>1, <1>2, <2>1 DEF TsInv, QueueInv
<1> QED BY <1>1, <1>3, <1>4, <1>5 DEF TsInv

LEMMA ChangeEpriTs ==
    ASSUME TsInv, NEW i \in Threads, NEW e \in Inheritable, thread_change_epri(i, e)
    PROVE  /\ Requeued(i, ts_sleepq')
           /\ t_epri' \in [Threads -> Inheritable]
<1>0. AllNoDup /\ TurnstileTypeOK
  <2>1. t_ts[i] \in Turnstiles
    BY DEF TsInv, TurnstileTypeOK
  <2> QED BY <2>1, QueueFacts DEF TsInv
<1>1. t_epri' \in [Threads -> Inheritable]
  BY <1>0 DEF thread_change_epri, TurnstileTypeOK, Inheritable
<1>2. CASE t_wchan[i] = NULL
  <2>1. ts_sleepq' = ts_sleepq
    BY <1>2 DEF thread_change_epri
  <2> QED BY <1>0, <1>1, <2>1, NotRequeued
<1>3. CASE t_wchan[i] # NULL
  <2>1. PICK prio : ts_sleepq' = turnstile_change_pri(i, prio)
    BY <1>3 DEF thread_change_epri
  <2> QED BY <1>0, <1>1, <1>3, <2>1, ChangePriRequeues, SleepsOn
<1> QED BY <1>2, <1>3

LEMMA PiInheritType ==
    ASSUME TurnstileTypeOK, NEW ts \in Turnstiles, NEW i \in Threads, NEW e \in Inheritable,
           turnstile_pi_inherit(t_pri, ts, i, e)
    PROVE  /\ ts_epri' \in [Turnstiles -> Inheritable]
           /\ t_prioinv' \in [Threads -> SUBSET Turnstiles]
           /\ ts_inheritor' \in [Turnstiles -> Threads \cup {NULL}]
<1>0. /\ ts_epri \in [Turnstiles -> Inheritable]
      /\ t_prioinv \in [Threads -> SUBSET Turnstiles]
      /\ ts_inheritor \in [Turnstiles -> Threads \cup {NULL}]
  BY DEF TurnstileTypeOK, Inheritable
<1>1. CASE ~Inverted(t_pri, i, e)
  BY <1>0, <1>1 DEF turnstile_pi_inherit
<1>2. CASE Inverted(t_pri, i, e) /\ ts_inheritor[ts] = NULL
  BY <1>0, <1>2 DEF turnstile_pi_inherit
<1>3. CASE Inverted(t_pri, i, e) /\ ts_inheritor[ts] # NULL
  BY <1>0, <1>3 DEF turnstile_pi_inherit
<1> QED BY <1>1, <1>2, <1>3

LEMMA BlockPiTs ==
    ASSUME TsInv, NEW t \in Threads, NEW c \in Threads, c = pi_cur,
           NEW o \in Threads \cup {NULL}, turnstile_block_pi(t, o)
    PROVE  TsInv' /\ \A ts \in Turnstiles : Len(WQ(ts))' = Len(WQ(ts))
<1>0. PICK e \in Priorities : e = DISP_PRIO[c]
  BY DispPrioType DEF TsInv
<1>1. PICK ts \in Turnstiles : ts = t_ts[c]
  BY DEF TsInv, TurnstileTypeOK
<1>2. AllNoDup /\ TurnstileTypeOK
  BY <1>1, QueueFacts DEF TsInv
<1>3. UNCHANGED <<chain_vars, t_pri, wk>>
  BY DEF turnstile_block_pi
<1>4. Requeued(o, ts_sleepq') /\ t_epri' \in [Threads -> Inheritable]
  <2>1. CASE o = NULL \/ ~RaisesPrio(t_pri, o, e)
    <3>1. UNCHANGED <<t_epri, ts_sleepq>>
      BY <2>1, <1>0 DEF turnstile_block_pi, pi_vars
    <3> QED BY <1>2, <3>1, NotRequeued DEF TurnstileTypeOK, Inheritable
  <2>2. CASE o # NULL /\ RaisesPrio(t_pri, o, e)
    <3>1. thread_change_epri(o, e)
      BY <2>2, <1>0 DEF turnstile_block_pi
    <3> QED BY <2>2, <3>1, ChangeEpriTs DEF Inheritable
  <2> QED BY <2>1, <2>2
<1>5. /\ ts_epri' \in [Turnstiles -> Inheritable]
      /\ t_prioinv' \in [Threads -> SUBSET Turnstiles]
      /\ ts_inheritor' \in [Turnstiles -> Threads \cup {NULL}]
  <2>1. CASE o = NULL
    <3>1. UNCHANGED pi_vars
      BY <2>1 DEF turnstile_block_pi
    <3> QED BY <1>2, <3>1 DEF TurnstileTypeOK, pi_vars, Inheritable
  <2>2. CASE o # NULL
    <3>1. turnstile_pi_inherit(t_pri, ts, o, e)
      BY <2>2, <1>0, <1>1 DEF turnstile_block_pi
    <3> QED BY <2>2, <1>2, <3>1, PiInheritType DEF Inheritable
  <2> QED BY <2>1, <2>2
<1>6. TurnstileTypeOK'
  <2>1. tc_lock' \in Threads \cup {NULL} /\ pi_cur' \in Threads \cup {NULL}
    BY DEF turnstile_block_pi
  <2>2. ts_sleepq' \in [Turnstiles -> [Queues -> Seq(Threads)]]
    BY <1>4 DEF Requeued
  <2> QED BY <1>2, <1>3, <1>4, <1>5, <2>1, <2>2
    DEF TurnstileTypeOK, chain_vars, Inheritable
<1> QED BY <1>3, <1>4, <1>6, RequeueTs

LEMMA WaiveTs ==
    ASSUME TsInv, NEW t \in Threads, NEW l \in Locks, wk.sobj = l, tc_chain[l] # NULL,
           turnstile_wakeup_waive(t)
    PROVE  TsInv' /\ \A ts \in Turnstiles : Len(WQ(ts))' = Len(WQ(ts))
<1>0. PICK ts \in Turnstiles : ts = tc_chain[l]
  BY DEF TsInv, TurnstileTypeOK
<1>1. AllNoDup /\ TurnstileTypeOK
  BY <1>0, QueueFacts DEF TsInv
<1>2. UNCHANGED <<tc_lock, chain_vars, t_pri, pi_cur, wk>>
  BY DEF turnstile_wakeup_waive
<1>3. /\ \E x : Requeued(x, ts_sleepq')
      /\ t_epri' \in [Threads -> Inheritable]
      /\ ts_epri' \in [Turnstiles -> Inheritable]
      /\ t_prioinv' \in [Threads -> SUBSET Turnstiles]
      /\ ts_inheritor' \in [Turnstiles -> Threads \cup {NULL}]
  <2>1. CASE ts_inheritor[ts] = NULL
    <3>1. UNCHANGED <<pi_vars, ts_sleepq>>
      BY <2>1, <1>0 DEF turnstile_wakeup_waive
    <3>2. Requeued(t, ts_sleepq')
      BY <1>1, <3>1, NotRequeued
    <3> QED BY <1>1, <3>1, <3>2 DEF pi_vars, TurnstileTypeOK, Inheritable
  <2>2. CASE ts_inheritor[ts] # NULL
    <3>0. PICK i \in Threads : i = ts_inheritor[ts]
      BY <2>2, <1>1 DEF TurnstileTypeOK
    <3>1. turnstile_pi_waive(ts)
      BY <2>2, <1>0 DEF turnstile_wakeup_waive
    <3> DEFINE rest == t_prioinv[i] \ {ts}
               S == {0} \cup {ts_epri[x] : x \in rest}
    <3>2. MaxOf(S) \in Inheritable
      <4>1. rest \in SUBSET Turnstiles
        BY <1>1 DEF TurnstileTypeOK
      <4>2. S \in SUBSET Inheritable /\ S # {}
        BY <1>1, <4>1 DEF TurnstileTypeOK, Inheritable
      <4> HIDE DEF S
      <4> QED BY <4>2, MaxOfType
    <3>3. /\ t_prioinv' = [t_prioinv EXCEPT ![i] = rest]
          /\ ts_inheritor' = [ts_inheritor EXCEPT ![ts] = NULL]
          /\ ts_epri' = [ts_epri EXCEPT ![ts] = 0]
          /\ \/ thread_change_epri(i, MaxOf(S))
             \/ UNCHANGED <<t_epri, ts_sleepq>>
      BY <3>0, <3>1 DEF turnstile_pi_waive
    <3> HIDE DEF S
    <3>4. /\ t_prioinv' \in [Threads -> SUBSET Turnstiles]
          /\ ts_epri' \in [Turnstiles -> Inheritable]
          /\ ts_inheritor' \in [Turnstiles -> Threads \cup {NULL}]
      BY <1>1, <3>3 DEF TurnstileTypeOK, Inheritable
    <3>5. CASE thread_change_epri(i, MaxOf(S))
      BY <3>2, <3>4, <3>5, ChangeEpriTs
    <3>6. CASE UNCHANGED <<t_epri, ts_sleepq>>
      <4>1. Requeued(i, ts_sleepq') /\ t_epri' \in [Threads -> Inheritable]
        BY <1>1, <3>6, NotRequeued DEF TurnstileTypeOK, Inheritable
      <4> QED BY <3>4, <4>1
    <3> QED BY <3>3, <3>5, <3>6
  <2> QED BY <2>1, <2>2
<1>4. TurnstileTypeOK'
  <2>1. ts_sleepq' \in [Turnstiles -> [Queues -> Seq(Threads)]]
    BY <1>3 DEF Requeued
  <2> QED BY <1>1, <1>2, <1>3, <2>1 DEF TurnstileTypeOK, chain_vars, Inheritable
<1> QED BY <1>2, <1>3, <1>4, RequeueTs

LEMMA BlockTs ==
    ASSUME TsInv, NEW t \in Threads, NEW l \in Locks, t_wchan[t] = NULL,
           turnstile_block(t, "W", l)
    PROVE  TsInv'
<1> USE TurnstileAssumption
<1>01. PICK own \in Turnstiles : own = t_ts[t]
  BY DEF TsInv, TurnstileTypeOK
<1>02. PICK ts \in Turnstiles : ts = IF tc_chain[l] = NULL THEN own ELSE tc_chain[l]
  BY DEF TsInv, TurnstileTypeOK
<1>03. PICK first \in BOOLEAN : first <=> tc_chain[l] = NULL
  OBVIOUS
<1>04. PICK old \in Seq(Threads) : old = WQ(ts) /\ NoDup(old) /\ Len(old) \in Nat
  BY QueueFacts
<1>05. t \notin Elems(old)
  BY <1>04 DEF TsInv, QueueInv
<1>07. PICK prio : prio = Prio(t_pri', t_epri)
  OBVIOUS
<1>06. PICK new \in Seq(Threads) :
          /\ new = sleepq_insert(old, t, prio) /\ Len(new) = Len(old) + 1
          /\ Elems(new) = Elems(old) \cup {t} /\ NoDup(new)
  BY <1>04, <1>05, InsertQueue
<1>b. /\ tc_chain' = [tc_chain EXCEPT ![l] = ts]
      /\ ts_free' = IF first THEN ts_free ELSE [ts_free EXCEPT ![ts] = @ \cup {own}]
      /\ t_ts' = [t_ts EXCEPT ![t] = ts]
      /\ t_wchan' = [t_wchan EXCEPT ![t] = l]
      /\ ts_waiters' = [ts_waiters EXCEPT ![ts] = @ + 1]
      /\ ts_sleepq' = [ts_sleepq EXCEPT ![ts]["W"] = new]
      /\ pi_cur' = t
      /\ UNCHANGED <<tc_lock, pi_vars, wk>>
  BY <1>01, <1>02, <1>03, <1>04, <1>06, <1>07 DEF turnstile_block, WQ
<1>k. t_pri' \in [Threads -> Priorities]
  BY ClassPriIs DEF turnstile_block, TsInv
<1>c. /\ ~Active(own) /\ \A x \in Turnstiles : own \notin ts_free[x]
      /\ \A u \in Threads : t_ts[u] = own => u = t
  BY <1>01 DEF TsInv, ChainInv
<1>d. /\ first => ts = own
      /\ ~first => ts = tc_chain[l] /\ Active(ts) /\ ts # own
  BY <1>02, <1>03, <1>c DEF Active
<1>e. first => ts_waiters[ts] = 0 /\ ts_free[ts] = {}
  BY <1>c, <1>d DEF TsInv, ContentInv
<1>h. /\ WQ(ts)' = new
      /\ \A x \in Turnstiles : x # ts => WQ(x)' = WQ(x)
      /\ \A x \in Turnstiles : ts_sleepq'[x]["R"] = ts_sleepq[x]["R"]
      /\ ts_sleepq' \in [Turnstiles -> [Queues -> Seq(Threads)]]
  BY <1>b DEF TsInv, TurnstileTypeOK, WQ, Queues
<1>i. /\ \A u \in Threads : t_ts'[u] = (IF u = t THEN ts ELSE t_ts[u])
                            /\ t_wchan'[u] = (IF u = t THEN l ELSE t_wchan[u])
      /\ \A k \in Locks : tc_chain'[k] = IF k = l THEN ts ELSE tc_chain[k]
      /\ \A x \in Turnstiles : ts_free'[x] = IF ~first /\ x = ts THEN ts_free[x] \cup {own}
                                             ELSE ts_free[x]
      /\ \A x \in Turnstiles : ts_waiters'[x] = IF x = ts THEN ts_waiters[x] + 1 ELSE ts_waiters[x]
  BY <1>b DEF TsInv, TurnstileTypeOK
<1>j. \A x \in Turnstiles : Active(x)' <=> (Active(x) \/ x = ts)
  BY <1>03, <1>d, <1>i, ZenonT(60) DEF Active
<1>1. TurnstileTypeOK'
  <2>1. /\ tc_chain' \in [Locks -> Turnstiles \cup {NULL}]
        /\ ts_waiters' \in [Turnstiles -> Nat]
        /\ t_ts' \in [Threads -> Turnstiles]
        /\ t_wchan' \in [Threads -> Locks \cup {NULL}]
        /\ pi_cur' \in Threads \cup {NULL}
    BY <1>b, SMTT(30) DEF TsInv, TurnstileTypeOK
  <2>2. ts_free' \in [Turnstiles -> SUBSET Turnstiles]
    <3>1. ts_free \in [Turnstiles -> SUBSET Turnstiles]
      BY DEF TsInv, TurnstileTypeOK
    <3>2. [ts_free EXCEPT ![ts] = @ \cup {own}] \in [Turnstiles -> SUBSET Turnstiles]
      BY <3>1
    <3> QED BY <3>1, <3>2, <1>b
  <2> QED BY <2>1, <2>2, <1>b, <1>h, <1>k DEF TsInv, TurnstileTypeOK, pi_vars
<1>3. ChainInv'
  <2>1. \A k, n \in Locks : tc_chain'[k] = tc_chain'[n] /\ k # n => tc_chain'[k] = NULL
    BY <1>03, <1>c, <1>d, <1>i DEF TsInv, ChainInv, Active
  <2>2. ASSUME NEW u \in Threads, t_wchan'[u] # NULL PROVE tc_chain'[t_wchan'[u]] = t_ts'[u]
    <3>1. CASE u = t
      BY <3>1, <1>i
    <3>2. CASE u # t
      <4>0. t_wchan[u] # NULL /\ t_wchan'[u] = t_wchan[u] /\ t_ts'[u] = t_ts[u]
        BY <2>2, <3>2, <1>i
      <4>1. t_wchan[u] \in Locks /\ tc_chain[t_wchan[u]] = t_ts[u] /\ t_ts[u] # NULL
        BY <4>0, SleepsOn
      <4>2. t_wchan[u] = l => ~first
        BY <1>03, <4>1
      <4> QED BY <3>2, <4>0, <4>1, <4>2, <1>d, <1>i, ZenonT(60)
    <3> QED BY <3>1, <3>2
  <2>3. ASSUME NEW u \in Threads, t_wchan'[u] = NULL
        PROVE  /\ \A k \in Locks : tc_chain'[k] # t_ts'[u]
               /\ \A x \in Turnstiles : t_ts'[u] \notin ts_free'[x]
               /\ \A v \in Threads : t_ts'[v] = t_ts'[u] => v = u
    <3>1. u # t /\ t_wchan[u] = NULL /\ t_ts'[u] = t_ts[u] /\ t_ts[u] \in Turnstiles
      <4>1. u # t
        BY <2>3, <1>i
      <4>2. t_wchan[u] = NULL /\ t_ts'[u] = t_ts[u]
        BY <2>3, <4>1, <1>i
      <4> QED BY <4>1, <4>2 DEF TsInv, TurnstileTypeOK
    <3>2. /\ ~Active(t_ts[u]) /\ t_ts[u] # own
          /\ \A x \in Turnstiles : t_ts[u] \notin ts_free[x]
          /\ \A v \in Threads : t_ts[v] = t_ts[u] => v = u
      BY <3>1, <1>c DEF TsInv, ChainInv
    <3>3. t_ts[u] # ts
      BY <3>2, <1>d
    <3>4. \A k \in Locks : tc_chain'[k] # t_ts[u]
      BY <3>2, <3>3, <1>i DEF Active
    <3>5. \A v \in Threads : t_ts'[v] = t_ts[u] => v = u
      BY <3>2, <3>3, <1>i
    <3>6. ASSUME NEW x \in Turnstiles PROVE t_ts[u] \notin ts_free'[x]
      <4>1. t_ts[u] \notin ts_free[x] /\ t_ts[u] # own
        BY <3>2
      <4>2. ts_free'[x] = ts_free[x] \/ ts_free'[x] = ts_free[x] \cup {own}
        BY <1>i
      <4> QED BY <4>1, <4>2
    <3> QED BY <3>1, <3>4, <3>5, <3>6
  <2>4. ASSUME NEW x \in Turnstiles, NEW f \in ts_free'[x]
        PROVE  /\ \A k \in Locks : tc_chain'[k] # f
               /\ \A y \in Turnstiles : f \in ts_free'[y] => y = x
    <3>1. f \in Turnstiles
      BY <1>1 DEF TurnstileTypeOK
    <3>2. CASE f = own
      <4>1. ~first /\ x = ts /\ \A y \in Turnstiles : f \in ts_free'[y] => y = ts
        BY <3>2, <2>4, <1>c, <1>i
      <4>2. \A k \in Locks : tc_chain'[k] # f
        BY <3>2, <4>1, <1>c, <1>d, <1>i DEF Active
      <4> QED BY <4>1, <4>2
    <3>3. CASE f # own
      <4>1. f \in ts_free[x]
        BY <2>4, <3>3, <1>i
      <4>2. ~Active(f) /\ \A y \in Turnstiles : f \in ts_free[y] => y = x
        BY <4>1 DEF TsInv, ChainInv
      <4>3. f # ts
        BY <4>2, <3>3, <1>d
      <4>4. \A k \in Locks : tc_chain'[k] # f
        BY <4>2, <4>3, <1>i DEF Active
      <4>5. \A y \in Turnstiles : f \in ts_free'[y] => f \in ts_free[y]
        BY <3>3, <1>i
      <4> QED BY <4>2, <4>4, <4>5
    <3> QED BY <3>2, <3>3
  <2> QED BY <2>1, <2>2, <2>3, <2>4 DEF ChainInv, Active
<1>4. ContentInv'
  <2>1. ASSUME NEW x \in Turnstiles, x # ts
        PROVE  /\ IsFiniteSet(ts_free'[x]) /\ ts_waiters'[x] = Len(WQ(x)')
               /\ ~Active(x)' => ts_waiters'[x] = 0 /\ ts_free'[x] = {}
               /\ Active(x)' => Cardinality(ts_free'[x]) = ts_waiters'[x] - 1
    <3>1. ts_free'[x] = ts_free[x] /\ ts_waiters'[x] = ts_waiters[x] /\ WQ(x)' = WQ(x)
      BY <2>1, <1>h, <1>i
    <3>2. Active(x)' <=> Active(x)
      BY <2>1, <1>j
    <3> QED BY <3>1, <3>2 DEF TsInv, ContentInv
  <2>2. /\ IsFiniteSet(ts_free'[ts]) /\ Cardinality(ts_free'[ts]) = ts_waiters'[ts] - 1
    <3>1. IsFiniteSet(ts_free[ts]) /\ ts_waiters[ts] \in Nat
      BY DEF TsInv, ContentInv, TurnstileTypeOK
    <3>2. CASE first
      BY <3>1, <3>2, <1>e, <1>i, FS_EmptySet
    <3>3. CASE ~first
      <4>1. ts_free'[ts] = ts_free[ts] \cup {own} /\ own \notin ts_free[ts]
        BY <3>3, <1>c, <1>i
      <4>2. Cardinality(ts_free[ts]) = ts_waiters[ts] - 1
        BY <3>3, <1>d DEF TsInv, ContentInv
      <4>3. IsFiniteSet(ts_free[ts] \cup {own})
            /\ Cardinality(ts_free[ts] \cup {own}) = Cardinality(ts_free[ts]) + 1
        BY <3>1, <4>1, FS_AddElement
      <4>4. ts_waiters'[ts] = ts_waiters[ts] + 1
        BY <1>i
      <4> QED BY <3>1, <4>1, <4>2, <4>3, <4>4
    <3> QED BY <3>2, <3>3
  <2>3. ts_waiters'[ts] = Len(new)
    <3>1. ts_waiters[ts] = Len(old)
      BY <1>04 DEF TsInv, ContentInv
    <3> QED BY <3>1, <1>06, <1>i
  <2>4. Active(ts)' /\ WQ(ts)' = new
    BY <1>h, <1>j
  <2> QED BY <2>1, <2>2, <2>3, <2>4 DEF ContentInv
<1>5. QueueInv'
  <2>1. ASSUME NEW x \in Turnstiles
        PROVE  /\ NoDup(WQ(x)') /\ ts_sleepq'[x]["R"] = <<>>
               /\ \A u \in Elems(WQ(x)') : t_wchan'[u] # NULL /\ t_ts'[u] = x
    <3>0. /\ NoDup(WQ(x)) /\ Elems(WQ(x)) \subseteq Threads /\ ts_sleepq[x]["R"] = <<>>
          /\ \A u \in Elems(WQ(x)) : t_wchan[u] # NULL /\ t_ts[u] = x
      BY QueueFacts DEF TsInv, QueueInv
    <3>1. \A u \in Elems(WQ(x)) : t_wchan'[u] # NULL /\ t_ts'[u] = x
      BY <3>0, <1>i
    <3>2. t_wchan'[t] # NULL /\ t_ts'[t] = ts
      BY <1>i
    <3>3. CASE x = ts
      BY <3>0, <3>1, <3>2, <3>3, <1>04, <1>06, <1>h
    <3>4. CASE x # ts
      BY <3>0, <3>1, <3>4, <1>h
    <3> QED BY <3>3, <3>4
  <2>2. ASSUME NEW u \in Threads, t_wchan'[u] # NULL
        PROVE  \E x \in Turnstiles : x = t_ts'[u] /\ u \in Elems(WQ(x)')
    <3>1. CASE u = t
      BY <3>1, <1>06, <1>h, <1>i
    <3>2. CASE u # t
      <4>1. u \in Elems(WQ(t_ts[u])) /\ t_ts'[u] = t_ts[u] /\ t_ts[u] \in Turnstiles
        BY <2>2, <3>2, <1>i DEF TsInv, QueueInv, TurnstileTypeOK
      <4>2. CASE t_ts[u] = ts
        BY <4>1, <4>2, <1>04, <1>06, <1>h
      <4>3. CASE t_ts[u] # ts
        BY <4>1, <4>3, <1>h
      <4> QED BY <4>2, <4>3
    <3> QED BY <3>1, <3>2
  <2> QED BY <2>1, <2>2 DEF QueueInv, WQ
<1> QED BY <1>1, <1>3, <1>4, <1>5 DEF TsInv

(* turnstile_wakeup's loop, when every thread of the queue is woken.       *)
Wakes(s, l, ts) ==
    /\ tc_chain[l] = ts /\ t_wchan[s] = l /\ t_ts[s] = ts
    /\ Len(WQ(ts)) > 0 /\ s = Head(WQ(ts))
    /\ t_wchan' = [t_wchan EXCEPT ![s] = NULL]
    /\ ts_waiters' = [ts_waiters EXCEPT ![ts] = @ - 1]
    /\ ts_sleepq' = [ts_sleepq EXCEPT ![ts] = [@ EXCEPT !["W"] = Tail(WQ(ts))]]
    /\ wk.sobj = l /\ wk.n > 0 /\ Detach(ts, s)
    /\ wk' = [wk EXCEPT !.n = @ - 1, !.owner = NULL]
    /\ t_pri' \in ClassPri(s) /\ t_pri' \in [Threads -> Priorities]
    /\ UNCHANGED <<tc_lock, pi_cur, pi_vars>>

LEMMA WakesStep ==
    ASSUME TsInv, NEW t \in Threads, NEW l \in Locks, wk.sobj = l, wk.q = "W",
           wk.owner = NULL, tc_chain[l] # NULL, wk.n = Len(WQ(tc_chain[l])),
           turnstile_wakeup_one(t)
    PROVE  WakeNext \in Threads /\ \E ts \in Turnstiles : Wakes(WakeNext, l, ts)
<1>0. PICK ts \in Turnstiles : ts = tc_chain[l]
  BY DEF TsInv, TurnstileTypeOK
<1>1. wk.n > 0 /\ Len(WQ(ts)) > 0
  BY <1>0 DEF turnstile_wakeup_one
<1>2. /\ WQ(ts) \in Seq(Threads) /\ NoDup(WQ(ts))
      /\ Head(WQ(ts)) \in Threads /\ Head(WQ(ts)) \in Elems(WQ(ts))
  <2>1. WQ(ts) \in Seq(Threads) /\ NoDup(WQ(ts))
    BY QueueFacts
  <2> QED BY <1>1, <2>1, TailQueue
<1>3. PICK s \in Threads : s = WakeNext /\ s = Head(WQ(ts))
  BY <1>0, <1>2 DEF WakeNext, WQ
<1>4. t_wchan[s] # NULL /\ t_ts[s] = ts
  BY <1>2, <1>3 DEF TsInv, QueueInv
<1>5. t_wchan[s] = l
  BY <1>0, <1>4, SleepsOn
<1>6. s # wk.owner
  BY TurnstileAssumption
<1>7. /\ t_wchan' = [t_wchan EXCEPT ![s] = NULL]
      /\ ts_waiters' = [ts_waiters EXCEPT ![ts] = @ - 1]
      /\ ts_sleepq' = [ts_sleepq EXCEPT ![ts] = [@ EXCEPT !["W"] = Tail(WQ(ts))]]
      /\ Detach(ts, s) /\ t_pri' \in ClassPri(s)
      /\ UNCHANGED <<tc_lock, pi_cur>>
  BY <1>0, <1>3 DEF turnstile_wakeup_one, WQ
<1>11. t_pri' \in [Threads -> Priorities]
  BY <1>7, ClassPriIs DEF TsInv
<1>8. UNCHANGED pi_vars
  BY <1>0, <1>3, <1>6 DEF turnstile_wakeup_one
<1>9. wk' = [wk EXCEPT !.n = @ - 1, !.owner = NULL]
  <2>1. wk' = [wk EXCEPT !.n = @ - 1, !.owner = IF s = @ THEN NULL ELSE @]
    BY <1>3 DEF turnstile_wakeup_one
  <2>2. wk \in [q : Queues, n : Nat, owner : Threads \cup {NULL}, sobj : Locks \cup {NULL}]
    BY DEF TsInv, TurnstileTypeOK
  <2> QED BY <1>6, <2>1, <2>2
<1>10. Wakes(s, l, ts)
  BY <1>0, <1>1, <1>3, <1>4, <1>5, <1>7, <1>8, <1>9, <1>11 DEF Wakes
<1> QED BY <1>3, <1>10

LEMMA WakesTs ==
    ASSUME TsInv, NEW s \in Threads, NEW l \in Locks, NEW ts \in Turnstiles, Wakes(s, l, ts)
    PROVE  /\ TsInv'
           /\ tc_chain'[l] = NULL => Len(WQ(ts)) = 1
           /\ tc_chain'[l] # NULL => tc_chain'[l] = ts /\ Len(WQ(ts))' = Len(WQ(ts)) - 1
<1> USE TurnstileAssumption
<1>1. PICK old \in Seq(Threads) : old = WQ(ts) /\ NoDup(old) /\ Len(old) \in Nat
  BY QueueFacts
<1>2. PICK new \in Seq(Threads) : /\ new = Tail(old) /\ NoDup(new)
                                  /\ Len(new) = Len(old) - 1
                                  /\ Elems(new) = Elems(old) \ {s}
  <2>1. Len(old) > 0 /\ s = Head(old)
    BY <1>1 DEF Wakes
  <2> QED BY <2>1, <1>1, TailQueue
<1>3. PICK n \in Nat : n = Len(old) /\ n > 0 /\ n - 1 = Len(new) /\ ts_waiters[ts] = n
  BY <1>1, <1>2 DEF Wakes, TsInv, ContentInv
<1>a. t_wchan'[s] = NULL /\ \A u \in Threads : u # s => t_wchan'[u] = t_wchan[u]
  BY DEF Wakes, TsInv, TurnstileTypeOK
<1>b. /\ WQ(ts)' = new
      /\ \A x \in Turnstiles : x # ts => WQ(x)' = WQ(x)
      /\ \A x \in Turnstiles : ts_sleepq'[x]["R"] = ts_sleepq[x]["R"]
      /\ ts_sleepq' \in [Turnstiles -> [Queues -> Seq(Threads)]]
  <2>1. ts_sleepq \in [Turnstiles -> [Queues -> Seq(Threads)]]
    BY DEF TsInv, TurnstileTypeOK
  <2>2. ts_sleepq' = [ts_sleepq EXCEPT ![ts] = [ts_sleepq[ts] EXCEPT !["W"] = new]]
    BY <1>1, <1>2 DEF Wakes
  <2> QED BY <2>1, <2>2 DEF WQ, Queues
<1>c. /\ ts_waiters'[ts] = n - 1
      /\ \A x \in Turnstiles : x # ts => ts_waiters'[x] = ts_waiters[x]
      /\ ts_waiters' \in [Turnstiles -> Nat]
  <2>1. ts_waiters \in [Turnstiles -> Nat] /\ ts_waiters' = [ts_waiters EXCEPT ![ts] = n - 1]
    BY <1>3 DEF Wakes, TsInv, TurnstileTypeOK
  <2>2. n - 1 \in Nat
    BY <1>3
  <2> QED BY <2>1, <2>2
<1>f. /\ Active(ts) /\ IsFiniteSet(ts_free[ts]) /\ Cardinality(ts_free[ts]) = n - 1
      /\ tc_chain[l] = ts
      /\ \A k \in Locks : k # l => tc_chain[k] # ts
  <2>1. Active(ts) /\ tc_chain[l] = ts
    BY DEF Wakes, Active
  <2>2. \A k \in Locks : k # l => tc_chain[k] # ts
    BY <2>1 DEF TsInv, ChainInv
  <2>3. IsFiniteSet(ts_free[ts]) /\ Cardinality(ts_free[ts]) = ts_waiters[ts] - 1
    BY <2>1 DEF TsInv, ContentInv
  <2> QED BY <1>3, <2>1, <2>2, <2>3
<1> DEFINE Given(f) == /\ f \in ts_free[ts]
                       /\ ts_free' = [ts_free EXCEPT ![ts] = @ \ {f}]
                       /\ t_ts' = [t_ts EXCEPT ![s] = f]
                       /\ tc_chain' = tc_chain
           Last == /\ ts_free[ts] = {}
                   /\ tc_chain' = [tc_chain EXCEPT ![l] = NULL]
                   /\ ts_free' = ts_free /\ t_ts' = t_ts
<1>g. (\E f \in Turnstiles : Given(f)) \/ Last
  <2>1. Detach(ts, s) /\ wk.sobj = l
    BY DEF Wakes
  <2>2. ts_free[ts] \subseteq Turnstiles
    BY DEF TsInv, TurnstileTypeOK
  <2> QED BY <2>1, <2>2 DEF Detach
<1>h. ASSUME Last PROVE n = 1 /\ \A u \in Threads : u # s => t_wchan[u] # l
  <2>1. n = 1
    BY <1>f, <1>h, FS_EmptySet
  <2>2. ASSUME NEW u \in Threads, u # s, t_wchan[u] = l PROVE FALSE
    <3>1. t_ts[u] = ts /\ u \in Elems(WQ(t_ts[u]))
      BY <2>2, <1>f, SleepsOn
    <3>2. u \in Elems(new) /\ Len(new) = 0
      BY <2>1, <2>2, <3>1, <1>1, <1>2, <1>3
    <3> QED BY <3>2, LenProperties DEF Elems
  <2> QED BY <2>1, <2>2
<1>i. /\ \A x \in Turnstiles : ts_free'[x] \subseteq ts_free[x]
      /\ \A x \in Turnstiles : x # ts => ts_free'[x] = ts_free[x]
      /\ \A u \in Threads : u # s => t_ts'[u] = t_ts[u]
      /\ \A k \in Locks : k # l => tc_chain'[k] = tc_chain[k]
      /\ \A k \in Locks : tc_chain'[k] \in {tc_chain[k], NULL}
      /\ ts_free' \in [Turnstiles -> SUBSET Turnstiles]
      /\ t_ts' \in [Threads -> Turnstiles]
      /\ tc_chain' \in [Locks -> Turnstiles \cup {NULL}]
  <2>0. /\ ts_free \in [Turnstiles -> SUBSET Turnstiles]
        /\ t_ts \in [Threads -> Turnstiles]
        /\ tc_chain \in [Locks -> Turnstiles \cup {NULL}]
    BY DEF TsInv, TurnstileTypeOK
  <2>1. CASE \E f \in Turnstiles : Given(f)
    BY <2>0, <2>1
  <2>2. CASE Last
    BY <2>0, <2>2
  <2> QED BY <2>1, <2>2, <1>g
<1>j. \A x \in Turnstiles : x # ts => (Active(x)' <=> Active(x))
  BY <1>f, <1>i DEF Active
<1>4. TurnstileTypeOK'
  <2>1. t_wchan' \in [Threads -> Locks \cup {NULL}]
    BY DEF Wakes, TsInv, TurnstileTypeOK
  <2>2. wk' \in [q : Queues, n : Nat, owner : Threads \cup {NULL}, sobj : Locks \cup {NULL}]
    <3>1. wk \in [q : Queues, n : Nat, owner : Threads \cup {NULL}, sobj : Locks \cup {NULL}]
      BY DEF TsInv, TurnstileTypeOK
    <3>2. wk.n - 1 \in Nat /\ wk' = [wk EXCEPT !.n = wk.n - 1, !.owner = NULL]
      BY <3>1 DEF Wakes
    <3> QED BY <3>1, <3>2
  <2> QED BY <2>1, <2>2, <1>b, <1>c, <1>i
    DEF Wakes, TsInv, TurnstileTypeOK, pi_vars
<1>6. ChainInv'
  <2>1. \A j, k \in Locks : tc_chain'[j] = tc_chain'[k] /\ j # k => tc_chain'[j] = NULL
    <3>1. \A j, k \in Locks : tc_chain[j] = tc_chain[k] /\ j # k => tc_chain[j] = NULL
      BY DEF TsInv, ChainInv
    <3>2. \A k \in Locks : tc_chain'[k] \in {tc_chain[k], NULL}
      BY <1>i
    <3> QED BY <3>1, <3>2
  <2>2. ASSUME NEW u \in Threads, t_wchan'[u] # NULL PROVE tc_chain'[t_wchan'[u]] = t_ts'[u]
    <3>1. u # s /\ t_wchan'[u] = t_wchan[u] /\ t_ts'[u] = t_ts[u]
      BY <2>2, <1>a, <1>i
    <3>2. t_wchan[u] \in Locks /\ tc_chain[t_wchan[u]] = t_ts[u]
      BY <2>2, <3>1, SleepsOn
    <3>3. CASE \E f \in Turnstiles : Given(f)
      BY <3>1, <3>2, <3>3
    <3>4. CASE Last
      BY <3>1, <3>2, <3>4, <1>h, <1>i
    <3> QED BY <3>3, <3>4, <1>g
  <2>3. ASSUME NEW u \in Threads, t_wchan'[u] = NULL
        PROVE  /\ \A k \in Locks : tc_chain'[k] # t_ts'[u]
               /\ \A x \in Turnstiles : t_ts'[u] \notin ts_free'[x]
               /\ \A v \in Threads : t_ts'[v] = t_ts'[u] => v = u
    <3>0. \A v \in Threads : t_ts[v] \in Turnstiles
      BY DEF TsInv, TurnstileTypeOK
    <3>1. CASE \E f \in Turnstiles : Given(f)
      <4>1. PICK f \in Turnstiles : Given(f)
        BY <3>1
      <4>2. /\ \A k \in Locks : tc_chain[k] # f
            /\ \A x \in Turnstiles : f \in ts_free[x] => x = ts
        BY <4>1 DEF TsInv, ChainInv, Active
      <4>3. ASSUME NEW v \in Threads PROVE t_ts[v] # f
        <5>1. CASE t_wchan[v] = NULL
          BY <5>1, <4>1 DEF TsInv, ChainInv
        <5>2. CASE t_wchan[v] # NULL
          BY <5>2, <4>2, SleepsOn
        <5> QED BY <5>1, <5>2
      <4>4. \A v \in Threads : t_ts'[v] = IF v = s THEN f ELSE t_ts[v]
        BY <4>1 DEF TsInv, TurnstileTypeOK
      <4>5. \A x \in Turnstiles : f \notin ts_free'[x]
        BY <4>1, <4>2 DEF TsInv, TurnstileTypeOK
      <4>6. CASE u = s
        BY <4>1, <4>2, <4>3, <4>4, <4>5, <4>6
      <4>7. CASE u # s
        <5>1. t_wchan[u] = NULL
          BY <4>7, <2>3, <1>a
        <5>2. /\ \A k \in Locks : tc_chain[k] # t_ts[u]
              /\ \A x \in Turnstiles : t_ts[u] \notin ts_free[x]
              /\ \A v \in Threads : t_ts[v] = t_ts[u] => v = u
          BY <5>1 DEF TsInv, ChainInv, Active
        <5>3. \A x \in Turnstiles : t_ts[u] \notin ts_free'[x]
          BY <5>2, <1>i
        <5>4. t_ts'[u] = t_ts[u] /\ t_ts'[s] # t_ts[u]
          BY <4>3, <4>4, <4>7
        <5> QED BY <5>2, <5>3, <5>4, <4>1, <4>4, <4>7
      <4> QED BY <4>6, <4>7
    <3>2. CASE Last
      <4>1. t_ts'[u] = t_ts[u] /\ \A k \in Locks : tc_chain'[k] # t_ts[u]
        <5>1. CASE u = s
          <6>1. t_ts[u] = ts /\ tc_chain'[l] = NULL
            BY <5>1, <3>2 DEF Wakes, TsInv, TurnstileTypeOK
          <6> QED BY <6>1, <3>2, <1>f, <1>i
        <5>2. CASE u # s
          <6>1. \A k \in Locks : tc_chain[k] # t_ts[u]
            BY <5>2, <2>3, <1>a DEF TsInv, ChainInv, Active
          <6>2. t_ts[u] # NULL
            BY <3>0
          <6> QED BY <6>1, <6>2, <3>2, <1>i
        <5> QED BY <5>1, <5>2
      <4>2. \A x \in Turnstiles : t_ts[u] \notin ts_free[x]
        <5>1. CASE u = s
          <6>1. t_ts[u] = ts /\ Active(ts)
            BY <5>1, <1>f DEF Wakes
          <6> QED BY <6>1 DEF TsInv, ChainInv
        <5>2. CASE u # s
          BY <5>2, <2>3, <1>a DEF TsInv, ChainInv
        <5> QED BY <5>1, <5>2
      <4>3. ASSUME NEW v \in Threads, t_ts[v] = t_ts[u] PROVE v = u
        <5>1. CASE u = s
          <6>1. t_ts[v] = ts
            BY <4>3, <5>1 DEF Wakes
          <6>2. t_wchan[v] # NULL
            BY <6>1, <1>f DEF TsInv, ChainInv
          <6>3. t_wchan[v] = l
            BY <6>1, <6>2, <1>f, SleepsOn
          <6> QED BY <6>3, <5>1, <3>2, <1>h
        <5>2. CASE u # s
          BY <5>2, <4>3, <2>3, <1>a DEF TsInv, ChainInv
        <5> QED BY <5>1, <5>2
      <4> QED BY <4>1, <4>2, <4>3, <3>2
    <3> QED BY <3>1, <3>2, <1>g
  <2>4. ASSUME NEW x \in Turnstiles, NEW f \in ts_free'[x]
        PROVE  /\ \A k \in Locks : tc_chain'[k] # f
               /\ \A y \in Turnstiles : f \in ts_free'[y] => y = x
    <3>1. f \in ts_free[x] /\ f # NULL
      BY <2>4, <1>i
    <3>2. /\ \A k \in Locks : tc_chain[k] # f
          /\ \A y \in Turnstiles : f \in ts_free[y] => y = x
      BY <3>1 DEF TsInv, ChainInv, Active
    <3> QED BY <3>1, <3>2, <1>i
  <2> QED BY <2>1, <2>2, <2>3, <2>4 DEF ChainInv, Active
<1>7. ContentInv'
  <2>1. ASSUME NEW x \in Turnstiles, x # ts
        PROVE  /\ IsFiniteSet(ts_free'[x]) /\ ts_waiters'[x] = Len(WQ(x)')
               /\ ~Active(x)' => ts_waiters'[x] = 0 /\ ts_free'[x] = {}
               /\ Active(x)' => Cardinality(ts_free'[x]) = ts_waiters'[x] - 1
    <3>1. ts_free'[x] = ts_free[x] /\ ts_waiters'[x] = ts_waiters[x] /\ WQ(x)' = WQ(x)
      BY <2>1, <1>b, <1>c, <1>i
    <3>2. Active(x)' <=> Active(x)
      BY <2>1, <1>j
    <3> QED BY <3>1, <3>2 DEF TsInv, ContentInv
  <2>2. ts_waiters'[ts] = Len(WQ(ts)')
    BY <1>3, <1>b, <1>c
  <2>3. /\ IsFiniteSet(ts_free'[ts])
        /\ ~Active(ts)' => ts_waiters'[ts] = 0 /\ ts_free'[ts] = {}
        /\ Active(ts)' => Cardinality(ts_free'[ts]) = ts_waiters'[ts] - 1
    <3>1. CASE \E f \in Turnstiles : Given(f)
      <4>1. PICK f \in Turnstiles : Given(f)
        BY <3>1
      <4>2. ts_free'[ts] = ts_free[ts] \ {f}
        BY <4>1 DEF TsInv, TurnstileTypeOK
      <4>3. IsFiniteSet(ts_free[ts] \ {f})
            /\ Cardinality(ts_free[ts] \ {f}) = Cardinality(ts_free[ts]) - 1
        BY <4>1, <1>f, FS_RemoveElement
      <4>4. Active(ts)'
        BY <4>1, <1>f DEF Active
      <4>5. Cardinality(ts_free'[ts]) = ts_waiters'[ts] - 1
        BY <4>2, <4>3, <1>c, <1>f
      <4> QED BY <4>2, <4>3, <4>4, <4>5
    <3>2. CASE Last
      <4>1. ~Active(ts)'
        <5>1. tc_chain'[l] = NULL
          BY <3>2 DEF TsInv, TurnstileTypeOK
        <5> QED BY <5>1, <1>f, <1>i DEF Active
      <4>2. ts_waiters'[ts] = 0
        BY <3>2, <1>h, <1>c
      <4> QED BY <4>1, <4>2, <3>2, <1>f
    <3> QED BY <3>1, <3>2, <1>g
  <2> QED BY <2>1, <2>2, <2>3 DEF ContentInv
<1>8. QueueInv'
  <2>1. ASSUME NEW x \in Turnstiles
        PROVE  /\ NoDup(WQ(x)') /\ ts_sleepq'[x]["R"] = <<>>
               /\ \A u \in Elems(WQ(x)') : t_wchan'[u] # NULL /\ t_ts'[u] = x
    <3>0. /\ NoDup(WQ(x)) /\ Elems(WQ(x)) \subseteq Threads /\ ts_sleepq[x]["R"] = <<>>
          /\ \A u \in Elems(WQ(x)) : t_wchan[u] # NULL /\ t_ts[u] = x
      BY QueueFacts DEF TsInv, QueueInv
    <3>1. NoDup(WQ(x)') /\ Elems(WQ(x)') \subseteq Elems(WQ(x)) \ {s}
      <4>1. CASE x = ts
        BY <4>1, <1>b, <1>1, <1>2
      <4>2. CASE x # ts
        <5>1. s \notin Elems(WQ(x))
          BY <4>2, <3>0 DEF Wakes
        <5> QED BY <5>1, <4>2, <3>0, <1>b
      <4> QED BY <4>1, <4>2
    <3> QED BY <3>0, <3>1, <1>a, <1>b, <1>i
  <2>2. ASSUME NEW u \in Threads, t_wchan'[u] # NULL
        PROVE  \E x \in Turnstiles : x = t_ts'[u] /\ u \in Elems(WQ(x)')
    <3>1. u # s /\ t_ts'[u] = t_ts[u] /\ t_wchan[u] # NULL
      BY <2>2, <1>a, <1>i
    <3>2. PICK x \in Turnstiles : x = t_ts[u]
      BY DEF TsInv, TurnstileTypeOK
    <3>3. u \in Elems(WQ(x))
      BY <3>1, <3>2 DEF TsInv, QueueInv
    <3>4. u \in Elems(WQ(x)')
      <4>1. CASE x = ts
        BY <4>1, <3>1, <3>3, <1>b, <1>1, <1>2
      <4>2. CASE x # ts
        BY <4>2, <3>3, <1>b
      <4> QED BY <4>1, <4>2
    <3> QED BY <3>1, <3>2, <3>4
  <2> QED BY <2>1, <2>2 DEF QueueInv, WQ
<1>9. /\ tc_chain'[l] = NULL => Len(WQ(ts)) = 1
      /\ tc_chain'[l] # NULL => tc_chain'[l] = ts /\ Len(WQ(ts))' = Len(WQ(ts)) - 1
  <2>1. CASE \E f \in Turnstiles : Given(f)
    <3>1. tc_chain'[l] = ts
      BY <2>1, <1>f
    <3> QED BY <3>1, <1>1, <1>2, <1>b
  <2>2. CASE Last
    <3>1. tc_chain'[l] = NULL
      BY <2>2 DEF TsInv, TurnstileTypeOK
    <3> QED BY <3>1, <2>2, <1>h, <1>1, <1>3
  <2> QED BY <2>1, <2>2, <1>g
<1> QED BY <1>4, <1>6, <1>7, <1>8, <1>9 DEF TsInv
-----------------------------------------------------------------------------
(* A thread that found owner and waiters bit unchanged goes to sleep: the  *)
(* second search has looked at every CPU.                                  *)
LEMMA ConfirmBlockStep ==
    ASSUME MutexInv, NEW t \in Threads, ConfirmBlock(t)
    PROVE  MutexInv'
<1>0. PICK l \in Locks : l = lk[t]
  BY ThreadFacts DEF ConfirmBlock, At
<1>1. /\ pc[t] = "confirm" /\ turnstile_block(t, "W", l)
      /\ pc' = [pc EXCEPT ![t] = "pi"]
      /\ owner' = [owner EXCEPT ![t] = NULL]
      /\ m_owner[l].owner = owner[t] /\ m_owner[l].waiters
      /\ UNCHANGED <<m_owner, cpu_thread, cur, sb, held, lk, scan, panicstr>>
  BY <1>0 DEF ConfirmBlock, At, Goto, Unchanged, mutex_owner
<1>2. /\ MutexTypeOK /\ ControlOf(t) /\ t_wchan[t] = NULL /\ scan[t] = {} /\ owner[t] # NULL
      /\ tc_lock = t /\ \A u \in Threads : u # t => pc[u] \notin TcLabels
      /\ l # NULL /\ t # NULL
  BY <1>1, ThreadFacts, TurnstileAssumption
     DEF MutexInv, ControlOf, QueuedLabels, OwnerLabels, TcLabels
<1>3. TsInv'
  BY <1>1, <1>2, BlockTs DEF MutexInv, TsInv, MutexTypeOK
<1>4. /\ t_wchan' = [t_wchan EXCEPT ![t] = l] /\ tc_lock' = tc_lock /\ wk' = wk /\ pi_cur' = t
  BY <1>1 DEF turnstile_block
<1>5. Moves(t, "pi")
  BY <1>1, <1>2 DEF Moves, MutexTypeOK
<1>6. /\ pc'[t] = "pi" /\ \A u \in Threads : u # t => pc'[u] = pc[u]
      /\ t_wchan'[t] = l /\ \A u \in Threads : u # t => t_wchan'[u] = t_wchan[u]
  BY <1>2, <1>4, <1>5, MovesFacts DEF MutexTypeOK, TurnstileTypeOK
<1>7. wk.sobj = NULL
  BY <1>1, <1>2 DEF MutexInv, WakeupInv, WakeLabels, TcLabels
<1>8. MutexTypeOK'
  <2>1. pc' \in [Threads -> Labels] /\ owner' \in [Threads -> Threads \cup {NULL}]
    BY <1>1, <1>2 DEF MutexTypeOK, Labels
  <2> QED BY <1>1, <1>2, <1>3, <2>1 DEF MutexTypeOK, TsInv
<1>9. CpuInv' /\ WordInv' /\ SearchInv'
  BY <1>0, <1>1, <1>5, InUse, LocalStep DEF Labels
<1>10. ControlInv'
  <2>1. ControlOf(t)'
    BY <1>0, <1>1, <1>2, <1>4, <1>6
    DEF ControlOf, TcLabels, QueuedLabels, OwnerLabels, ExitLabels, WakeLabels
  <2> QED BY <1>1, <1>2, <1>4, <1>5, <1>6, <2>1, ControlKept
<1>11. WakeupInv'
  BY <1>4, <1>7 DEF MutexInv, WakeupInv
<1>12. \A k \in Locks : Dropping(k)' => Dropping(k)
  BY <1>1, <1>6 DEF Dropping
<1>13. ~Dropping(l)
  BY <1>0, <1>1, <1>2 DEF MutexInv, SearchInv
<1>14. SleeperInv'
  <2>1. SUFFICES ASSUME NEW u \in Threads, t_wchan'[u] # NULL
                 PROVE  \E k \in Locks : /\ k = t_wchan'[u] /\ m_owner[k].owner # NULL
                                         /\ m_owner[k].waiters /\ ~Dropping(k)'
    BY <1>1 DEF SleeperInv, Dropping
  <2>2. CASE u = t
    <3>1. ~Dropping(l)'
      BY <1>12, <1>13
    <3> QED BY <1>1, <1>2, <1>6, <2>2, <3>1
  <2>3. CASE u # t
    <3>1. PICK k \in Locks : k = t_wchan[u] /\ k = t_wchan'[u] /\ k # NULL
      BY <1>6, <2>1, <2>3, ThreadFacts
    <3>2. m_owner[k].owner # NULL /\ m_owner[k].waiters /\ ~Dropping(k)
      BY <1>7, <3>1 DEF MutexInv, SleeperInv
    <3>3. ~Dropping(k)'
      BY <1>12, <3>2
    <3> QED BY <3>1, <3>2, <3>3
  <2> QED BY <2>2, <2>3
<1> QED BY <1>3, <1>8, <1>9, <1>10, <1>11, <1>14 DEF MutexInv, TsInv

LEMMA EnterWillStep ==
    ASSUME MutexInv, NEW t \in Threads, EnterWill(t)
    PROVE  MutexInv'
<1>0. /\ pc[t] = "pi" /\ ControlOf(t) /\ MutexTypeOK /\ tc_lock = t /\ t # NULL
      /\ \A u \in Threads : u # t => pc[u] \notin TcLabels
  BY ThreadFacts, TurnstileAssumption DEF EnterWill, At, TcLabels, MutexInv
<1>1. PICK c \in Threads : c = pi_cur
  BY <1>0 DEF ControlOf
<1>2. PICK o \in Threads \cup {NULL} : o = mutex_owner(t_wchan[pi_cur])
  BY <1>0 DEF ControlOf, mutex_owner, MutexTypeOK, Words
<1>3. PICK ends \in BOOLEAN : ends <=> PiWalkEnds(o)
  OBVIOUS
<1>4. /\ turnstile_block_pi(t, o)
      /\ pc' = [pc EXCEPT ![t] = IF ends THEN "sleep" ELSE "pi"]
      /\ UNCHANGED <<m_owner, cpu_thread, cur, sb, held, lk, owner, scan>>
  BY <1>2, <1>3 DEF EnterWill, Goto
<1>5. panicstr' \in BOOLEAN
  BY DEF EnterWill
<1>6. TsInv' /\ \A ts \in Turnstiles : Len(WQ(ts))' = Len(WQ(ts))
  BY <1>0, <1>1, <1>4, BlockPiTs DEF TsInv, MutexInv, MutexTypeOK
<1>7. /\ UNCHANGED <<tc_chain, t_wchan, wk>>
      /\ pi_cur' = IF ends THEN NULL ELSE o
      /\ tc_lock' = IF ends THEN NULL ELSE t
      /\ ~ends => o # NULL /\ t_wchan[o] # NULL
  BY <1>3, <1>4 DEF turnstile_block_pi, chain_vars, PiWalkEnds
<1>8. PICK label \in {"sleep", "pi"} : label = IF ends THEN "sleep" ELSE "pi"
  OBVIOUS
<1>9. Moves(t, label) /\ pc'[t] = label
  BY <1>0, <1>4, <1>8 DEF Moves, MutexTypeOK
<1>10. MutexTypeOK'
  <2>1. pc' \in [Threads -> Labels]
    BY <1>0, <1>4 DEF MutexTypeOK, Labels
  <2> QED BY <1>0, <1>4, <1>5, <1>6, <2>1 DEF MutexTypeOK, TsInv
<1>11. CpuInv' /\ WordInv' /\ SearchInv' /\ SleeperInv'
  <2>1. lk'[t] # NULL => lk'[t] \in Locks /\ ~m_owner[lk'[t]].dead
    BY <1>4, InUse
  <2> QED BY <1>4, <1>7, <1>9, <2>1, LocalStep DEF Labels
<1>12. ControlInv'
  <2>1. ControlOf(t)'
    <3>1. CASE ends
      BY <1>0, <1>4, <1>7, <1>8, <1>9, <3>1
      DEF ControlOf, TcLabels, QueuedLabels, OwnerLabels, ExitLabels, WakeLabels
    <3>2. CASE ~ends
      <4>1. o \in Threads /\ t_wchan[o] \in Locks
        BY <1>7, <3>2, ThreadFacts
      <4> QED BY <1>0, <1>4, <1>7, <1>8, <1>9, <3>2, <4>1
        DEF ControlOf, TcLabels, QueuedLabels, OwnerLabels, ExitLabels, WakeLabels
    <3> QED BY <3>1, <3>2
  <2>2. \A u \in Threads : u # t => (tc_lock' = u <=> tc_lock = u)
    BY <1>0, <1>7, TurnstileAssumption
  <2> QED BY <1>0, <1>4, <1>7, <1>9, <2>1, <2>2, ControlKept
<1>13. WakeupInv'
  <2>1. wk.sobj = NULL
    BY <1>0 DEF MutexInv, WakeupInv, WakeLabels, TcLabels
  <2> QED BY <1>7, <2>1 DEF MutexInv, WakeupInv
<1> QED BY <1>6, <1>10, <1>11, <1>12, <1>13 DEF MutexInv, TsInv

LEMMA WakeWaiveStep ==
    ASSUME MutexInv, NEW t \in Threads, WakeWaive(t)
    PROVE  MutexInv'
<1>0. /\ pc[t] = "waive" /\ ControlOf(t) /\ MutexTypeOK /\ tc_lock = t
      /\ \A u \in Threads : u # t => pc[u] \notin TcLabels
  BY ThreadFacts DEF WakeWaive, At, TcLabels, MutexInv
<1>1. PICK l \in Locks : l = wk.sobj /\ tc_chain[l] # NULL
  BY <1>0 DEF ControlOf, WakeLabels
<1>2. /\ turnstile_wakeup_waive(t) /\ pc' = [pc EXCEPT ![t] = "wake"]
      /\ UNCHANGED <<m_owner, cpu_thread, cur, sb, held, lk, owner, scan, panicstr>>
  BY DEF WakeWaive, Goto
<1>3. TsInv' /\ \A ts \in Turnstiles : Len(WQ(ts))' = Len(WQ(ts))
  BY <1>0, <1>1, <1>2, WaiveTs DEF TsInv, MutexInv, MutexTypeOK
<1>4. UNCHANGED <<tc_lock, tc_chain, t_wchan, pi_cur, wk>>
  BY <1>2 DEF turnstile_wakeup_waive, chain_vars
<1>5. Moves(t, "wake") /\ pc'[t] = "wake"
  BY <1>0, <1>2 DEF Moves, MutexTypeOK
<1>6. MutexTypeOK'
  <2>1. pc' \in [Threads -> Labels]
    BY <1>0, <1>2 DEF MutexTypeOK, Labels
  <2> QED BY <1>0, <1>2, <1>3, <2>1 DEF MutexTypeOK, TsInv
<1>7. CpuInv' /\ WordInv' /\ SearchInv' /\ SleeperInv'
  <2>1. lk'[t] # NULL => lk'[t] \in Locks /\ ~m_owner[lk'[t]].dead
    BY <1>2, InUse
  <2> QED BY <1>2, <1>4, <1>5, <2>1, LocalStep DEF Labels
<1>8. ControlInv'
  <2>1. ControlOf(t)'
    BY <1>0, <1>1, <1>2, <1>4, <1>5
    DEF ControlOf, TcLabels, QueuedLabels, OwnerLabels, ExitLabels, WakeLabels
  <2> QED BY <1>0, <1>2, <1>4, <1>5, <2>1, ControlKept
<1>9. WakeupInv'
  <2>1. tc_chain[l] \in Turnstiles
    BY <1>0, <1>1 DEF MutexTypeOK, TurnstileTypeOK
  <2>2. Len(WQ(tc_chain[l]))' = Len(WQ(tc_chain[l]))
    BY <1>3, <1>4, <2>1 DEF WQ
  <2>3. wk.q = "W" /\ wk.owner = NULL /\ wk.n = Len(WQ(tc_chain[l]))
    BY <1>1, TurnstileAssumption DEF MutexInv, WakeupInv
  <2> QED BY <1>1, <1>4, <1>5, <2>2, <2>3, TurnstileAssumption
    DEF WakeupInv, WakeLabels, WQ
<1> QED BY <1>3, <1>6, <1>7, <1>8, <1>9 DEF MutexInv, TsInv

(* mutex_vector_exit frees the word, then wakes whoever sleeps on it.      *)
LEMMA VectorExitClearStep ==
    ASSUME MutexInv, NEW t \in Threads, VectorExitClear(t)
    PROVE  MutexInv'
<1>0. PICK l \in Locks : l = lk[t]
  BY ThreadFacts DEF VectorExitClear, At
<1>1. /\ pc[t] = "clear" /\ ControlOf(t) /\ MutexTypeOK /\ WordOf(l) /\ tc_lock = t /\ t # NULL
      /\ l # NULL /\ \A u \in Threads : u # t => pc[u] \notin TcLabels
  BY ThreadFacts, TurnstileAssumption
  DEF VectorExitClear, At, TcLabels, MutexInv, WordInv
<1>2. /\ m_owner' = [m_owner EXCEPT ![l] = Free]
      /\ held' = [held EXCEPT ![t] = @ \ {l}]
      /\ lk' = [lk EXCEPT ![t] = NULL]
      /\ UNCHANGED <<cpu_thread, cur, sb, owner, scan, panicstr>>
      /\ UNCHANGED <<chain_vars, pi_vars, ts_sleepq, t_pri, pi_cur>>
  BY <1>0 DEF VectorExitClear, SetWord
<1>3. PICK label \in {"run", "waive"} : label = IF tc_chain[l] = NULL THEN "run" ELSE "waive"
  OBVIOUS
<1>4. pc' = [pc EXCEPT ![t] = label]
  BY <1>0, <1>3 DEF VectorExitClear, Goto
<1>5. Moves(t, label)
  BY <1>1, <1>2, <1>4 DEF Moves, MutexTypeOK
<1>6. /\ pc'[t] = label /\ \A u \in Threads : u # t => pc'[u] = pc[u]
      /\ m_owner'[l] = Free /\ \A k \in Locks : k # l => m_owner'[k] = m_owner[k]
      /\ held'[t] = held[t] \ {l} /\ \A u \in Threads : u # t => held'[u] = held[u]
      /\ lk'[t] = NULL /\ \A u \in Threads : u # t => lk'[u] = lk[u]
  BY <1>1, <1>2, <1>5, MovesFacts DEF MutexTypeOK
<1>7. /\ l \in held[t] /\ \A u \in Threads : u # t => l \notin held[u]
      /\ \A d \in CPUs : Clear(l) \notin Elems(sb[d])
  BY <1>0, <1>1 DEF ControlOf, ExitLabels, WordOf
<1>8. wk.sobj = NULL /\ wk.q = "W" /\ wk.owner = NULL /\ wk.n = 0
  BY <1>1 DEF MutexInv, WakeupInv, WakeLabels, TcLabels
<1>9. CASE tc_chain[l] = NULL
  <2>1. tc_lock' = NULL /\ wk' = wk /\ label = "run"
    BY <1>0, <1>3, <1>9 DEF VectorExitClear
  <2>2. \A u \in Threads : t_wchan[u] # l
    <3>1. TsInv
      BY <1>1 DEF TsInv, MutexInv, MutexTypeOK
    <3>2. \A u \in Threads : t_wchan[u] # NULL => tc_chain[t_wchan[u]] \in Turnstiles
      BY <3>1, SleepsOn
    <3> QED BY <1>1, <1>9, <3>2, TurnstileAssumption
  <2>3. MutexTypeOK'
    <3>1. TurnstileTypeOK'
      BY <1>1, <1>2, <2>1 DEF MutexTypeOK, TurnstileTypeOK, chain_vars, pi_vars
    <3> QED BY <1>1, <1>2, <1>3, <1>4, <3>1, WordFacts DEF MutexTypeOK, Labels
  <2>4. ControlInv'
    <3>1. ControlOf(t)'
      BY <1>1, <1>2, <1>6, <2>1
      DEF ControlOf, TcLabels, QueuedLabels, OwnerLabels, ExitLabels, WakeLabels,
          chain_vars
    <3>2. \A u \in Threads : u # t => (tc_lock' = u <=> tc_lock = u)
      BY <1>1, <2>1, TurnstileAssumption
    <3> QED BY <1>1, <1>2, <1>5, <1>6, <3>1, <3>2, ControlKept DEF chain_vars
  <2>5. WakeupInv'
    BY <1>8, <2>1 DEF WakeupInv
  <2>6. \A k \in Locks : Dropping(k)' => Dropping(k)
    BY <1>2, <1>3, <1>6 DEF Dropping
  <2>7. SleeperInv'
    BY <1>2, <1>6, <2>1, <2>2, <2>6, SleepersKept DEF chain_vars
  <2> QED
    <3>1. CpuInv'
      BY <1>2, <1>3, <1>6 DEF MutexInv, CpuInv
    <3>2. WordOf(l)'
      BY <1>2, <1>6, <1>7, WordFacts DEF WordOf
    <3>3. WordInv'
      BY <1>2, <1>6, <3>2, OtherWords
    <3>4. SearchInv'
      BY <1>2, <1>3, <1>6, <2>6, WordFacts, SearchersKept
    <3> QED BY <1>2, <2>3, <2>4, <2>5, <2>7, <3>1, <3>3, <3>4, TurnstilesKept
      DEF MutexInv
<1>10. CASE tc_chain[l] # NULL
  <2>0. PICK ts \in Turnstiles : ts = tc_chain[l]
    BY <1>1, <1>10 DEF MutexTypeOK, TurnstileTypeOK
  <2>1. /\ tc_lock' = tc_lock /\ label = "waive"
        /\ wk' = [q |-> "W", n |-> ts_waiters[ts], owner |-> NULL, sobj |-> l]
    BY <1>0, <1>3, <1>10, <2>0 DEF VectorExitClear
  <2>2. ts_waiters[ts] \in Nat /\ ts_waiters[ts] = Len(WQ(ts))
    BY <1>1 DEF MutexTypeOK, TurnstileTypeOK, MutexInv, ContentInv
  <2>3. MutexTypeOK'
    <3>1. TurnstileTypeOK'
      BY <1>1, <1>2, <2>1, <2>2
      DEF MutexTypeOK, TurnstileTypeOK, chain_vars, pi_vars, Queues
    <3> QED BY <1>1, <1>2, <1>3, <1>4, <3>1, WordFacts DEF MutexTypeOK, Labels
  <2>4. ControlInv'
    <3>1. ControlOf(t)'
      BY <1>1, <1>2, <1>6, <1>10, <2>1
      DEF ControlOf, TcLabels, QueuedLabels, OwnerLabels, ExitLabels, WakeLabels,
          chain_vars
    <3> QED BY <1>1, <1>2, <1>5, <1>6, <2>1, <3>1, ControlKept DEF chain_vars
  <2>5. WakeupInv'
    <3>1. WQ(ts)' = WQ(ts) /\ tc_chain' = tc_chain
      BY <1>2 DEF WQ, chain_vars
    <3>2. wk'.q = "W" /\ wk'.owner = NULL /\ wk'.sobj = l /\ wk'.n = Len(WQ(ts)')
      BY <2>1, <2>2, <3>1
    <3>3. \E u \in Threads : pc'[u] \in WakeLabels
      BY <1>6, <2>1 DEF WakeLabels
    <3> QED BY <1>1, <1>10, <2>0, <3>1, <3>2, <3>3 DEF WakeupInv, WQ
  <2>6. \A k \in Locks : Dropping(k)' => Dropping(k)
    BY <1>2, <1>3, <1>6 DEF Dropping
  <2>7. SleeperInv'
    <3>1. SUFFICES ASSUME NEW u \in Threads, t_wchan[u] # NULL, t_wchan[u] # l
                   PROVE  \E k \in Locks : /\ k = t_wchan[u] /\ m_owner'[k].owner # NULL
                                           /\ m_owner'[k].waiters /\ ~Dropping(k)'
      <4>1. t_wchan' = t_wchan /\ wk'.sobj = l
        BY <1>2, <2>1 DEF chain_vars
      <4> QED BY <4>1 DEF SleeperInv, Dropping
    <3>2. PICK k \in Locks : k = t_wchan[u] /\ k # NULL /\ k # l
      BY <3>1, ThreadFacts
    <3>3. m_owner[k].owner # NULL /\ m_owner[k].waiters /\ ~Dropping(k)
      BY <1>8, <3>2 DEF MutexInv, SleeperInv
    <3> QED BY <1>6, <2>6, <3>2, <3>3
  <2> QED
    <3>1. CpuInv'
      BY <1>2, <1>3, <1>6 DEF MutexInv, CpuInv
    <3>2. WordOf(l)'
      BY <1>2, <1>6, <1>7, WordFacts DEF WordOf
    <3>3. WordInv'
      BY <1>2, <1>6, <3>2, OtherWords
    <3>4. SearchInv'
      BY <1>2, <1>3, <1>6, <2>6, WordFacts, SearchersKept
    <3> QED BY <1>2, <2>3, <2>4, <2>5, <2>7, <3>1, <3>3, <3>4, TurnstilesKept
      DEF MutexInv
<1> QED BY <1>9, <1>10

LEMMA WakeOneStep ==
    ASSUME MutexInv, NEW t \in Threads, WakeOne(t)
    PROVE  MutexInv'
<1>0. /\ pc[t] = "wake" /\ ControlOf(t) /\ MutexTypeOK /\ tc_lock = t /\ TsInv
      /\ \A u \in Threads : u # t => pc[u] \notin TcLabels
  BY ThreadFacts DEF WakeOne, At, TcLabels, MutexInv, TsInv, MutexTypeOK
<1>1. PICK l \in Locks : l = wk.sobj /\ l # NULL
  BY <1>0, TurnstileAssumption DEF ControlOf, WakeLabels
<1>2. turnstile_wakeup_one(t) /\ Respin(WakeNext)
      /\ UNCHANGED <<m_owner, cpu_thread, cur, sb, held, lk, panicstr>>
  BY DEF WakeOne
<1>3. /\ wk.q = "W" /\ wk.owner = NULL /\ wk.n \in Nat /\ wk.n > 0
      /\ tc_chain[l] # NULL /\ wk.n = Len(WQ(tc_chain[l]))
  <2>1. wk.n > 0 /\ wk.n \in Nat
    BY <1>0, <1>2 DEF turnstile_wakeup_one, MutexTypeOK, TurnstileTypeOK
  <2> QED BY <1>1, <2>1 DEF MutexInv, WakeupInv
<1>4. PICK s \in Threads, ts \in Turnstiles : s = WakeNext /\ Wakes(s, l, ts)
  BY <1>0, <1>1, <1>2, <1>3, WakesStep
<1>5. /\ TsInv'
      /\ tc_chain'[l] = NULL => Len(WQ(ts)) = 1
      /\ tc_chain'[l] # NULL => tc_chain'[l] = ts /\ Len(WQ(ts))' = Len(WQ(ts)) - 1
  BY <1>0, <1>4, WakesTs
<1>6. /\ t_wchan' = [t_wchan EXCEPT ![s] = NULL] /\ t_wchan[s] = l /\ ts = tc_chain[l]
      /\ UNCHANGED <<tc_lock, pi_cur>>
      /\ wk' = [wk EXCEPT !.n = @ - 1, !.owner = NULL]
  BY <1>4 DEF Wakes
<1>7. /\ pc' = [pc EXCEPT ![s] = "spin"] /\ owner' = [owner EXCEPT ![s] = NULL]
      /\ scan' = [scan EXCEPT ![s] = {}] /\ Moves(s, "spin")
  BY <1>0, <1>2, <1>4 DEF Respin, Goto, Moves, MutexTypeOK
<1>8. /\ pc'[s] = "spin" /\ \A u \in Threads : u # s => /\ pc'[u] = pc[u] /\ lk'[u] = lk[u]
            /\ owner'[u] = owner[u] /\ scan'[u] = scan[u]
      /\ t_wchan'[s] = NULL /\ \A u \in Threads : u # s => t_wchan'[u] = t_wchan[u]
  BY <1>0, <1>6, <1>7, MovesFacts DEF MutexTypeOK, TurnstileTypeOK
<1>9. s # t /\ lk[s] = l /\ pc[s] \in QueuedLabels
  <2>1. pc[s] \in QueuedLabels /\ lk[s] = l
    BY <1>1, <1>6, ThreadFacts DEF ControlOf
  <2> QED BY <1>0, <2>1 DEF QueuedLabels
<1>10. wk'.sobj = l /\ wk'.q = "W" /\ wk'.owner = NULL /\ wk'.n = wk.n - 1
  BY <1>0, <1>1, <1>3, <1>6 DEF MutexTypeOK, TurnstileTypeOK
<1>11. MutexTypeOK'
  <2>1. pc' \in [Threads -> Labels] /\ owner' \in [Threads -> Threads \cup {NULL}]
        /\ scan' \in [Threads -> SUBSET CPUs]
    BY <1>0, <1>7 DEF MutexTypeOK, Labels
  <2> QED BY <1>0, <1>2, <1>5, <2>1 DEF MutexTypeOK, TsInv
<1>12. CpuInv' /\ WordInv' /\ SearchInv'
  <2>1. lk'[s] # NULL => lk'[s] \in Locks /\ ~m_owner[lk'[s]].dead
    BY <1>2, InUse
  <2> QED BY <1>2, <1>7, <2>1, LocalStep DEF Labels
<1>13. ControlInv'
  <2>1. ControlOf(s)'
    <3>1. ControlOf(s)
      BY ThreadFacts
    <3> QED BY <1>0, <1>1, <1>2, <1>6, <1>8, <1>9, <3>1
      DEF ControlOf, TcLabels, QueuedLabels, OwnerLabels, ExitLabels, WakeLabels
  <2>2. ControlOf(t)'
    BY <1>0, <1>1, <1>2, <1>6, <1>8, <1>9, <1>10
    DEF ControlOf, TcLabels, QueuedLabels, OwnerLabels, ExitLabels, WakeLabels
  <2>3. ASSUME NEW u \in Threads, u # s, u # t PROVE ControlOf(u)'
    <3>1. ControlOf(u) /\ pc[u] \notin TcLabels
      BY <1>0, <2>3, ThreadFacts
    <3> QED BY <1>2, <1>6, <1>8, <2>3, <3>1 DEF ControlOf, TcLabels, WakeLabels
  <2> QED BY <2>1, <2>2, <2>3 DEF ControlInv
<1>14. WakeupInv'
  <2>1. \E u \in Threads : pc'[u] \in WakeLabels
    BY <1>0, <1>8, <1>9 DEF WakeLabels
  <2>2. tc_chain'[l] = NULL => wk'.n = 0
    BY <1>3, <1>5, <1>6, <1>10
  <2>3. tc_chain'[l] # NULL => wk'.n = Len(WQ(tc_chain[l]))'
    <3>1. SUFFICES ASSUME tc_chain'[l] # NULL PROVE wk'.n = Len(WQ(tc_chain[l]))'
      OBVIOUS
    <3>2. tc_chain'[l] = ts /\ Len(WQ(ts))' = Len(WQ(ts)) - 1
      BY <1>5, <3>1
    <3>3. Len(WQ(tc_chain[l]))' = Len(WQ(ts))'
      BY <3>2 DEF WQ
    <3> QED BY <1>3, <1>6, <1>10, <3>2, <3>3
  <2> QED BY <1>1, <1>10, <2>1, <2>2, <2>3 DEF WakeupInv
<1>15. \A k \in Locks : Dropping(k)' => Dropping(k)
  BY <1>2, <1>8 DEF Dropping
<1>16. SleeperInv'
  <2>1. SUFFICES ASSUME NEW u \in Threads, t_wchan'[u] # NULL, t_wchan'[u] # l
                 PROVE  \E k \in Locks : /\ k = t_wchan'[u] /\ m_owner[k].owner # NULL
                                         /\ m_owner[k].waiters /\ ~Dropping(k)'
    BY <1>2, <1>10 DEF SleeperInv, Dropping
  <2>2. u # s /\ t_wchan[u] = t_wchan'[u]
    BY <1>8, <2>1
  <2>3. PICK k \in Locks : k = t_wchan[u] /\ k # NULL /\ k # l
    BY <2>1, <2>2, ThreadFacts
  <2>4. m_owner[k].owner # NULL /\ m_owner[k].waiters /\ ~Dropping(k)
    BY <1>1, <2>3 DEF MutexInv, SleeperInv
  <2> QED BY <1>15, <2>2, <2>3, <2>4
<1> QED BY <1>5, <1>11, <1>12, <1>13, <1>14, <1>16 DEF MutexInv, TsInv

(* When the loop ends the turnstile is gone: nobody sleeps on the mutex.   *)
LEMMA WakeDoneStep ==
    ASSUME MutexInv, NEW t \in Threads, WakeDone(t)
    PROVE  MutexInv'
<1>0. /\ pc[t] = "wake" /\ ControlOf(t) /\ MutexTypeOK /\ tc_lock = t /\ TsInv /\ t # NULL
      /\ \A u \in Threads : u # t => pc[u] \notin TcLabels
  BY ThreadFacts, TurnstileAssumption
  DEF WakeDone, At, TcLabels, MutexInv, TsInv, MutexTypeOK
<1>1. PICK l \in Locks : l = wk.sobj /\ l # NULL
  BY <1>0, TurnstileAssumption DEF ControlOf, WakeLabels
<1>2. /\ wk.n = 0 /\ tc_lock' = NULL /\ wk' = NoWakeup /\ pc' = [pc EXCEPT ![t] = "run"]
      /\ UNCHANGED <<m_owner, cpu_thread, cur, sb, held, lk, owner, scan, panicstr>>
      /\ UNCHANGED <<chain_vars, pi_vars, ts_sleepq, t_pri, pi_cur>>
  BY DEF WakeDone, turnstile_wakeup_done, Goto
<1>3. \A u \in Threads : t_wchan[u] # l
  <2>1. SUFFICES ASSUME NEW u \in Threads, t_wchan[u] = l PROVE FALSE
    OBVIOUS
  <2>2. PICK ts \in Turnstiles : ts = tc_chain[l] /\ u \in Elems(WQ(ts))
    BY <1>0, <1>1, <2>1, SleepsOn
  <2>3. Len(WQ(ts)) = 0
    BY <1>1, <1>2, <2>2, TurnstileAssumption DEF MutexInv, WakeupInv
  <2>4. WQ(ts) \in Seq(Threads)
    BY <1>0, QueueFacts
  <2> QED BY <2>2, <2>3, <2>4, LenProperties DEF Elems
<1>4. Moves(t, "run") /\ pc'[t] = "run" /\ \A u \in Threads : u # t => pc'[u] = pc[u]
  BY <1>0, <1>2 DEF Moves, MutexTypeOK
<1>5. MutexTypeOK'
  <2>1. pc' \in [Threads -> Labels]
    BY <1>0, <1>2 DEF MutexTypeOK, Labels
  <2>2. TurnstileTypeOK'
    BY <1>0, <1>2
    DEF MutexTypeOK, TurnstileTypeOK, chain_vars, pi_vars, NoWakeup, Queues
  <2> QED BY <1>0, <1>2, <2>1, <2>2 DEF MutexTypeOK
<1>6. CpuInv' /\ WordInv' /\ SearchInv'
  <2>1. lk'[t] # NULL => lk'[t] \in Locks /\ ~m_owner[lk'[t]].dead
    BY <1>2, InUse
  <2> QED BY <1>2, <1>4, <2>1, LocalStep DEF Labels
<1>7. ControlInv'
  <2>1. ControlOf(t)'
    BY <1>0, <1>2, <1>4
    DEF ControlOf, TcLabels, QueuedLabels, OwnerLabels, ExitLabels, WakeLabels,
        chain_vars
  <2>2. \A u \in Threads : u # t => (tc_lock' = u <=> tc_lock = u)
    BY <1>0, <1>2, TurnstileAssumption
  <2> QED BY <1>0, <1>2, <1>4, <2>1, <2>2, ControlKept DEF chain_vars
<1>8. WakeupInv'
  BY <1>2 DEF WakeupInv, NoWakeup
<1>9. SleeperInv'
  <2>1. \A k \in Locks : Dropping(k)' => Dropping(k)
    BY <1>2, <1>4 DEF Dropping
  <2>2. SUFFICES ASSUME NEW u \in Threads, t_wchan[u] # NULL
                 PROVE  \E k \in Locks : /\ k = t_wchan[u] /\ m_owner[k].owner # NULL
                                         /\ m_owner[k].waiters /\ ~Dropping(k)'
    BY <1>2 DEF SleeperInv, Dropping, chain_vars
  <2>3. PICK k \in Locks : k = t_wchan[u] /\ k # NULL /\ k # l
    BY <1>3, <2>2, ThreadFacts
  <2>4. m_owner[k].owner # NULL /\ m_owner[k].waiters /\ ~Dropping(k)
    BY <1>1, <2>3 DEF MutexInv, SleeperInv
  <2> QED BY <2>1, <2>3, <2>4
<1> QED BY <1>2, <1>5, <1>6, <1>7, <1>8, <1>9, TurnstilesKept DEF MutexInv
-----------------------------------------------------------------------------
LEMMA MutexInit ==
    ASSUME Init PROVE MutexInv
<1>0. /\ m_owner = [l \in Locks |-> Free] /\ cpu_thread = [c \in CPUs |-> NULL]
      /\ cur = [c \in CPUs |-> NULL] /\ sb = [c \in CPUs |-> <<>>]
      /\ held = [t \in Threads |-> {}] /\ pc = [t \in Threads |-> "run"]
      /\ lk = [t \in Threads |-> NULL] /\ owner = [t \in Threads |-> NULL]
      /\ scan = [t \in Threads |-> {}] /\ panicstr = FALSE /\ TurnstileInit
  BY DEF Init
<1>1. TurnstileTypeOK
  BY <1>0, TurnstileAssumption
  DEF TurnstileInit, TurnstileTypeOK, NoWakeup, Queues
<1>2. MutexTypeOK
  <2>1. <<>> \in Seq(Stores)
    OBVIOUS
  <2>2. sb \in [CPUs -> Seq(Stores)]
    BY <1>0, <2>1
  <2>3. m_owner \in [Locks -> Words] /\ pc \in [Threads -> Labels]
    BY <1>0, WordFacts DEF Labels
  <2> QED BY <1>0, <1>1, <2>2, <2>3 DEF MutexTypeOK
<1>3. CpuInv
  BY <1>0 DEF CpuInv, NoDup
<1>4. Elems(<<>>) = {}
  BY DEF Elems
<1>5. WordInv
  BY <1>0, <1>4, WordFacts, TurnstileAssumption DEF WordInv, WordOf
<1>6. /\ t_wchan = [t \in Threads |-> NULL] /\ tc_lock = NULL /\ wk = NoWakeup
      /\ tc_chain = [l \in Locks |-> NULL] /\ t_ts \in [Threads -> Turnstiles]
      /\ \A t, u \in Threads : t_ts[t] = t_ts[u] => t = u
      /\ ts_free = [ts \in Turnstiles |-> {}] /\ ts_waiters = [ts \in Turnstiles |-> 0]
      /\ ts_sleepq = [ts \in Turnstiles |-> [q \in Queues |-> <<>>]]
  BY <1>0, <1>1 DEF TurnstileInit, TurnstileTypeOK
<1>7. ControlInv
  BY <1>0, <1>6, TurnstileAssumption
  DEF ControlInv, ControlOf, TcLabels, QueuedLabels, OwnerLabels, ExitLabels, WakeLabels
<1>8. \A ts \in Turnstiles : ~Active(ts)
  BY <1>6, TurnstileAssumption DEF Active
<1>9. ChainInv
  BY <1>6, <1>8 DEF ChainInv
<1>10. \A ts \in Turnstiles : WQ(ts) = <<>> /\ ts_sleepq[ts]["R"] = <<>>
  BY <1>6 DEF WQ, Queues
<1>11. ContentInv
  <2>1. IsFiniteSet({}) /\ Len(<<>>) = 0
    BY FS_EmptySet
  <2> QED BY <1>6, <1>8, <1>10, <2>1 DEF ContentInv
<1>12. QueueInv
  BY <1>4, <1>6, <1>10 DEF QueueInv, NoDup
<1>13. WakeupInv /\ SleeperInv
  BY <1>6 DEF WakeupInv, SleeperInv, NoWakeup
<1>14. SearchInv
  BY <1>0 DEF SearchInv
<1> QED BY <1>2, <1>3, <1>5, <1>7, <1>9, <1>11, <1>12, <1>13, <1>14 DEF MutexInv

(* A new assigned priority moves a sleeping thread in its queue, no more.  *)
LEMMA ChangePriStep ==
    ASSUME MutexInv, NEW t \in Threads, NEW p \in Priorities, ChangePri(t, p)
    PROVE  MutexInv'
<1>0. /\ UNCHANGED <<m_owner, cpu_thread, cur, sb, held, pc, lk, owner, scan, panicstr>>
      /\ UNCHANGED <<tc_lock, chain_vars, pi_vars, pi_cur, wk>>
  BY DEF ChangePri, thread_change_pri, m_vars
<1>1. UNCHANGED <<tc_chain, t_wchan>>
  BY <1>0 DEF chain_vars
<1>2. TsInv /\ TurnstileTypeOK /\ AllNoDup
  BY QueueFacts DEF AllNoDup, TsInv, MutexInv, MutexTypeOK
<1>3. Requeued(t, ts_sleepq')
  <2>1. CASE t_wchan[t] = NULL
    <3>1. ts_sleepq' = ts_sleepq
      BY <2>1 DEF ChangePri, thread_change_pri
    <3> QED BY <1>2, <3>1, NotRequeued
  <2>2. CASE t_wchan[t] # NULL
    <3>1. PICK prio : ts_sleepq' = turnstile_change_pri(t, prio)
      BY <2>2 DEF ChangePri, thread_change_pri
    <3> QED BY <1>2, <2>2, <3>1, ChangePriRequeues, SleepsOn
  <2> QED BY <2>1, <2>2
<1>4. t_pri' \in [Threads -> Priorities]
  BY <1>2 DEF ChangePri, thread_change_pri, TurnstileTypeOK
<1>5. TurnstileTypeOK'
  <2>1. ts_sleepq' \in [Turnstiles -> [Queues -> Seq(Threads)]]
    BY <1>3 DEF Requeued
  <2> QED BY <1>0, <1>2, <1>4, <2>1 DEF TurnstileTypeOK, chain_vars, pi_vars
<1>6. TsInv' /\ \A ts \in Turnstiles : Len(WQ(ts))' = Len(WQ(ts))
  BY <1>0, <1>2, <1>3, <1>5, RequeueTs
<1>7. MutexTypeOK'
  BY <1>0, <1>5 DEF MutexInv, MutexTypeOK
<1>8. CpuInv'
  BY <1>0 DEF MutexInv, CpuInv
<1>9. WordInv'
  BY <1>0 DEF MutexInv, WordInv, WordOf
<1>10. ControlInv'
  BY <1>0, <1>1 DEF MutexInv, ControlInv, ControlOf
<1>11. SleeperInv' /\ SearchInv'
  BY <1>0, <1>1 DEF MutexInv, SleeperInv, SearchInv, Dropping
<1>12. WakeupInv'
  <2>1. ASSUME wk.sobj # NULL, tc_chain[wk.sobj] # NULL
        PROVE  Len(WQ(tc_chain[wk.sobj]))' = Len(WQ(tc_chain[wk.sobj]))
    <3>1. PICK ts \in Turnstiles : ts = tc_chain[wk.sobj]
      BY <1>2, <2>1 DEF TurnstileTypeOK
    <3> QED BY <1>0, <1>1, <1>6, <3>1 DEF WQ
  <2> QED BY <1>0, <1>1, <2>1 DEF MutexInv, WakeupInv
<1> QED BY <1>6, <1>7, <1>8, <1>9, <1>10, <1>11, <1>12 DEF MutexInv, TsInv

LEMMA MutexStutter ==
    ASSUME MutexInv, UNCHANGED vars PROVE MutexInv'
<1>1. /\ UNCHANGED <<m_owner, cpu_thread, cur, sb, held, pc, lk, owner, scan, panicstr>>
      /\ UNCHANGED <<tc_lock, chain_vars, pi_vars, ts_sleepq, t_pri, pi_cur, wk>>
  BY DEF vars, m_vars, ts_vars
<1>2. MutexTypeOK'
  BY <1>1 DEF MutexInv, MutexTypeOK, TurnstileTypeOK, chain_vars, pi_vars
<1>3. CpuInv' /\ WakeupInv'
  BY <1>1 DEF MutexInv, CpuInv, WakeupInv, WQ, chain_vars
<1>4. WordInv'
  BY <1>1 DEF MutexInv, WordInv, WordOf
<1>5. ControlInv'
  BY <1>1 DEF MutexInv, ControlInv, ControlOf, chain_vars
<1>6. SleeperInv' /\ SearchInv'
  BY <1>1 DEF MutexInv, SleeperInv, SearchInv, Dropping, chain_vars
<1> QED BY <1>1, <1>2, <1>3, <1>4, <1>5, <1>6, TurnstilesKept DEF MutexInv

LEMMA ContinueStep ==
    ASSUME MutexInv, NEW t \in Threads, Continue(t) PROVE MutexInv'
<1>1. CASE SpinGrab(t) \/ SpinOwner(t) \/ SetWaiters(t)
  BY <1>1, SpinGrabStep, SpinOwnerStep, SetWaitersStep
<1>2. CASE VectorLookup(t) \/ VectorExitLookup(t)
  BY <1>2, LookupStep
<1>3. CASE \E c \in CPUs : Search(t, c) \/ Recheck(t, c)
  BY <1>3, SearchStep, RecheckStep
<1>4. CASE ConfirmAbort(t) \/ \E c \in CPUs : RecheckAbort(t, c)
  BY <1>4, AbortStep
<1>5. CASE ConfirmBlock(t) \/ EnterWill(t)
  BY <1>5, ConfirmBlockStep, EnterWillStep
<1>6. CASE ExitTest(t) \/ \E c \in CPUs : ExitClear(t, c)
  BY <1>6, ExitTestStep, ExitClearStep
<1>7. CASE VectorExitClear(t)
  BY <1>7, VectorExitClearStep
<1>8. CASE WakeWaive(t) \/ WakeOne(t) \/ WakeDone(t)
  BY <1>8, WakeWaiveStep, WakeOneStep, WakeDoneStep
<1> QED BY <1>1, <1>2, <1>3, <1>4, <1>5, <1>6, <1>7, <1>8 DEF Continue

LEMMA MutexNext ==
    ASSUME MutexInv, [Next]_vars PROVE MutexInv'
<1>1. CASE UNCHANGED vars
  BY <1>1, MutexStutter
<1>2. CASE \E t \in Threads : Continue(t)
  BY <1>2, ContinueStep
<1>3. CASE \E t \in Threads, l \in Locks :
              mutex_enter(t, l) \/ mutex_tryenter(t, l) \/ mutex_exit(t, l)
  BY <1>3, mutex_enterStep, mutex_tryenterStep, mutex_exitStep
<1>4. CASE \E t \in Threads, l \in Destroyable : mutex_destroy(t, l) \/ mutex_init(t, l)
  BY <1>4, mutex_destroyStep, mutex_initStep, MutexAssumption
<1>5. CASE \E c \in CPUs : Drain(c)
  BY <1>5, DrainStep
<1>6. CASE \E t \in Threads, c \in CPUs : SwitchOut(t, c) \/ Resume(t, c)
  BY <1>6, SwitchOutStep, ResumeStep
<1>7. CASE \E t \in Threads, p \in Priorities : ChangePri(t, p)
  BY <1>7, ChangePriStep
<1> QED BY <1>1, <1>2, <1>3, <1>4, <1>5, <1>6, <1>7 DEF Next

(* The invariant holds in every state the spin, block and release code of  *)
(* mutexes reaches, with any number of CPUs delaying their stores.         *)
THEOREM MutexInvariant == Spec => []MutexInv
<1>1. Init => MutexInv
  BY MutexInit
<1>2. MutexInv /\ [Next]_vars => MutexInv'
  BY MutexNext
<1> QED BY <1>1, <1>2, PTL DEF Spec
-----------------------------------------------------------------------------
(* Two threads never hold a mutex at once: the word names the holder, and  *)
(* mutex_exit's store clears it only when nobody holds the lock any more.  *)
THEOREM MutexMutualExclusion == Spec => []MutualExclusion
<1>1. MutexInv => MutualExclusion
  <2>1. SUFFICES ASSUME MutexInv, NEW t \in Threads, NEW u \in Threads,
                        NEW l, l \in held[t], l \in held[u]
                 PROVE  t = u
    BY DEF MutualExclusion
  <2>2. l \in Locks
    BY <2>1 DEF MutexInv, MutexTypeOK
  <2> QED BY <2>1, <2>2 DEF MutexInv, WordInv, WordOf
<1> QED BY <1>1, MutexInvariant, PTL

(* A lock that is neither held nor being dropped has a zero word, so that  *)
(* the next mutex_enter can take it: no stale waiters bit is left behind.  *)
THEOREM MutexFreeWhenDropped == Spec => []FreeWhenDropped
<1>1. MutexInv => FreeWhenDropped
  <2>1. SUFFICES ASSUME MutexInv, NEW l \in Locks,
                        \A t \in Threads : l \notin held[t],
                        \A c \in CPUs : Clear(l) \notin Elems(sb[c]),
                        ~m_owner[l].dead
                 PROVE  m_owner[l] = Free
    BY DEF FreeWhenDropped
  <2>2. WordOf(l) /\ m_owner[l] \in Words
    BY <2>1 DEF MutexInv, WordInv, MutexTypeOK
  <2> QED BY <2>1, <2>2 DEF WordOf, Words
<1> QED BY <1>1, MutexInvariant, PTL

(* No missed wakeup: the owner of a mutex somebody sleeps on has yet to    *)
(* test the waiters bit, and will find it set.                             *)
THEOREM MutexNoMissedWakeup == Spec => []NoMissedWakeup
<1>1. MutexInv => NoMissedWakeup
  <2>1. SUFFICES ASSUME MutexInv, NEW t \in Threads, pc[t] = "sleep", tc_lock = NULL
                 PROVE  /\ mutex_owner(t_wchan[t]) # NULL /\ m_owner[t_wchan[t]].waiters
                        /\ ~(/\ pc[mutex_owner(t_wchan[t])] = "commit"
                             /\ lk[mutex_owner(t_wchan[t])] = t_wchan[t])
                        /\ \A c \in CPUs : Clear(t_wchan[t]) \notin Elems(sb[c])
    BY DEF NoMissedWakeup
  <2>2. PICK l \in Locks : l = t_wchan[t] /\ l # NULL
    <3>1. lk[t] \in Locks /\ ControlOf(t)
      BY <2>1, ThreadFacts
    <3> QED BY <2>1, <3>1, TurnstileAssumption DEF ControlOf, QueuedLabels
  <2>3. \A u \in Threads : pc[u] \notin WakeLabels
    BY <2>1, ThreadFacts, TurnstileAssumption DEF WakeLabels, TcLabels
  <2>4. wk.sobj # l
    BY <2>1, <2>2, <2>3 DEF MutexInv, WakeupInv
  <2>5. m_owner[l].owner # NULL /\ m_owner[l].waiters /\ ~Dropping(l)
    BY <2>1, <2>2, <2>4 DEF MutexInv, SleeperInv
  <2>6. m_owner[l].owner \in Threads
    BY <2>1, <2>5 DEF MutexInv, MutexTypeOK, Words
  <2> QED BY <2>2, <2>5, <2>6 DEF mutex_owner, Dropping
<1> QED BY <1>1, MutexInvariant, PTL
-----------------------------------------------------------------------------
(* Priority inheritance.  The owner of a mutex has the priority of each of *)
(* its sleepers, except of the one the walk has its cursor on, until it    *)
(* wakes them all.                                                         *)
CoverInv ==
    \A t \in Threads, l \in Locks :
        t_wchan[t] = l /\ t # pi_cur /\ wk.sobj # l =>
            \/ DISP_PRIO[t] <= t_pri[mutex_owner(l)]
            \/ /\ ts_inheritor[tc_chain[l]] = mutex_owner(l)
               /\ DISP_PRIO[t] <= ts_epri[tc_chain[l]]

(* Who inherits from a turnstile: the owner of its mutex, or the thread    *)
(* that has dropped it and has yet to waive.                               *)
InheritInv ==
    \A ts \in Turnstiles : ts_inheritor[ts] # NULL =>
        \E l \in Locks :
            /\ tc_chain[l] = ts
            /\ \/ wk.sobj # l /\ mutex_owner(l) = ts_inheritor[ts]
               \/ wk.sobj = l /\ pc[ts_inheritor[ts]] = "waive"

WalkInv == pi_cur # NULL => \E t \in Threads : pc[t] = "pi"

PriorityInv == Books /\ CoverInv /\ InheritInv /\ WalkInv

(* A turnstile in use has a thread asleep on it.                           *)
LEMMA ActiveSleeper ==
    ASSUME MutexInv, NEW l \in Locks, tc_chain[l] # NULL
    PROVE  \E u \in Threads : t_wchan[u] = l
<1>1. TsInv
  BY DEF MutexInv, TsInv, MutexTypeOK
<1>2. PICK ts \in Turnstiles : ts = tc_chain[l]
  BY <1>1 DEF TsInv, TurnstileTypeOK
<1>3. PICK q \in Seq(Threads) : q = WQ(ts) /\ NoDup(q) /\ Len(q) \in Nat
  BY <1>1, QueueFacts
<1>4. Len(q) > 0
  <2>1. /\ IsFiniteSet(ts_free[ts]) /\ ts_waiters[ts] = Len(q)
        /\ Cardinality(ts_free[ts]) = ts_waiters[ts] - 1
    BY <1>1, <1>2, <1>3 DEF TsInv, ContentInv, Active
  <2>2. Cardinality(ts_free[ts]) \in Nat
    BY <2>1, FS_CardinalityType
  <2> QED BY <1>3, <2>1, <2>2
<1>5. PICK u \in Threads : u \in Elems(q)
  BY <1>3, <1>4, TailQueue
<1>6. t_wchan[u] # NULL /\ t_ts[u] = ts
  BY <1>1, <1>3, <1>5 DEF TsInv, QueueInv
<1>7. t_wchan[u] = l
  BY <1>1, <1>2, <1>6, SleepsOn
<1> QED BY <1>7

(* A step that changes neither the turnstiles nor the owner of a mutex on  *)
(* which somebody sleeps.                                                  *)
LEMMA QuietPriority ==
    ASSUME MutexInv, PriorityInv,
           UNCHANGED <<chain_vars, pi_vars, t_pri, pi_cur, wk>>,
           \A u \in Threads : pc[u] \in {"pi", "waive"} => pc'[u] = pc[u],
           \A u \in Threads, l \in Locks : t_wchan[u] = l /\ wk.sobj # l =>
              mutex_owner(l)' = mutex_owner(l)
    PROVE  PriorityInv'
<1>1. UNCHANGED <<tc_chain, t_wchan, ts_inheritor, ts_epri, DISP_PRIO>>
  BY DEF chain_vars, pi_vars, DISP_PRIO
<1>2. Books'
  BY BooksKept DEF PriorityInv
<1>3. CoverInv'
  <2>1. ASSUME NEW u \in Threads, NEW l \in Locks, t_wchan[u] = l, u # pi_cur, wk.sobj # l
        PROVE  \/ DISP_PRIO[u] <= t_pri[mutex_owner(l)']
               \/ /\ ts_inheritor[tc_chain[l]] = mutex_owner(l)'
                  /\ DISP_PRIO[u] <= ts_epri[tc_chain[l]]
    BY <2>1 DEF PriorityInv, CoverInv
  <2> QED BY <1>1, <2>1 DEF CoverInv
<1>4. InheritInv'
  <2>1. ASSUME NEW ts \in Turnstiles, ts_inheritor[ts] # NULL
        PROVE  \E l \in Locks :
                  /\ tc_chain[l] = ts
                  /\ \/ wk.sobj # l /\ mutex_owner(l)' = ts_inheritor[ts]
                     \/ wk.sobj = l /\ pc'[ts_inheritor[ts]] = "waive"
    <3>1. PICK l \in Locks :
             /\ tc_chain[l] = ts
             /\ \/ wk.sobj # l /\ mutex_owner(l) = ts_inheritor[ts]
                \/ wk.sobj = l /\ pc[ts_inheritor[ts]] = "waive"
      BY <2>1 DEF PriorityInv, InheritInv
    <3>2. ts_inheritor[ts] \in Threads
      BY <2>1 DEF MutexInv, MutexTypeOK, TurnstileTypeOK
    <3>3. \E u \in Threads : t_wchan[u] = l
      BY <3>1, ActiveSleeper, TurnstileAssumption
    <3> QED BY <3>1, <3>2, <3>3
  <2> QED BY <1>1, <2>1 DEF InheritInv
<1>5. WalkInv'
  BY DEF PriorityInv, WalkInv
<1> QED BY <1>2, <1>3, <1>4, <1>5 DEF PriorityInv

LEMMA MovePriority ==
    ASSUME MutexInv, PriorityInv, NEW t \in Threads,
           \/ SpinOwner(t) \/ VectorLookup(t) \/ SetWaiters(t) \/ ConfirmAbort(t)
           \/ \E c \in CPUs : \/ Search(t, c) \/ RecheckAbort(t, c) \/ Recheck(t, c)
                              \/ ExitClear(t, c)
           \/ ExitTest(t) \/ VectorExitLookup(t) \/ \E l \in Locks : mutex_exit(t, l)
    PROVE  PriorityInv'
<1>1. /\ UNCHANGED <<chain_vars, pi_vars, t_pri, pi_cur, wk>>
      /\ pc[t] \notin {"pi", "waive"}
  BY
  DEF SpinOwner, VectorLookup, SetWaiters, ConfirmAbort, Search, RecheckAbort,
      Recheck, 
         ExitClear, ExitTest, VectorExitLookup, mutex_exit, At, turnstile_lookup,
         turnstile_exit, ts_vars
<1>2. \E label : Goto(t, label)
  BY
  DEF SpinOwner, VectorLookup, SetWaiters, ConfirmAbort, Search, RecheckAbort,
      Recheck, 
         ExitClear, ExitTest, VectorExitLookup, mutex_exit, Respin
<1>3. \A u \in Threads : pc[u] \in {"pi", "waive"} => pc'[u] = pc[u]
  BY <1>1, <1>2 DEF Goto, MutexInv, MutexTypeOK
<1>4. \A l \in Locks : mutex_owner(l)' = mutex_owner(l)
  <2>1. CASE UNCHANGED m_owner
    BY <2>1 DEF mutex_owner
  <2>2. CASE m_owner' # m_owner
    <3>1. SetWaiters(t)
      BY <2>2
      DEF SpinOwner, VectorLookup, ConfirmAbort, Search, RecheckAbort, Recheck, 
                  ExitClear, ExitTest, VectorExitLookup, mutex_exit
    <3>2. m_owner' = [m_owner EXCEPT ![lk[t]] = Mark(m_owner[lk[t]])]
      BY <3>1 DEF SetWaiters, SetWord
    <3>3. ASSUME NEW w \in Words PROVE Mark(w).owner = w.owner
      BY DEF Mark, Words
    <3> QED BY <3>2, <3>3 DEF mutex_owner, MutexInv, MutexTypeOK
  <2> QED BY <2>1, <2>2
<1> QED BY <1>1, <1>3, <1>4, QuietPriority

(* Nobody sleeps on a mutex that is free, or being dropped.                *)
LEMMA AcquirePriority ==
    ASSUME MutexInv, PriorityInv, NEW t \in Threads, NEW l \in Locks,
           Available(l), Acquire(t, l), pc[t] \notin {"pi", "waive"}, UNCHANGED ts_vars
    PROVE  PriorityInv'
<1>1. UNCHANGED <<chain_vars, pi_vars, t_pri, pi_cur, wk>>
  BY DEF ts_vars
<1>2. \A u \in Threads : pc[u] \in {"pi", "waive"} => pc'[u] = pc[u]
  BY DEF Acquire, Goto, MutexInv, MutexTypeOK
<1>3. \A k \in Locks : k # l => mutex_owner(k)' = mutex_owner(k)
  BY DEF Acquire, SetWord, mutex_owner, MutexInv, MutexTypeOK
<1>4. \A u \in Threads : t_wchan[u] = l => wk.sobj = l
  BY WordFacts, TurnstileAssumption DEF Available, MutexInv, SleeperInv
<1> QED BY <1>1, <1>2, <1>3, <1>4, QuietPriority

LEMMA EnterPriority ==
    ASSUME MutexInv, PriorityInv, NEW t \in Threads,
           SpinGrab(t) \/ \E l \in Locks : mutex_enter(t, l) \/ mutex_tryenter(t, l)
    PROVE  PriorityInv'
<1>1. CASE SpinGrab(t)
  <2>1. lk[t] \in Locks
    BY <1>1, ThreadFacts DEF SpinGrab, At
  <2> QED BY <1>1, <2>1, AcquirePriority DEF SpinGrab, At
<1>2. ASSUME NEW l \in Locks, mutex_tryenter(t, l) PROVE PriorityInv'
  BY <1>2, AcquirePriority DEF mutex_tryenter, At
<1>3. ASSUME NEW l \in Locks, mutex_enter(t, l) PROVE PriorityInv'
  <2>1. CASE Available(l)
    BY <1>3, <2>1, AcquirePriority DEF mutex_enter, At
  <2>2. CASE ~Available(l)
    <3>1. /\ UNCHANGED <<m_owner, chain_vars, pi_vars, t_pri, pi_cur, wk>>
          /\ pc' = [pc EXCEPT ![t] = "spin"] /\ pc[t] = "run"
      BY <1>3, <2>2 DEF mutex_enter, At, ts_vars, Goto
    <3>2. \A u \in Threads : pc[u] \in {"pi", "waive"} => pc'[u] = pc[u]
      BY <3>1 DEF MutexInv, MutexTypeOK
    <3> QED BY <3>1, <3>2, QuietPriority DEF mutex_owner
  <2> QED BY <2>1, <2>2
<1> QED BY <1>1, <1>2, <1>3

LEMMA ReusePriority ==
    ASSUME MutexInv, PriorityInv, NEW t \in Threads, NEW l \in Locks,
           mutex_destroy(t, l) \/ mutex_init(t, l)
    PROVE  PriorityInv'
<1>1. UNCHANGED <<chain_vars, pi_vars, t_pri, pi_cur, wk, pc>>
  BY DEF mutex_destroy, mutex_init, ts_vars
<1>2. \A k \in Locks : k # l => mutex_owner(k)' = mutex_owner(k)
  BY DEF mutex_destroy, mutex_init, SetWord, mutex_owner, MutexInv, MutexTypeOK
<1>3. \A u \in Threads : t_wchan[u] # l
  <2>1. \A u \in Threads : lk[u] # l
    BY DEF mutex_destroy, mutex_init, MutexInv, WordInv, WordOf
  <2> QED BY <2>1, ThreadFacts, TurnstileAssumption DEF ControlOf
<1> QED BY <1>1, <1>2, <1>3, QuietPriority

LEMMA ProcessorPriority ==
    ASSUME MutexInv, PriorityInv, NEW c \in CPUs,
           Drain(c) \/ \E t \in Threads : SwitchOut(t, c) \/ Resume(t, c)
    PROVE  PriorityInv'
<1>1. UNCHANGED <<chain_vars, pi_vars, t_pri, pi_cur, wk>>
  BY DEF Drain, SwitchOut, Resume, ts_vars
<1>2. \A u \in Threads : pc[u] \in {"pi", "waive"} => pc'[u] = pc[u]
  BY DEF Drain, SwitchOut, Resume, RestartPC, MutexInv, MutexTypeOK
<1>3. CASE Drain(c) /\ Head(sb[c]).what = "clear"
  <2>1. Head(sb[c]) \in Elems(sb[c]) /\ Head(sb[c]) \in Stores
    BY <1>3, HeadStore DEF Drain, MutexInv
  <2>2. PICK l \in Locks : Head(sb[c]) = Clear(l)
    BY <1>3, <2>1 DEF Stores, Clear, CpuIdle
  <2>3. m_owner' = [m_owner EXCEPT ![l] = Free]
    BY <1>3, <2>2 DEF Drain, SetWord, Clear
  <2>4. \A k \in Locks : k # l => mutex_owner(k)' = mutex_owner(k)
    BY <2>3 DEF mutex_owner, MutexInv, MutexTypeOK
  <2>5. Dropping(l)
    BY <2>1, <2>2 DEF Dropping
  <2>6. \A u \in Threads : t_wchan[u] = l => wk.sobj = l
    BY <2>5, TurnstileAssumption DEF MutexInv, SleeperInv
  <2> QED BY <1>1, <1>2, <2>4, <2>6, QuietPriority
<1>4. CASE ~(Drain(c) /\ Head(sb[c]).what = "clear")
  <2>1. UNCHANGED m_owner
    BY <1>4 DEF Drain, SwitchOut, Resume
  <2> QED BY <1>1, <1>2, <2>1, QuietPriority DEF mutex_owner
<1> QED BY <1>3, <1>4

(* Going to sleep: the walk starts with the thread itself, and the         *)
(* turnstile in use, if there was one, stays in use.                       *)
LEMMA BlockPriority ==
    ASSUME DynamicPri = FALSE, MutexInv, PriorityInv, NEW t \in Threads, ConfirmBlock(t)
    PROVE  PriorityInv'
<1> USE TurnstileAssumption
<1>1. PICK l \in Locks : l = lk[t]
  BY ThreadFacts DEF ConfirmBlock, At
<1>2. /\ pc[t] = "confirm" /\ turnstile_block(t, "W", l)
      /\ pc' = [pc EXCEPT ![t] = "pi"] /\ UNCHANGED m_owner
  BY <1>1 DEF ConfirmBlock, At, Goto
<1>3. /\ tc_chain' = [tc_chain EXCEPT ![l] = IF tc_chain[l] = NULL THEN t_ts[t] ELSE tc_chain[l]]
      /\ t_wchan' = [t_wchan EXCEPT ![t] = l] /\ pi_cur' = t
      /\ UNCHANGED <<pi_vars, t_pri, wk>>
  <2>1. TurnstileTypeOK /\ t_pri' \in ClassPri(t)
    BY <1>2 DEF turnstile_block, MutexInv, MutexTypeOK
  <2>2. UNCHANGED t_pri
    BY <2>1, ClassPriIs
  <2> QED BY <1>2, <2>2 DEF turnstile_block
<1>4. UNCHANGED <<ts_inheritor, ts_epri, DISP_PRIO>>
  BY <1>3 DEF pi_vars, DISP_PRIO
<1>5. \A u \in Threads : u # t => pc[u] \notin TcLabels
  BY <1>2, ThreadFacts DEF TcLabels
<1>6. pi_cur = NULL
  BY <1>2, <1>5 DEF PriorityInv, WalkInv, TcLabels
<1>7. wk.sobj = NULL
  BY <1>2, <1>5 DEF MutexInv, WakeupInv, WakeLabels, TcLabels
<1>8. \A k \in Locks : /\ mutex_owner(k)' = mutex_owner(k)
                       /\ tc_chain[k] # NULL => tc_chain'[k] = tc_chain[k]
  BY <1>2, <1>3 DEF mutex_owner, MutexInv, MutexTypeOK, TurnstileTypeOK
<1>9. Books'
  BY <1>3, BooksKept DEF PriorityInv
<1>10. CoverInv'
  <2>1. SUFFICES ASSUME NEW u \in Threads, NEW k \in Locks, t_wchan'[u] = k, u # t
                 PROVE  \/ DISP_PRIO[u] <= t_pri[mutex_owner(k)]
                        \/ /\ ts_inheritor[tc_chain'[k]] = mutex_owner(k)
                           /\ DISP_PRIO[u] <= ts_epri[tc_chain'[k]]
    BY <1>3, <1>4, <1>8 DEF CoverInv
  <2>2. t_wchan[u] = k
    BY <1>3, <2>1 DEF MutexInv, MutexTypeOK, TurnstileTypeOK
  <2>3. tc_chain'[k] = tc_chain[k]
    <3>1. tc_chain[k] # NULL
      BY <2>2, SleepsOn DEF TsInv, MutexInv, MutexTypeOK
    <3> QED BY <1>8, <3>1
  <2> QED BY <1>6, <1>7, <2>2, <2>3 DEF PriorityInv, CoverInv
<1>11. InheritInv'
  <2>1. ASSUME NEW ts \in Turnstiles, ts_inheritor[ts] # NULL
        PROVE  \E k \in Locks : tc_chain'[k] = ts /\ mutex_owner(k) = ts_inheritor[ts]
    <3>1. PICK k \in Locks : tc_chain[k] = ts /\ mutex_owner(k) = ts_inheritor[ts]
      BY <1>7, <2>1 DEF PriorityInv, InheritInv
    <3> QED BY <1>8, <3>1
  <2> QED BY <1>3, <1>4, <1>7, <1>8, <2>1 DEF InheritInv
<1>12. WalkInv'
  BY <1>2, <1>3 DEF WalkInv, MutexInv, MutexTypeOK
<1> QED BY <1>9, <1>10, <1>11, <1>12 DEF PriorityInv

(* The end of the wakeup: nobody sleeps on the mutex any more.             *)
LEMMA DonePriority ==
    ASSUME MutexInv, PriorityInv, NEW t \in Threads, WakeDone(t)
    PROVE  PriorityInv'
<1> USE TurnstileAssumption
<1>1. /\ pc[t] = "wake" /\ wk.n = 0 /\ wk' = NoWakeup /\ pc' = [pc EXCEPT ![t] = "run"]
      /\ UNCHANGED <<m_owner, chain_vars, pi_vars, t_pri, pi_cur>>
  BY DEF WakeDone, At, turnstile_wakeup_done, Goto
<1>2. PICK l \in Locks : l = wk.sobj
  BY <1>1, ThreadFacts DEF ControlOf, WakeLabels
<1>3. \A u \in Threads : u # t => pc[u] \notin TcLabels
  BY <1>1, ThreadFacts DEF TcLabels
<1>4. TsInv
  BY DEF TsInv, MutexInv, MutexTypeOK
<1>5. \A u \in Threads : t_wchan[u] # l
  <2>1. SUFFICES ASSUME NEW u \in Threads, t_wchan[u] = l PROVE FALSE
    OBVIOUS
  <2>2. PICK ts \in Turnstiles : ts = tc_chain[l] /\ u \in Elems(WQ(ts))
    BY <1>2, <1>4, <2>1, SleepsOn
  <2>3. Len(WQ(ts)) = 0
    BY <1>1, <1>2, <2>2 DEF MutexInv, WakeupInv
  <2>4. WQ(ts) \in Seq(Threads)
    BY <1>4, QueueFacts
  <2> QED BY <2>2, <2>3, <2>4, LenProperties DEF Elems
<1>6. tc_chain[l] = NULL
  BY <1>5, ActiveSleeper
<1>7. UNCHANGED <<tc_chain, t_wchan, ts_inheritor, ts_epri, DISP_PRIO>> /\ wk'.sobj = NULL
  BY <1>1 DEF chain_vars, pi_vars, DISP_PRIO, NoWakeup
<1>8. \A k \in Locks : mutex_owner(k)' = mutex_owner(k)
  BY <1>1 DEF mutex_owner
<1>9. Books'
  BY <1>1, BooksKept DEF PriorityInv
<1>10. CoverInv'
  <2>1. ASSUME NEW u \in Threads, NEW k \in Locks, t_wchan[u] = k, u # pi_cur
        PROVE  \/ DISP_PRIO[u] <= t_pri[mutex_owner(k)]
               \/ /\ ts_inheritor[tc_chain[k]] = mutex_owner(k)
                  /\ DISP_PRIO[u] <= ts_epri[tc_chain[k]]
    BY <1>2, <1>5, <2>1 DEF PriorityInv, CoverInv
  <2> QED BY <1>1, <1>7, <1>8, <2>1 DEF CoverInv
<1>11. InheritInv'
  <2>1. ASSUME NEW ts \in Turnstiles, ts_inheritor[ts] # NULL
        PROVE  \E k \in Locks : tc_chain[k] = ts /\ mutex_owner(k) = ts_inheritor[ts]
    BY <1>2, <1>6, <2>1 DEF PriorityInv, InheritInv
  <2> QED BY <1>7, <1>8, <2>1 DEF InheritInv
<1>12. WalkInv'
  BY <1>1, <1>3 DEF PriorityInv, WalkInv, TcLabels, MutexInv, MutexTypeOK
<1> QED BY <1>9, <1>10, <1>11, <1>12 DEF PriorityInv

(* mutex_vector_exit drops the mutex: from here to the end of its wakeup   *)
(* nobody owes its sleepers anything, and only the caller inherits.        *)
LEMMA ClearPriority ==
    ASSUME MutexInv, PriorityInv, NEW t \in Threads, VectorExitClear(t)
    PROVE  PriorityInv'
<1> USE TurnstileAssumption
<1>1. PICK l \in Locks : l = lk[t]
  BY ThreadFacts DEF VectorExitClear, At
<1>2. /\ pc[t] = "clear" /\ m_owner' = [m_owner EXCEPT ![l] = Free]
      /\ pc' = [pc EXCEPT ![t] = IF tc_chain[l] = NULL THEN "run" ELSE "waive"]
      /\ tc_chain[l] = NULL => UNCHANGED wk
      /\ tc_chain[l] # NULL => wk'.sobj = l
      /\ UNCHANGED <<chain_vars, pi_vars, t_pri, pi_cur>>
  BY <1>1 DEF VectorExitClear, At, SetWord, Goto
<1>3. \A u \in Threads : u # t => pc[u] \notin TcLabels
  BY <1>2, ThreadFacts DEF TcLabels
<1>4. \A k \in Locks : k # l => mutex_owner(k)' = mutex_owner(k)
  BY <1>2 DEF mutex_owner, MutexInv, MutexTypeOK
<1>5. mutex_owner(l) = t
  BY <1>1, <1>2, ThreadFacts
  DEF ControlOf, ExitLabels, MutexInv, WordInv, WordOf, mutex_owner
<1>6. wk.sobj = NULL
  BY <1>2, <1>3 DEF MutexInv, WakeupInv, WakeLabels, TcLabels
<1>7. \A u \in Threads : pc[u] \notin {"pi", "waive"}
  BY <1>2, <1>3 DEF TcLabels
<1>8. CASE tc_chain[l] = NULL
  <2>1. \A u \in Threads : t_wchan[u] # l
    BY <1>8, SleepsOn DEF TsInv, MutexInv, MutexTypeOK
  <2>2. UNCHANGED <<chain_vars, pi_vars, t_pri, pi_cur, wk>>
    BY <1>2, <1>8
  <2> QED BY <1>4, <1>7, <2>1, <2>2, QuietPriority
<1>9. CASE tc_chain[l] # NULL
  <2>1. UNCHANGED <<tc_chain, t_wchan, ts_inheritor, ts_epri, DISP_PRIO>> /\ wk'.sobj = l
    BY <1>2, <1>9 DEF chain_vars, pi_vars, DISP_PRIO
  <2>2. pc'[t] = "waive"
    BY <1>2, <1>9 DEF MutexInv, MutexTypeOK
  <2>3. Books'
    BY <1>2, BooksKept DEF PriorityInv
  <2>4. CoverInv'
    <3>1. ASSUME NEW u \in Threads, NEW k \in Locks, t_wchan[u] = k, u # pi_cur, k # l
          PROVE  \/ DISP_PRIO[u] <= t_pri[mutex_owner(k)']
                 \/ /\ ts_inheritor[tc_chain[k]] = mutex_owner(k)'
                    /\ DISP_PRIO[u] <= ts_epri[tc_chain[k]]
      BY <1>4, <1>6, <3>1 DEF PriorityInv, CoverInv
    <3> QED BY <1>2, <2>1, <3>1 DEF CoverInv
  <2>5. InheritInv'
    <3>1. ASSUME NEW ts \in Turnstiles, ts_inheritor[ts] # NULL
          PROVE  \E k \in Locks :
                    /\ tc_chain[k] = ts
                    /\ \/ l # k /\ mutex_owner(k)' = ts_inheritor[ts]
                       \/ l = k /\ pc'[ts_inheritor[ts]] = "waive"
      <4>1. PICK k \in Locks : tc_chain[k] = ts /\ mutex_owner(k) = ts_inheritor[ts]
        BY <1>6, <3>1 DEF PriorityInv, InheritInv
      <4> QED BY <1>4, <1>5, <2>2, <4>1
    <3> QED BY <2>1, <3>1 DEF InheritInv
  <2>6. WalkInv'
    BY <1>2, <1>7 DEF PriorityInv, WalkInv
  <2> QED BY <2>3, <2>4, <2>5, <2>6 DEF PriorityInv
<1> QED BY <1>8, <1>9

(* The caller of the wakeup gives back what it inherited.                  *)
LEMMA WaivePriority ==
    ASSUME MutexInv, PriorityInv, NEW t \in Threads, WakeWaive(t)
    PROVE  PriorityInv'
<1> USE TurnstileAssumption
<1>1. /\ pc[t] = "waive" /\ turnstile_wakeup_waive(t) /\ pc' = [pc EXCEPT ![t] = "wake"]
      /\ UNCHANGED m_owner
  BY DEF WakeWaive, At, Goto
<1>2. PICK l \in Locks : l = wk.sobj /\ tc_chain[l] # NULL
  BY <1>1, ThreadFacts DEF ControlOf, WakeLabels
<1>3. PICK ts \in Turnstiles : ts = tc_chain[l]
  BY <1>2 DEF MutexInv, MutexTypeOK, TurnstileTypeOK
<1>4. \A k \in Locks : tc_chain[k] = ts => k = l
  BY <1>2, <1>3 DEF MutexInv, ChainInv
<1>5. \A u \in Threads : u # t => pc[u] \notin TcLabels
  BY <1>1, ThreadFacts DEF TcLabels
<1>6. t_wchan[t] = NULL
  BY <1>1, ThreadFacts DEF ControlOf, QueuedLabels
<1>7. UNCHANGED <<chain_vars, t_pri, pi_cur, wk>> /\ UNCHANGED <<tc_chain, t_wchan>>
  BY <1>1 DEF turnstile_wakeup_waive, chain_vars
<1>8. \A k \in Locks : mutex_owner(k)' = mutex_owner(k)
  BY <1>1 DEF mutex_owner
<1>9. /\ Books' /\ ts_inheritor'[ts] = NULL
      /\ \A x \in Turnstiles : x # ts =>
            ts_inheritor'[x] = ts_inheritor[x] /\ ts_epri'[x] = ts_epri[x]
      /\ \A u \in Threads : u # t => DISP_PRIO'[u] = DISP_PRIO[u]
  <2>1. CASE ts_inheritor[ts] = NULL
    <3>1. UNCHANGED pi_vars
      BY <1>1, <1>2, <1>3, <2>1 DEF turnstile_wakeup_waive
    <3>2. UNCHANGED <<ts_inheritor, ts_epri, DISP_PRIO>>
      BY <1>7, <3>1 DEF pi_vars, DISP_PRIO
    <3> QED BY <1>7, <2>1, <3>1, <3>2, BooksKept DEF PriorityInv
  <2>2. CASE ts_inheritor[ts] # NULL
    <3>1. ts_inheritor[ts] \in Threads
      BY <2>2 DEF MutexInv, MutexTypeOK, TurnstileTypeOK
    <3>2. pc[ts_inheritor[ts]] = "waive"
      BY <1>2, <1>4, <2>2 DEF PriorityInv, InheritInv
    <3>3. ts_inheritor[ts] = t
      BY <1>5, <3>1, <3>2 DEF TcLabels
    <3>4. turnstile_pi_waive(ts)
      BY <1>1, <1>2, <1>3, <2>2 DEF turnstile_wakeup_waive
    <3>5. Books' /\ Waived(ts, t)
      BY <1>7, <3>3, <3>4, WaiveBooks DEF PriorityInv, MutexInv, MutexTypeOK
    <3> QED BY <3>5 DEF Waived
  <2> QED BY <2>1, <2>2
<1>10. CoverInv'
  <2>1. SUFFICES ASSUME NEW u \in Threads, NEW k \in Locks, t_wchan[u] = k, u # pi_cur, k # l
                 PROVE  \/ DISP_PRIO'[u] <= t_pri[mutex_owner(k)]
                        \/ /\ ts_inheritor'[tc_chain[k]] = mutex_owner(k)
                           /\ DISP_PRIO'[u] <= ts_epri'[tc_chain[k]]
    BY <1>2, <1>7, <1>8 DEF CoverInv
  <2>2. \/ DISP_PRIO[u] <= t_pri[mutex_owner(k)]
        \/ /\ ts_inheritor[tc_chain[k]] = mutex_owner(k)
           /\ DISP_PRIO[u] <= ts_epri[tc_chain[k]]
    BY <1>2, <2>1 DEF PriorityInv, CoverInv
  <2>3. tc_chain[k] \in Turnstiles /\ tc_chain[k] # ts
    BY <1>4, <2>1, SleepsOn DEF TsInv, MutexInv, MutexTypeOK
  <2>4. u # t
    BY <1>6, <2>1
  <2> QED BY <1>9, <2>2, <2>3, <2>4
<1>11. InheritInv'
  <2>1. SUFFICES ASSUME NEW x \in Turnstiles, ts_inheritor'[x] # NULL
                 PROVE  \E k \in Locks : /\ tc_chain[k] = x
                                         /\ wk.sobj # k /\ mutex_owner(k) = ts_inheritor'[x]
    BY <1>7, <1>8 DEF InheritInv
  <2>2. x # ts /\ ts_inheritor'[x] = ts_inheritor[x]
    BY <1>9, <2>1
  <2> QED BY <1>2, <1>3, <2>1, <2>2 DEF PriorityInv, InheritInv
<1>12. WalkInv'
  BY <1>1, <1>5, <1>7 DEF PriorityInv, WalkInv, TcLabels
<1> QED BY <1>9, <1>10, <1>11, <1>12 DEF PriorityInv

(* Waking a thread: only the mutex being dropped loses a sleeper, and      *)
(* nobody inherits from its turnstile any more.                            *)
LEMMA WakePriority ==
    ASSUME DynamicPri = FALSE, MutexInv, PriorityInv, NEW t \in Threads, WakeOne(t)
    PROVE  PriorityInv'
<1> USE TurnstileAssumption
<1>1. pc[t] = "wake" /\ turnstile_wakeup_one(t) /\ UNCHANGED m_owner
  BY DEF WakeOne, At
<1>2. PICK l \in Locks : l = wk.sobj
  BY <1>1, ThreadFacts DEF ControlOf, WakeLabels
<1>3. \A u \in Threads : u # t => pc[u] \notin TcLabels
  BY <1>1, ThreadFacts DEF TcLabels
<1>4. tc_chain[l] # NULL /\ wk.q = "W" /\ wk.owner = NULL /\ wk.n = Len(WQ(tc_chain[l]))
  BY <1>1, <1>2 DEF MutexInv, WakeupInv, turnstile_wakeup_one
<1>5. PICK s \in Threads : \E ts \in Turnstiles : Wakes(s, l, ts)
  BY <1>1, <1>2, <1>4, WakesStep DEF TsInv, MutexInv, MutexTypeOK
<1>6. PICK ts \in Turnstiles : Wakes(s, l, ts)
  BY <1>5
<1>7. /\ t_wchan' = [t_wchan EXCEPT ![s] = NULL]
      /\ UNCHANGED <<t_pri, pi_cur, pi_vars>> /\ wk'.sobj = l
  <2>1. TurnstileTypeOK /\ t_pri' \in ClassPri(s)
    BY <1>6 DEF Wakes, MutexInv, MutexTypeOK
  <2>2. UNCHANGED t_pri
    BY <2>1, ClassPriIs
  <2> QED BY <1>2, <1>6, <2>2 DEF Wakes, MutexInv, MutexTypeOK, TurnstileTypeOK
<1>8. \A k \in Locks : k # l => tc_chain'[k] = tc_chain[k]
  BY <1>2, <1>6 DEF Wakes, Detach, MutexInv, MutexTypeOK, TurnstileTypeOK
<1>9. UNCHANGED <<ts_inheritor, ts_epri, DISP_PRIO>>
  BY <1>7 DEF pi_vars, DISP_PRIO
<1>10. \A k \in Locks : mutex_owner(k)' = mutex_owner(k)
  BY <1>1 DEF mutex_owner
<1>11. Books'
  BY <1>7, BooksKept DEF PriorityInv
<1>12. CoverInv'
  <2>1. SUFFICES ASSUME NEW u \in Threads, NEW k \in Locks, t_wchan'[u] = k, u # pi_cur, k # l
                 PROVE  \/ DISP_PRIO[u] <= t_pri[mutex_owner(k)]
                        \/ /\ ts_inheritor[tc_chain[k]] = mutex_owner(k)
                           /\ DISP_PRIO[u] <= ts_epri[tc_chain[k]]
    BY <1>7, <1>8, <1>9, <1>10 DEF CoverInv
  <2>2. t_wchan[u] = k
    BY <1>7, <2>1 DEF MutexInv, MutexTypeOK, TurnstileTypeOK
  <2> QED BY <1>2, <2>1, <2>2 DEF PriorityInv, CoverInv
<1>13. InheritInv'
  <2>1. SUFFICES ASSUME NEW x \in Turnstiles, ts_inheritor[x] # NULL
                 PROVE  \E k \in Locks : /\ tc_chain'[k] = x
                                         /\ l # k /\ mutex_owner(k) = ts_inheritor[x]
    BY <1>7, <1>9, <1>10 DEF InheritInv
  <2>2. ts_inheritor[x] \in Threads
    BY <2>1 DEF MutexInv, MutexTypeOK, TurnstileTypeOK
  <2>3. pc[ts_inheritor[x]] # "waive"
    BY <1>1, <1>3, <2>2 DEF TcLabels
  <2> QED BY <1>2, <1>8, <2>1, <2>3 DEF PriorityInv, InheritInv
<1>14. WalkInv'
  BY <1>1, <1>3, <1>7 DEF PriorityInv, WalkInv, TcLabels
<1> QED BY <1>11, <1>12, <1>13, <1>14 DEF PriorityInv

(* One iteration of the walk: the owner of what the cursor sleeps on       *)
(* inherits the cursor's priority, and becomes the cursor if it sleeps.    *)
LEMMA WillPriority ==
    ASSUME MutexInv, PriorityInv, NEW t \in Threads, EnterWill(t)
    PROVE  PriorityInv'
<1> USE TurnstileAssumption
<1>1. /\ pc[t] = "pi" /\ ControlOf(t) /\ TsInv /\ TurnstileTypeOK
      /\ \A u \in Threads : u # t => pc[u] \notin TcLabels
  BY ThreadFacts DEF EnterWill, At, TcLabels, TsInv, MutexInv, MutexTypeOK
<1>2. PICK c \in Threads : c = pi_cur /\ t_wchan[c] \in Locks
  BY <1>1 DEF ControlOf
<1>3. PICK l \in Locks : l = t_wchan[c]
  BY <1>2
<1>4. PICK ts \in Turnstiles : tc_chain[l] = ts /\ t_ts[c] = ts
  BY <1>1, <1>3, SleepsOn
<1>5. PICK p \in Inheritable : p = DISP_PRIO[c] /\ p \in Nat
  BY <1>1, DispPrioType DEF Inheritable
<1>6. wk.sobj = NULL
  BY <1>1 DEF MutexInv, WakeupInv, WakeLabels, TcLabels
<1>7. PICK o \in Threads : o = mutex_owner(l)
  BY <1>3, <1>6 DEF MutexInv, SleeperInv, MutexTypeOK, Words, mutex_owner
<1>8. /\ turnstile_block_pi(t, o) /\ UNCHANGED m_owner
      /\ pc' = [pc EXCEPT ![t] = IF PiWalkEnds(o) THEN "sleep" ELSE "pi"]
  BY <1>2, <1>3, <1>7 DEF EnterWill, Goto
<1>9. /\ UNCHANGED <<tc_chain, t_wchan, t_pri, wk>>
      /\ pi_cur' = IF PiWalkEnds(o) THEN NULL ELSE o
  BY <1>8 DEF turnstile_block_pi, chain_vars
<1>10. WalkInv'
  BY <1>8, <1>9 DEF WalkInv, MutexInv, MutexTypeOK
<1>11. \A k \in Locks : /\ mutex_owner(k)' = mutex_owner(k)
                        /\ tc_chain[k] = ts => k = l
  BY <1>4, <1>8 DEF mutex_owner, MutexInv, ChainInv
<1>12. ts_inheritor[ts] \in {NULL, o}
  BY <1>6, <1>7, <1>11 DEF PriorityInv, InheritInv
<1>13. Inherits(ts, o, p)
  <2>1. turnstile_pi_inherit(t_pri, ts, o, p)
    BY <1>2, <1>4, <1>5, <1>8 DEF turnstile_block_pi
  <2>2. IF RaisesPrio(t_pri, o, p) THEN thread_change_epri(o, p)
        ELSE UNCHANGED <<t_epri, ts_sleepq>>
    BY <1>2, <1>5, <1>8 DEF turnstile_block_pi
  <2>3. t_epri \in [Threads -> Inheritable]
    BY <1>1 DEF TurnstileTypeOK, Inheritable
  <2>4. t_epri' = [t_epri EXCEPT ![o] = IF RaisesPrio(t_pri, o, p) THEN p ELSE @]
    BY <2>2, <2>3 DEF thread_change_epri
  <2> QED BY <1>9, <2>1, <2>4 DEF Inherits
<1>14. Books' /\ Inherited(ts, o, p)
  BY <1>1, <1>12, <1>13, InheritBooks DEF PriorityInv
<1>15. /\ \A x \in Turnstiles : x # ts =>
             ts_inheritor'[x] = ts_inheritor[x] /\ ts_epri'[x] = ts_epri[x]
       /\ \A u \in Threads : u # o => DISP_PRIO'[u] = DISP_PRIO[u]
  BY <1>14 DEF Inherited
<1>16. /\ \A u \in Threads : DISP_PRIO[u] \in Nat
       /\ \A x \in Turnstiles : ts_epri[x] \in Nat
       /\ \A u \in Threads : t_pri[u] \in Nat
  BY <1>1, DispPrioType, PrioNumbers
<1>17. \A u \in Threads, k \in Locks : t_wchan[u] = k => tc_chain[k] \in Turnstiles
  BY <1>1, SleepsOn
<1>18. ASSUME NEW u \in Threads, NEW k \in Locks, t_wchan[u] = k, u # c
       PROVE  \/ DISP_PRIO[u] <= t_pri[mutex_owner(k)]
              \/ /\ ts_inheritor[tc_chain[k]] = mutex_owner(k)
                 /\ DISP_PRIO[u] <= ts_epri[tc_chain[k]]
  BY <1>2, <1>6, <1>18 DEF PriorityInv, CoverInv
<1>19. CASE ~Inverted(t_pri, o, p)
  <2>1. UNCHANGED <<ts_inheritor, ts_epri>> /\ p <= t_pri[o]
    <3>1. UNCHANGED <<ts_inheritor, ts_epri>>
      BY <1>14, <1>19 DEF Inherited
    <3>2. p <= t_pri[o]
      BY <1>5, <1>16, <1>19 DEF Inverted
    <3> QED BY <3>1, <3>2
  <2>2. UNCHANGED DISP_PRIO
    <3>1. UNCHANGED t_epri
      BY <1>1, <1>13, <1>19 DEF Inherits, RaisesPrio, TurnstileTypeOK
    <3> QED BY <1>9, <3>1 DEF DISP_PRIO
  <2>3. CoverInv'
    <3>1. ASSUME NEW u \in Threads, NEW k \in Locks, t_wchan[u] = k
          PROVE  \/ DISP_PRIO[u] <= t_pri[mutex_owner(k)]
                 \/ /\ ts_inheritor[tc_chain[k]] = mutex_owner(k)
                    /\ DISP_PRIO[u] <= ts_epri[tc_chain[k]]
      BY <1>3, <1>5, <1>7, <1>18, <2>1, <3>1
    <3> QED BY <1>9, <1>11, <2>1, <2>2, <3>1 DEF CoverInv
  <2>4. InheritInv'
    <3>1. ASSUME NEW x \in Turnstiles, ts_inheritor[x] # NULL
          PROVE  \E k \in Locks : /\ tc_chain[k] = x
                                  /\ wk.sobj # k /\ mutex_owner(k) = ts_inheritor[x]
      BY <1>6, <3>1 DEF PriorityInv, InheritInv
    <3> QED BY <1>9, <1>11, <2>1, <3>1 DEF InheritInv
  <2> QED BY <1>10, <1>14, <2>3, <2>4 DEF PriorityInv
<1>20. CASE Inverted(t_pri, o, p)
  <2>1. /\ ts_inheritor'[ts] = o /\ ts_epri'[ts] >= p
        /\ \/ ts_epri'[ts] = p
           \/ ts_inheritor[ts] = o /\ ts_epri'[ts] = ts_epri[ts]
        /\ ts_inheritor[ts] = o => ts_epri'[ts] >= ts_epri[ts]
    BY <1>14, <1>20 DEF Inherited
  <2>2. PICK e \in Nat : e = ts_epri'[ts]
    BY <1>5, <1>16, <2>1
  <2>3. t_wchan[o] # NULL => pi_cur' = o
    BY <1>2, <1>5, <1>9, <1>20 DEF PiWalkEnds
  <2>4. CoverInv'
    <3>1. SUFFICES ASSUME NEW u \in Threads, NEW k \in Locks, t_wchan[u] = k, u # pi_cur'
                   PROVE  \/ DISP_PRIO'[u] <= t_pri[mutex_owner(k)]
                          \/ /\ ts_inheritor'[tc_chain[k]] = mutex_owner(k)
                             /\ DISP_PRIO'[u] <= ts_epri'[tc_chain[k]]
      BY <1>9, <1>11 DEF CoverInv
    <3>2. PICK d \in Nat : d = DISP_PRIO[u] /\ d = DISP_PRIO'[u]
      BY <1>15, <1>16, <2>3, <3>1
    <3>3. CASE k = l
      <4>1. ts_inheritor'[ts] = o /\ mutex_owner(k) = o /\ tc_chain[k] = ts /\ e >= p
        BY <1>4, <1>7, <2>1, <2>2, <3>3
      <4>2. CASE u = c
        BY <1>5, <2>2, <3>2, <4>1, <4>2
      <4>3. CASE u # c
        <5>1. PICK old \in Nat : old = ts_epri[ts]
          BY <1>16
        <5>2. d <= t_pri[o] \/ (ts_inheritor[ts] = o /\ d <= old)
          BY <1>18, <3>1, <3>2, <4>1, <4>3, <5>1
        <5>3. ts_inheritor[ts] = o => e >= old
          BY <2>1, <2>2, <5>1
        <5> QED BY <2>2, <3>2, <4>1, <5>1, <5>2, <5>3
      <4> QED BY <4>2, <4>3
    <3>4. CASE k # l
      <4>1. u # c /\ tc_chain[k] \in Turnstiles /\ tc_chain[k] # ts
        BY <1>3, <1>11, <1>17, <3>1, <3>4
      <4> QED BY <1>15, <1>18, <3>1, <3>2, <4>1
    <3> QED BY <3>3, <3>4
  <2>5. InheritInv'
    <3>1. ASSUME NEW x \in Turnstiles, ts_inheritor'[x] # NULL
          PROVE  \E k \in Locks : /\ tc_chain[k] = x
                                  /\ wk.sobj # k /\ mutex_owner(k) = ts_inheritor'[x]
      <4>1. CASE x = ts
        BY <1>4, <1>6, <1>7, <2>1, <4>1
      <4>2. CASE x # ts
        BY <1>6, <1>15, <3>1, <4>2 DEF PriorityInv, InheritInv
      <4> QED BY <4>1, <4>2
    <3> QED BY <1>9, <1>11, <3>1 DEF InheritInv
  <2> QED BY <1>10, <1>14, <2>4, <2>5 DEF PriorityInv
<1> QED BY <1>19, <1>20

LEMMA InitPriority == Init => PriorityInv
<1> SUFFICES ASSUME Init PROVE PriorityInv
  OBVIOUS
<1> USE TurnstileAssumption
<1>1. Books
  BY DEF Init, TurnstileInit, Books, ListInv, AmountInv, SourceInv
<1>2. CoverInv /\ InheritInv /\ WalkInv
  BY DEF Init, TurnstileInit, CoverInv, InheritInv, WalkInv
<1> QED BY <1>1, <1>2 DEF PriorityInv

LEMMA NextPriority ==
    ASSUME DynamicPri = FALSE
    PROVE  MutexInv /\ PriorityInv /\ [Next]_vars => PriorityInv'
<1> SUFFICES ASSUME MutexInv, PriorityInv, [Next]_vars PROVE PriorityInv'
  OBVIOUS
<1>1. CASE UNCHANGED vars
  <2>1. UNCHANGED <<chain_vars, pi_vars, t_pri, pi_cur, wk, pc, m_owner>>
    BY <1>1 DEF vars, m_vars, ts_vars
  <2> QED BY <2>1, QuietPriority DEF mutex_owner
<1>2. ASSUME NEW t \in Threads, Continue(t) PROVE PriorityInv'
  BY <1>2, MovePriority, EnterPriority, BlockPriority, WillPriority,
     ClearPriority, 
     WaivePriority, WakePriority, DonePriority
  DEF Continue
<1>3. ASSUME NEW t \in Threads, NEW l \in Locks,
             \/ mutex_enter(t, l) \/ mutex_tryenter(t, l) \/ mutex_exit(t, l)
             \/ l \in Destroyable /\ (mutex_destroy(t, l) \/ mutex_init(t, l))
      PROVE  PriorityInv'
  BY <1>3, MovePriority, EnterPriority, ReusePriority
<1>4. ASSUME NEW c \in CPUs,
             Drain(c) \/ \E t \in Threads : SwitchOut(t, c) \/ Resume(t, c)
      PROVE  PriorityInv'
  BY <1>4, ProcessorPriority
<1>5. ASSUME NEW t \in Threads, NEW p \in Priorities, ChangePri(t, p) PROVE PriorityInv'
  BY <1>5 DEF ChangePri
<1> QED BY <1>1, <1>2, <1>3, <1>4, <1>5, MutexAssumption DEF Next

(* While assigned priorities stay as they are: once a turnstile operation  *)
(* is over, the owner of a mutex runs at no lower a priority than any      *)
(* thread asleep on it, along every chain of blocked owners.  What the     *)
(* walk of turnstile_block passes on, and what turnstile_pi_waive takes    *)
(* back, always add up.  The hypothesis excludes priocntl() and the class  *)
(* calls of the turnstiles themselves: an owner whose CL_SLEEP lowers its  *)
(* priority as it blocks on a second mutex, or is changed later, inherits  *)
(* nothing for those that already wait for it.                             *)
THEOREM MutexNoInversion ==
    ASSUME DynamicPri = FALSE
    PROVE  Spec => []NoPriorityInversion
<1>1. MutexInv /\ PriorityInv => NoPriorityInversion
  <2> USE TurnstileAssumption
  <2>1. SUFFICES ASSUME MutexInv, PriorityInv, tc_lock = NULL,
                        NEW t \in Threads, t_wchan[t] # NULL
                 PROVE  DISP_PRIO[mutex_owner(t_wchan[t])] >= DISP_PRIO[t]
    BY DEF NoPriorityInversion
  <2>2. TsInv /\ TurnstileTypeOK /\ Books
    BY <2>1 DEF TsInv, MutexInv, MutexTypeOK, PriorityInv
  <2>3. \A u \in Threads : pc[u] \notin TcLabels
    BY <2>1, ThreadFacts
  <2>4. pi_cur = NULL
    BY <2>1, <2>3 DEF PriorityInv, WalkInv, TcLabels
  <2>5. wk.sobj = NULL
    BY <2>1, <2>3 DEF MutexInv, WakeupInv, WakeLabels, TcLabels
  <2>6. PICK l \in Locks : l = t_wchan[t]
    BY <2>1, <2>2, SleepsOn
  <2>7. PICK o \in Threads : o = mutex_owner(l)
    BY <2>1, <2>5, <2>6 DEF MutexInv, SleeperInv, MutexTypeOK, Words, mutex_owner
  <2>8. PICK ts \in Turnstiles : ts = tc_chain[l]
    BY <2>1, <2>2, <2>6, SleepsOn
  <2>9. \/ DISP_PRIO[t] <= t_pri[o]
        \/ ts_inheritor[ts] = o /\ DISP_PRIO[t] <= ts_epri[ts]
    BY <2>1, <2>4, <2>5, <2>6, <2>7, <2>8 DEF PriorityInv, CoverInv
  <2>10. t_pri[o] <= DISP_PRIO[o] /\ t_pri[o] \in Nat /\ DISP_PRIO[o] \in Nat
    BY <2>2, AtLeastAssigned
  <2>11. DISP_PRIO[t] \in Nat /\ ts_epri[ts] \in Nat
    BY <2>2, DispPrioType, PrioNumbers
  <2>12. ts_inheritor[ts] = o => ts_epri[ts] <= DISP_PRIO[o]
    BY <2>2 DEF Books, AmountInv
  <2> QED BY <2>6, <2>7, <2>9, <2>10, <2>11, <2>12
<1>2. Spec => []MutexInv
  BY MutexInvariant
<1>3. Spec => []PriorityInv
  BY <1>2, InitPriority, NextPriority, PTL DEF Spec
<1> QED BY <1>1, <1>2, <1>3, PTL
=============================================================================
