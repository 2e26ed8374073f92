---------------------------- MODULE RWLockProofs ----------------------------
(***************************************************************************)
(* IInv is an inductive invariant of RWLock, for every set of threads,     *)
(* locks, turnstiles and priorities.  One lemma per action; each is a list *)
(* of the parts of IInv in the order of its definition.  The theorems that *)
(* follow from IInv come next, then those about the threads that wait,     *)
(* which rest on further invariants.                                       *)
(***************************************************************************)
EXTENDS RWLockInv, TurnstileProofs

(* The readers of a lock, as a number.                                     *)
CardR(l) == Cardinality(HoldersR(l))

LEMMA CardFacts ==
    ASSUME NEW l \in Locks
    PROVE  /\ IsFiniteSet(HoldersR(l)) /\ CardR(l) \in Nat
           /\ \A t \in Threads : hold[t][l] = "R" => CardR(l) >= 1
           /\ \A t, u \in Threads :
                 hold[t][l] = "R" /\ hold[u][l] = "R" /\ t # u => CardR(l) >= 2
           /\ (\A t \in Threads : hold[t][l] # "R") => CardR(l) = 0
<1>1. IsFiniteSet(HoldersR(l)) /\ CardR(l) \in Nat
  BY TurnstileAssumption, FS_Subset, FS_CardinalityType DEF HoldersR, CardR
<1>2. ASSUME NEW t \in Threads, hold[t][l] = "R" PROVE CardR(l) >= 1
  <2>1. t \in HoldersR(l)
    BY <1>2 DEF HoldersR
  <2> QED BY <2>1, <1>1, FS_EmptySet DEF CardR
<1>3. ASSUME NEW t \in Threads, NEW u \in Threads, t # u,
             hold[t][l] = "R", hold[u][l] = "R"
      PROVE  CardR(l) >= 2
  <2>1. t \in HoldersR(l) /\ u \in HoldersR(l) \ {t}
    BY <1>3 DEF HoldersR
  <2>2. IsFiniteSet(HoldersR(l) \ {t}) /\ Cardinality(HoldersR(l) \ {t}) = CardR(l) - 1
    BY <2>1, <1>1, FS_RemoveElement DEF CardR
  <2>3. Cardinality(HoldersR(l) \ {t}) # 0 /\ Cardinality(HoldersR(l) \ {t}) \in Nat
    BY <2>1, <2>2, FS_EmptySet, FS_CardinalityType
  <2> QED BY <2>2, <2>3, <1>1
<1>4. ASSUME \A t \in Threads : hold[t][l] # "R" PROVE CardR(l) = 0
  <2>1. HoldersR(l) = {}
    BY <1>4 DEF HoldersR
  <2> QED BY <2>1, FS_EmptySet DEF CardR
<1> QED BY <1>1, <1>2, <1>3, <1>4

(* One thread's hold on one lock changes.                                  *)
LEMMA CardStep ==
    ASSUME TypeOK, NEW t \in Threads, NEW l \in Locks, NEW m,
           hold' = [hold EXCEPT ![t][l] = m]
    PROVE  /\ \A k \in Locks \ {l} : CardR(k)' = CardR(k)
           /\ m = "R" /\ hold[t][l] \in {"none", "W"} => CardR(l)' = CardR(l) + 1
           /\ m \in {"none", "W"} /\ hold[t][l] = "R" => CardR(l)' = CardR(l) - 1
           /\ m \in {"none", "W"} /\ hold[t][l] \in {"none", "W"} =>
                 CardR(l)' = CardR(l)
<1>1. hold \in [Threads -> [Locks -> {"none", "R", "W"}]]
  BY DEF TypeOK
<1>2. IsFiniteSet(HoldersR(l))
  BY CardFacts
<1>3. ASSUME NEW k \in Locks \ {l} PROVE CardR(k)' = CardR(k)
  <2>1. HoldersR(k)' = HoldersR(k)
    BY <1>1 DEF HoldersR
  <2> QED BY <2>1 DEF CardR
<1>4. ASSUME m = "R", hold[t][l] \in {"none", "W"} PROVE CardR(l)' = CardR(l) + 1
  <2>1. HoldersR(l)' = HoldersR(l) \cup {t} /\ t \notin HoldersR(l)
    BY <1>1, <1>4 DEF HoldersR
  <2> QED BY <2>1, <1>2, FS_AddElement DEF CardR
<1>5. ASSUME m \in {"none", "W"}, hold[t][l] = "R" PROVE CardR(l)' = CardR(l) - 1
  <2>1. HoldersR(l)' = HoldersR(l) \ {t} /\ t \in HoldersR(l)
    BY <1>1, <1>5 DEF HoldersR
  <2> QED BY <2>1, <1>2, FS_RemoveElement DEF CardR
<1>6. ASSUME m \in {"none", "W"}, hold[t][l] \in {"none", "W"}
      PROVE  CardR(l)' = CardR(l)
  <2>1. HoldersR(l)' = HoldersR(l)
    BY <1>1, <1>6 DEF HoldersR
  <2> QED BY <2>1 DEF CardR
<1> QED BY <1>3, <1>4, <1>5, <1>6

LEMMA SameHolds ==
    ASSUME UNCHANGED hold, NEW l \in Locks PROVE CardR(l)' = CardR(l)
BY DEF CardR, HoldersR

(* The chain lock is held by one thread; unless that thread is in a        *)
(* wakeup, nobody has been granted a lock without knowing it.              *)
LEMMA Quiet ==
    ASSUME IInv, NEW t \in Threads, pc[t] \in TcLabels \ WakeLabels
    PROVE  /\ tc_lock = t
           /\ \A u \in Threads \ {t} : pc[u] \notin TcLabels
           /\ wk.sobj = NULL /\ wk.n = 0 /\ wk.owner = NULL
           /\ \A l \in Locks, q \in Queues : Pending(l, q) = 0
<1>1. tc_lock = t /\ \A u \in Threads \ {t} : pc[u] \notin TcLabels
  BY DEF IInv, ControlInv
<1>2. wk.sobj = NULL
  BY <1>1 DEF IInv, WakeupInv, TcLabels, WakeLabels
<1>3. wk.n = 0 /\ wk.owner = NULL
  BY <1>2 DEF IInv, WakeupInv
<1>4. \A l \in Locks, q \in Queues : Pending(l, q) = 0
  BY <1>2, TurnstileAssumption DEF Pending
<1> QED BY <1>1, <1>2, <1>3, <1>4

LEMMA QueueTypes ==
    ASSUME IInv, NEW ts \in Turnstiles, NEW q \in Queues
    PROVE  /\ ts_sleepq[ts][q] \in Seq(Threads) /\ NoDup(ts_sleepq[ts][q])
           /\ Len(ts_sleepq[ts][q]) \in Nat
<1>1. ts_sleepq[ts][q] \in Seq(Threads) /\ NoDup(ts_sleepq[ts][q])
  BY DEF IInv, TypeOK, TurnstileTypeOK, QueueInv
<1> QED BY <1>1, LenProperties

(* The lengths of the two queues of a turnstile, whose sum is ts_waiters.  *)
LEMMA Waiters ==
    ASSUME IInv, NEW ts \in Turnstiles
    PROVE  \E a, b \in Nat : /\ a = Len(ts_sleepq[ts]["W"])
                             /\ b = Len(ts_sleepq[ts]["R"])
                             /\ ts_waiters[ts] = a + b
<1>1. Len(ts_sleepq[ts]["W"]) \in Nat /\ Len(ts_sleepq[ts]["R"]) \in Nat
  BY QueueTypes DEF Queues
<1>2. ts_waiters[ts] = Len(ts_sleepq[ts]["W"]) + Len(ts_sleepq[ts]["R"])
  BY DEF IInv, ContentInv
<1>3. PICK a \in Nat : a = Len(ts_sleepq[ts]["W"])
  BY <1>1
<1>4. PICK b \in Nat : b = Len(ts_sleepq[ts]["R"])
  BY <1>1
<1>5. ts_waiters[ts] = a + b
  BY <1>2, <1>3, <1>4
<1> QED BY <1>3, <1>4, <1>5

(* A thread whose turnstile is the one of lock l sleeps on l.              *)
LEMMA SleepsOn ==
    ASSUME IInv, NEW u \in Threads, NEW l \in Locks, tc_chain[l] = t_ts[u],
           t_wchan[u] # NULL
    PROVE  /\ t_wchan[u] = l /\ lk[u] = l /\ hold[u][l] = "none"
           /\ pc[u] \in QueuedLabels
<1>1. t_wchan[u] \in Locks /\ tc_chain[t_wchan[u]] = t_ts[u]
  BY DEF IInv, ChainInv, TypeOK, TurnstileTypeOK
<1>2. tc_chain[l] # NULL
  BY TurnstileAssumption DEF IInv, TypeOK, TurnstileTypeOK
<1>3. t_wchan[u] = l
  BY <1>1, <1>2 DEF IInv, ChainInv
<1> QED BY <1>1, <1>3 DEF IInv, ControlInv, EnterLabels, QueuedLabels

(* The numbers of threads granted a lock and not yet woken.                *)
LEMMA PendingFacts ==
    ASSUME IInv, NEW l \in Locks
    PROVE  /\ Pending(l, "R") \in Nat /\ Pending(l, "W") \in {0, 1}
           /\ Pending(l, "W") = 1 =>
                 /\ wk.owner \in Threads /\ t_wchan[wk.owner] = l
                 /\ hold[wk.owner][l] = "none"
           /\ Unused(l) => Pending(l, "R") = 0 /\ Pending(l, "W") = 0
<1> USE TurnstileAssumption
<1>1. wk \in [q : Queues, n : Nat, owner : Threads \cup {NULL},
              sobj : Locks \cup {NULL}]
  BY DEF IInv, TypeOK, TurnstileTypeOK
<1>2. Pending(l, "R") \in Nat /\ Pending(l, "W") \in {0, 1}
  BY <1>1 DEF Pending, IInv, WakeupInv, Queues
<1>3. ASSUME Pending(l, "W") = 1
      PROVE  /\ wk.owner \in Threads /\ t_wchan[wk.owner] = l
             /\ hold[wk.owner][l] = "none"
  <2>1. wk.sobj = l /\ wk.q = "W" /\ wk.n = 1
    BY <1>3 DEF Pending
  <2> DEFINE ts == tc_chain[l]
             q == ts_sleepq[ts]["W"]
  <2>2. ts # NULL /\ 1 <= Len(q) /\ wk.owner = Head(q)
    BY <2>1 DEF IInv, WakeupInv, WQ
  <2>3. ts \in Turnstiles /\ q \in Seq(Threads) /\ NoDup(q)
    BY <2>2 DEF IInv, TypeOK, TurnstileTypeOK, QueueInv, Queues
  <2>4. wk.owner \in Threads /\ wk.owner \in Elems(q)
    <3> HIDE DEF q
    <3> Len(q) \in Nat
      BY <2>3, LenProperties
    <3> QED BY <2>2, <2>3, TailQueue
  <2>5. t_wchan[wk.owner] # NULL /\ t_ts[wk.owner] = ts
    BY <2>3, <2>4 DEF IInv, QueueInv, Queues
  <2> QED BY <2>4, <2>5, SleepsOn
<1>4. ASSUME Unused(l) PROVE wk.sobj # l
  BY <1>4 DEF Unused, IInv, WakeupInv, ControlInv
<1> QED BY <1>2, <1>3, <1>4 DEF Pending

(* What a thread that holds a lock, and knows it, may conclude: nothing is *)
(* pending, and the word has its name.                                     *)
LEMMA WriterFacts ==
    ASSUME IInv, NEW t \in Threads, NEW l \in Locks, hold[t][l] = "W"
    PROVE  LET w == rw_wwwh[l] IN
           /\ w # RW_DOUBLE_LOCK /\ w.wl /\ w.wr = t /\ w.rd = 0
           /\ CardR(l) = 0 /\ Pending(l, "R") = 0 /\ Pending(l, "W") = 0
           /\ \A u \in Threads : u # t => hold[u][l] = "none"
           /\ ~w.hw => tc_chain[l] = NULL
<1> DEFINE w == rw_wwwh[l]
<1>1. w # RW_DOUBLE_LOCK
  BY DEF IInv, HoldInv, HoldOf, Unused
<1>2. w.wl /\ w.wr = t /\ w.rd = 0
  BY <1>1 DEF IInv, HoldInv, HoldOf
<1>3. CardR(l) = 0 /\ Pending(l, "R") = 0
  <2>1. w.rd = CardR(l) + Pending(l, "R")
    BY <1>1 DEF IInv, HoldInv, HoldOf, CardR
  <2> QED BY <2>1, <1>2, CardFacts, PendingFacts
<1>4. Pending(l, "W") = 0
  BY <1>1, <1>2, PendingFacts DEF IInv, HoldInv, HoldOf
<1>5. \A u \in Threads : u # t => hold[u][l] = "none"
  <2>1. \A u \in Threads : hold[u][l] = "W" => u = t
    BY <1>1, <1>2 DEF IInv, HoldInv, HoldOf
  <2>2. \A u \in Threads : hold[u][l] # "R"
    BY <1>3, CardFacts
  <2>3. \A u \in Threads : hold[u][l] \in {"none", "R", "W"}
    BY DEF IInv, TypeOK
  <2> QED BY <2>1, <2>2, <2>3
<1>6. ASSUME ~w.hw, tc_chain[l] # NULL PROVE FALSE
  <2> DEFINE ts == tc_chain[l]
  <2>1. ts \in Turnstiles /\ Active(ts)
    BY <1>6 DEF IInv, TypeOK, TurnstileTypeOK, Active
  <2>2. IsFiniteSet(ts_free[ts]) /\ Cardinality(ts_free[ts]) = ts_waiters[ts] - 1
    BY <2>1 DEF IInv, ContentInv
  <2>3. Cardinality(ts_free[ts]) \in Nat /\ ts_waiters[ts] \in Nat
    BY <2>1, <2>2, FS_CardinalityType DEF IInv, TypeOK, TurnstileTypeOK
  <2>4. Len(WQ(l)) + Len(RQ(l)) = ts_waiters[ts]
    BY <2>1 DEF IInv, ContentInv, WQ, RQ
  <2>5. ~(Len(WQ(l)) > 0) /\ ~(Len(RQ(l)) > 0)
    BY <1>3, <1>4, <1>6 DEF IInv, BitsInv, BitsOf, QueuedW, QueuedR
  <2>6. Len(WQ(l)) \in Nat /\ Len(RQ(l)) \in Nat
    BY <2>1, QueueTypes DEF WQ, RQ, Queues
  <2> QED BY <2>2, <2>3, <2>4, <2>5, <2>6
<1> QED BY <1>1, <1>2, <1>3, <1>4, <1>5, <1>6

LEMMA ReaderFacts ==
    ASSUME IInv, NEW t \in Threads, NEW l \in Locks, hold[t][l] = "R"
    PROVE  LET w == rw_wwwh[l] IN
           /\ w # RW_DOUBLE_LOCK /\ ~w.wl /\ w.wr = NULL
           /\ w.rd = CardR(l) + Pending(l, "R")
           /\ CardR(l) \in Nat /\ CardR(l) >= 1 /\ Pending(l, "R") \in Nat
           /\ Pending(l, "W") = 0
           /\ \A u \in Threads : hold[u][l] # "W"
<1> DEFINE w == rw_wwwh[l]
<1>1. w # RW_DOUBLE_LOCK
  BY DEF IInv, HoldInv, HoldOf, Unused
<1>2. w.rd = CardR(l) + Pending(l, "R")
  BY <1>1 DEF IInv, HoldInv, HoldOf, CardR
<1>3. CardR(l) \in Nat /\ CardR(l) >= 1 /\ Pending(l, "R") \in Nat
  BY CardFacts, PendingFacts
<1>4. ~w.wl /\ w.wr = NULL
  BY <1>1, <1>2, <1>3 DEF IInv, HoldInv, HoldOf
<1>5. Pending(l, "W") = 0 /\ \A u \in Threads : hold[u][l] # "W"
  BY <1>1, <1>4, PendingFacts DEF IInv, HoldInv, HoldOf
<1> QED BY <1>1, <1>2, <1>3, <1>4, <1>5

(* The fields of a word after a hold is granted or dropped.                *)
LEMMA GrantWord ==
    ASSUME NEW w \in Words, NEW t \in Threads
    PROVE  /\ LET v == Grant(w, t, "R") IN
              /\ v \in Words /\ v.rd = w.rd + 1 /\ v.wr = w.wr
              /\ v.wl = w.wl /\ v.ww = w.ww /\ v.hw = w.hw
           /\ LET v == Grant(w, t, "W") IN
              /\ v \in Words /\ v.rd = w.rd /\ v.wr = t
              /\ v.wl /\ v.ww = w.ww /\ v.hw = w.hw
<1>1. LET v == [w EXCEPT !.rd = @ + 1] IN
      v \in Words /\ v.rd = w.rd + 1 /\ v.wr = w.wr
  BY DEF Words
<1>2. LET v == [w EXCEPT !.rd = @ + 1] IN
      v.wl = w.wl /\ v.ww = w.ww /\ v.hw = w.hw
  BY DEF Words
<1>3. LET v == [w EXCEPT !.wr = t, !.wl = TRUE] IN
      v \in Words /\ v.rd = w.rd /\ v.wr = t
  BY DEF Words
<1>4. LET v == [w EXCEPT !.wr = t, !.wl = TRUE] IN
      v.wl /\ v.ww = w.ww /\ v.hw = w.hw
  BY DEF Words
<1> QED BY <1>1, <1>2, <1>3, <1>4 DEF Grant

LEMMA DropWord ==
    ASSUME NEW w \in Words
    PROVE  /\ LET v == Drop(w, "R") IN
              /\ w.rd > 0 => v \in Words
              /\ v.rd = w.rd - 1 /\ v.wr = w.wr
              /\ v.wl = w.wl /\ v.ww = w.ww /\ v.hw = w.hw
           /\ LET v == Drop(w, "W") IN
              /\ v \in Words /\ v.rd = w.rd /\ v.wr = NULL
              /\ ~v.wl /\ v.ww = w.ww /\ v.hw = w.hw
<1>1. LET v == [w EXCEPT !.rd = @ - 1] IN
      (w.rd > 0 => v \in Words) /\ v.rd = w.rd - 1 /\ v.wr = w.wr
  BY DEF Words
<1>2. LET v == [w EXCEPT !.rd = @ - 1] IN
      v.wl = w.wl /\ v.ww = w.ww /\ v.hw = w.hw
  BY DEF Words
<1>3. LET v == [w EXCEPT !.wr = NULL, !.wl = FALSE] IN
      v \in Words /\ v.rd = w.rd /\ v.wr = NULL
  BY DEF Words
<1>4. LET v == [w EXCEPT !.wr = NULL, !.wl = FALSE] IN
      ~v.wl /\ v.ww = w.ww /\ v.hw = w.hw
  BY DEF Words
<1> QED BY <1>1, <1>2, <1>3, <1>4 DEF Drop

LEMMA DoubleLock ==
    /\ Unheld.rd = 0 /\ Unheld.wr = NULL /\ Unheld.wl = FALSE
    /\ Unheld.ww = FALSE /\ Unheld.hw = FALSE /\ Unheld \in Words
    /\ RW_DOUBLE_LOCK.rd = 1 /\ RW_DOUBLE_LOCK.wr = NULL /\ RW_DOUBLE_LOCK.wl = TRUE
    /\ RW_DOUBLE_LOCK.ww = FALSE /\ RW_DOUBLE_LOCK.hw = FALSE
    /\ RW_DOUBLE_LOCK \in Words
BY DEF RW_DOUBLE_LOCK, Unheld, Words

LEMMA InOperation ==
    ASSUME IInv, NEW t \in Threads, pc[t] # "run"
    PROVE  lk[t] \in Locks /\ rw_wwwh[lk[t]] # RW_DOUBLE_LOCK
<1>1. lk[t] \in Locks
  BY DEF IInv, TypeOK, ControlInv
<1> QED BY <1>1 DEF IInv, HoldInv, HoldOf, Unused

(* What a step that leaves the turnstiles alone keeps.                     *)
LEMMA TurnstilesKept ==
    ASSUME IInv,
           UNCHANGED <<tc_chain, ts_free, ts_waiters, t_ts, t_wchan,
                       ts_sleepq, ts_inheritor>>,
           \A u \in Threads : t_wchan[u] # NULL => rw'[u] = rw[u]
    PROVE  ChainInv' /\ ContentInv' /\ QueueInv'
<1>1. ChainInv'
  BY DEF IInv, ChainInv, Active
<1>2. ContentInv'
  BY DEF IInv, ContentInv, Active
<1>3. \A ts \in Turnstiles, q \in Queues : Elems(ts_sleepq[ts][q]) \subseteq Threads
  BY QueueTypes, LenProperties DEF Elems
<1>4. QueueInv'
  BY <1>3 DEF IInv, QueueInv
<1> QED BY <1>1, <1>2, <1>4

LEMMA QueuedKept ==
    ASSUME UNCHANGED <<tc_chain, ts_sleepq, wk>>, NEW l \in Locks
    PROVE  /\ QueuedW(l)' <=> QueuedW(l)
           /\ QueuedR(l)' <=> QueuedR(l)
           /\ \A q \in Queues : Pending(l, q)' = Pending(l, q)
           /\ Pending(l, "R")' = Pending(l, "R")
           /\ Pending(l, "W")' = Pending(l, "W")
BY DEF QueuedW, QueuedR, Pending, WQ, RQ
(* ... and what a step keeps of a lock it does not touch.                  *)
LEMMA OtherHoldKept ==
    ASSUME IInv, NEW k \in Locks, rw_wwwh'[k] = rw_wwwh[k],
           CardR(k)' = CardR(k), UNCHANGED wk,
           \A u \in Threads : (hold'[u][k] = "W") <=> (hold[u][k] = "W"),
           \A u \in Threads : hold[u][k] = "none" => hold'[u][k] = "none",
           \A u \in Threads : lk'[u] = k => lk[u] = k
    PROVE  HoldOf(k)'
<1>1. \A q \in Queues : Pending(k, q)' = Pending(k, q)
  BY DEF Pending
<1>2. Unused(k) => Unused(k)'
  BY DEF Unused
<1> QED
  BY <1>1, <1>2 DEF IInv, HoldInv, HoldOf, CardR, Queues, TypeOK, Words

-----------------------------------------------------------------------------
LEMMA rw_enterInv ==
    ASSUME IInv, NEW t \in Threads, NEW l \in Locks, NEW m \in Queues,
           rw_enter(t, l, m)
    PROVE  IInv'
<1> USE TurnstileAssumption
<1>0. pc[t] = "run" /\ lk[t] = NULL /\ hold[t][l] = "none" /\ t_wchan[t] = NULL
  BY DEF rw_enter, At, IInv, ControlInv, TypeOK, QueuedLabels
<1>1. TypeOK'
  BY DEF rw_enter, Begin, Goto, Kpri, IInv, TypeOK, TurnstileTypeOK, ts_vars,
         chain_vars, pi_vars, Labels, Queues
<1>2. ControlInv'
  BY <1>0
  DEF rw_enter, Begin, Goto, IInv, TypeOK, ts_vars, chain_vars, ControlInv, 
         TcLabels, QueuedLabels, EnterLabels, FinalLabels, DownLabels, WakeLabels
<1>3. ChainInv' /\ ContentInv' /\ QueueInv'
  BY <1>0, TurnstilesKept
  DEF rw_enter, Begin, ts_vars, chain_vars, pi_vars, IInv, TypeOK
<1>4. WakeupInv'
  BY <1>0 DEF rw_enter, Begin, Goto, ts_vars, chain_vars, IInv, WakeupInv, TypeOK,
         WakeLabels, DownLabels, WQ
<1>5. HoldInv'
  BY <1>0, QueuedKept, SameHolds
  DEF rw_enter, Begin, ts_vars, chain_vars, IInv, TypeOK, 
     HoldInv, HoldOf, Unused, CardR
<1>6. BitsInv'
  BY <1>0, QueuedKept
  DEF rw_enter, Begin, Goto, ts_vars, chain_vars, IInv, TypeOK, 
     BitsInv, BitsOf, Blocker, DownLabels
<1>7. HandInv'
  BY <1>0
  DEF rw_enter, Begin, Goto, IInv, TypeOK, HandInv, FinalLabels, DownLabels
<1>8. InheritInv'
  BY <1>0 DEF rw_enter, Begin, Goto, ts_vars, chain_vars, pi_vars, IInv, TypeOK,
     InheritInv, DownLabels
<1> QED BY <1>1, <1>2, <1>3, <1>4, <1>5, <1>6, <1>7, <1>8 DEF IInv


LEMMA EnterGrabInv ==
    ASSUME IInv, NEW t \in Threads, EnterGrab(t)
    PROVE  IInv'
<1> USE TurnstileAssumption
<1>0. PICK l \in Locks : lk[t] = l
  BY InOperation DEF EnterGrab, At
<1>00. PICK m \in Queues : rw[t] = m
  BY DEF IInv, TypeOK
<1> DEFINE w == rw_wwwh[l]
<1>a. /\ w # RW_DOUBLE_LOCK /\ w \in Words
      /\ pc[t] = "enter" /\ hold[t][l] = "none" /\ t_wchan[t] = NULL
  BY <1>0, InOperation
  DEF EnterGrab, At, IInv, ControlInv, TypeOK, QueuedLabels, EnterLabels
<1>b. /\ pc' = [pc EXCEPT ![t] = "run"] /\ lk' = [lk EXCEPT ![t] = NULL]
      /\ rw' = [rw EXCEPT ![t] = "R"] /\ hold' = [hold EXCEPT ![t][l] = m]
      /\ rw_wwwh' = [rw_wwwh EXCEPT ![l] = Grant(w, t, m)]
      /\ ~lock_busy(w, m)
      /\ UNCHANGED <<t_kpri_req, panicstr, ts_vars>>
  BY <1>0, <1>00 DEF EnterGrab, SetWord, SetHold, Return, Begin, Goto
<1>c. Grant(w, t, m) \in Words
  BY <1>a, GrantWord DEF Queues
<1>1. TypeOK'
  BY <1>b, <1>c
  DEF IInv, TypeOK, TurnstileTypeOK, ts_vars, chain_vars, pi_vars, Labels, Queues
<1>2. ControlInv'
  BY <1>a, <1>b DEF IInv, TypeOK, ts_vars, chain_vars,
     ControlInv, TcLabels, QueuedLabels, EnterLabels, FinalLabels, DownLabels, WakeLabels
<1>3. ChainInv' /\ ContentInv' /\ QueueInv'
  BY <1>a, <1>b, TurnstilesKept DEF ts_vars, chain_vars, pi_vars, IInv, TypeOK
<1>4. WakeupInv'
  BY <1>a, <1>b
  DEF ts_vars, chain_vars, IInv, WakeupInv, TypeOK, WakeLabels, DownLabels, WQ
<1>5. HoldInv'
  <2>1. ASSUME NEW k \in Locks, k # l PROVE HoldOf(k)'
    BY <1>a, <1>b, <2>1, CardStep, OtherHoldKept DEF IInv, TypeOK, ts_vars
  <2>2. HoldOf(l)'
    <3>1. HoldOf(l) /\ w.rd = CardR(l) + Pending(l, "R") /\ w.rd \in Nat
      BY <1>a DEF IInv, HoldInv, HoldOf, CardR, Words
    <3>2. rw_wwwh'[l] = Grant(w, t, m) /\ \A u \in Threads : hold'[u][l] = IF u = t THEN m ELSE hold[u][l]
      BY <1>b DEF IInv, TypeOK
    <3>3. /\ Pending(l, "R")' = Pending(l, "R") /\ Pending(l, "W")' = Pending(l, "W")
          /\ wk' = wk
      BY <1>b, QueuedKept DEF ts_vars, chain_vars
    <3>4. CASE m = "R"
      <4>1. CardR(l)' = CardR(l) + 1
        BY <1>a, <1>b, <3>4, CardStep DEF IInv
      <4>2. ~w.wl
        BY <1>b, <3>4 DEF lock_busy, RW_WRITE_CLAIMED
      <4>3. LET v == rw_wwwh'[l] IN v.rd = w.rd + 1 /\ v.wr = w.wr /\ ~v.wl
        BY <1>a, <3>2, <3>4, <4>2, GrantWord
      <4> QED
        BY <1>a, <3>1, <3>2, <3>3, <3>4, <4>1, <4>2, <4>3, CardFacts,
           PendingFacts, DoubleLock
            DEF HoldOf, CardR
    <3>5. CASE m = "W"
      <4>1. CardR(l)' = CardR(l)
        BY <1>a, <1>b, <3>5, CardStep DEF IInv
      <4>2. w.rd = 0 /\ w.wr = NULL /\ ~w.wl
        BY <1>a, <1>b, <3>1, <3>5 DEF lock_busy, RW_LOCKED, Words, HoldOf
      <4>3. LET v == rw_wwwh'[l] IN v.rd = 0 /\ v.wr = t /\ v.wl
        BY <1>a, <3>2, <3>5, <4>2, GrantWord
      <4> QED
        BY <1>a, <3>1, <3>2, <3>3, <3>5, <4>1, <4>2, <4>3, CardFacts,
           PendingFacts, DoubleLock
            DEF HoldOf, CardR
    <3> QED BY <3>4, <3>5 DEF Queues
  <2> QED BY <2>1, <2>2 DEF HoldInv
<1>6. BitsInv'
  BY <1>a, <1>b, QueuedKept, SMTT(30)
  DEF Grant, ts_vars, chain_vars, IInv, TypeOK, Words, RW_LOCKED, 
     lock_busy, RW_WRITE_CLAIMED, BitsInv, BitsOf, Blocker, DownLabels
<1>7. HandInv'
  BY <1>a, <1>b DEF Grant, IInv, TypeOK, Words,
     lock_busy, RW_WRITE_CLAIMED, RW_LOCKED, HandInv, FinalLabels, DownLabels
<1>8. InheritInv'
  BY <1>a, <1>b
  DEF ts_vars, chain_vars, pi_vars, IInv, TypeOK, InheritInv, DownLabels
<1> QED BY <1>1, <1>2, <1>3, <1>4, <1>5, <1>6, <1>7, <1>8 DEF IInv

(* A step that only moves its thread on, and takes or drops the chain lock.*)
LEMMA MoveInv ==
    ASSUME IInv, NEW t \in Threads, NEW a, NEW b,
           pc[t] = a, pc' = [pc EXCEPT ![t] = b],
           \/ a = "enter" /\ b = "slow" /\ UNCHANGED tc_lock
           \/ a = "slow" /\ b = "look" /\ tc_lock = NULL /\ tc_lock' = t
           \/ a = "look" /\ b = "enter" /\ tc_lock = t /\ tc_lock' = NULL
           \/ a = "final" /\ b = "hand" /\ tc_lock = NULL /\ tc_lock' = t
           \/ a = "down" /\ b = "share" /\ tc_lock = NULL /\ tc_lock' = t,
           UNCHANGED <<rw_wwwh, hold, lk, rw, t_kpri_req>>, panicstr' \in BOOLEAN,
           UNCHANGED <<chain_vars, pi_vars, ts_sleepq, t_pri, pi_cur, wk>>
    PROVE  IInv'
<1> USE TurnstileAssumption
<1>1. TypeOK'
  <2>1. b \in Labels /\ tc_lock' \in Threads \cup {NULL}
    BY DEF IInv, TypeOK, TurnstileTypeOK, Labels
  <2>2. pc' \in [Threads -> Labels]
    BY <2>1 DEF IInv, TypeOK
  <2>3. TurnstileTypeOK'
    BY <2>1 DEF IInv, TypeOK, TurnstileTypeOK, chain_vars, pi_vars
  <2> QED BY <2>2, <2>3 DEF IInv, TypeOK
<1>2. ControlInv'
  BY DEF IInv, TypeOK, chain_vars, ControlInv,
         TcLabels, QueuedLabels, EnterLabels, FinalLabels, DownLabels, WakeLabels
<1>3. ChainInv' /\ ContentInv' /\ QueueInv'
  BY TurnstilesKept DEF chain_vars, pi_vars, IInv
<1>4. WakeupInv'
  BY DEF chain_vars, IInv, WakeupInv, TypeOK, WakeLabels, DownLabels, WQ
<1>5. HoldInv'
  BY SameHolds, OtherHoldKept DEF HoldInv
<1>6. BitsInv'
  BY QueuedKept DEF chain_vars, IInv, TypeOK, BitsInv, BitsOf, Blocker, DownLabels
<1>7. HandInv'
  BY DEF IInv, TypeOK, HandInv, FinalLabels, DownLabels
<1>8. InheritInv'
  BY DEF chain_vars, pi_vars, IInv, TypeOK, InheritInv, DownLabels
<1> QED BY <1>1, <1>2, <1>3, <1>4, <1>5, <1>6, <1>7, <1>8 DEF IInv

LEMMA EnterBusyInv == ASSUME IInv, NEW t \in Threads, EnterBusy(t) PROVE IInv'
BY MoveInv DEF EnterBusy, At, Goto, ts_vars

LEMMA EnterLookupInv == ASSUME IInv, NEW t \in Threads, EnterLookup(t) PROVE IInv'
<1>1. panicstr' \in BOOLEAN
  BY DEF EnterLookup, IInv, TypeOK
<1> QED BY <1>1, MoveInv DEF EnterLookup, turnstile_lookup, At, Goto

LEMMA EnterRetryInv == ASSUME IInv, NEW t \in Threads, EnterRetry(t) PROVE IInv'
<1>1. panicstr' \in BOOLEAN
  BY DEF EnterRetry, IInv, TypeOK
<1> QED BY <1>1, MoveInv DEF EnterRetry, turnstile_exit, At, Goto

LEMMA ExitLookupInv == ASSUME IInv, NEW t \in Threads, ExitLookup(t) PROVE IInv'
<1>1. panicstr' \in BOOLEAN
  BY DEF ExitLookup, IInv, TypeOK
<1> QED BY <1>1, MoveInv DEF ExitLookup, turnstile_lookup, At, Goto

LEMMA DowngradeLookupInv == ASSUME IInv, NEW t \in Threads, DowngradeLookup(t) PROVE IInv'
<1>1. panicstr' \in BOOLEAN
  BY DEF DowngradeLookup, IInv, TypeOK
<1> QED BY <1>1, MoveInv DEF DowngradeLookup, turnstile_lookup, At, Goto

LEMMA EnterWaitInv ==
    ASSUME IInv, NEW t \in Threads, EnterWait(t)
    PROVE  IInv'
<1> USE TurnstileAssumption
<1>0. PICK l \in Locks : lk[t] = l
  BY InOperation DEF EnterWait, At
<1>00. PICK m \in Queues : rw[t] = m
  BY DEF IInv, TypeOK
<1> DEFINE w == rw_wwwh[l]
           v == [w EXCEPT !.hw = TRUE, !.ww = @ \/ m = "W"]
<1>a. /\ w # RW_DOUBLE_LOCK /\ w \in Words
      /\ pc[t] = "look" /\ t_wchan[t] = NULL /\ hold[t][l] = "none"
  BY <1>0, InOperation
  DEF EnterWait, At, IInv, ControlInv, TypeOK, QueuedLabels, EnterLabels
<1>b. /\ pc' = [pc EXCEPT ![t] = "block"]
      /\ rw_wwwh' = [rw_wwwh EXCEPT ![l] = v]
      /\ lock_busy(w, m)
      /\ t_kpri_req' \in [Threads -> Int]
      /\ UNCHANGED <<lk, rw, hold, panicstr, ts_vars>>
  BY <1>0, <1>00 DEF EnterWait, SetWord, Goto, Kpri, IInv, TypeOK
<1>c. /\ v \in Words /\ v.rd = w.rd /\ v.wr = w.wr
  BY <1>a DEF Words
<1>d. (v.wl <=> w.wl) /\ v.hw /\ (v.ww <=> w.ww \/ m = "W")
  BY <1>a DEF Words
<1>e. rw_wwwh'[l] = v /\ \A k \in Locks \ {l} : rw_wwwh'[k] = rw_wwwh[k]
  BY <1>b DEF IInv, TypeOK
<1> HIDE DEF v
<1>1. TypeOK'
  BY <1>b, <1>c
  DEF IInv, TypeOK, TurnstileTypeOK, ts_vars, chain_vars, pi_vars, Labels
<1>2. ControlInv'
  BY <1>a, <1>b DEF IInv, TypeOK, ts_vars, chain_vars,
     ControlInv, TcLabels, QueuedLabels, EnterLabels, FinalLabels, DownLabels, WakeLabels
<1>3. ChainInv' /\ ContentInv' /\ QueueInv'
  BY <1>a, <1>b, TurnstilesKept DEF ts_vars, chain_vars, pi_vars, IInv, TypeOK
<1>4. WakeupInv'
  BY <1>a, <1>b
  DEF ts_vars, chain_vars, IInv, WakeupInv, TypeOK, WakeLabels, DownLabels, WQ
<1>5. HoldInv'
  <2>1. ASSUME NEW k \in Locks, k # l PROVE HoldOf(k)'
    BY <1>b, <1>e, <2>1, SameHolds, OtherHoldKept DEF ts_vars
  <2>2. HoldOf(l)'
    <3>1. HoldOf(l) /\ CardR(l)' = CardR(l) /\ wk' = wk
      BY <1>b, SameHolds DEF IInv, HoldInv, ts_vars
    <3>2. /\ Pending(l, "R")' = Pending(l, "R") /\ Pending(l, "W")' = Pending(l, "W")
      BY <1>b, QueuedKept DEF ts_vars, chain_vars
    <3>3. v # RW_DOUBLE_LOCK
      BY <1>d, DoubleLock
    <3> QED BY <1>a, <1>b, <1>c, <1>d, <1>e, <3>1, <3>2, <3>3 DEF HoldOf, CardR
  <2> QED BY <2>1, <2>2 DEF HoldInv
<1>6. BitsInv'
  <2>1. ASSUME NEW k \in Locks, k # l PROVE BitsOf(k)'
    BY <1>0, <1>a, <1>b, <1>e, <2>1, QueuedKept
    DEF ts_vars, chain_vars, IInv, TypeOK, 
       BitsInv, BitsOf, Blocker, DownLabels
  <2>2. BitsOf(l)'
    <3>1. BitsOf(l) /\ HoldOf(l)
      BY DEF IInv, BitsInv, HoldInv
    <3>2. (QueuedW(l)' <=> QueuedW(l)) /\ (QueuedR(l)' <=> QueuedR(l))
      BY <1>b, QueuedKept DEF ts_vars, chain_vars
    <3>3. Blocker(l, m)' /\ \A q \in Queues : q # m => (Blocker(l, q)' <=> Blocker(l, q))
      BY <1>0, <1>00, <1>a, <1>b DEF Blocker, IInv, TypeOK
    <3>4. RW_LOCKED(v)
      BY <1>a, <1>b, <1>c, <3>1
      DEF lock_busy, RW_LOCKED, RW_WRITE_CLAIMED, BitsOf, HoldOf
    <3>5. v.wl \/ v.ww
      BY <1>b, <1>d, <1>00 DEF lock_busy, RW_WRITE_CLAIMED, Queues
    <3>6. CASE m = "W"
      BY <3>1, <3>2, <3>3, <3>4, <3>5, <3>6, <1>d, <1>e DEF BitsOf, Queues
    <3>7. CASE m = "R"
      BY <3>1, <3>2, <3>3, <3>4, <3>5, <3>7, <1>d, <1>e DEF BitsOf, Queues
    <3> QED BY <3>6, <3>7 DEF Queues
  <2> QED BY <2>1, <2>2 DEF BitsInv
<1>7. HandInv'
  BY <1>a, <1>b, <1>c, <1>d, <1>e
  DEF IInv, TypeOK, HandInv, FinalLabels, DownLabels
<1>8. InheritInv'
  BY <1>a, <1>b
  DEF ts_vars, chain_vars, pi_vars, IInv, TypeOK, InheritInv, DownLabels
<1> QED BY <1>1, <1>2, <1>3, <1>4, <1>5, <1>6, <1>7, <1>8 DEF IInv

-----------------------------------------------------------------------------
(* The word tells a thread that holds a lock in which mode it does.        *)
LEMMA ModeOfHold ==
    ASSUME IInv, NEW t \in Threads, NEW l \in Locks, hold[t][l] # "none"
    PROVE  /\ hold[t][l] = lock_value(rw_wwwh[l])
           /\ rw_wwwh[l].wl => hold[t][l] = "W"
           /\ ~rw_wwwh[l].wl => hold[t][l] = "R"
<1>1. hold[t][l] \in {"R", "W"}
  BY DEF IInv, TypeOK
<1> QED BY <1>1, WriterFacts, ReaderFacts DEF lock_value

LEMMA ExitDropInv ==
    ASSUME IInv, NEW t \in Threads, NEW l \in Locks, ExitDrop(t, l)
    PROVE  IInv'
<1> USE TurnstileAssumption
<1> DEFINE w == rw_wwwh[l]
           m == lock_value(w)
           v == Drop(w, m)
<1>a. /\ w \in Words /\ pc[t] = "run" /\ t_wchan[t] = NULL /\ lk[t] = NULL
      /\ hold[t][l] = m /\ m \in Queues /\ (w.wl <=> m = "W")
  BY ModeOfHold
  DEF ExitDrop, At, IInv, ControlInv, TypeOK, QueuedLabels, lock_value, Queues
<1>b. /\ rw_wwwh' = [rw_wwwh EXCEPT ![l] = v]
      /\ hold' = [hold EXCEPT ![t][l] = "none"]
      /\ ~(v.hw /\ ~RW_LOCKED(v))
      /\ panicstr' \in BOOLEAN
      /\ t_kpri_req' \in [Threads -> Int]
      /\ UNCHANGED <<pc, lk, rw, ts_vars>>
  <2>1. t_kpri_req' \in [Threads -> Int]
    BY DEF ExitDrop, Kpri, IInv, TypeOK
  <2> QED BY <2>1 DEF ExitDrop, SetWord, SetHold, FinalExit, RwExitPanics
<1>c. /\ v \in Words /\ ~v.wl /\ v.wr = NULL
      /\ (v.ww <=> w.ww) /\ (v.hw <=> w.hw)
      /\ v.rd = IF m = "R" THEN w.rd - 1 ELSE 0
  <2>1. CASE m = "R"
    BY <2>1, <1>a, DropWord, ReaderFacts, SMTT(30)
  <2>2. CASE m = "W"
    BY <2>2, <1>a, DropWord, WriterFacts
  <2> QED BY <2>1, <2>2, <1>a DEF Queues
<1>e. rw_wwwh'[l] = v /\ \A k \in Locks \ {l} : rw_wwwh'[k] = rw_wwwh[k]
  BY <1>b DEF IInv, TypeOK
<1>f. \A u \in Threads, k \in Locks :
          hold'[u][k] = IF u = t /\ k = l THEN "none" ELSE hold[u][k]
  BY <1>b DEF IInv, TypeOK
<1> HIDE DEF v, m
<1>1. TypeOK'
  BY <1>b, <1>c DEF IInv, TypeOK, TurnstileTypeOK, ts_vars, chain_vars, pi_vars
<1>2. ControlInv'
  BY <1>a, <1>b, <1>f DEF IInv, TypeOK, ts_vars, chain_vars,
     ControlInv, TcLabels, QueuedLabels, EnterLabels, FinalLabels, DownLabels, WakeLabels
<1>3. ChainInv' /\ ContentInv' /\ QueueInv'
  BY <1>b, TurnstilesKept DEF ts_vars, chain_vars, pi_vars, IInv, TypeOK
<1>4. WakeupInv'
  BY <1>b DEF ts_vars, chain_vars, IInv, WakeupInv, WQ
<1>5. HoldInv'
  <2>1. ASSUME NEW k \in Locks, k # l PROVE HoldOf(k)'
    BY <1>b, <1>e, <1>f, <2>1, CardStep, OtherHoldKept DEF IInv, TypeOK, ts_vars
  <2>2. HoldOf(l)'
    <3>1. /\ Pending(l, "R")' = Pending(l, "R") /\ Pending(l, "W")' = Pending(l, "W")
      BY <1>b, QueuedKept DEF ts_vars, chain_vars
    <3>2. v # RW_DOUBLE_LOCK
      BY <1>c, DoubleLock
    <3>3. CASE m = "R"
      <4>1. CardR(l)' = CardR(l) - 1
        BY <1>a, <1>b, <3>3, CardStep DEF IInv
      <4> QED BY <1>a, <1>c, <1>e, <1>f, <3>1, <3>2, <3>3, <4>1, ReaderFacts
        DEF HoldOf, CardR
    <3>4. CASE m = "W"
      <4>1. CardR(l)' = CardR(l)
        BY <1>a, <1>b, <3>4, CardStep DEF IInv
      <4> QED BY <1>a, <1>c, <1>e, <1>f, <3>1, <3>2, <3>4, <4>1, WriterFacts
        DEF HoldOf, CardR
    <3> QED BY <1>a, <3>3, <3>4 DEF Queues
  <2> QED BY <2>1, <2>2 DEF HoldInv
<1>6. BitsInv'
  <2>1. ASSUME NEW k \in Locks, k # l PROVE BitsOf(k)'
    BY <1>b, <1>e, <2>1, QueuedKept
    DEF ts_vars, chain_vars, IInv, BitsInv, BitsOf, Blocker
  <2>2. BitsOf(l)'
    <3>1. /\ BitsOf(l) /\ (QueuedW(l)' <=> QueuedW(l)) /\ (QueuedR(l)' <=> QueuedR(l))
          /\ \A q \in Queues : Blocker(l, q)' <=> Blocker(l, q)
      BY <1>b, QueuedKept DEF ts_vars, chain_vars, IInv, BitsInv, Blocker
    <3>2. v.hw => ~w.wl
      <4>1. m = "W" => ~RW_LOCKED(v)
        BY <1>c DEF RW_LOCKED
      <4> QED BY <4>1, <1>a, <1>b
    <3> QED BY <1>b, <1>c, <1>e, <3>1, <3>2 DEF BitsOf, Queues
  <2> QED BY <2>1, <2>2 DEF BitsInv
<1>7. HandInv'
  <2>1. ASSUME NEW u \in Threads, pc[u] \in FinalLabels \cup DownLabels, lk[u] = l
        PROVE  pc[u] \in DownLabels /\ w.hw /\ v.hw
    <3>1. hold[u][l] # "none" /\ u # t /\ w.hw
      BY <2>1, <1>a
      DEF IInv, ControlInv, HandInv, TypeOK, FinalLabels, DownLabels, Queues
    <3>2. m = "R" /\ hold[u][l] = "R"
      BY <3>1, <1>a, WriterFacts, ModeOfHold DEF Queues
    <3>3. CardR(l) >= 2 /\ w.rd >= 2
      <4>1. CardR(l) >= 2
        BY <3>1, <3>2, <1>a, CardFacts
      <4> QED BY <4>1, <3>2, ReaderFacts
    <3>4. pc[u] \notin FinalLabels
      BY <2>1, <3>2, <3>3, <1>a DEF IInv, HandInv, ControlInv
    <3> QED BY <2>1, <3>1, <3>4, <1>c
  <2>2. ASSUME NEW u \in Threads, pc[u] \in FinalLabels \cup DownLabels
        PROVE  lk[u] \in Locks
    BY <2>2, InOperation DEF FinalLabels, DownLabels
  <2> QED BY <2>1, <2>2, <1>b, <1>e DEF IInv, HandInv, FinalLabels, DownLabels
<1>8. InheritInv'
  <2>1. m = "W" => tc_chain[l] = NULL
    <3>1. m = "W" => ~w.hw
      BY <1>b, <1>c DEF RW_LOCKED
    <3> QED BY <3>1, <1>a, WriterFacts
  <2> QED BY <1>a, <1>b, <1>f, <2>1
    DEF ts_vars, chain_vars, pi_vars, IInv, TypeOK, TurnstileTypeOK, 
        InheritInv, DownLabels, Queues
<1> QED BY <1>1, <1>2, <1>3, <1>4, <1>5, <1>6, <1>7, <1>8 DEF IInv

LEMMA ExitFinalInv ==
    ASSUME IInv, NEW t \in Threads, NEW l \in Locks, ExitFinal(t, l)
    PROVE  IInv'
<1> USE TurnstileAssumption
<1> DEFINE w == rw_wwwh[l]
           m == lock_value(w)
           v == Drop(w, m)
<1>a. /\ w \in Words /\ pc[t] = "run" /\ t_wchan[t] = NULL /\ lk[t] = NULL
      /\ hold[t][l] = m /\ m \in Queues /\ (w.wl <=> m = "W")
  BY ModeOfHold
  DEF ExitFinal, At, IInv, ControlInv, TypeOK, QueuedLabels, lock_value, Queues
<1>b. /\ pc' = [pc EXCEPT ![t] = "final"] /\ lk' = [lk EXCEPT ![t] = l]
      /\ rw' = [rw EXCEPT ![t] = m]
      /\ v.hw /\ ~RW_LOCKED(v)
      /\ panicstr' \in BOOLEAN
      /\ UNCHANGED <<rw_wwwh, hold, t_kpri_req, ts_vars>>
  BY DEF ExitFinal, Begin, Goto, FinalExit, RwExitPanics
<1>c. w.hw /\ (m = "R" => w.rd = 1 /\ w.ww)
  <2>1. CASE m = "W"
    BY <2>1, <1>a, <1>b, DropWord
  <2>2. CASE m = "R"
    <3>1. w.hw /\ w.rd <= 1
      BY <2>2, <1>a, <1>b, DropWord DEF RW_LOCKED, Words
    <3>2. CardR(l) = 1 /\ w.rd = 1 /\ ~w.wl
      BY <2>2, <3>1, <1>a, ReaderFacts
    <3>3. ASSUME NEW d \in Threads, pc[d] \in DownLabels, lk[d] = l PROVE FALSE
      <4>1. hold[d][l] = "R" /\ d # t
        BY <3>3, <1>a DEF IInv, ControlInv, DownLabels
      <4>2. CardR(l) >= 2
        BY <4>1, <2>2, <1>a, CardFacts
      <4> QED BY <4>2, <3>2
    <3>4. w.ww
      BY <3>1, <3>2, <3>3 DEF IInv, BitsInv, BitsOf
    <3> QED BY <3>1, <3>2, <3>4
  <2> QED BY <2>1, <2>2, <1>a DEF Queues
<1>d. w # RW_DOUBLE_LOCK
  BY <1>c, DoubleLock
<1> HIDE DEF v, m
<1>1. TypeOK'
  BY <1>a, <1>b
  DEF IInv, TypeOK, TurnstileTypeOK, ts_vars, chain_vars, pi_vars, Labels
<1>2. ControlInv'
  BY <1>a, <1>b DEF IInv, TypeOK, ts_vars, chain_vars,
     ControlInv, TcLabels, QueuedLabels, EnterLabels, FinalLabels, DownLabels, WakeLabels
<1>3. ChainInv' /\ ContentInv' /\ QueueInv'
  BY <1>a, <1>b, TurnstilesKept DEF ts_vars, chain_vars, pi_vars, IInv, TypeOK
<1>4. WakeupInv'
  BY <1>a, <1>b
  DEF ts_vars, chain_vars, IInv, TypeOK, WakeupInv, WQ, WakeLabels, DownLabels
<1>5. HoldInv'
  <2>1. ASSUME NEW k \in Locks, k # l PROVE HoldOf(k)'
    BY <1>b, <2>1, SameHolds, OtherHoldKept DEF IInv, TypeOK, ts_vars
  <2>2. HoldOf(l)'
    BY <1>b, <1>d, SameHolds, QueuedKept
    DEF IInv, HoldInv, HoldOf, CardR, ts_vars, chain_vars
  <2> QED BY <2>1, <2>2 DEF HoldInv
<1>6. BitsInv'
  BY <1>a, <1>b, QueuedKept
  DEF ts_vars, chain_vars, IInv, TypeOK, BitsInv, BitsOf, Blocker, 
     DownLabels
<1>7. HandInv'
  BY <1>a, <1>b, <1>c DEF IInv, TypeOK, HandInv, FinalLabels, DownLabels
<1>8. InheritInv'
  BY <1>a, <1>b
  DEF ts_vars, chain_vars, pi_vars, IInv, TypeOK, InheritInv, DownLabels
<1> QED BY <1>1, <1>2, <1>3, <1>4, <1>5, <1>6, <1>7, <1>8 DEF IInv

LEMMA WakeDoneInv ==
    ASSUME IInv, NEW t \in Threads, WakeDone(t)
    PROVE  IInv'
<1> USE TurnstileAssumption
<1>a. /\ pc[t] = "wake" /\ tc_lock = t /\ wk.n = 0 /\ t_wchan[t] = NULL
      /\ \A u \in Threads \ {t} : pc[u] \notin TcLabels
  BY
  DEF WakeDone, At, turnstile_wakeup_done, IInv, ControlInv, QueuedLabels,
      TcLabels
<1>b. /\ pc' = [pc EXCEPT ![t] = "run"] /\ lk' = [lk EXCEPT ![t] = NULL]
      /\ rw' = [rw EXCEPT ![t] = "R"] /\ tc_lock' = NULL /\ wk' = NoWakeup
      /\ panicstr' \in BOOLEAN /\ t_kpri_req' \in [Threads -> Int]
      /\ UNCHANGED <<rw_wwwh, hold, chain_vars, pi_vars, ts_sleepq, t_pri, pi_cur>>
  <2>1. t_kpri_req' \in [Threads -> Int]
    BY DEF WakeDone, Kpri, IInv, TypeOK
  <2> QED BY <2>1 DEF WakeDone, turnstile_wakeup_done, Return, Begin, Goto
<1>c. \A l \in Locks, q \in Queues : Pending(l, q) = 0 /\ Pending(l, q)' = 0
  BY <1>a, <1>b DEF Pending, NoWakeup
<1>1. TypeOK'
  <2>1. TurnstileTypeOK'
    BY <1>b
    DEF IInv, TypeOK, TurnstileTypeOK, chain_vars, pi_vars, NoWakeup, Queues
  <2> QED BY <1>b, <2>1 DEF IInv, TypeOK, Labels, Queues
<1>2. ControlInv'
  BY <1>a, <1>b DEF IInv, TypeOK, chain_vars,
     ControlInv, TcLabels, QueuedLabels, EnterLabels, FinalLabels, DownLabels, WakeLabels
<1>3. ChainInv' /\ ContentInv' /\ QueueInv'
  BY <1>a, <1>b, TurnstilesKept DEF chain_vars, pi_vars, IInv, TypeOK
<1>4. WakeupInv'
  BY <1>a, <1>b DEF IInv, TypeOK, WakeupInv, NoWakeup, TcLabels
<1>5. HoldInv'
  <2>1. ASSUME NEW k \in Locks PROVE HoldOf(k)'
    <3>1. Unused(k) => Unused(k)'
      BY <1>b DEF Unused, IInv, TypeOK
    <3>2. /\ Pending(k, "R") = 0 /\ Pending(k, "R")' = 0
          /\ Pending(k, "W") = 0 /\ Pending(k, "W")' = 0
      BY <1>c DEF Queues
    <3>3. HoldOf(k) /\ CardR(k)' = CardR(k) /\ hold' = hold /\ rw_wwwh' = rw_wwwh
      BY <1>b, SameHolds DEF IInv, HoldInv
    <3> QED BY <3>1, <3>2, <3>3 DEF HoldOf, CardR
  <2> QED BY <2>1 DEF HoldInv
<1>6. BitsInv'
  <2>1. ASSUME NEW k \in Locks PROVE BitsOf(k)'
    <3>1. (QueuedW(k)' <=> QueuedW(k)) /\ (QueuedR(k)' <=> QueuedR(k))
      BY <1>b, <1>c DEF chain_vars, QueuedW, QueuedR, WQ, RQ, Queues
    <3>2. BitsOf(k) /\ \A q \in Queues : Blocker(k, q)' <=> Blocker(k, q)
      BY <1>a, <1>b DEF IInv, TypeOK, BitsInv, Blocker
    <3> QED BY <1>a, <1>b, <3>1, <3>2 DEF BitsOf, DownLabels, Queues, IInv, TypeOK
  <2> QED BY <2>1 DEF BitsInv
<1>7. HandInv'
  BY <1>a, <1>b DEF IInv, TypeOK, HandInv, FinalLabels, DownLabels
<1>8. InheritInv'
  BY <1>a, <1>b DEF chain_vars, pi_vars, IInv, TypeOK, InheritInv, DownLabels
<1> QED BY <1>1, <1>2, <1>3, <1>4, <1>5, <1>6, <1>7, <1>8 DEF IInv
-----------------------------------------------------------------------------
LEMMA rw_tryenterInv ==
    ASSUME IInv, NEW t \in Threads, NEW l \in Locks, NEW m \in Queues,
           rw_tryenter(t, l, m)
    PROVE  IInv'
<1> USE TurnstileAssumption
<1> DEFINE w == rw_wwwh[l]
           v == Grant(w, t, m)
<1>a. /\ w \in Words /\ pc[t] = "run" /\ t_wchan[t] = NULL /\ lk[t] = NULL
      /\ hold[t][l] = "none"
  BY DEF rw_tryenter, At, IInv, ControlInv, TypeOK, QueuedLabels
<1>b. /\ rw_wwwh' = [rw_wwwh EXCEPT ![l] = v]
      /\ hold' = [hold EXCEPT ![t][l] = m]
      /\ t_kpri_req' \in [Threads -> Int]
      /\ UNCHANGED <<pc, lk, rw, panicstr, ts_vars>>
  <2>1. t_kpri_req' \in [Threads -> Int]
    BY DEF rw_tryenter, Kpri, IInv, TypeOK
  <2> QED BY <2>1 DEF rw_tryenter, SetWord, SetHold
<1>c. ~w.wl /\ ~w.ww /\ (m = "W" => w = Unheld)
  BY DoubleLock DEF rw_tryenter, RW_WRITE_CLAIMED, Queues
<1>d. /\ v \in Words /\ (v.ww <=> w.ww) /\ (v.hw <=> w.hw)
      /\ m = "R" => ~v.wl /\ v.wr = w.wr /\ v.rd = w.rd + 1
      /\ m = "W" => v.wl /\ v.wr = t /\ v.rd = 0
  <2>1. CASE m = "R"
    BY <2>1, <1>a, <1>c, GrantWord
  <2>2. CASE m = "W"
    BY <2>2, <1>a, <1>c, GrantWord, DoubleLock
  <2> QED BY <2>1, <2>2, <1>a DEF Queues
<1>e. rw_wwwh'[l] = v /\ \A k \in Locks \ {l} : rw_wwwh'[k] = rw_wwwh[k]
  BY <1>b DEF IInv, TypeOK
<1>f. \A u \in Threads, k \in Locks :
          hold'[u][k] = IF u = t /\ k = l THEN m ELSE hold[u][k]
  BY <1>b DEF IInv, TypeOK
<1> HIDE DEF v
<1>1. TypeOK'
  BY <1>b, <1>d
  DEF IInv, TypeOK, TurnstileTypeOK, ts_vars, chain_vars, pi_vars, Queues
<1>2. ControlInv'
  BY <1>a, <1>b, <1>f DEF IInv, TypeOK, ts_vars, chain_vars,
     ControlInv, TcLabels, QueuedLabels, EnterLabels, FinalLabels, DownLabels, WakeLabels
<1>3. ChainInv' /\ ContentInv' /\ QueueInv'
  BY <1>b, TurnstilesKept DEF ts_vars, chain_vars, pi_vars, IInv, TypeOK
<1>4. WakeupInv'
  BY <1>b DEF ts_vars, chain_vars, IInv, WakeupInv, WQ
<1>5. HoldInv'
  <2>1. ASSUME NEW k \in Locks, k # l PROVE HoldOf(k)'
    BY <1>b, <1>e, <1>f, <2>1, CardStep, OtherHoldKept, ZenonT(60)
    DEF IInv, TypeOK, ts_vars
  <2>2. HoldOf(l)'
    <3>1. /\ Pending(l, "R")' = Pending(l, "R") /\ Pending(l, "W")' = Pending(l, "W")
          /\ wk' = wk
      BY <1>b, QueuedKept DEF ts_vars, chain_vars
    <3>2. w # RW_DOUBLE_LOCK /\ HoldOf(l)
      BY <1>c, DoubleLock DEF IInv, HoldInv
    <3>3. w.rd = CardR(l) + Pending(l, "R") /\ w.rd \in Nat
      BY <1>a, <3>2 DEF HoldOf, CardR, Words
    <3>4. CASE m = "R"
      <4>1. CardR(l)' = CardR(l) + 1
        BY <1>a, <1>b, <3>4, CardStep DEF IInv
      <4>2. v # RW_DOUBLE_LOCK
        BY <1>d, <3>4, DoubleLock
      <4> QED
        BY <1>c, <1>d, <1>e, <1>f, <3>1, <3>2, <3>3, <3>4, <4>1, <4>2, CardFacts,
           PendingFacts
            DEF HoldOf, CardR
    <3>5. CASE m = "W"
      <4>1. CardR(l)' = CardR(l)
        BY <1>a, <1>b, <3>5, CardStep DEF IInv
      <4>2. v # RW_DOUBLE_LOCK /\ w.rd = 0
        BY <1>c, <1>d, <3>5, DoubleLock
      <4> QED
        BY <1>c, <1>d, <1>e, <1>f, <3>1, <3>2, <3>3, <3>5, <4>1, <4>2, CardFacts,
           PendingFacts
            DEF HoldOf, CardR
    <3> QED BY <3>4, <3>5 DEF Queues
  <2> QED BY <2>1, <2>2 DEF HoldInv
<1>6. BitsInv'
  <2>1. ASSUME NEW k \in Locks, k # l PROVE BitsOf(k)'
    BY <1>b, <1>e, <2>1, QueuedKept
    DEF ts_vars, chain_vars, IInv, BitsInv, BitsOf, Blocker
  <2>2. BitsOf(l)'
    <3>1. /\ BitsOf(l) /\ (QueuedW(l)' <=> QueuedW(l)) /\ (QueuedR(l)' <=> QueuedR(l))
          /\ \A q \in Queues : Blocker(l, q)' <=> Blocker(l, q)
      BY <1>b, QueuedKept DEF ts_vars, chain_vars, IInv, BitsInv, Blocker
    <3>2. CASE m = "R"
      <4>1. RW_LOCKED(v)
        BY <1>a, <1>d, <3>2 DEF RW_LOCKED, Words
      <4> QED BY <1>b, <1>c, <1>d, <1>e, <3>1, <3>2, <4>1 DEF BitsOf, Queues
    <3>3. CASE m = "W"
      <4>1. ~w.hw
        BY <1>c, <3>3, DoubleLock
      <4> QED BY <1>b, <1>c, <1>d, <1>e, <3>1, <4>1 DEF BitsOf, Queues
    <3> QED BY <3>2, <3>3 DEF Queues
  <2> QED BY <2>1, <2>2 DEF BitsInv
<1>7. HandInv'
  <2>1. m = "W" => ~w.hw
    BY <1>c, DoubleLock
  <2> QED BY <1>b, <1>c, <1>d, <1>e, <2>1 DEF IInv, HandInv, TypeOK, Queues
<1>8. InheritInv'
  BY <1>a, <1>b, <1>f
  DEF ts_vars, chain_vars, pi_vars, IInv, TypeOK, TurnstileTypeOK, 
        InheritInv
<1> QED BY <1>1, <1>2, <1>3, <1>4, <1>5, <1>6, <1>7, <1>8 DEF IInv

LEMMA rw_downgradeInv ==
    ASSUME IInv, NEW t \in Threads, NEW l \in Locks, rw_downgrade(t, l)
    PROVE  IInv'
<1> USE TurnstileAssumption
<1> DEFINE w == rw_wwwh[l]
           v == [w EXCEPT !.rd = 1, !.wr = NULL, !.wl = FALSE]
<1>a. /\ w \in Words /\ pc[t] = "run" /\ t_wchan[t] = NULL /\ lk[t] = NULL
      /\ hold[t][l] = "W" /\ w.hw \in BOOLEAN
  BY DEF rw_downgrade, At, IInv, ControlInv, TypeOK, QueuedLabels, Words
<1>b. /\ rw_wwwh' = [rw_wwwh EXCEPT ![l] = v]
      /\ hold' = [hold EXCEPT ![t][l] = "R"]
      /\ t_kpri_req' \in [Threads -> Int]
      /\ panicstr' \in BOOLEAN
      /\ UNCHANGED ts_vars
      /\ w.hw => /\ pc' = [pc EXCEPT ![t] = "down"] /\ lk' = [lk EXCEPT ![t] = l]
                 /\ rw' = [rw EXCEPT ![t] = "W"]
      /\ ~w.hw => UNCHANGED <<pc, lk, rw>>
  <2>1. t_kpri_req' \in [Threads -> Int]
    BY DEF rw_downgrade, Kpri, IInv, TypeOK
  <2> QED BY <2>1 DEF rw_downgrade, SetWord, SetHold, Begin, Goto
<1>c. /\ v \in Words /\ v.rd = 1 /\ v.wr = NULL
  BY <1>a DEF Words
<1>d. ~v.wl /\ (v.ww <=> w.ww) /\ (v.hw <=> w.hw)
  BY <1>a DEF Words
<1>e. rw_wwwh'[l] = v /\ \A k \in Locks \ {l} : rw_wwwh'[k] = rw_wwwh[k]
  BY <1>b DEF IInv, TypeOK
<1>f. \A u \in Threads, k \in Locks :
          hold'[u][k] = IF u = t /\ k = l THEN "R" ELSE hold[u][k]
  BY <1>b DEF IInv, TypeOK
<1>g. /\ CardR(l) = 0 /\ Pending(l, "R") = 0 /\ Pending(l, "W") = 0
      /\ \A u \in Threads : u # t => hold[u][l] = "none"
      /\ ~w.hw => tc_chain[l] = NULL
  BY <1>a, WriterFacts
<1>h. \A u \in Threads : u # t => pc'[u] = pc[u] /\ lk'[u] = lk[u] /\ rw'[u] = rw[u]
  BY <1>a, <1>b DEF IInv, TypeOK
<1>i. /\ w.hw => pc'[t] = "down" /\ lk'[t] = l /\ rw'[t] = "W"
      /\ ~w.hw => pc'[t] = "run" /\ lk'[t] = NULL /\ rw'[t] = rw[t]
  BY <1>a, <1>b DEF IInv, TypeOK
<1>j. ASSUME NEW u \in Threads, pc[u] \in FinalLabels \cup DownLabels PROVE lk[u] # l
  BY <1>j, <1>a, <1>g
  DEF IInv, ControlInv, FinalLabels, DownLabels, TypeOK, Queues
<1> HIDE DEF v
<1>1. TypeOK'
  <2>1. /\ pc' \in [Threads -> Labels] /\ lk' \in [Threads -> Locks \cup {NULL}]
        /\ rw' \in [Threads -> Queues]
    <3>1. CASE w.hw
      BY <3>1, <1>b, SMTT(30) DEF IInv, TypeOK, Labels, Queues
    <3>2. CASE ~w.hw
      BY <3>2, <1>b DEF IInv, TypeOK
    <3> QED BY <3>1, <3>2
  <2>2. TurnstileTypeOK'
    BY <1>b DEF IInv, TypeOK, TurnstileTypeOK, ts_vars, chain_vars, pi_vars
  <2> QED BY <1>b, <1>c, <2>1, <2>2 DEF IInv, TypeOK
<1>2. ControlInv'
  BY <1>a, <1>b, <1>f, <1>h, <1>i DEF IInv, TypeOK, ts_vars, chain_vars,
     ControlInv, TcLabels, QueuedLabels, EnterLabels, FinalLabels, DownLabels, WakeLabels
<1>3. ChainInv' /\ ContentInv' /\ QueueInv'
  BY <1>a, <1>b, <1>h, TurnstilesKept DEF ts_vars, chain_vars, pi_vars, IInv
<1>4. WakeupInv'
  <2>1. wk.n > 0 => wk.sobj # l
    BY <1>g DEF IInv, TypeOK, TurnstileTypeOK, Pending, Queues
  <2> QED BY <1>a, <1>b, <1>h, <1>i, <2>1
    DEF ts_vars, chain_vars, IInv, WakeupInv, WQ, 
             WakeLabels, DownLabels
<1>5. HoldInv'
  <2>1. ASSUME NEW k \in Locks, k # l PROVE HoldOf(k)'
    <3>1. CardR(k)' = CardR(k) /\ rw_wwwh'[k] = rw_wwwh[k] /\ UNCHANGED wk
      BY <1>b, <1>e, <2>1, CardStep DEF IInv, ts_vars
    <3>2. \A u \in Threads : hold'[u][k] = hold[u][k] /\ (lk'[u] = k => lk[u] = k)
      BY <1>a, <1>f, <1>h, <1>i, <2>1
    <3> QED BY <3>1, <3>2, OtherHoldKept
  <2>2. HoldOf(l)'
    <3>1. /\ Pending(l, "R")' = 0 /\ Pending(l, "W")' = 0
      BY <1>b, <1>g, QueuedKept DEF ts_vars, chain_vars
    <3>2. CardR(l)' = 1
      <4>1. CardR(l)' = CardR(l) + 1
        BY <1>a, <1>b, CardStep DEF IInv
      <4> QED BY <4>1, <1>g
    <3>3. v # RW_DOUBLE_LOCK
      BY <1>d, DoubleLock
    <3> QED BY <1>c, <1>d, <1>e, <1>f, <1>g, <3>1, <3>2, <3>3 DEF HoldOf, CardR
  <2> QED BY <2>1, <2>2 DEF HoldInv
<1>6. BitsInv'
  <2>0. \A k \in Locks, q \in Queues : Blocker(k, q)' <=> Blocker(k, q)
    BY <1>a, <1>h, <1>i DEF Blocker
  <2>1. ASSUME NEW k \in Locks PROVE BitsOf(k)'
    <3>1. /\ BitsOf(k) /\ (QueuedW(k)' <=> QueuedW(k)) /\ (QueuedR(k)' <=> QueuedR(k))
      BY <1>b, QueuedKept DEF ts_vars, chain_vars, IInv, BitsInv
    <3>2. ASSUME NEW d \in Threads, pc[d] \in DownLabels, lk[d] = k
          PROVE  pc'[d] \in DownLabels /\ lk'[d] = k
      BY <3>2, <1>a, <1>h DEF DownLabels
    <3>3. CASE k # l
      BY <1>e, <2>0, <3>1, <3>2, <3>3 DEF BitsOf, Queues
    <3>4. CASE k = l
      <4>1. RW_LOCKED(v)
        BY <1>c DEF RW_LOCKED
      <4>2. v.hw => pc'[t] \in DownLabels /\ lk'[t] = l
        BY <1>d, <1>i DEF DownLabels
      <4> QED BY <1>d, <1>e, <2>0, <3>1, <3>4, <4>1, <4>2 DEF BitsOf, Queues
    <3> QED BY <3>3, <3>4
  <2> QED BY <2>1 DEF BitsInv
<1>7. HandInv'
  <2>1. ASSUME NEW u \in Threads, u # t, pc'[u] \in FinalLabels \cup DownLabels
        PROVE  lk'[u] \in Locks \ {l} /\ rw_wwwh'[lk'[u]] = rw_wwwh[lk[u]]
    BY <2>1, <1>e, <1>h, <1>j, InOperation DEF FinalLabels, DownLabels
  <2>2. ASSUME NEW u \in Threads, u # t, pc'[u] \in FinalLabels \cup DownLabels
        PROVE  /\ rw_wwwh'[lk'[u]].hw
               /\ pc'[u] \in FinalLabels /\ rw'[u] = "R" =>
                     rw_wwwh'[lk'[u]].rd = 1 /\ rw_wwwh'[lk'[u]].ww
    BY <2>1, <2>2, <1>h DEF IInv, HandInv
  <2>3. pc'[t] \in FinalLabels \cup DownLabels =>
           pc'[t] \notin FinalLabels /\ lk'[t] = l /\ rw_wwwh'[l].hw
    BY <1>a, <1>d, <1>e, <1>i DEF FinalLabels, DownLabels
  <2>4. ASSUME NEW d \in Threads, NEW e \in Threads,
               pc'[d] \in DownLabels, pc'[e] \in DownLabels, lk'[d] = lk'[e]
        PROVE  d = e
    BY <2>1, <2>3, <2>4, <1>h DEF IInv, HandInv
  <2> QED BY <2>2, <2>3, <2>4 DEF HandInv
<1>8. InheritInv'
  <2>1. SUFFICES ASSUME NEW k \in Locks, tc_chain'[k] # NULL, ts_inheritor'[tc_chain'[k]] # NULL
                 PROVE  LET i == ts_inheritor'[tc_chain'[k]] IN
                        \/ hold'[i][k] = "W"
                        \/ lk'[i] = k /\ pc'[i] \in DownLabels \cup {"waive"}
    BY DEF InheritInv
  <2> DEFINE i == ts_inheritor[tc_chain[k]]
  <2>2. tc_chain[k] # NULL /\ i # NULL /\ i = ts_inheritor'[tc_chain'[k]] /\ i \in Threads
    BY <2>1, <1>b DEF ts_vars, chain_vars, pi_vars, IInv, TypeOK, TurnstileTypeOK
  <2>3. \/ hold[i][k] = "W"
        \/ lk[i] = k /\ pc[i] \in DownLabels \cup {"waive"}
    BY <2>2 DEF IInv, InheritInv
  <2>4. CASE i = t
    BY <2>2, <2>3, <2>4, <1>a, <1>b, <1>f, <1>g, <1>i DEF DownLabels
  <2>5. CASE i # t
    BY <2>2, <2>3, <2>5, <1>f, <1>h
  <2> QED BY <2>2, <2>4, <2>5
<1> QED BY <1>1, <1>2, <1>3, <1>4, <1>5, <1>6, <1>7, <1>8 DEF IInv

LEMMA rw_tryupgradeInv ==
    ASSUME IInv, NEW t \in Threads, NEW l \in Locks, rw_tryupgrade(t, l)
    PROVE  IInv'
<1> USE TurnstileAssumption
<1> DEFINE w == rw_wwwh[l]
           v == Grant(Drop(w, "R"), t, "W")
<1>a. /\ w \in Words /\ pc[t] = "run" /\ t_wchan[t] = NULL /\ lk[t] = NULL
      /\ hold[t][l] = "R"
  BY DEF rw_tryupgrade, At, IInv, ControlInv, TypeOK, QueuedLabels
<1>b. /\ rw_wwwh' = [rw_wwwh EXCEPT ![l] = v]
      /\ hold' = [hold EXCEPT ![t][l] = "W"]
      /\ t_kpri_req' \in [Threads -> Int]
      /\ UNCHANGED <<pc, lk, rw, panicstr, ts_vars>>
  <2>1. t_kpri_req' \in [Threads -> Int]
    BY DEF rw_tryupgrade, Kpri, IInv, TypeOK
  <2> QED BY <2>1 DEF rw_tryupgrade, SetWord, SetHold
<1>c. w.rd = 1 /\ ~w.ww
  <2> DEFINE x == [w EXCEPT !.hw = FALSE]
             y == [Unheld EXCEPT !.rd = 1]
  <2>1. x.rd = w.rd /\ (x.ww <=> w.ww)
    BY <1>a DEF Words
  <2>2. y.rd = 1 /\ ~y.ww
    BY DEF Unheld
  <2>3. x = y
    BY DEF rw_tryupgrade
  <2> HIDE DEF x, y
  <2> QED BY <2>1, <2>2, <2>3
<1>d. /\ w # RW_DOUBLE_LOCK /\ ~w.wl /\ CardR(l) = 1 /\ Pending(l, "R") = 0
      /\ Pending(l, "W") = 0 /\ \A u \in Threads : hold[u][l] # "W"
  BY <1>a, <1>c, ReaderFacts
<1>e. \A u \in Threads : u # t => hold[u][l] = "none"
  <2>1. \A u \in Threads : u # t => hold[u][l] # "R"
    <3>1. ASSUME NEW u \in Threads, u # t, hold[u][l] = "R" PROVE CardR(l) >= 2
      BY <1>a, <3>1, CardFacts
    <3> QED BY <3>1, <1>d
  <2> QED BY <1>d, <2>1 DEF IInv, TypeOK
<1>f. ASSUME NEW u \in Threads, pc[u] \in FinalLabels \cup DownLabels PROVE lk[u] # l
  BY <1>f, <1>a, <1>e
  DEF IInv, ControlInv, FinalLabels, DownLabels, TypeOK, Queues
<1>g. ~w.hw
  BY <1>c, <1>d, <1>f DEF IInv, BitsInv, BitsOf
<1>h. v \in Words /\ v.rd = 0 /\ v.wr = t /\ v.wl /\ ~v.ww /\ ~v.hw
  <2> DEFINE x == Drop(w, "R")
  <2>1. x \in Words /\ x.rd = 0 /\ ~x.ww /\ ~x.hw
    BY <1>a, <1>c, <1>g, DropWord
  <2> HIDE DEF x
  <2> QED BY <2>1, GrantWord DEF x
<1>i. rw_wwwh'[l] = v /\ \A k \in Locks \ {l} : rw_wwwh'[k] = rw_wwwh[k]
  BY <1>b DEF IInv, TypeOK
<1>j. \A u \in Threads, k \in Locks :
          hold'[u][k] = IF u = t /\ k = l THEN "W" ELSE hold[u][k]
  BY <1>b DEF IInv, TypeOK
<1> HIDE DEF v
<1>1. TypeOK'
  BY <1>b, <1>h
  DEF IInv, TypeOK, TurnstileTypeOK, ts_vars, chain_vars, pi_vars, Queues
<1>2. ControlInv'
  BY <1>a, <1>b, <1>j DEF IInv, TypeOK, ts_vars, chain_vars,
     ControlInv, TcLabels, QueuedLabels, EnterLabels, FinalLabels, DownLabels, WakeLabels
<1>3. ChainInv' /\ ContentInv' /\ QueueInv'
  BY <1>b, TurnstilesKept DEF ts_vars, chain_vars, pi_vars, IInv, TypeOK
<1>4. WakeupInv'
  BY <1>b DEF ts_vars, chain_vars, IInv, WakeupInv, WQ
<1>5. HoldInv'
  <2>1. ASSUME NEW k \in Locks, k # l PROVE HoldOf(k)'
    <3>1. CardR(k)' = CardR(k) /\ rw_wwwh'[k] = rw_wwwh[k] /\ UNCHANGED <<wk, lk>>
      BY <1>b, <1>i, <2>1, CardStep DEF IInv, ts_vars
    <3>2. \A u \in Threads : hold'[u][k] = hold[u][k]
      BY <1>j, <2>1
    <3> QED BY <3>1, <3>2, OtherHoldKept
  <2>2. HoldOf(l)'
    <3>1. /\ Pending(l, "R")' = 0 /\ Pending(l, "W")' = 0
      BY <1>b, <1>d, QueuedKept DEF ts_vars, chain_vars
    <3>2. CardR(l)' = 0
      <4>1. CardR(l)' = CardR(l) - 1
        BY <1>a, <1>b, CardStep DEF IInv
      <4> QED BY <4>1, <1>d
    <3>3. v # RW_DOUBLE_LOCK
      BY <1>h, DoubleLock
    <3> QED BY <1>e, <1>h, <1>i, <1>j, <3>1, <3>2, <3>3 DEF HoldOf, CardR
  <2> QED BY <2>1, <2>2 DEF HoldInv
<1>6. BitsInv'
  <2>1. ASSUME NEW k \in Locks PROVE BitsOf(k)'
    <3>1. /\ BitsOf(k) /\ (QueuedW(k)' <=> QueuedW(k)) /\ (QueuedR(k)' <=> QueuedR(k))
          /\ \A q \in Queues : Blocker(k, q)' <=> Blocker(k, q)
      BY <1>b, QueuedKept DEF ts_vars, chain_vars, IInv, BitsInv, Blocker
    <3>2. CASE k # l
      BY <1>b, <1>i, <3>1, <3>2 DEF BitsOf, Queues
    <3>3. CASE k = l
      BY <1>c, <1>g, <1>h, <1>i, <3>1, <3>3 DEF BitsOf, Queues
    <3> QED BY <3>2, <3>3
  <2> QED BY <2>1 DEF BitsInv
<1>7. HandInv'
  <2>1. ASSUME NEW u \in Threads, pc[u] \in FinalLabels \cup DownLabels
        PROVE  rw_wwwh'[lk[u]] = rw_wwwh[lk[u]]
    BY <2>1, <1>f, <1>i, InOperation DEF FinalLabels, DownLabels
  <2> QED BY <2>1, <1>b DEF IInv, HandInv
<1>8. InheritInv'
  BY <1>a, <1>b, <1>j
  DEF ts_vars, chain_vars, pi_vars, IInv, TypeOK, TurnstileTypeOK, 
        InheritInv
<1> QED BY <1>1, <1>2, <1>3, <1>4, <1>5, <1>6, <1>7, <1>8 DEF IInv

(* rw_destroy and rw_init: of a lock that nobody uses.                     *)
LEMMA UnusedFacts ==
    ASSUME IInv, NEW l \in Locks, Unused(l)
    PROVE  /\ CardR(l) = 0 /\ Pending(l, "R") = 0 /\ Pending(l, "W") = 0
           /\ ~rw_wwwh[l].hw /\ ~rw_wwwh[l].ww
<1> DEFINE w == rw_wwwh[l]
<1>1. Pending(l, "R") = 0 /\ Pending(l, "W") = 0
  BY PendingFacts
<1>2. \A t \in Threads : hold[t][l] # "R" /\ hold[t][l] # "W"
  BY DEF Unused
<1>3. CardR(l) = 0
  BY <1>2, CardFacts
<1>4. ~w.hw /\ ~w.ww
  <2>1. CASE w = RW_DOUBLE_LOCK
    BY <2>1, DoubleLock
  <2>2. CASE w # RW_DOUBLE_LOCK
    <3>1. w.rd = 0 /\ w.wr \in Threads \cup {NULL}
      BY <2>2, <1>1, <1>3 DEF IInv, HoldInv, HoldOf, CardR, TypeOK, Words
    <3>2. ~w.wl /\ w.wr = NULL
      BY <2>2, <1>1, <1>2, <3>1 DEF IInv, HoldInv, HoldOf
    <3>3. ~w.hw
      BY <3>1, <3>2 DEF IInv, BitsInv, BitsOf, RW_LOCKED
    <3> QED BY <3>3 DEF IInv, BitsInv, BitsOf
  <2> QED BY <2>1, <2>2
<1> QED BY <1>1, <1>3, <1>4

LEMMA DestroyInitInv ==
    ASSUME IInv, NEW l \in Locks, Unused(l), NEW v \in {Unheld, RW_DOUBLE_LOCK},
           rw_wwwh' = [rw_wwwh EXCEPT ![l] = v], panicstr' \in BOOLEAN,
           UNCHANGED <<hold, pc, lk, rw, t_kpri_req, ts_vars>>
    PROVE  IInv'
<1> USE TurnstileAssumption
<1>a. /\ CardR(l) = 0 /\ Pending(l, "R") = 0 /\ Pending(l, "W") = 0
      /\ ~rw_wwwh[l].hw /\ ~rw_wwwh[l].ww
  BY UnusedFacts
<1>b. v \in Words /\ ~v.hw /\ ~v.ww /\ v.wr = NULL
  BY DoubleLock
<1>c. rw_wwwh'[l] = v /\ \A k \in Locks \ {l} : rw_wwwh'[k] = rw_wwwh[k]
  BY DEF IInv, TypeOK
<1>1. TypeOK'
  BY <1>b DEF IInv, TypeOK, TurnstileTypeOK, ts_vars, chain_vars, pi_vars
<1>2. ControlInv'
  BY DEF IInv, ts_vars, chain_vars, ControlInv
<1>3. ChainInv' /\ ContentInv' /\ QueueInv'
  BY TurnstilesKept DEF ts_vars, chain_vars, pi_vars, IInv
<1>4. WakeupInv'
  BY DEF ts_vars, chain_vars, IInv, WakeupInv, WQ
<1>5. HoldInv'
  <2>1. ASSUME NEW k \in Locks, k # l PROVE HoldOf(k)'
    BY <1>c, <2>1, SameHolds, OtherHoldKept DEF ts_vars
  <2>2. HoldOf(l)'
    <3>1. /\ Pending(l, "R")' = 0 /\ Pending(l, "W")' = 0 /\ CardR(l)' = 0
      BY <1>a, QueuedKept, SameHolds DEF ts_vars, chain_vars
    <3>2. Unused(l)' /\ \A t \in Threads : hold'[t][l] = "none"
      BY DEF Unused
    <3> QED BY <1>c, <3>1, <3>2, DoubleLock DEF HoldOf, CardR
  <2> QED BY <2>1, <2>2 DEF HoldInv
<1>6. BitsInv'
  <2>1. ASSUME NEW k \in Locks PROVE BitsOf(k)'
    <3>1. /\ BitsOf(k) /\ (QueuedW(k)' <=> QueuedW(k)) /\ (QueuedR(k)' <=> QueuedR(k))
          /\ \A q \in Queues : Blocker(k, q)' <=> Blocker(k, q)
      BY QueuedKept DEF ts_vars, chain_vars, IInv, BitsInv, Blocker
    <3>2. CASE k # l
      BY <1>c, <3>1, <3>2 DEF BitsOf, Queues
    <3>3. CASE k = l
      BY <1>a, <1>b, <1>c, <3>1, <3>3 DEF BitsOf, Queues
    <3> QED BY <3>2, <3>3
  <2> QED BY <2>1 DEF BitsInv
<1>7. HandInv'
  <2>1. ASSUME NEW u \in Threads, pc[u] \in FinalLabels \cup DownLabels
        PROVE  rw_wwwh'[lk[u]] = rw_wwwh[lk[u]]
    BY <2>1, <1>c, InOperation DEF FinalLabels, DownLabels, Unused
  <2> QED BY <2>1 DEF IInv, HandInv
<1>8. InheritInv'
  BY DEF ts_vars, chain_vars, pi_vars, IInv, InheritInv
<1> QED BY <1>1, <1>2, <1>3, <1>4, <1>5, <1>6, <1>7, <1>8 DEF IInv

LEMMA rw_destroyInv == ASSUME IInv, NEW l \in Locks, rw_destroy(l) PROVE IInv'
BY DestroyInitInv DEF rw_destroy, SetWord

LEMMA rw_initInv == ASSUME IInv, NEW l \in Locks, rw_init(l) PROVE IInv'
<1>1. Unused(l) /\ panicstr' \in BOOLEAN
  BY DEF rw_init, IInv, HoldInv, HoldOf, TypeOK
<1> QED BY <1>1, DestroyInitInv DEF rw_init, SetWord

-----------------------------------------------------------------------------
(* A change of priority may move one sleeping thread in its queue; the     *)
(* lengths and the members of the queues are what the invariant is about.  *)
LEMMA RequeueKept ==
    ASSUME IInv, NEW x, Requeued(x, ts_sleepq'),
           UNCHANGED <<tc_chain, ts_free, ts_waiters, t_ts, t_wchan, rw>>,
           \A ts \in Turnstiles : ~Active(ts) => ts_inheritor'[ts] = NULL
    PROVE  /\ ChainInv' /\ ContentInv' /\ QueueInv'
           /\ \A l \in Locks : tc_chain[l] # NULL =>
                 /\ Len(WQ(l))' = Len(WQ(l)) /\ Len(RQ(l))' = Len(RQ(l))
<1>1. ChainInv'
  BY DEF IInv, ChainInv, Active
<1>2. ContentInv'
  BY DEF IInv, ContentInv, Active, Requeued, Queues
<1>3. QueueInv'
  BY SMTT(30) DEF IInv, QueueInv, Requeued, TypeOK, TurnstileTypeOK
<1>4. \A l \in Locks : tc_chain[l] # NULL => tc_chain[l] \in Turnstiles
  BY DEF IInv, TypeOK, TurnstileTypeOK
<1>5. \A l \in Locks : tc_chain[l] # NULL =>
                 /\ Len(WQ(l))' = Len(WQ(l)) /\ Len(RQ(l))' = Len(RQ(l))
  BY <1>4 DEF Requeued, WQ, RQ, Queues
<1> QED BY <1>1, <1>2, <1>3, <1>5

LEMMA RequeueBits ==
    ASSUME IInv, UNCHANGED <<tc_chain, wk>>,
           \A l \in Locks : tc_chain[l] # NULL =>
                 /\ Len(WQ(l))' = Len(WQ(l)) /\ Len(RQ(l))' = Len(RQ(l)),
           NEW l \in Locks
    PROVE  (QueuedW(l)' <=> QueuedW(l)) /\ (QueuedR(l)' <=> QueuedR(l))
BY DEF QueuedW, QueuedR, Pending

LEMMA NoDupAll == IInv => AllNoDup /\ TurnstileTypeOK
BY DEF IInv, QueueInv, AllNoDup, TypeOK

LEMMA AsleepQueued ==
    ASSUME IInv, NEW t \in Threads, t_wchan[t] # NULL
    PROVE  \E q \in Queues : t \in Elems(ts_sleepq[t_ts[t]][q])
BY DEF IInv, QueueInv, TypeOK

LEMMA ChangePriInv ==
    ASSUME IInv, NEW t \in Threads, NEW p \in Priorities, ChangePri(t, p)
    PROVE  IInv'
<1> USE TurnstileAssumption
<1>a. /\ t_wchan[t] # NULL => tc_lock = NULL
      /\ t_pri' = [t_pri EXCEPT ![t] = p]
      /\ UNCHANGED <<rw_vars, tc_lock, chain_vars, pi_vars, pi_cur, wk>>
  BY DEF ChangePri, thread_change_pri
<1>b. Requeued(t, ts_sleepq') /\ (t_wchan[t] = NULL => ts_sleepq' = ts_sleepq)
  <2>1. CASE t_wchan[t] = NULL
    <3>1. ts_sleepq' = ts_sleepq
      BY <2>1 DEF ChangePri, thread_change_pri
    <3> QED BY <2>1, <3>1, NotRequeued, NoDupAll
  <2>2. CASE t_wchan[t] # NULL
    <3>1. PICK prio : ts_sleepq' = turnstile_change_pri(t, prio)
      BY <2>2 DEF ChangePri, thread_change_pri
    <3> QED BY <2>2, <3>1, ChangePriRequeues, NoDupAll, AsleepQueued
  <2> QED BY <2>1, <2>2
<1>c. wk.n = 0 \/ ts_sleepq' = ts_sleepq
  <2>1. CASE t_wchan[t] = NULL
    BY <2>1, <1>b
  <2>2. CASE t_wchan[t] # NULL
    <3>1. \A u \in Threads : pc[u] \notin TcLabels
      BY <2>2, <1>a DEF IInv, ControlInv
    <3> QED BY <3>1 DEF IInv, WakeupInv, TcLabels, WakeLabels
  <2> QED BY <2>1, <2>2
<1>d. UNCHANGED <<rw_wwwh, hold, pc, lk, rw, t_kpri_req, panicstr>>
  BY <1>a DEF rw_vars
<1>1. TypeOK'
  <2>1. t_pri' \in [Threads -> Priorities] /\ ts_sleepq' \in [Turnstiles -> [Queues -> Seq(Threads)]]
    BY <1>a, <1>b DEF IInv, TypeOK, TurnstileTypeOK, Requeued
  <2>2. TurnstileTypeOK'
    BY <2>1, <1>a DEF IInv, TypeOK, TurnstileTypeOK, chain_vars, pi_vars
  <2> QED BY <2>2, <1>d DEF IInv, TypeOK
<1>2. ControlInv'
  BY <1>a, <1>d DEF IInv, chain_vars, ControlInv
<1>3. /\ ChainInv' /\ ContentInv' /\ QueueInv'
      /\ \A l \in Locks : tc_chain[l] # NULL =>
                 /\ Len(WQ(l))' = Len(WQ(l)) /\ Len(RQ(l))' = Len(RQ(l))
  <2>1. \A ts \in Turnstiles : ~Active(ts) => ts_inheritor'[ts] = NULL
    BY <1>a DEF IInv, ContentInv, pi_vars
  <2> QED BY <1>a, <1>b, <1>d, <2>1, RequeueKept DEF chain_vars
<1>4. WakeupInv'
  BY <1>a, <1>c, <1>d DEF chain_vars, IInv, WakeupInv, WQ
<1>5. HoldInv'
  BY <1>a, <1>d, SameHolds, OtherHoldKept DEF HoldInv
<1>6. BitsInv'
  <2>1. ASSUME NEW k \in Locks PROVE BitsOf(k)'
    <3>1. BitsOf(k) /\ (QueuedW(k)' <=> QueuedW(k)) /\ (QueuedR(k)' <=> QueuedR(k))
      BY <1>a, <1>3, RequeueBits DEF chain_vars, IInv, BitsInv
    <3> QED BY <1>d, <3>1 DEF BitsOf, Blocker
  <2> QED BY <2>1 DEF BitsInv
<1>7. HandInv'
  BY <1>d DEF IInv, HandInv
<1>8. InheritInv'
  BY <1>a, <1>d DEF chain_vars, pi_vars, IInv, InheritInv
<1> QED BY <1>1, <1>2, <1>3, <1>4, <1>5, <1>6, <1>7, <1>8 DEF IInv

(* thread_change_epri, whoever calls it.                                   *)
LEMMA ChangeEpriRequeues ==
    ASSUME IInv, NEW i \in Threads, NEW e \in Inheritable, thread_change_epri(i, e)
    PROVE  /\ Requeued(i, ts_sleepq') /\ (t_wchan[i] = NULL => ts_sleepq' = ts_sleepq)
           /\ t_epri' \in [Threads -> Inheritable]
<1>1. t_epri' \in [Threads -> Inheritable]
  BY DEF thread_change_epri, IInv, TypeOK, TurnstileTypeOK, Inheritable
<1>2. CASE t_wchan[i] = NULL
  <2>1. ts_sleepq' = ts_sleepq
    BY <1>2 DEF thread_change_epri
  <2> QED BY <1>1, <2>1, NotRequeued, NoDupAll
<1>3. CASE t_wchan[i] # NULL
  <2>1. PICK prio : ts_sleepq' = turnstile_change_pri(i, prio)
    BY <1>3 DEF thread_change_epri
  <2> QED BY <1>1, <1>3, <2>1, ChangePriRequeues, NoDupAll, AsleepQueued
<1> QED BY <1>2, <1>3

(* turnstile_pi_inherit, whoever calls it.                                 *)
LEMMA PiInherit ==
    ASSUME IInv, NEW ts \in Turnstiles, NEW i \in Threads, NEW e \in Inheritable,
           NEW pri, turnstile_pi_inherit(pri, ts, i, e)
    PROVE  /\ ts_epri' \in [Turnstiles -> Inheritable]
           /\ t_prioinv' \in [Threads -> SUBSET Turnstiles]
           /\ ts_inheritor' \in [Turnstiles -> Threads \cup {NULL}]
           /\ \A x \in Turnstiles : ts_inheritor'[x] = ts_inheritor[x]
                                    \/ (x = ts /\ ts_inheritor'[x] = i)
           /\ ~Inverted(pri, i, e) => UNCHANGED ts_inheritor
<1>0. /\ ts_epri \in [Turnstiles -> Inheritable]
      /\ t_prioinv \in [Threads -> SUBSET Turnstiles]
      /\ ts_inheritor \in [Turnstiles -> Threads \cup {NULL}]
  BY DEF IInv, TypeOK, TurnstileTypeOK, Inheritable
<1>1. CASE ~Inverted(pri, i, e)
  BY <1>0, <1>1 DEF turnstile_pi_inherit
<1>2. CASE Inverted(pri, i, e) /\ ts_inheritor[ts] = NULL
  BY <1>0, <1>2 DEF turnstile_pi_inherit
<1>3. CASE Inverted(pri, i, e) /\ ts_inheritor[ts] # NULL
  BY <1>0, <1>3 DEF turnstile_pi_inherit
<1> QED BY <1>1, <1>2, <1>3

LEMMA EnterWillInv ==
    ASSUME IInv, NEW t \in Threads, EnterWill(t)
    PROVE  IInv'
<1> USE TurnstileAssumption
<1>0. PICK l \in Locks : t_wchan[pi_cur] = l
  BY DEF EnterWill, At, IInv, ControlInv
<1>00. PICK c \in Threads : pi_cur = c
  BY DEF EnterWill, At, IInv, ControlInv
<1>01. PICK owner \in Threads \cup {NULL} : owner = rw_owner(l)
  BY DEF rw_owner, IInv, TypeOK, Words
<1>02. PICK e \in Priorities : e = DISP_PRIO[c]
  BY NoDupAll, DispPrioType
<1>03. PICK ends \in BOOLEAN : ends <=> PiWalkEnds(owner)
  OBVIOUS
<1> DEFINE ts == t_ts[c]
<1>a. /\ pc[t] = "pi" /\ tc_lock = t
      /\ \A u \in Threads \ {t} : pc[u] \notin TcLabels
      /\ wk.sobj = NULL /\ wk.n = 0
      /\ \A k \in Locks, q \in Queues : Pending(k, q) = 0
  <2>1. pc[t] = "pi"
    BY DEF EnterWill, At
  <2>2. pc[t] \in TcLabels \ WakeLabels
    BY <2>1 DEF TcLabels, WakeLabels
  <2> QED BY <2>1, <2>2, Quiet
<1>b. ts \in Turnstiles /\ tc_chain[l] = ts /\ lk[c] = l
  <2>1. ts \in Turnstiles /\ t_wchan[c] = l /\ l # NULL
    BY <1>0, <1>00 DEF IInv, TypeOK, TurnstileTypeOK
  <2>2. tc_chain[l] = ts
    BY <2>1 DEF IInv, ChainInv
  <2>3. lk[c] = l
    BY <2>1 DEF IInv, ControlInv
  <2> QED BY <2>1, <2>2, <2>3
<1>c. owner # NULL => hold[owner][l] = "W"
  <2>1. rw_wwwh[l] # RW_DOUBLE_LOCK
    BY <1>b DEF IInv, HoldInv, HoldOf, Unused
  <2>2. Pending(l, "W") = 0
    BY <1>a DEF Queues
  <2> QED BY <1>01, <2>1, <2>2 DEF rw_owner, IInv, HoldInv, HoldOf
<1>d. /\ pc' = [pc EXCEPT ![t] = IF ends THEN "sleep" ELSE "pi"]
      /\ panicstr' \in BOOLEAN
      /\ pi_cur' = IF ends THEN NULL ELSE owner
      /\ tc_lock' = IF ends THEN NULL ELSE t
      /\ ~ends => owner # NULL /\ t_wchan[owner] # NULL
      /\ UNCHANGED <<rw_wwwh, hold, lk, rw, t_kpri_req, chain_vars, t_pri, wk>>
  BY <1>0, <1>00, <1>01, <1>03 DEF EnterWill, turnstile_block_pi, Goto, PiWalkEnds
<1>e. /\ Requeued(owner, ts_sleepq')
      /\ t_epri' \in [Threads -> Inheritable]
  <2>1. CASE owner = NULL \/ ~RaisesPrio(t_pri, owner, e)
    <3>1. UNCHANGED <<t_epri, ts_sleepq>>
      BY <2>1, <1>0, <1>00, <1>01, <1>02
      DEF EnterWill, turnstile_block_pi, pi_vars
    <3> QED BY <3>1, NotRequeued, NoDupAll
      DEF IInv, TypeOK, TurnstileTypeOK, Inheritable
  <2>2. CASE owner # NULL /\ RaisesPrio(t_pri, owner, e)
    <3>1. thread_change_epri(owner, e)
      BY <2>2, <1>0, <1>00, <1>01, <1>02 DEF EnterWill, turnstile_block_pi
    <3> QED BY <2>2, <3>1, <1>02, ChangeEpriRequeues DEF Inheritable
  <2> QED BY <2>1, <2>2
<1>f. /\ ts_epri' \in [Turnstiles -> Inheritable]
      /\ t_prioinv' \in [Threads -> SUBSET Turnstiles]
      /\ ts_inheritor' \in [Turnstiles -> Threads \cup {NULL}]
      /\ \A x \in Turnstiles : ts_inheritor'[x] = ts_inheritor[x]
                               \/ (x = ts /\ ts_inheritor'[x] = owner /\ owner # NULL)
  <2>1. CASE owner = NULL
    <3>1. UNCHANGED pi_vars
      BY <2>1, <1>0, <1>00, <1>01 DEF EnterWill, turnstile_block_pi
    <3> QED BY <3>1 DEF IInv, TypeOK, TurnstileTypeOK, pi_vars, Inheritable
  <2>2. CASE owner # NULL
    <3>1. turnstile_pi_inherit(t_pri, ts, owner, e)
      BY <2>2, <1>0, <1>00, <1>01, <1>02 DEF EnterWill, turnstile_block_pi
    <3> HIDE DEF ts
    <3> QED BY <2>2, <3>1, <1>b, <1>02, PiInherit DEF Inheritable
  <2> QED BY <2>1, <2>2
<1>1. TypeOK'
  <2>1. pc' \in [Threads -> Labels]
    BY <1>d DEF IInv, TypeOK, Labels
  <2>2. /\ tc_lock' \in Threads \cup {NULL} /\ pi_cur' \in Threads \cup {NULL}
        /\ ts_sleepq' \in [Turnstiles -> [Queues -> Seq(Threads)]]
    BY <1>d, <1>e DEF Requeued
  <2>3. TurnstileTypeOK'
    BY <2>2, <1>d, <1>e, <1>f
    DEF IInv, TypeOK, TurnstileTypeOK, chain_vars, Inheritable
  <2> QED BY <2>1, <2>3, <1>d DEF IInv, TypeOK
<1>2. ControlInv'
  <2>1. ~ends => pi_cur' \in Threads /\ t_wchan'[pi_cur'] \in Locks
    BY <1>d DEF IInv, TypeOK, TurnstileTypeOK, chain_vars
  <2>2. CASE ends
    BY <1>a, <1>d, <2>2 DEF IInv, TypeOK, chain_vars,
     ControlInv, TcLabels, QueuedLabels, EnterLabels, FinalLabels, DownLabels, WakeLabels
  <2>3. CASE ~ends
    BY <1>a, <1>d, <2>1, <2>3 DEF IInv, TypeOK, chain_vars,
     ControlInv, TcLabels, QueuedLabels, EnterLabels, FinalLabels, DownLabels, WakeLabels
  <2> QED BY <2>2, <2>3
<1>3. /\ ChainInv' /\ ContentInv' /\ QueueInv'
      /\ \A k \in Locks : tc_chain[k] # NULL =>
                 /\ Len(WQ(k))' = Len(WQ(k)) /\ Len(RQ(k))' = Len(RQ(k))
  <2>1. \A x \in Turnstiles : ~Active(x) => ts_inheritor'[x] = NULL
    BY <1>b, <1>f DEF IInv, ContentInv, Active
  <2> QED BY <1>d, <1>e, <2>1, RequeueKept DEF chain_vars
<1>4. WakeupInv'
  BY <1>a, <1>d DEF IInv, TypeOK, WakeupInv, WakeLabels, TcLabels, chain_vars
<1>5. HoldInv'
  BY <1>d, SameHolds, OtherHoldKept DEF HoldInv
<1>6. BitsInv'
  <2>0. \A u \in Threads : (pc'[u] = "block" <=> pc[u] = "block")
                           /\ (pc'[u] \in DownLabels <=> pc[u] \in DownLabels)
    BY <1>a, <1>d DEF IInv, TypeOK, DownLabels
  <2>1. ASSUME NEW k \in Locks PROVE BitsOf(k)'
    <3>1. BitsOf(k) /\ (QueuedW(k)' <=> QueuedW(k)) /\ (QueuedR(k)' <=> QueuedR(k))
      BY <1>d, <1>3, RequeueBits DEF chain_vars, IInv, BitsInv
    <3> QED BY <1>d, <2>0, <3>1 DEF BitsOf, Blocker
  <2> QED BY <2>1 DEF BitsInv
<1>7. HandInv'
  BY <1>a, <1>d DEF IInv, TypeOK, HandInv, FinalLabels, DownLabels
<1>8. InheritInv'
  <2>1. SUFFICES ASSUME NEW k \in Locks, tc_chain[k] # NULL, ts_inheritor'[tc_chain[k]] # NULL
                 PROVE  LET i == ts_inheritor'[tc_chain[k]] IN
                        \/ hold[i][k] = "W"
                        \/ lk[i] = k /\ pc'[i] \in DownLabels \cup {"waive"}
    BY <1>d DEF InheritInv, chain_vars
  <2>2. tc_chain[k] \in Turnstiles
    BY <2>1 DEF IInv, TypeOK, TurnstileTypeOK
  <2>3. CASE ts_inheritor'[tc_chain[k]] = ts_inheritor[tc_chain[k]]
    <3>1. PICK i \in Threads : i = ts_inheritor[tc_chain[k]]
      BY <2>1, <2>2, <2>3 DEF IInv, TypeOK, TurnstileTypeOK
    <3>2. hold[i][k] = "W" \/ (lk[i] = k /\ pc[i] \in DownLabels \cup {"waive"})
      BY <2>1, <2>3, <3>1 DEF IInv, InheritInv
    <3>3. pc[i] \in DownLabels \cup {"waive"} => pc'[i] = pc[i]
      BY <1>a, <1>d DEF IInv, TypeOK, DownLabels
    <3> QED BY <2>3, <3>1, <3>2, <3>3
  <2>4. CASE tc_chain[k] = ts /\ ts_inheritor'[tc_chain[k]] = owner /\ owner # NULL
    <3>1. k = l
      BY <2>1, <2>4, <1>b DEF IInv, ChainInv
    <3> QED BY <2>4, <3>1, <1>c
  <2> QED BY <1>f, <2>2, <2>3, <2>4
<1> QED BY <1>1, <1>2, <1>3, <1>4, <1>5, <1>6, <1>7, <1>8 DEF IInv

(* The thread that waives is not in the queue that is about to be woken.   *)
LEMMA WakeWaiveInv ==
    ASSUME IInv, NEW t \in Threads, WakeWaive(t)
    PROVE  IInv'
<1> USE TurnstileAssumption
<1>0. PICK l \in Locks : wk.sobj = l /\ lk[t] = l /\ tc_chain[l] # NULL
  BY InOperation DEF WakeWaive, At, IInv, ControlInv, WakeupInv, WakeLabels
<1>00. PICK ts \in Turnstiles : ts = tc_chain[l]
  BY <1>0 DEF IInv, TypeOK, TurnstileTypeOK
<1>a. /\ pc[t] = "waive" /\ tc_lock = t /\ t_wchan[t] = NULL
      /\ \A u \in Threads \ {t} : pc[u] \notin TcLabels
  BY
  DEF WakeWaive, At, turnstile_wakeup_waive, IInv, ControlInv, QueuedLabels,
      TcLabels
<1>b. /\ pc' = [pc EXCEPT ![t] = "wake"]
      /\ UNCHANGED <<rw_wwwh, hold, lk, rw, t_kpri_req, panicstr>>
      /\ UNCHANGED <<tc_lock, chain_vars, t_pri, pi_cur, wk>>
  BY DEF WakeWaive, turnstile_wakeup_waive, Goto
<1>c. /\ ts_sleepq'[ts] = ts_sleepq[ts]
      /\ \E x : Requeued(x, ts_sleepq')
      /\ t_epri' \in [Threads -> Inheritable]
      /\ ts_epri' \in [Turnstiles -> Inheritable]
      /\ t_prioinv' \in [Threads -> SUBSET Turnstiles]
      /\ ts_inheritor' = [ts_inheritor EXCEPT ![ts] = NULL]
  <2>1. CASE ts_inheritor[ts] = NULL
    <3>1. UNCHANGED <<pi_vars, ts_sleepq>>
      BY <2>1, <1>0, <1>00 DEF WakeWaive, turnstile_wakeup_waive
    <3>2. ts_inheritor' = [ts_inheritor EXCEPT ![ts] = NULL]
      BY <2>1, <3>1 DEF pi_vars, IInv, TypeOK, TurnstileTypeOK
    <3>3. Requeued(t, ts_sleepq')
      BY <3>1, NotRequeued, NoDupAll
    <3> QED BY <3>1, <3>2, <3>3
      DEF pi_vars, IInv, TypeOK, TurnstileTypeOK, Inheritable
  <2>2. CASE ts_inheritor[ts] # NULL
    <3>0. PICK i \in Threads : i = ts_inheritor[ts]
      BY <2>2 DEF IInv, TypeOK, TurnstileTypeOK
    <3>1. turnstile_pi_waive(ts)
      BY <2>2, <1>0, <1>00 DEF WakeWaive, turnstile_wakeup_waive
    <3> DEFINE rest == t_prioinv[i] \ {ts}
               S == {0} \cup {ts_epri[x] : x \in rest}
    <3>2. MaxOf(S) \in Inheritable
      <4>1. rest \in SUBSET Turnstiles
        BY DEF IInv, TypeOK, TurnstileTypeOK
      <4>2. S \in SUBSET Inheritable /\ S # {}
        BY <4>1 DEF IInv, TypeOK, TurnstileTypeOK, Inheritable
      <4> HIDE DEF S
      <4> QED BY <4>2, MaxOfType
    <3>3. /\ t_prioinv' = [t_prioinv EXCEPT ![i] = rest]
          /\ ts_inheritor' = [ts_inheritor EXCEPT ![ts] = NULL]
          /\ ts_epri' = [ts_epri EXCEPT ![ts] = 0]
          /\ \/ thread_change_epri(i, MaxOf(S))
             \/ UNCHANGED <<t_epri, ts_sleepq>>
      BY <3>0, <3>1 DEF turnstile_pi_waive
    <3> HIDE DEF S
    <3>4. /\ t_prioinv' \in [Threads -> SUBSET Turnstiles]
          /\ ts_epri' \in [Turnstiles -> Inheritable]
      BY <3>3 DEF IInv, TypeOK, TurnstileTypeOK, Inheritable
    <3>5. t_wchan[i] # NULL => t_ts[i] # ts
      <4>1. hold[i][l] = "W" \/ (lk[i] = l /\ pc[i] \in DownLabels \cup {"waive"})
        BY <1>0, <1>00, <2>2, <3>0 DEF IInv, InheritInv
      <4>2. SUFFICES ASSUME t_wchan[i] # NULL, t_ts[i] = ts PROVE FALSE
        OBVIOUS
      <4>3. hold[i][l] = "none" /\ pc[i] \in QueuedLabels
        BY <4>2, <1>00, SleepsOn
      <4> QED BY <4>1, <4>3 DEF QueuedLabels, DownLabels
    <3>6. CASE thread_change_epri(i, MaxOf(S))
      <4>1. /\ Requeued(i, ts_sleepq') /\ (t_wchan[i] = NULL => ts_sleepq' = ts_sleepq)
            /\ t_epri' \in [Threads -> Inheritable]
        BY <3>2, <3>6, ChangeEpriRequeues
      <4>2. ts_sleepq'[ts] = ts_sleepq[ts]
        BY <4>1, <3>5 DEF Requeued
      <4> QED BY <3>3, <3>4, <4>1, <4>2
    <3>7. CASE UNCHANGED <<t_epri, ts_sleepq>>
      <4>1. Requeued(i, ts_sleepq') /\ t_epri' \in [Threads -> Inheritable]
        BY <3>7, NotRequeued, NoDupAll
        DEF IInv, TypeOK, TurnstileTypeOK, Inheritable
      <4> QED BY <3>3, <3>4, <3>7, <4>1
    <3> QED BY <3>3, <3>6, <3>7
  <2> QED BY <2>1, <2>2
<1>1. TypeOK'
  <2>1. pc' \in [Threads -> Labels]
    BY <1>b DEF IInv, TypeOK, Labels
  <2>2. /\ ts_inheritor' \in [Turnstiles -> Threads \cup {NULL}]
        /\ ts_sleepq' \in [Turnstiles -> [Queues -> Seq(Threads)]]
    BY <1>c DEF Requeued, IInv, TypeOK, TurnstileTypeOK
  <2>3. TurnstileTypeOK'
    BY <2>2, <1>b, <1>c DEF IInv, TypeOK, TurnstileTypeOK, chain_vars, Inheritable
  <2> QED BY <2>1, <2>3, <1>b DEF IInv, TypeOK
<1>2. ControlInv'
  BY <1>a, <1>b DEF IInv, TypeOK, chain_vars,
     ControlInv, TcLabels, QueuedLabels, EnterLabels, FinalLabels, DownLabels, WakeLabels
<1>3. /\ ChainInv' /\ ContentInv' /\ QueueInv'
      /\ \A k \in Locks : tc_chain[k] # NULL =>
                 /\ Len(WQ(k))' = Len(WQ(k)) /\ Len(RQ(k))' = Len(RQ(k))
  <2>1. \A x \in Turnstiles : ~Active(x) => ts_inheritor'[x] = NULL
    BY <1>c DEF IInv, ContentInv, TypeOK, TurnstileTypeOK
  <2> QED BY <1>b, <1>c, <2>1, RequeueKept DEF chain_vars
<1>4. WakeupInv'
  <2>1. wk' = wk /\ tc_chain' = tc_chain /\ WQ(l)' = WQ(l)
        /\ ts_sleepq'[tc_chain[l]] = ts_sleepq[tc_chain[l]]
    BY <1>b, <1>c, <1>00 DEF chain_vars, WQ
  <2>2. \A u \in Threads : (pc'[u] \in WakeLabels <=> pc[u] \in WakeLabels)
                           /\ (pc'[u] \in DownLabels <=> pc[u] \in DownLabels)
                           /\ (pc'[u] = "waive" => pc[u] = "waive") /\ lk'[u] = lk[u]
    BY <1>a, <1>b DEF IInv, TypeOK, WakeLabels, DownLabels
  <2> QED BY <1>0, <2>1, <2>2 DEF IInv, WakeupInv
<1>5. HoldInv'
  BY <1>b, SameHolds, OtherHoldKept DEF HoldInv
<1>6. BitsInv'
  <2>0. \A u \in Threads : (pc'[u] = "block" <=> pc[u] = "block")
                           /\ (pc'[u] \in DownLabels <=> pc[u] \in DownLabels)
    BY <1>a, <1>b DEF IInv, TypeOK, DownLabels
  <2>1. ASSUME NEW k \in Locks PROVE BitsOf(k)'
    <3>1. BitsOf(k) /\ (QueuedW(k)' <=> QueuedW(k)) /\ (QueuedR(k)' <=> QueuedR(k))
      BY <1>b, <1>3, RequeueBits DEF chain_vars, IInv, BitsInv
    <3> QED BY <1>b, <2>0, <3>1 DEF BitsOf, Blocker
  <2> QED BY <2>1 DEF BitsInv
<1>7. HandInv'
  BY <1>a, <1>b DEF IInv, TypeOK, HandInv, FinalLabels, DownLabels
<1>8. InheritInv'
  <2>1. SUFFICES ASSUME NEW k \in Locks, tc_chain[k] # NULL, ts_inheritor'[tc_chain[k]] # NULL
                 PROVE  LET i == ts_inheritor'[tc_chain[k]] IN
                        \/ hold[i][k] = "W"
                        \/ lk[i] = k /\ pc'[i] \in DownLabels \cup {"waive"}
    BY <1>b DEF InheritInv, chain_vars
  <2>2. tc_chain[k] \in Turnstiles \ {ts} /\ k # l
    BY <2>1, <1>c, <1>00 DEF IInv, TypeOK, TurnstileTypeOK
  <2>3. PICK i \in Threads : i = ts_inheritor[tc_chain[k]] /\ i = ts_inheritor'[tc_chain[k]]
    BY <2>1, <2>2, <1>c DEF IInv, TypeOK, TurnstileTypeOK
  <2>4. hold[i][k] = "W" \/ (lk[i] = k /\ pc[i] \in DownLabels \cup {"waive"})
    BY <2>1, <2>3 DEF IInv, InheritInv
  <2>5. lk[i] = k => pc'[i] = pc[i]
    BY <1>0, <1>b, <2>2 DEF IInv, TypeOK
  <2> QED BY <2>3, <2>4, <2>5
<1> QED BY <1>1, <1>2, <1>3, <1>4, <1>5, <1>6, <1>7, <1>8 DEF IInv

-----------------------------------------------------------------------------
(* A thread goes to sleep: on its own turnstile, which becomes the active  *)
(* one of the lock, or on the active one, which takes its own in.          *)
LEMMA EnterBlockInv ==
    ASSUME IInv, NEW t \in Threads, EnterBlock(t)
    PROVE  IInv'
<1> USE TurnstileAssumption
<1>0. PICK l \in Locks : lk[t] = l
  BY InOperation DEF EnterBlock, At
<1>00. PICK m \in Queues : rw[t] = m
  BY DEF IInv, TypeOK
<1>01. PICK own \in Turnstiles : own = t_ts[t]
  BY DEF IInv, TypeOK, TurnstileTypeOK
<1>02. PICK ts \in Turnstiles : ts = IF tc_chain[l] = NULL THEN own ELSE tc_chain[l]
  BY DEF IInv, TypeOK, TurnstileTypeOK
<1>03. PICK prio : prio = Prio(t_pri', t_epri)
  OBVIOUS
<1> DEFINE first == tc_chain[l] = NULL
           old == ts_sleepq[ts][m]
           new == sleepq_insert(old, t, prio)
<1>a. /\ pc[t] = "block" /\ t_wchan[t] = NULL /\ hold[t][l] = "none" /\ tc_lock = t
      /\ \A u \in Threads \ {t} : pc[u] \notin TcLabels
      /\ wk.sobj = NULL /\ wk.n = 0 /\ wk.owner = NULL
      /\ \A k \in Locks, q \in Queues : Pending(k, q) = 0
  <2>1. pc[t] = "block"
    BY DEF EnterBlock, At
  <2>2. pc[t] \in TcLabels \ WakeLabels /\ t_wchan[t] = NULL /\ hold[t][l] = "none"
    BY <2>1, <1>0
    DEF TcLabels, WakeLabels, IInv, ControlInv, QueuedLabels, EnterLabels
  <2> QED BY <2>1, <2>2, Quiet
<1>b. /\ pc' = [pc EXCEPT ![t] = "pi"]
      /\ tc_chain' = [tc_chain EXCEPT ![l] = ts]
      /\ ts_free' = IF first THEN ts_free ELSE [ts_free EXCEPT ![ts] = @ \cup {own}]
      /\ t_ts' = [t_ts EXCEPT ![t] = ts]
      /\ t_wchan' = [t_wchan EXCEPT ![t] = l]
      /\ ts_waiters' = [ts_waiters EXCEPT ![ts] = @ + 1]
      /\ ts_sleepq' = [ts_sleepq EXCEPT ![ts][m] = new]
      /\ pi_cur' = t
      /\ UNCHANGED <<rw_wwwh, hold, lk, rw, t_kpri_req, panicstr, tc_lock, pi_vars, wk>>
      /\ t_pri' \in [Threads -> Priorities]
  <2>1. turnstile_block(t, m, l)
    BY <1>0, <1>00 DEF EnterBlock
  <2>2. t_pri' \in [Threads -> Priorities]
    <3>1. TurnstileTypeOK /\ t_pri' \in ClassPri(t)
      BY <2>1 DEF turnstile_block, IInv, TypeOK
    <3> QED BY <3>1, ClassPriIs
  <2>3. /\ tc_chain' = [tc_chain EXCEPT ![l] = ts]
        /\ ts_free' = IF first THEN ts_free ELSE [ts_free EXCEPT ![ts] = @ \cup {own}]
        /\ t_ts' = [t_ts EXCEPT ![t] = ts]
        /\ t_wchan' = [t_wchan EXCEPT ![t] = l]
        /\ ts_waiters' = [ts_waiters EXCEPT ![ts] = @ + 1]
        /\ ts_sleepq' = [ts_sleepq EXCEPT ![ts][m] = new]
        /\ pi_cur' = t
        /\ UNCHANGED <<tc_lock, pi_vars, wk>>
    BY <1>01, <1>02, <1>03, <2>1 DEF turnstile_block
  <2> QED BY <2>2, <2>3 DEF EnterBlock, Goto
(* Where the two turnstiles are before the step.                           *)
<1>c. /\ ~Active(own) /\ \A x \in Turnstiles : own \notin ts_free[x]
      /\ \A u \in Threads : t_ts[u] = own => u = t
  BY <1>a, <1>01 DEF IInv, ChainInv
<1>d. /\ first => ts = own
      /\ ~first => ts = tc_chain[l] /\ Active(ts) /\ ts # own
  BY <1>02, <1>c DEF Active
<1>e. /\ first => \A q \in Queues : Len(ts_sleepq[ts][q]) = 0
      /\ first => ts_free[ts] = {} /\ ts_waiters[ts] = 0
      /\ first => ts_inheritor[ts] = NULL
  <2>1. first => ts_waiters[ts] = 0 /\ ts_free[ts] = {} /\ ts_inheritor[ts] = NULL
    BY <1>c, <1>d DEF IInv, ContentInv
  <2>2. PICK a, b \in Nat : /\ a = Len(ts_sleepq[ts]["W"])
                            /\ b = Len(ts_sleepq[ts]["R"])
                            /\ ts_waiters[ts] = a + b
    BY Waiters
  <2>3. first => a = 0 /\ b = 0
    <3>1. first => a + b = 0
      BY <2>1, <2>2
    <3>2. a + b = 0 => a = 0 /\ b = 0
      OBVIOUS
    <3> QED BY <3>1, <3>2
  <2>4. first => Len(ts_sleepq[ts]["W"]) = 0 /\ Len(ts_sleepq[ts]["R"]) = 0
    BY <2>2, <2>3
  <2> QED BY <2>1, <2>4 DEF Queues
<1>f. /\ old \in Seq(Threads) /\ NoDup(old) /\ Len(old) \in Nat
      /\ t \notin Elems(old)
  <2>1. old \in Seq(Threads) /\ NoDup(old) /\ Len(old) \in Nat
    BY QueueTypes
  <2>2. t \notin Elems(old)
    BY <1>a DEF IInv, QueueInv
  <2> QED BY <2>1, <2>2
<1>g. /\ new \in Seq(Threads) /\ Len(new) = Len(old) + 1
      /\ Elems(new) = Elems(old) \cup {t} /\ NoDup(new)
  <2> HIDE DEF old
  <2> QED BY <1>f, InsertQueue
<1>h. /\ ts_sleepq'[ts][m] = new
      /\ \A x \in Turnstiles, q \in Queues :
            ~(x = ts /\ q = m) => ts_sleepq'[x][q] = ts_sleepq[x][q]
      /\ ts_sleepq' \in [Turnstiles -> [Queues -> Seq(Threads)]]
  BY <1>b, <1>g DEF IInv, TypeOK, TurnstileTypeOK
<1> HIDE DEF new, old
<1>i. /\ \A u \in Threads : t_ts'[u] = (IF u = t THEN ts ELSE t_ts[u])
                            /\ t_wchan'[u] = (IF u = t THEN l ELSE t_wchan[u])
      /\ \A k \in Locks : tc_chain'[k] = IF k = l THEN ts ELSE tc_chain[k]
      /\ \A x \in Turnstiles : ts_free'[x] = IF ~first /\ x = ts THEN ts_free[x] \cup {own}
                                             ELSE ts_free[x]
      /\ \A x \in Turnstiles : ts_waiters'[x] = IF x = ts THEN ts_waiters[x] + 1 ELSE ts_waiters[x]
  BY <1>b DEF IInv, TypeOK, TurnstileTypeOK
<1>j. \A x \in Turnstiles : Active(x)' <=> (Active(x) \/ x = ts)
  BY <1>d, <1>i, ZenonT(60) DEF Active
<1>1. TypeOK'
  <2>1. /\ pc' \in [Threads -> Labels]
    BY <1>b DEF IInv, TypeOK, Labels
  <2>2. /\ tc_chain' \in [Locks -> Turnstiles \cup {NULL}]
        /\ ts_waiters' \in [Turnstiles -> Nat]
        /\ t_ts' \in [Threads -> Turnstiles]
        /\ t_wchan' \in [Threads -> Locks \cup {NULL}]
        /\ pi_cur' \in Threads \cup {NULL}
    BY <1>b, SMTT(30) DEF IInv, TypeOK, TurnstileTypeOK
  <2>3. ts_free' \in [Turnstiles -> SUBSET Turnstiles]
    <3>1. ts_free \in [Turnstiles -> SUBSET Turnstiles]
      BY DEF IInv, TypeOK, TurnstileTypeOK
    <3>2. [ts_free EXCEPT ![ts] = @ \cup {own}] \in [Turnstiles -> SUBSET Turnstiles]
      BY <3>1
    <3> QED BY <3>1, <3>2, <1>b
  <2>4. TurnstileTypeOK'
    BY <2>2, <2>3, <1>b, <1>h DEF IInv, TypeOK, TurnstileTypeOK, pi_vars
  <2> QED BY <2>1, <2>4, <1>b DEF IInv, TypeOK
<1>2. ControlInv'
  <2>1. pi_cur' \in Threads /\ t_wchan'[pi_cur'] \in Locks
    BY <1>b, <1>i
  <2>2. \A u \in Threads : u # t => pc'[u] = pc[u] /\ t_wchan'[u] = t_wchan[u]
    BY <1>b, <1>i DEF IInv, TypeOK
  <2>3. pc'[t] = "pi" /\ t_wchan'[t] = l
    BY <1>b, <1>i DEF IInv, TypeOK
  <2> QED BY <1>0, <1>a, <1>b, <2>1, <2>2, <2>3 DEF IInv,
     ControlInv, TcLabels, QueuedLabels, EnterLabels, FinalLabels, DownLabels, WakeLabels
<1>3. ChainInv'
  <2>1. \A k, n \in Locks : tc_chain'[k] = tc_chain'[n] /\ k # n => tc_chain'[k] = NULL
    BY <1>c, <1>d, <1>i DEF IInv, ChainInv, Active
  <2>2. ASSUME NEW u \in Threads, t_wchan'[u] # NULL PROVE tc_chain'[t_wchan'[u]] = t_ts'[u]
    <3>1. CASE u = t
      BY <3>1, <1>i
    <3>2. CASE u # t
      <4>0. t_wchan[u] # NULL /\ t_wchan'[u] = t_wchan[u] /\ t_ts'[u] = t_ts[u]
        BY <2>2, <3>2, <1>i
      <4>1. t_wchan[u] \in Locks /\ tc_chain[t_wchan[u]] = t_ts[u] /\ t_ts[u] # NULL
        BY <4>0 DEF IInv, ChainInv, TypeOK, TurnstileTypeOK
      <4>2. t_wchan[u] = l => ~first
        BY <4>1
      <4> QED BY <3>2, <4>0, <4>1, <4>2, <1>d, <1>i, ZenonT(60)
    <3> QED BY <3>1, <3>2
  <2>3. ASSUME NEW u \in Threads, t_wchan'[u] = NULL
        PROVE  /\ \A k \in Locks : tc_chain'[k] # t_ts'[u]
               /\ \A x \in Turnstiles : t_ts'[u] \notin ts_free'[x]
               /\ \A v \in Threads : t_ts'[v] = t_ts'[u] => v = u
    <3>1. u # t /\ t_wchan[u] = NULL /\ t_ts'[u] = t_ts[u] /\ t_ts[u] \in Turnstiles
      BY <2>3, <1>i DEF IInv, TypeOK, TurnstileTypeOK
    <3>2. /\ ~Active(t_ts[u]) /\ t_ts[u] # own
          /\ \A x \in Turnstiles : t_ts[u] \notin ts_free[x]
          /\ \A v \in Threads : t_ts[v] = t_ts[u] => v = u
      BY <3>1, <1>c DEF IInv, ChainInv
    <3>3. t_ts[u] # ts
      BY <3>2, <1>d
    <3>4. \A k \in Locks : tc_chain'[k] # t_ts[u]
      BY <3>2, <3>3, <1>i DEF Active
    <3>5. \A v \in Threads : t_ts'[v] = t_ts[u] => v = u
      BY <3>2, <3>3, <1>i
    <3>6. ASSUME NEW x \in Turnstiles PROVE t_ts[u] \notin ts_free'[x]
      <4>1. t_ts[u] \notin ts_free[x] /\ t_ts[u] # own
        BY <3>2
      <4>2. ts_free'[x] = ts_free[x] \/ ts_free'[x] = ts_free[x] \cup {own}
        BY <1>i
      <4> QED BY <4>1, <4>2
    <3> QED BY <3>1, <3>4, <3>5, <3>6
  <2>4. ASSUME NEW x \in Turnstiles, NEW f \in ts_free'[x]
        PROVE  /\ \A k \in Locks : tc_chain'[k] # f
               /\ \A y \in Turnstiles : f \in ts_free'[y] => y = x
    <3>1. f \in Turnstiles
      BY <1>1 DEF TypeOK, TurnstileTypeOK
    <3>2. CASE f = own
      <4>1. ~first /\ x = ts /\ \A y \in Turnstiles : f \in ts_free'[y] => y = ts
        BY <3>2, <2>4, <1>c, <1>i
      <4>2. \A k \in Locks : tc_chain'[k] # f
        BY <3>2, <4>1, <1>c, <1>d, <1>i DEF Active
      <4> QED BY <4>1, <4>2
    <3>3. CASE f # own
      <4>1. f \in ts_free[x]
        BY <2>4, <3>3, <1>i
      <4>2. ~Active(f) /\ \A y \in Turnstiles : f \in ts_free[y] => y = x
        BY <4>1 DEF IInv, ChainInv
      <4>3. f # ts
        BY <4>2, <3>3, <1>d
      <4>4. \A k \in Locks : tc_chain'[k] # f
        BY <4>2, <4>3, <1>i DEF Active
      <4>5. \A y \in Turnstiles : f \in ts_free'[y] => f \in ts_free[y]
        BY <3>3, <1>i
      <4> QED BY <4>2, <4>4, <4>5
    <3> QED BY <3>2, <3>3
  <2> QED BY <2>1, <2>2, <2>3, <2>4 DEF ChainInv, Active
<1>4. ContentInv'
  <2>1. ASSUME NEW x \in Turnstiles, x # ts
        PROVE  /\ IsFiniteSet(ts_free'[x])
               /\ ts_waiters'[x] = Len(ts_sleepq'[x]["W"]) + Len(ts_sleepq'[x]["R"])
               /\ ~Active(x)' => /\ ts_waiters'[x] = 0 /\ ts_free'[x] = {}
                                 /\ ts_inheritor'[x] = NULL
               /\ Active(x)' => Cardinality(ts_free'[x]) = ts_waiters'[x] - 1
    <3>1. /\ ts_free'[x] = ts_free[x] /\ ts_waiters'[x] = ts_waiters[x]
          /\ ts_inheritor'[x] = ts_inheritor[x]
      BY <2>1, <1>b, <1>i DEF pi_vars
    <3>2. /\ ts_sleepq'[x]["W"] = ts_sleepq[x]["W"]
          /\ ts_sleepq'[x]["R"] = ts_sleepq[x]["R"]
      BY <2>1, <1>h DEF Queues
    <3>3. Active(x)' <=> Active(x)
      BY <2>1, <1>j
    <3> QED BY <3>1, <3>2, <3>3 DEF IInv, ContentInv
  <2>2. /\ IsFiniteSet(ts_free'[ts]) /\ Cardinality(ts_free'[ts]) = ts_waiters'[ts] - 1
    <3>1. IsFiniteSet(ts_free[ts]) /\ ts_waiters[ts] \in Nat
      BY DEF IInv, ContentInv, TypeOK, TurnstileTypeOK
    <3>2. CASE first
      BY <3>1, <3>2, <1>e, <1>i, FS_EmptySet
    <3>3. CASE ~first
      <4>1. ts_free'[ts] = ts_free[ts] \cup {own} /\ own \notin ts_free[ts]
        BY <3>3, <1>c, <1>i
      <4>2. Cardinality(ts_free[ts]) = ts_waiters[ts] - 1
        BY <3>3, <1>d DEF IInv, ContentInv
      <4>3. IsFiniteSet(ts_free[ts] \cup {own})
            /\ Cardinality(ts_free[ts] \cup {own}) = Cardinality(ts_free[ts]) + 1
        BY <3>1, <4>1, FS_AddElement
      <4> QED BY <3>1, <4>1, <4>2, <4>3, <1>i
    <3> QED BY <3>2, <3>3
  <2>3. ts_waiters'[ts] = Len(ts_sleepq'[ts]["W"]) + Len(ts_sleepq'[ts]["R"])
    <3>1. PICK a, b \in Nat : /\ a = Len(ts_sleepq[ts]["W"])
                              /\ b = Len(ts_sleepq[ts]["R"])
                              /\ ts_waiters[ts] = a + b
      BY Waiters
    <3>2. ts_waiters'[ts] = a + b + 1
      BY <3>1, <1>i
    <3>3. CASE m = "W"
      <4>1. /\ Len(ts_sleepq'[ts]["W"]) = a + 1
            /\ Len(ts_sleepq'[ts]["R"]) = b
        BY <3>1, <3>3, <1>g, <1>h DEF old, Queues
      <4> QED BY <3>2, <4>1
    <3>4. CASE m = "R"
      <4>1. /\ Len(ts_sleepq'[ts]["W"]) = a
            /\ Len(ts_sleepq'[ts]["R"]) = b + 1
        BY <3>1, <3>4, <1>g, <1>h DEF old, Queues
      <4> QED BY <3>2, <4>1
    <3> QED BY <3>3, <3>4 DEF Queues
  <2>4. Active(ts)'
    BY <1>j
  <2> QED BY <2>1, <2>2, <2>3, <2>4 DEF ContentInv
<1>5. QueueInv'
  <2>1. ASSUME NEW x \in Turnstiles, NEW q \in Queues
        PROVE  /\ NoDup(ts_sleepq'[x][q])
               /\ \A u \in Elems(ts_sleepq'[x][q]) :
                     t_wchan'[u] # NULL /\ t_ts'[u] = x /\ rw'[u] = q
    <3>0. /\ NoDup(ts_sleepq[x][q]) /\ Elems(ts_sleepq[x][q]) \subseteq Threads
          /\ \A u \in Elems(ts_sleepq[x][q]) :
                     t_wchan[u] # NULL /\ t_ts[u] = x /\ rw[u] = q
      BY QueueTypes, LenProperties DEF IInv, QueueInv, Elems
    <3>1. \A u \in Elems(ts_sleepq[x][q]) :
                     t_wchan'[u] # NULL /\ t_ts'[u] = x /\ rw'[u] = q
      BY <3>0, <1>a, <1>b, <1>i
    <3>2. t_wchan'[t] # NULL /\ t_ts'[t] = ts /\ rw'[t] = m
      BY <1>00, <1>b, <1>i
    <3>3. CASE x = ts /\ q = m
      BY <3>1, <3>2, <3>3, <1>g, <1>h DEF old
    <3>4. CASE ~(x = ts /\ q = m)
      BY <3>0, <3>1, <3>4, <1>h
    <3> QED BY <3>3, <3>4
  <2>2. ASSUME NEW u \in Threads, t_wchan'[u] # NULL
        PROVE  u \in Elems(ts_sleepq'[t_ts'[u]][rw'[u]])
    <3>1. CASE u = t
      BY <3>1, <1>00, <1>b, <1>g, <1>h, <1>i
    <3>2. CASE u # t
      <4>1. /\ u \in Elems(ts_sleepq[t_ts[u]][rw[u]]) /\ t_ts'[u] = t_ts[u] /\ rw'[u] = rw[u]
            /\ t_ts[u] \in Turnstiles /\ rw[u] \in Queues
        BY <2>2, <3>2, <1>b, <1>i DEF IInv, QueueInv, TypeOK, TurnstileTypeOK
      <4>2. CASE t_ts[u] = ts /\ rw[u] = m
        BY <4>1, <4>2, <1>g, <1>h DEF old
      <4>3. CASE ~(t_ts[u] = ts /\ rw[u] = m)
        BY <4>1, <4>3, <1>h
      <4> QED BY <4>2, <4>3
    <3> QED BY <3>1, <3>2
  <2> QED BY <2>1, <2>2 DEF QueueInv
<1>6. WakeupInv'
  BY <1>a, <1>b DEF IInv, TypeOK, WakeupInv, WakeLabels, TcLabels
<1>7. HoldInv'
  BY <1>b, SameHolds, OtherHoldKept DEF HoldInv
<1>8. BitsInv'
  <2>0. \A k \in Locks : Pending(k, "R")' = 0 /\ Pending(k, "W")' = 0
                         /\ Pending(k, "R") = 0 /\ Pending(k, "W") = 0
    BY <1>a, <1>b DEF Pending, Queues
  <2>1. ASSUME NEW k \in Locks PROVE BitsOf(k)'
    <3>0. BitsOf(k) /\ rw_wwwh' = rw_wwwh /\ lk' = lk /\ rw' = rw
      BY <1>b DEF IInv, BitsInv
    <3>1. \A u \in Threads : u # t => pc'[u] = pc[u] /\ pc[u] # "block"
      BY <1>a, <1>b DEF IInv, TypeOK, TcLabels
    <3>2. pc[t] = "block" /\ pc'[t] = "pi"
      BY <1>a, <1>b DEF IInv, TypeOK
    <3>3. (\E d \in Threads : pc[d] \in DownLabels /\ lk[d] = k)
             => \E d \in Threads : pc'[d] \in DownLabels /\ lk'[d] = k
      BY <3>0, <3>1, <3>2 DEF DownLabels
    <3>4. \A q \in Queues : /\ ~Blocker(k, q)'
                            /\ Blocker(k, q) <=> (k = l /\ q = m)
      BY <1>0, <1>00, <3>1, <3>2 DEF Blocker
    <3>5. CASE k # l
      <4>0. \A j, n \in Locks : tc_chain[j] = tc_chain[n] /\ j # n => tc_chain[j] = NULL
        BY DEF IInv, ChainInv
      <4>1. tc_chain'[k] = tc_chain[k] /\ (tc_chain[k] # NULL => tc_chain[k] # ts)
        <5>1. tc_chain[k] # own
          BY <1>c DEF Active
        <5> QED BY <4>0, <5>1, <3>5, <1>d, <1>i
      <4>2. tc_chain[k] # NULL => tc_chain[k] \in Turnstiles
        BY DEF IInv, TypeOK, TurnstileTypeOK
      <4>3. tc_chain[k] # NULL => WQ(k)' = WQ(k) /\ RQ(k)' = RQ(k)
        BY <4>1, <4>2, <1>h DEF WQ, RQ, Queues
      <4>4. (QueuedW(k)' <=> QueuedW(k)) /\ (QueuedR(k)' <=> QueuedR(k))
        BY <2>0, <4>1, <4>3 DEF QueuedW, QueuedR
      <4> QED BY <3>0, <3>3, <3>4, <3>5, <4>4 DEF BitsOf, Queues
    <3>6. CASE k = l
      <4>1. tc_chain'[l] = ts
        BY <1>i
      <4>2. m = "W" => QueuedW(l)' /\ (QueuedR(l)' <=> QueuedR(l))
        <5>1. SUFFICES ASSUME m = "W" PROVE QueuedW(l)' /\ (QueuedR(l)' <=> QueuedR(l))
          OBVIOUS
        <5>2. WQ(l)' = new /\ RQ(l)' = ts_sleepq[ts]["R"] /\ Len(new) > 0
          BY <5>1, <4>1, <1>f, <1>g, <1>h DEF WQ, RQ, Queues
        <5>3. QueuedW(l)'
          BY <5>2, <2>0, <4>1 DEF QueuedW
        <5>4. QueuedR(l)' <=> Len(ts_sleepq[ts]["R"]) > 0
          BY <5>2, <2>0, <4>1 DEF QueuedR
        <5>5. QueuedR(l) <=> Len(ts_sleepq[ts]["R"]) > 0
          BY <2>0, <1>d, <1>e DEF QueuedR, RQ, Queues
        <5> QED BY <5>3, <5>4, <5>5
      <4>3. m = "R" => QueuedR(l)' /\ (QueuedW(l)' <=> QueuedW(l))
        <5>1. SUFFICES ASSUME m = "R" PROVE QueuedR(l)' /\ (QueuedW(l)' <=> QueuedW(l))
          OBVIOUS
        <5>2. RQ(l)' = new /\ WQ(l)' = ts_sleepq[ts]["W"] /\ Len(new) > 0
          BY <5>1, <4>1, <1>f, <1>g, <1>h DEF WQ, RQ, Queues
        <5>3. QueuedR(l)'
          BY <5>2, <2>0, <4>1 DEF QueuedR
        <5>4. QueuedW(l)' <=> Len(ts_sleepq[ts]["W"]) > 0
          BY <5>2, <2>0, <4>1 DEF QueuedW
        <5>5. QueuedW(l) <=> Len(ts_sleepq[ts]["W"]) > 0
          BY <2>0, <1>d, <1>e DEF QueuedW, WQ, Queues
        <5> QED BY <5>3, <5>4, <5>5
      <4> QED BY <3>0, <3>3, <3>4, <3>6, <4>2, <4>3 DEF BitsOf, Queues
    <3> QED BY <3>5, <3>6
  <2> QED BY <2>1 DEF BitsInv
<1>9. HandInv'
  BY <1>a, <1>b DEF IInv, TypeOK, HandInv, FinalLabels, DownLabels
<1>10. InheritInv'
  <2>1. ASSUME NEW k \in Locks, tc_chain'[k] # NULL, ts_inheritor[tc_chain'[k]] # NULL
        PROVE  tc_chain'[k] = tc_chain[k]
    BY <2>1, <1>d, <1>e, <1>i
  <2>2. \A u \in Threads : pc[u] \in DownLabels \cup {"waive"} => pc'[u] = pc[u]
    BY <1>a, <1>b DEF IInv, TypeOK, DownLabels
  <2>3. \A x \in Turnstiles : ts_inheritor[x] \in Threads \cup {NULL}
    BY DEF IInv, TypeOK, TurnstileTypeOK
  <2>4. \A k \in Locks : tc_chain[k] # NULL => tc_chain[k] \in Turnstiles
    BY DEF IInv, TypeOK, TurnstileTypeOK
  <2> QED BY <1>b, <2>1, <2>2, <2>3, <2>4 DEF IInv, InheritInv, pi_vars
<1> QED BY <1>1, <1>2, <1>3, <1>4, <1>5, <1>6, <1>7, <1>8, <1>9, <1>10 DEF IInv
-----------------------------------------------------------------------------
(***************************************************************************)
(* The direct handoff and the wakeups.                                     *)
(***************************************************************************)
(* What is true when a thread is about to hand lock l over: there is a     *)
(* turnstile with threads on it, nothing is pending, and no other thread   *)
(* is in a final exit or in a downgrade of l.                              *)
LEMMA HandoverFacts ==
    ASSUME IInv, NEW t \in Threads, NEW l \in Locks, lk[t] = l,
           pc[t] \in {"hand", "share"}
    PROVE  /\ tc_lock = t /\ \A u \in Threads \ {t} : pc[u] \notin TcLabels
           /\ wk.sobj = NULL /\ wk.n = 0 /\ wk.owner = NULL
           /\ \A k \in Locks, q \in Queues : Pending(k, q) = 0
           /\ rw_wwwh[l] # RW_DOUBLE_LOCK /\ rw_wwwh[l].hw
           /\ tc_chain[l] \in Turnstiles
           /\ \A k \in Locks, q \in Queues : ~Blocker(k, q)
           /\ \A u \in Threads :
                 lk[u] = l /\ pc[u] \in FinalLabels \cup DownLabels => u = t
<1> USE TurnstileAssumption
<1>1. /\ tc_lock = t /\ \A u \in Threads \ {t} : pc[u] \notin TcLabels
      /\ wk.sobj = NULL /\ wk.n = 0 /\ wk.owner = NULL
      /\ \A k \in Locks, q \in Queues : Pending(k, q) = 0
  <2>1. pc[t] \in TcLabels \ WakeLabels
    BY DEF TcLabels, WakeLabels
  <2> QED BY <2>1, Quiet
<1>2. rw_wwwh[l] # RW_DOUBLE_LOCK
  BY InOperation
<1>3. rw_wwwh[l].hw
  BY DEF IInv, HandInv, FinalLabels, DownLabels
<1>4. \A k \in Locks, q \in Queues : ~Blocker(k, q)
  BY <1>1 DEF Blocker, TcLabels
<1>5. tc_chain[l] \in Turnstiles
  <2>1. QueuedW(l) \/ QueuedR(l)
    BY <1>3, <1>4 DEF IInv, BitsInv, BitsOf, Queues
  <2> QED BY <2>1 DEF QueuedW, QueuedR, IInv, TypeOK, TurnstileTypeOK
<1>6. ASSUME NEW u \in Threads, u # t, lk[u] = l, pc[u] \in FinalLabels \cup DownLabels
      PROVE  FALSE
  <2>1. hold[t][l] \in {"R", "W"} /\ hold[u][l] \in {"R", "W"}
    BY <1>6 DEF IInv, ControlInv, TypeOK, FinalLabels, DownLabels, Queues
  <2>2. hold[t][l] # "W" /\ hold[u][l] # "W"
    BY <1>6, <2>1, WriterFacts
  <2>3. hold[t][l] = "R" /\ hold[u][l] = "R"
    BY <2>1, <2>2
  <2>4. CardR(l) >= 2 /\ CardR(l) \in Nat
    BY <2>3, <1>6, CardFacts
  <2>5. rw_wwwh[l].rd >= 2
    BY <2>3, <2>4, ReaderFacts
  <2>6. pc[t] \in DownLabels /\ pc[u] \in DownLabels
    <3>1. ASSUME NEW x \in Threads, lk[x] = l, hold[x][l] = "R", pc[x] \in FinalLabels
          PROVE  FALSE
      <4>1. rw[x] = "R"
        BY <3>1 DEF IInv, ControlInv
      <4>2. rw_wwwh[l].rd = 1
        BY <3>1, <4>1 DEF IInv, HandInv
      <4> QED BY <4>2, <2>5
    <3>2. pc[t] \in FinalLabels \cup DownLabels
      BY DEF FinalLabels, DownLabels
    <3> QED BY <3>1, <3>2, <2>3, <1>6
  <2> QED BY <2>6, <1>6 DEF IInv, HandInv
<1> QED BY <1>1, <1>2, <1>3, <1>4, <1>5, <1>6

(* What is said of a lock that nothing is pending on, before and after.    *)
LEMMA AsideHold ==
    ASSUME IInv, NEW k \in Locks, rw_wwwh'[k] = rw_wwwh[k],
           CardR(k)' = CardR(k),
           Pending(k, "R") = 0, Pending(k, "W") = 0,
           Pending(k, "R")' = 0, Pending(k, "W")' = 0,
           \A u \in Threads : hold'[u][k] = hold[u][k],
           \A u \in Threads : lk'[u] = k => lk[u] = k
    PROVE  HoldOf(k)'
<1>1. Unused(k) => Unused(k)'
  BY DEF Unused
<1> QED
  BY <1>1 DEF IInv, HoldInv, HoldOf, CardR, TypeOK, Words

(* The step that hands lock l over: t stores the word v, and the wakeup of *)
(* n threads of queue q, the first of which owns the lock if q = "W",      *)
(* begins.                                                                 *)
Handover(t, l, v, q, n, o) ==
    /\ lk[t] = l /\ pc[t] \in {"hand", "share"}
    /\ rw_wwwh' = [rw_wwwh EXCEPT ![l] = v]
    /\ pc' = [pc EXCEPT ![t] = "waive"]
    /\ wk' = [q |-> q, n |-> n, owner |-> o, sobj |-> l]
    /\ UNCHANGED <<lk, rw, panicstr, tc_lock, chain_vars, pi_vars,
                   ts_sleepq, t_pri, pi_cur>>
    /\ t_kpri_req' \in [Threads -> Int]
    /\ hold' \in [Threads -> [Locks -> {"none", "R", "W"}]]
    /\ \A u \in Threads, k \in Locks : (u # t \/ k # l) => hold'[u][k] = hold[u][k]
    /\ \A k \in Locks : k # l => CardR(k)' = CardR(k)
    /\ n <= Len(ts_sleepq[tc_chain[l]][q])
    /\ n = 0 => o = NULL
    /\ q = "W" => n = 1 /\ o = Head(WQ(l))
    /\ q = "R" => o = NULL

(* Such a step keeps IInv if it leaves the word of l in agreement with the *)
(* holds and the queues.                                                   *)
LEMMA HandoverInv ==
    ASSUME IInv, NEW t \in Threads, NEW l \in Locks, NEW v \in Words,
           NEW q \in Queues, NEW n \in Nat, NEW o \in Threads \cup {NULL},
           Handover(t, l, v, q, n, o), HoldOf(l)', BitsOf(l)'
    PROVE  IInv'
<1> USE DEF Handover
<1> USE TurnstileAssumption
<1>a. /\ tc_lock = t /\ \A u \in Threads \ {t} : pc[u] \notin TcLabels
      /\ wk.sobj = NULL /\ wk.n = 0 /\ wk.owner = NULL
      /\ \A k \in Locks, x \in Queues : Pending(k, x) = 0
      /\ tc_chain[l] \in Turnstiles
      /\ \A k \in Locks, x \in Queues : ~Blocker(k, x)
      /\ \A u \in Threads :
            lk[u] = l /\ pc[u] \in FinalLabels \cup DownLabels => u = t
  BY HandoverFacts
<1>b. /\ pc'[t] = "waive" /\ \A u \in Threads : u # t => pc'[u] = pc[u]
      /\ wk'.q = q /\ wk'.n = n /\ wk'.owner = o /\ wk'.sobj = l
      /\ rw_wwwh'[l] = v /\ \A k \in Locks : k # l => rw_wwwh'[k] = rw_wwwh[k]
  <2>1. pc'[t] = "waive" /\ \A u \in Threads : u # t => pc'[u] = pc[u]
    BY DEF IInv, TypeOK
  <2>2. wk'.q = q /\ wk'.n = n /\ wk'.owner = o /\ wk'.sobj = l
    OBVIOUS
  <2>3. rw_wwwh'[l] = v /\ \A k \in Locks : k # l => rw_wwwh'[k] = rw_wwwh[k]
    BY DEF IInv, TypeOK
  <2> QED BY <2>1, <2>2, <2>3
<1>1. TypeOK'
  <2>1. /\ pc' \in [Threads -> Labels] /\ rw_wwwh' \in [Locks -> Words]
    BY DEF IInv, TypeOK, Labels
  <2>2. wk' \in [q : Queues, n : Nat, owner : Threads \cup {NULL}, sobj : Locks \cup {NULL}]
    OBVIOUS
  <2> QED BY <2>1, <2>2 DEF IInv, TypeOK, TurnstileTypeOK, chain_vars, pi_vars
<1>2. ControlInv'
  <2>1. ASSUME NEW u \in Threads, u # t PROVE hold'[u] = hold[u] /\ lk'[u] = lk[u] /\ rw'[u] = rw[u]
                /\ t_wchan'[u] = t_wchan[u] /\ tc_lock' = t
    <3>1. hold[u] \in [Locks -> {"none", "R", "W"}] /\ hold'[u] \in [Locks -> {"none", "R", "W"}]
      BY DEF IInv, TypeOK
    <3>2. \A k \in Locks : hold'[u][k] = hold[u][k]
      BY <2>1
    <3>3. hold'[u] = hold[u]
      BY <3>1, <3>2
    <3> QED BY <3>3, <1>a DEF chain_vars
  <2>2. lk'[t] = l /\ t_wchan'[t] = NULL /\ tc_lock' = t
    BY <1>a DEF IInv, ControlInv, QueuedLabels, chain_vars
  <2> QED BY <1>a, <1>b, <2>1, <2>2, SMTT(30) DEF IInv, ControlInv, chain_vars,
      TcLabels, QueuedLabels, EnterLabels, FinalLabels, DownLabels, WakeLabels
<1>3. ChainInv' /\ ContentInv' /\ QueueInv'
  BY TurnstilesKept DEF chain_vars, pi_vars
<1>4. WakeupInv'
  <2>1. /\ tc_chain' = tc_chain /\ ts_sleepq' = ts_sleepq /\ WQ(l)' = WQ(l) /\ tc_chain[l] # NULL
    BY <1>a DEF chain_vars, WQ
  <2>2. \A u \in Threads : pc'[u] \in DownLabels => lk'[u] # l
    BY <1>a, <1>b DEF DownLabels
  <2> QED BY <1>b, <2>1, <2>2 DEF WakeupInv, WakeLabels, Queues
<1>5. HoldInv'
  <2>1. ASSUME NEW k \in Locks, k # l PROVE HoldOf(k)'
    <3>1. Pending(k, "R")' = 0 /\ Pending(k, "W")' = 0
      BY <1>b, <2>1 DEF Pending
    <3>2. Pending(k, "R") = 0 /\ Pending(k, "W") = 0
      BY <1>a DEF Queues
    <3>3. rw_wwwh'[k] = rw_wwwh[k] /\ CardR(k)' = CardR(k) /\ lk' = lk
      BY <1>b, <2>1
    <3>4. \A u \in Threads : hold'[u][k] = hold[u][k]
      BY <2>1
    <3> QED BY <3>1, <3>2, <3>3, <3>4, AsideHold
  <2> QED BY <2>1 DEF HoldInv
<1>6. BitsInv'
  <2>1. ASSUME NEW k \in Locks, k # l PROVE BitsOf(k)'
    <3>1. /\ Pending(k, "R")' = 0 /\ Pending(k, "W")' = 0
          /\ Pending(k, "R") = 0 /\ Pending(k, "W") = 0
      BY <1>a, <1>b, <2>1 DEF Pending, Queues
    <3>2. (QueuedW(k)' <=> QueuedW(k)) /\ (QueuedR(k)' <=> QueuedR(k))
      BY <3>1 DEF QueuedW, QueuedR, WQ, RQ, chain_vars
    <3>3. \A x \in Queues : ~Blocker(k, x)' /\ ~Blocker(k, x)
      BY <1>a, <1>b DEF Blocker
    <3>4. (\E d \in Threads : pc'[d] \in DownLabels /\ lk'[d] = k)
             <=> \E d \in Threads : pc[d] \in DownLabels /\ lk[d] = k
      BY <1>b, <2>1 DEF DownLabels
    <3>5. BitsOf(k) /\ rw_wwwh'[k] = rw_wwwh[k]
      BY <1>b, <2>1 DEF IInv, BitsInv
    <3> QED BY <3>2, <3>3, <3>4, <3>5 DEF BitsOf, Queues
  <2> QED BY <2>1 DEF BitsInv
<1>7. HandInv'
  <2>1. ASSUME NEW u \in Threads, pc'[u] \in FinalLabels \cup DownLabels
        PROVE  u # t /\ lk[u] # l /\ lk'[u] = lk[u] /\ rw'[u] = rw[u] /\ pc'[u] = pc[u]
               /\ lk[u] \in Locks /\ rw_wwwh'[lk[u]] = rw_wwwh[lk[u]]
    <3>1. u # t /\ pc'[u] = pc[u]
      BY <2>1, <1>b DEF FinalLabels, DownLabels
    <3>2. lk[u] # l
      BY <2>1, <3>1, <1>a
    <3>3. pc[u] # "run"
      BY <2>1, <3>1 DEF FinalLabels, DownLabels
    <3>4. lk[u] \in Locks
      BY <3>3, InOperation
    <3> QED BY <3>1, <3>2, <3>4, <1>b
  <2> QED BY <2>1 DEF IInv, HandInv
<1>8. InheritInv'
  <2>1. SUFFICES ASSUME NEW k \in Locks, tc_chain[k] # NULL, ts_inheritor[tc_chain[k]] # NULL
                 PROVE  LET i == ts_inheritor[tc_chain[k]] IN
                        \/ hold'[i][k] = "W"
                        \/ lk[i] = k /\ pc'[i] \in DownLabels \cup {"waive"}
    BY DEF InheritInv, chain_vars, pi_vars
  <2>2. PICK i \in Threads : i = ts_inheritor[tc_chain[k]]
    BY <2>1 DEF IInv, TypeOK, TurnstileTypeOK
  <2>3. hold[i][k] = "W" \/ (lk[i] = k /\ pc[i] \in DownLabels \cup {"waive"})
    BY <2>1, <2>2 DEF IInv, InheritInv
  <2>4. CASE i = t /\ k = l
    BY <2>2, <2>4, <1>b
  <2>5. CASE ~(i = t /\ k = l)
    BY <2>2, <2>3, <2>5, <1>b
  <2> QED BY <2>4, <2>5
<1> QED BY <1>1, <1>2, <1>3, <1>4, <1>5, <1>6, <1>7, <1>8 DEF IInv


(* How many readers a writer lets in: at most those blocked and, when no   *)
(* writer is blocked, all of them.                                         *)
LEMMA ReadersToWake ==
    ASSUME IInv, NEW ts \in Turnstiles
    PROVE  /\ rw_readers_to_wake(ts) \in Nat
           /\ rw_readers_to_wake(ts) <= Len(ts_sleepq[ts]["R"])
           /\ Len(ts_sleepq[ts]["W"]) = 0 =>
                 rw_readers_to_wake(ts) = Len(ts_sleepq[ts]["R"])
<1>1. PICK rq \in Seq(Threads) : rq = ts_sleepq[ts]["R"]
  BY QueueTypes DEF Queues
<1>2. PICK wq \in Seq(Threads) : wq = ts_sleepq[ts]["W"]
  BY QueueTypes DEF Queues
<1>3. PICK p : p = IF wq = <<>> THEN -1 ELSE DISP_PRIO[Head(wq)]
  OBVIOUS
<1>4. rw_readers_to_wake(ts) = PrefixLen(rq, DISP_PRIO, p)
  BY <1>1, <1>2, <1>3 DEF rw_readers_to_wake
<1>5. PrefixLen(rq, DISP_PRIO, p) \in 0..Len(rq) /\ Len(rq) \in Nat
  BY PrefixLenType, LenProperties
<1>6. ASSUME Len(wq) = 0 PROVE PrefixLen(rq, DISP_PRIO, p) = Len(rq)
  <2>1. wq = <<>>
    BY <1>6
  <2>2. p = -1
    BY <1>3, <2>1
  <2>3. \A t \in Threads : DISP_PRIO[t] \in Nat
    BY DispPrioType DEF IInv, TypeOK
  <2>4. \A i \in DOMAIN rq : rq[i] \in Threads
    BY LenProperties
  <2>5. \A i \in DOMAIN rq : DISP_PRIO[rq[i]] >= p
    BY <2>2, <2>3, <2>4
  <2> QED BY <2>5, PrefixLenAll
<1>7. rw_readers_to_wake(ts) \in Nat /\ rw_readers_to_wake(ts) <= Len(rq)
  BY <1>4, <1>5
<1> QED BY <1>1, <1>2, <1>4, <1>6, <1>7

LEMMA KpriType ==
    ASSUME TypeOK, NEW ts, NEW n
    PROVE  KpriForReaders(ts, n) \in [Threads -> Int]
BY DEF TypeOK, KpriForReaders

(* The writer's exit that lets the first readers in.                       *)
LEMMA ExitToReadersInv ==
    ASSUME IInv, NEW t \in Threads, ExitToReaders(t)
    PROVE  IInv'
<1> USE TurnstileAssumption
<1>0. pc[t] = "hand"
  BY DEF ExitToReaders, At
<1>00. PICK l \in Locks : lk[t] = l
  BY <1>0, InOperation
<1>01. PICK ts \in Turnstiles : tc_chain[l] = ts
  BY <1>0, <1>00, HandoverFacts
<1>02. PICK n \in Nat : /\ n = rw_readers_to_wake(ts)
                        /\ n <= Len(ts_sleepq[ts]["R"])
                        /\ Len(ts_sleepq[ts]["W"]) = 0 => n = Len(ts_sleepq[ts]["R"])
  BY ReadersToWake
<1>03. PICK a, b \in Nat : /\ a = Len(ts_sleepq[ts]["W"])
                           /\ b = Len(ts_sleepq[ts]["R"])
                           /\ ts_waiters[ts] = a + b
  BY Waiters
<1>04. PICK v : v = [Unheld EXCEPT !.rd = n, !.hw = WaitersLeft(ts, n),
                                   !.ww = ts_sleepq[ts]["W"] # <<>>]
  OBVIOUS
<1>a. /\ rw_wwwh' = [rw_wwwh EXCEPT ![l] = v]
      /\ pc' = [pc EXCEPT ![t] = "waive"]
      /\ wk' = [q |-> "R", n |-> n, owner |-> NULL, sobj |-> l]
      /\ hold' = [hold EXCEPT ![t][l] = "none"]
      /\ t_kpri_req' = KpriForReaders(ts, n)
      /\ UNCHANGED <<lk, rw, panicstr, tc_lock, chain_vars, pi_vars, ts_sleepq, t_pri, pi_cur>>
  BY <1>00, <1>01, <1>02, <1>04 DEF ExitToReaders, SetWord, SetHold, Wakeup, Goto
<1>b. n > 0 /\ rw[t] = "W"
  BY <1>00, <1>01, <1>02 DEF ExitToReaders, GrantsReaders
<1>c. hold[t][l] = "W"
  BY <1>0, <1>00, <1>b DEF IInv, ControlInv, FinalLabels
<1>05. n <= b /\ (a = 0 => n = b)
  BY <1>02, <1>03
<1>d. v \in Words /\ v.rd = n /\ v.wr = NULL
  <2>0. WaitersLeft(ts, n) \in BOOLEAN
    BY DEF WaitersLeft
  <2>1. PICK x \in BOOLEAN : x = WaitersLeft(ts, n)
    BY <2>0
  <2>2. PICK y \in BOOLEAN : y = (ts_sleepq[ts]["W"] # <<>>)
    OBVIOUS
  <2>3. v = [rd |-> n, wr |-> NULL, wl |-> FALSE, ww |-> y, hw |-> x]
    BY <1>04, <2>1, <2>2 DEF Unheld
  <2> QED BY <2>3 DEF Words
<1>e. ~v.wl /\ (v.hw <=> a + b > n)
  BY <1>04, <1>03 DEF Unheld, WaitersLeft
<1>f. v.ww <=> a > 0
  <2>1. ts_sleepq[ts]["W"] \in Seq(Threads)
    BY QueueTypes DEF Queues
  <2>2. ts_sleepq[ts]["W"] # <<>> <=> a > 0
    BY <1>03, <2>1
  <2> QED BY <1>04, <2>2 DEF Unheld
<1>g. /\ Pending(l, "R")' = n /\ Pending(l, "W")' = 0
  BY <1>a DEF Pending
<1>h. /\ \A u \in Threads, k \in Locks :
            hold'[u][k] = IF u = t /\ k = l THEN hold'[t][l] ELSE hold[u][k]
      /\ hold'[t][l] = "none"
      /\ hold' \in [Threads -> [Locks -> {"none", "R", "W"}]]
  BY <1>a DEF IInv, TypeOK
<1>i. \A u \in Threads : hold'[u][l] = "none"
  <2>1. \A u \in Threads : u # t => hold[u][l] = "none"
    BY <1>c, WriterFacts
  <2> QED BY <2>1, <1>h
<1>1. HoldOf(l)'
  <2>1. CardR(l)' = 0
    BY <1>a, <1>c, WriterFacts, CardStep, ZenonT(60) DEF IInv
  <2>2. rw_wwwh'[l] = v /\ v # RW_DOUBLE_LOCK
    BY <1>a, <1>e, DoubleLock DEF IInv, TypeOK
  <2> QED BY <2>1, <2>2, <1>d, <1>e, <1>g, <1>i DEF HoldOf, CardR
<1>2. BitsOf(l)'
  <2>0. rw_wwwh'[l] = v
    BY <1>a DEF IInv, TypeOK
  <2>1. QueuedW(l)' <=> a > 0
    BY <1>01, <1>03, <1>a, <1>g DEF QueuedW, WQ, chain_vars
  <2>2. QueuedR(l)' <=> b > n
    BY <1>01, <1>03, <1>a, <1>g DEF QueuedR, RQ, chain_vars
  <2>3. ~Blocker(l, "W")' /\ ~Blocker(l, "R")'
    <3>1. \A k \in Locks, q \in Queues : ~Blocker(k, q)
      BY <1>0, <1>00, HandoverFacts
    <3>2. \A u \in Threads : pc'[u] = "block" => pc[u] = "block"
      BY <1>a DEF IInv, TypeOK
    <3> QED BY <3>1, <3>2, <1>a DEF Blocker, Queues
  <2>4. v.hw <=> (a > 0 \/ b > n)
    <3>1. a + b > n <=> (a > 0 \/ b > n)
      BY <1>05
    <3> QED BY <3>1, <1>e
  <2>5. ~v.ww => ~v.hw
    <3>1. ~(a > 0) => ~(a + b > n)
      BY <1>05
    <3> QED BY <3>1, <1>e, <1>f
  <2>6. RW_LOCKED(v)
    BY <1>b, <1>d DEF RW_LOCKED
  <2> QED BY <2>0, <2>1, <2>2, <2>3, <2>4, <2>5, <2>6, <1>f DEF BitsOf
<1>3. /\ \A k \in Locks : k # l => CardR(k)' = CardR(k)
      /\ n <= Len(ts_sleepq[tc_chain[l]]["R"])
      /\ t_kpri_req' \in [Threads -> Int]
  BY <1>01, <1>02, <1>a, CardStep, KpriType DEF IInv
<1> QED
  <2>1. Handover(t, l, v, "R", n, NULL)
    BY <1>0, <1>00, <1>3, <1>a, <1>h DEF Handover
  <2>2. "R" \in Queues /\ NULL \in Threads \cup {NULL}
    BY DEF Queues
  <2> QED BY <2>1, <2>2, <1>1, <1>2, <1>d, HandoverInv

(* The exit that makes the first blocked writer the owner.                 *)
LEMMA ExitToWriterInv ==
    ASSUME IInv, NEW t \in Threads, ExitToWriter(t)
    PROVE  IInv'
<1> USE TurnstileAssumption
<1>0. pc[t] = "hand"
  BY DEF ExitToWriter, At
<1>00. PICK l \in Locks : lk[t] = l
  BY <1>0, InOperation
<1>01. PICK ts \in Turnstiles : tc_chain[l] = ts
  BY <1>0, <1>00, HandoverFacts
<1>02. PICK n \in Nat : /\ n = rw_readers_to_wake(ts)
                        /\ n <= Len(ts_sleepq[ts]["R"])
                        /\ Len(ts_sleepq[ts]["W"]) = 0 => n = Len(ts_sleepq[ts]["R"])
  BY ReadersToWake
<1>03. PICK a, b \in Nat : /\ a = Len(ts_sleepq[ts]["W"])
                           /\ b = Len(ts_sleepq[ts]["R"])
                           /\ ts_waiters[ts] = a + b
  BY Waiters
<1>04. PICK wq \in Seq(Threads) : wq = ts_sleepq[ts]["W"] /\ NoDup(wq)
  BY QueueTypes DEF Queues
<1>05. n <= b /\ (a = 0 => n = b)
  BY <1>02, <1>03
<1>06. /\ rw_wwwh[l].hw /\ rw_wwwh[l] # RW_DOUBLE_LOCK
       /\ \A k \in Locks, q \in Queues : Pending(k, q) = 0 /\ ~Blocker(k, q)
  BY <1>0, <1>00, HandoverFacts
<1>07. Pending(l, "R") = 0 /\ Pending(l, "W") = 0
  BY <1>06 DEF Queues
(* There is a writer to hand the lock to.                                  *)
<1>a. a > 0
  <2>1. rw[t] = "W" => n = 0
    BY <1>00, <1>01, <1>02 DEF ExitToWriter, GrantsReaders
  <2>2. rw[t] = "R" => rw_wwwh[l].ww
    BY <1>0, <1>00 DEF IInv, HandInv, FinalLabels
  <2>3. (rw_wwwh[l].ww => QueuedW(l)) /\ (QueuedW(l) \/ QueuedR(l))
    BY <1>06 DEF IInv, BitsInv, BitsOf, Queues
  <2>4. QueuedW(l) => a > 0
    BY <1>01, <1>03, <1>07 DEF QueuedW, WQ
  <2>5. QueuedR(l) => b > 0
    BY <1>01, <1>03, <1>07 DEF QueuedR, RQ
  <2>6. rw[t] \in {"R", "W"}
    BY DEF IInv, TypeOK, Queues
  <2>7. CASE rw[t] = "R"
    BY <2>2, <2>3, <2>4, <2>7
  <2>8. CASE rw[t] = "W"
    <3>1. a = 0 => b = 0
      BY <2>1, <2>8, <1>05
    <3> QED BY <3>1, <2>3, <2>4, <2>5
  <2> QED BY <2>6, <2>7, <2>8
<1>b. PICK s \in Threads : s = Head(wq)
  BY <1>03, <1>04, <1>a, TailQueue
<1>c. PICK v : v = [Unheld EXCEPT !.wr = s, !.wl = TRUE,
                                  !.hw = WaitersLeft(ts, 1), !.ww = Len(wq) > 1]
  OBVIOUS
<1>d. /\ rw_wwwh' = [rw_wwwh EXCEPT ![l] = v]
      /\ pc' = [pc EXCEPT ![t] = "waive"]
      /\ wk' = [q |-> "W", n |-> 1, owner |-> s, sobj |-> l]
      /\ hold' = [hold EXCEPT ![t][l] = "none"]
      /\ t_kpri_req' = t_kpri_req
      /\ UNCHANGED <<lk, rw, panicstr, tc_lock, chain_vars, pi_vars, ts_sleepq, t_pri, pi_cur>>
  BY <1>00, <1>01, <1>04, <1>b, <1>c
  DEF ExitToWriter, SetWord, SetHold, Wakeup, Goto
<1>e. v \in Words /\ v.rd = 0 /\ v.wr = s
  <2>0. WaitersLeft(ts, 1) \in BOOLEAN /\ (Len(wq) > 1) \in BOOLEAN
    BY DEF WaitersLeft
  <2>1. PICK x \in BOOLEAN : x = WaitersLeft(ts, 1)
    BY <2>0
  <2>2. PICK y \in BOOLEAN : y = (Len(wq) > 1)
    BY <2>0
  <2>3. v = [rd |-> 0, wr |-> s, wl |-> TRUE, ww |-> y, hw |-> x]
    BY <1>c, <2>1, <2>2 DEF Unheld
  <2> QED BY <2>3 DEF Words
<1>f. v.wl /\ (v.hw <=> a + b > 1)
  BY <1>c, <1>03 DEF Unheld, WaitersLeft
<1>g. v.ww <=> a > 1
  BY <1>c, <1>03, <1>04 DEF Unheld
<1>h. /\ Pending(l, "R")' = 0 /\ Pending(l, "W")' = 1 /\ wk'.owner = s
  BY <1>d DEF Pending
<1>i. /\ \A u \in Threads, k \in Locks : (u # t \/ k # l) => hold'[u][k] = hold[u][k]
      /\ hold'[t][l] = "none"
      /\ hold' \in [Threads -> [Locks -> {"none", "R", "W"}]]
  BY <1>d DEF IInv, TypeOK
<1>j. hold[t][l] = rw[t] /\ rw[t] \in {"R", "W"}
  BY <1>0, <1>00 DEF IInv, ControlInv, TypeOK, FinalLabels, Queues
<1>1. HoldOf(l)'
  <2>1. CardR(l)' = 0
    <3>1. CASE rw[t] = "W"
      <4>1. hold[t][l] = "W" /\ CardR(l) = 0
        BY <3>1, <1>j, WriterFacts
      <4>2. CardR(l)' = CardR(l)
        BY <4>1, <1>d, CardStep DEF IInv
      <4> QED BY <4>1, <4>2
    <3>2. CASE rw[t] = "R"
      <4>1. rw_wwwh[l].rd = 1
        BY <3>2, <1>0, <1>00 DEF IInv, HandInv, FinalLabels
      <4>2. CardR(l) = 1
        BY <3>2, <4>1, <1>j, <1>07, ReaderFacts
      <4>3. CardR(l)' = CardR(l) - 1
        BY <3>2, <1>d, <1>j, CardStep DEF IInv
      <4> QED BY <4>2, <4>3
    <3> QED BY <3>1, <3>2, <1>j
  <2>2. rw_wwwh'[l] = v /\ v # RW_DOUBLE_LOCK
    BY <1>d, <1>e, DoubleLock DEF IInv, TypeOK
  <2>3. \A u \in Threads : hold'[u][l] # "W"
    <3>1. \A u \in Threads : u # t => hold[u][l] # "W"
      BY <1>j, WriterFacts, ReaderFacts
    <3> QED BY <3>1, <1>i
  <2> QED BY <2>1, <2>2, <2>3, <1>e, <1>f, <1>h DEF HoldOf, CardR
<1>2. BitsOf(l)'
  <2>0. rw_wwwh'[l] = v
    BY <1>d DEF IInv, TypeOK
  <2>1. QueuedW(l)' <=> a > 1
    BY <1>01, <1>03, <1>d, <1>h DEF QueuedW, WQ, chain_vars
  <2>2. QueuedR(l)' <=> b > 0
    BY <1>01, <1>03, <1>d, <1>h DEF QueuedR, RQ, chain_vars
  <2>3. ~Blocker(l, "W")' /\ ~Blocker(l, "R")'
    <3>2. \A u \in Threads : pc'[u] = "block" => pc[u] = "block"
      BY <1>d DEF IInv, TypeOK
    <3> QED BY <1>06, <3>2, <1>d DEF Blocker, Queues
  <2>4. v.hw <=> (a > 1 \/ b > 0)
    <3>1. a + b > 1 <=> (a > 1 \/ b > 0)
      BY <1>a
    <3> QED BY <3>1, <1>f
  <2>6. RW_LOCKED(v)
    BY <1>b, <1>e DEF RW_LOCKED
  <2> QED BY <2>0, <2>1, <2>2, <2>3, <2>4, <2>6, <1>f, <1>g DEF BitsOf
<1>3. /\ \A k \in Locks : k # l => CardR(k)' = CardR(k)
      /\ 1 <= Len(ts_sleepq[tc_chain[l]]["W"]) /\ s = Head(WQ(l))
      /\ t_kpri_req' \in [Threads -> Int]
  <2>1. \A k \in Locks : k # l => CardR(k)' = CardR(k)
    BY <1>d, CardStep DEF IInv
  <2>2. 1 <= Len(ts_sleepq[tc_chain[l]]["W"])
    BY <1>01, <1>03, <1>a
  <2>3. s = Head(WQ(l))
    BY <1>01, <1>04, <1>b DEF WQ
  <2> QED BY <2>1, <2>2, <2>3, <1>d DEF IInv, TypeOK
<1> QED
  <2>1. Handover(t, l, v, "W", 1, s)
    BY <1>0, <1>00, <1>3, <1>d, <1>i DEF Handover
  <2>2. "W" \in Queues /\ s \in Threads \cup {NULL} /\ 1 \in Nat
    BY DEF Queues
  <2> QED BY <2>1, <2>2, <1>1, <1>2, <1>e, HandoverInv

(* The downgrading writer, now a reader, lets the first readers in.        *)
LEMMA DowngradeShareInv ==
    ASSUME IInv, NEW t \in Threads, DowngradeShare(t)
    PROVE  IInv'
<1> USE TurnstileAssumption
<1>0. pc[t] = "share"
  BY DEF DowngradeShare, At
<1>00. PICK l \in Locks : lk[t] = l
  BY <1>0, InOperation
<1>01. PICK ts \in Turnstiles : tc_chain[l] = ts
  BY <1>0, <1>00, HandoverFacts
<1>02. PICK n \in Nat : /\ n = rw_readers_to_wake(ts)
                        /\ n <= Len(ts_sleepq[ts]["R"])
                        /\ Len(ts_sleepq[ts]["W"]) = 0 => n = Len(ts_sleepq[ts]["R"])
  BY ReadersToWake
<1>03. PICK a, b \in Nat : /\ a = Len(ts_sleepq[ts]["W"])
                           /\ b = Len(ts_sleepq[ts]["R"])
                           /\ ts_waiters[ts] = a + b
  BY Waiters
<1>04. PICK w \in Words : w = rw_wwwh[l]
  BY DEF IInv, TypeOK
<1>05. n <= b /\ (a = 0 => n = b)
  BY <1>02, <1>03
<1>06. /\ w.hw /\ w # RW_DOUBLE_LOCK
       /\ \A k \in Locks, q \in Queues : Pending(k, q) = 0 /\ ~Blocker(k, q)
  BY <1>0, <1>00, <1>04, HandoverFacts
<1>07. Pending(l, "R") = 0 /\ Pending(l, "W") = 0
  BY <1>06 DEF Queues
<1>08. hold[t][l] = "R"
  BY <1>0, <1>00 DEF IInv, ControlInv, DownLabels
<1>09. /\ ~w.wl /\ w.wr = NULL /\ w.rd = CardR(l) /\ w.rd \in Nat /\ w.rd >= 1
       /\ \A u \in Threads : hold[u][l] # "W"
  BY <1>04, <1>07, <1>08, ReaderFacts
<1>a. /\ w.ww <=> a > 0
      /\ a > 0 \/ b > 0
  <2>3. (w.ww <=> QueuedW(l)) /\ (QueuedW(l) \/ QueuedR(l))
    BY <1>04, <1>06 DEF IInv, BitsInv, BitsOf, Queues
  <2>4. QueuedW(l) <=> a > 0
    BY <1>01, <1>03, <1>07 DEF QueuedW, WQ
  <2>5. QueuedR(l) <=> b > 0
    BY <1>01, <1>03, <1>07 DEF QueuedR, RQ
  <2> QED BY <2>3, <2>4, <2>5
<1>c. PICK v : v = [w EXCEPT !.rd = @ + n, !.hw = @ /\ ~(n > 0 /\ ts_waiters[ts] = n)]
  OBVIOUS
<1>d. /\ rw_wwwh' = [rw_wwwh EXCEPT ![l] = v]
      /\ pc' = [pc EXCEPT ![t] = "waive"]
      /\ wk' = [q |-> "R", n |-> n, owner |-> NULL, sobj |-> l]
      /\ hold' = hold
      /\ t_kpri_req' = KpriForReaders(ts, n)
      /\ UNCHANGED <<lk, rw, panicstr, tc_lock, chain_vars, pi_vars, ts_sleepq, t_pri, pi_cur>>
  BY <1>00, <1>01, <1>02, <1>04, <1>c DEF DowngradeShare, SetWord, Wakeup, Goto
<1>e. v \in Words /\ v.rd = w.rd + n /\ v.wr = NULL
  <2>0. (w.hw /\ ~(n > 0 /\ ts_waiters[ts] = n)) \in BOOLEAN
    BY DEF Words
  <2>1. PICK x \in BOOLEAN : x = (w.hw /\ ~(n > 0 /\ ts_waiters[ts] = n))
    BY <2>0
  <2>2. v = [w EXCEPT !.rd = w.rd + n, !.hw = x]
    BY <1>c, <2>1 DEF Words
  <2>3. w.rd + n \in Nat
    BY <1>09
  <2> QED BY <2>2, <2>3, <1>09 DEF Words
<1>f. ~v.wl /\ (v.hw <=> ~(n > 0 /\ a + b = n))
  BY <1>c, <1>03, <1>06, <1>09 DEF Words
<1>g. v.ww <=> a > 0
  BY <1>c, <1>a DEF Words
<1>h. /\ Pending(l, "R")' = n /\ Pending(l, "W")' = 0
  BY <1>d DEF Pending
<1>1. HoldOf(l)'
  <2>1. CardR(l)' = CardR(l)
    BY <1>d, SameHolds
  <2>2. rw_wwwh'[l] = v /\ v # RW_DOUBLE_LOCK
    BY <1>d, <1>f, DoubleLock DEF IInv, TypeOK
  <2>3. \A u \in Threads : hold'[u][l] # "W"
    BY <1>09, <1>d
  <2>4. v.rd = CardR(l)' + Pending(l, "R")'
    BY <2>1, <1>09, <1>e, <1>h
  <2> QED BY <2>2, <2>3, <2>4, <1>e, <1>f, <1>h DEF HoldOf, CardR
<1>2. BitsOf(l)'
  <2>0. rw_wwwh'[l] = v
    BY <1>d DEF IInv, TypeOK
  <2>1. QueuedW(l)' <=> a > 0
    BY <1>01, <1>03, <1>d, <1>h DEF QueuedW, WQ, chain_vars
  <2>2. QueuedR(l)' <=> b > n
    BY <1>01, <1>03, <1>d, <1>h DEF QueuedR, RQ, chain_vars
  <2>3. ~Blocker(l, "W")' /\ ~Blocker(l, "R")'
    <3>2. \A u \in Threads : pc'[u] = "block" => pc[u] = "block"
      BY <1>d DEF IInv, TypeOK
    <3> QED BY <1>06, <3>2, <1>d DEF Blocker, Queues
  <2>4. v.hw <=> (a > 0 \/ b > n)
    <3>1. ~(n > 0 /\ a + b = n) <=> (a > 0 \/ b > n)
      BY <1>a, <1>05
    <3> QED BY <3>1, <1>f
  <2>5. ~v.ww => ~v.hw
    <3>1. ~(a > 0) => ~(b > n)
      BY <1>05
    <3> QED BY <3>1, <2>4, <1>g
  <2>6. RW_LOCKED(v)
    BY <1>09, <1>e DEF RW_LOCKED
  <2> QED BY <2>0, <2>1, <2>2, <2>3, <2>4, <2>5, <2>6, <1>f, <1>g DEF BitsOf
<1>3. /\ \A k \in Locks : k # l => CardR(k)' = CardR(k)
      /\ n <= Len(ts_sleepq[tc_chain[l]]["R"])
      /\ t_kpri_req' \in [Threads -> Int]
      /\ hold' \in [Threads -> [Locks -> {"none", "R", "W"}]]
  BY <1>01, <1>02, <1>d, SameHolds, KpriType DEF IInv, TypeOK
<1> QED
  <2>1. Handover(t, l, v, "R", n, NULL)
    BY <1>0, <1>00, <1>3, <1>d DEF Handover
  <2>2. "R" \in Queues /\ NULL \in Threads \cup {NULL}
    BY DEF Queues
  <2> QED BY <2>1, <2>2, <1>1, <1>2, <1>e, HandoverInv

-----------------------------------------------------------------------------
(* Thread t wakes s, the head of queue q of the turnstile ts of lock l; n  *)
(* threads were to be woken.                                               *)
Wakes(t, s, l, ts, q, n) ==
    /\ pc[t] = "wake" /\ tc_lock = t /\ lk[t] = l
    /\ \A u \in Threads : u # t => pc[u] \notin TcLabels
    /\ wk.sobj = l /\ wk.q = q /\ wk.n = n /\ n > 0
    /\ q = "W" => n = 1 /\ wk.owner = s
    /\ q = "R" => wk.owner = NULL
    /\ tc_chain[l] = ts /\ ts_inheritor[ts] = NULL
    /\ s # t /\ pc[s] = "sleep" /\ lk[s] = l /\ rw[s] = q
    /\ hold[s][l] = "none" /\ t_wchan[s] = l /\ t_ts[s] = ts
    /\ n <= Len(ts_sleepq[ts][q]) /\ s = Head(ts_sleepq[ts][q])
    /\ \A u \in Threads : pc[u] \in DownLabels => lk[u] # l
    /\ pc' = [pc EXCEPT ![s] = "run"]
    /\ lk' = [lk EXCEPT ![s] = NULL]
    /\ rw' = [rw EXCEPT ![s] = "R"]
    /\ hold' = [hold EXCEPT ![s][l] = q]
    /\ t_wchan' = [t_wchan EXCEPT ![s] = NULL]
    /\ ts_waiters' = [ts_waiters EXCEPT ![ts] = @ - 1]
    /\ ts_sleepq' = [ts_sleepq EXCEPT ![ts] =
                      [ts_sleepq[ts] EXCEPT ![q] = Tail(ts_sleepq[ts][q])]]
    /\ wk' \in [q : Queues, n : Nat, owner : Threads \cup {NULL},
                sobj : Locks \cup {NULL}]
    /\ wk'.sobj = l /\ wk'.q = q /\ wk'.n = n - 1 /\ wk'.owner = NULL
    /\ ts_epri' \in [Turnstiles -> Inheritable]
    /\ t_epri' \in [Threads -> Inheritable]
    /\ t_prioinv' \in [Threads -> SUBSET Turnstiles]
    /\ ts_inheritor' \in [Turnstiles -> Threads \cup {NULL}]
    /\ \A x \in Turnstiles : \/ ts_inheritor'[x] = ts_inheritor[x]
                             \/ x = ts /\ ts_inheritor'[x] = s /\ q = "W"
    /\ (\A x \in Queues : Len(ts_sleepq'[ts][x]) = 0) => ts_inheritor'[ts] = NULL
    /\ Detach(ts, s)
    /\ t_pri' \in ClassPri(s) /\ t_pri' \in [Threads -> Priorities]
    /\ UNCHANGED <<rw_wwwh, t_kpri_req, panicstr, tc_lock, pi_cur>>

LEMMA WakeOneStep ==
    ASSUME IInv, NEW t \in Threads, WakeOne(t)
    PROVE  \E s \in Threads, l \in Locks, ts \in Turnstiles, q \in Queues, n \in Nat :
               Wakes(t, s, l, ts, q, n)
<1> USE TurnstileAssumption
<1>0. pc[t] = "wake" /\ wk.n > 0
  BY DEF WakeOne, At, turnstile_wakeup_one
<1>1. PICK l \in Locks : lk[t] = l
  BY <1>0, InOperation
<1>2. tc_lock = t /\ (\A u \in Threads : u # t => pc[u] \notin TcLabels) /\ wk.sobj = l
  BY <1>0, <1>1 DEF IInv, ControlInv, TcLabels, WakeLabels
<1>3. PICK ts \in Turnstiles : tc_chain[l] = ts
  BY <1>0, <1>2 DEF IInv, WakeupInv, TypeOK, TurnstileTypeOK
<1>4. PICK q \in Queues : wk.q = q
  BY DEF IInv, TypeOK, TurnstileTypeOK
<1>5. PICK n \in Nat : wk.n = n
  BY DEF IInv, TypeOK, TurnstileTypeOK
<1>6. PICK old \in Seq(Threads) : /\ old = ts_sleepq[ts][q] /\ NoDup(old)
                                  /\ Len(old) \in Nat
  BY QueueTypes
<1>7. n > 0 /\ n <= Len(old)
  BY <1>0, <1>2, <1>3, <1>4, <1>5, <1>6 DEF IInv, WakeupInv
<1>8. PICK s \in Threads : s = Head(old) /\ s \in Elems(old)
  BY <1>6, <1>7, TailQueue
<1>9. Tail(old) \in Seq(Threads)
  BY <1>6, <1>7, TailQueue
<1>10. WakeNext = s
  BY <1>2, <1>3, <1>4, <1>6, <1>8 DEF WakeNext
<1>11. t_wchan[s] # NULL /\ t_ts[s] = ts /\ rw[s] = q
  BY <1>6, <1>8 DEF IInv, QueueInv
<1>12. t_wchan[s] = l /\ lk[s] = l /\ hold[s][l] = "none" /\ pc[s] \in QueuedLabels
  BY <1>3, <1>11, SleepsOn
<1>13. s # t /\ pc[s] = "sleep"
  BY <1>0, <1>2, <1>12 DEF QueuedLabels, TcLabels
<1>14. /\ q = "W" => n = 1 /\ wk.owner = s
       /\ q = "R" => wk.owner = NULL
       /\ \A u \in Threads : pc[u] \in DownLabels => lk[u] # l
  BY <1>0, <1>2, <1>3, <1>4, <1>5, <1>6, <1>8 DEF IInv, WakeupInv, WQ
<1>15. ts_inheritor[ts] = NULL
  <2>1. SUFFICES ASSUME ts_inheritor[ts] # NULL PROVE FALSE
    OBVIOUS
  <2>2. PICK i \in Threads : i = ts_inheritor[ts]
    BY <2>1 DEF IInv, TypeOK, TurnstileTypeOK
  <2>3. hold[i][l] = "W" \/ (lk[i] = l /\ pc[i] \in DownLabels \cup {"waive"})
    BY <2>1, <2>2, <1>3 DEF IInv, InheritInv
  <2>4. pc[i] # "waive"
    BY <1>0, <1>2 DEF TcLabels
  <2>5. hold[i][l] = "W"
    BY <2>3, <2>4, <1>14
  <2>6. Pending(l, "R") = 0 /\ Pending(l, "W") = 0
    BY <2>5, WriterFacts
  <2>7. Pending(l, q) = n
    BY <1>2, <1>4, <1>5 DEF Pending
  <2> QED BY <2>6, <2>7, <1>7 DEF Queues
<1>a. /\ pc' = [pc EXCEPT ![s] = "run"]
      /\ lk' = [lk EXCEPT ![s] = NULL]
      /\ rw' = [rw EXCEPT ![s] = "R"]
      /\ hold' = [hold EXCEPT ![s][l] = q]
      /\ UNCHANGED <<rw_wwwh, t_kpri_req, panicstr>>
  BY <1>10, <1>11, <1>12 DEF WakeOne, SetHold, Return, Begin, Goto
<1>16. PICK left : left = [ts_sleepq[ts] EXCEPT ![q] = Tail(@)]
  OBVIOUS
<1>17. left \in [Queues -> Seq(Threads)]
  BY <1>6, <1>9, <1>16 DEF IInv, TypeOK, TurnstileTypeOK
<1>18. PICK e \in Inheritable : e = IF HeadPrio(left["W"]) > HeadPrio(left["R"])
                                    THEN HeadPrio(left["W"]) ELSE HeadPrio(left["R"])
  BY <1>17, DispPrioType DEF Queues, IInv, TypeOK
<1>b. turnstile_wakeup_one(t)
  BY DEF WakeOne
<1>c. /\ t_wchan' = [t_wchan EXCEPT ![s] = NULL]
      /\ ts_waiters' = [ts_waiters EXCEPT ![ts] = @ - 1]
      /\ ts_sleepq' = [ts_sleepq EXCEPT ![ts] = left]
      /\ Detach(ts, s)
      /\ t_pri' \in ClassPri(s)
      /\ UNCHANGED <<tc_lock, pi_cur>>
      /\ wk' = [wk EXCEPT !.n = @ - 1, !.owner = IF s = @ THEN NULL ELSE @]
  BY <1>b, <1>2, <1>3, <1>4, <1>10, <1>16 DEF turnstile_wakeup_one
<1>19. PICK pri \in [Threads -> Priorities] : pri = t_pri'
  BY <1>c, ClassPriIs DEF IInv, TypeOK
<1>d. IF s = wk.owner
      THEN /\ turnstile_pi_inherit(pri, ts, s, e)
           /\ t_epri' = [t_epri EXCEPT ![s] = IF RaisesPrio(pri, s, e) THEN e ELSE @]
      ELSE UNCHANGED pi_vars
  BY <1>b, <1>2, <1>3, <1>4, <1>10, <1>16, <1>18, <1>19 DEF turnstile_wakeup_one
<1>e. /\ wk' \in [q : Queues, n : Nat, owner : Threads \cup {NULL},
                  sobj : Locks \cup {NULL}]
      /\ wk'.sobj = l /\ wk'.q = q /\ wk'.n = n - 1 /\ wk'.owner = NULL
  <2>1. wk \in [q : Queues, n : Nat, owner : Threads \cup {NULL},
                sobj : Locks \cup {NULL}]
    BY DEF IInv, TypeOK, TurnstileTypeOK
  <2>2. (IF s = wk.owner THEN NULL ELSE wk.owner) = NULL
    BY <1>14 DEF Queues
  <2>3. wk' = [wk EXCEPT !.n = n - 1, !.owner = NULL]
    BY <1>c, <1>5, <2>1, <2>2
  <2>4. n - 1 \in Nat
    BY <1>7
  <2> QED BY <2>1, <2>3, <2>4, <1>2, <1>4
<1>f. /\ ts_epri' \in [Turnstiles -> Inheritable]
      /\ t_epri' \in [Threads -> Inheritable]
      /\ t_prioinv' \in [Threads -> SUBSET Turnstiles]
      /\ ts_inheritor' \in [Turnstiles -> Threads \cup {NULL}]
      /\ \A x \in Turnstiles : \/ ts_inheritor'[x] = ts_inheritor[x]
                               \/ x = ts /\ ts_inheritor'[x] = s /\ q = "W"
      /\ (\A x \in Queues : Len(ts_sleepq'[ts][x]) = 0) => ts_inheritor'[ts] = NULL
  <2>1. CASE s = wk.owner
    <3>1. turnstile_pi_inherit(pri, ts, s, e)
      BY <1>d, <2>1
    <3>2. /\ t_epri' \in [Threads -> Inheritable]
      <4>1. t_epri \in [Threads -> Inheritable]
        BY DEF IInv, TypeOK, TurnstileTypeOK, Inheritable
      <4>2. t_epri' = [t_epri EXCEPT ![s] = IF RaisesPrio(pri, s, e) THEN e ELSE @]
        BY <1>d, <2>1
      <4> QED BY <4>1, <4>2
    <3>3. q = "W"
      BY <2>1, <1>14 DEF Queues
    <3>4. ASSUME \A x \in Queues : Len(ts_sleepq'[ts][x]) = 0 PROVE UNCHANGED ts_inheritor
      <4>1. ts_sleepq'[ts] = left
        BY <1>c DEF IInv, TypeOK, TurnstileTypeOK
      <4>2. left["W"] = <<>> /\ left["R"] = <<>>
        BY <3>4, <4>1, <1>17 DEF Queues
      <4>3. e = 0
        BY <4>2, <1>18 DEF HeadPrio
      <4>4. pri[s] \in Nat
        BY <1>19
      <4>5. ~Inverted(pri, s, e)
        BY <4>3, <4>4 DEF Inverted
      <4> QED BY <3>1, <4>5, PiInherit
    <3> QED BY <3>1, <3>2, <3>3, <3>4, <1>15, PiInherit
  <2>2. CASE s # wk.owner
    BY <1>d, <2>2, <1>15 DEF pi_vars, IInv, TypeOK, TurnstileTypeOK, Inheritable
  <2> QED BY <2>1, <2>2
<1>g. ts_sleepq' = [ts_sleepq EXCEPT ![ts] =
                      [ts_sleepq[ts] EXCEPT ![q] = Tail(ts_sleepq[ts][q])]]
  BY <1>c, <1>16
<1>h. n <= Len(ts_sleepq[ts][q]) /\ s = Head(ts_sleepq[ts][q])
  BY <1>6, <1>7, <1>8
<1>i. Wakes(t, s, l, ts, q, n)
  BY <1>0, <1>1, <1>2, <1>3, <1>4, <1>5, <1>7, <1>11, <1>12, <1>13, <1>14, <1>15,
     <1>19, <1>a, <1>c, <1>e, <1>f, <1>g, <1>h, Zenon DEF Wakes
<1> QED BY <1>i

LEMMA WakeOneInv ==
    ASSUME IInv, NEW t \in Threads, WakeOne(t)
    PROVE  IInv'
<1> USE TurnstileAssumption
<1>0. PICK s \in Threads, l \in Locks, ts \in Turnstiles, q \in Queues, n \in Nat :
           Wakes(t, s, l, ts, q, n)
  BY WakeOneStep
<1>1. PICK a, b \in Nat : /\ a = Len(ts_sleepq[ts]["W"])
                          /\ b = Len(ts_sleepq[ts]["R"])
                          /\ ts_waiters[ts] = a + b
  BY Waiters
<1>2. PICK old \in Seq(Threads) : /\ old = ts_sleepq[ts][q] /\ NoDup(old)
                                  /\ Len(old) \in Nat
  BY QueueTypes
<1>3. PICK new \in Seq(Threads) : /\ new = Tail(old) /\ NoDup(new)
                                  /\ Len(new) = Len(old) - 1
                                  /\ Elems(new) = Elems(old) \ {s}
  <2>1. Len(old) > 0 /\ s = Head(old)
    BY <1>0, <1>2 DEF Wakes
  <2> QED BY <2>1, <1>2, TailQueue
(* What changes, component by component.                                   *)
<1>a. /\ \A u \in Threads : u # s => /\ pc'[u] = pc[u] /\ lk'[u] = lk[u] /\ rw'[u] = rw[u]
                                     /\ hold'[u] = hold[u] /\ t_wchan'[u] = t_wchan[u]
      /\ pc'[s] = "run" /\ lk'[s] = NULL /\ rw'[s] = "R" /\ t_wchan'[s] = NULL
      /\ hold'[s][l] = q /\ \A k \in Locks : k # l => hold'[s][k] = hold[s][k]
  BY <1>0, ZenonT(60) DEF Wakes, IInv, TypeOK, TurnstileTypeOK
<1>b. /\ ts_sleepq'[ts][q] = new
      /\ \A x \in Turnstiles, y \in Queues :
            ~(x = ts /\ y = q) => ts_sleepq'[x][y] = ts_sleepq[x][y]
      /\ ts_sleepq' \in [Turnstiles -> [Queues -> Seq(Threads)]]
  <2>1. ts_sleepq \in [Turnstiles -> [Queues -> Seq(Threads)]]
    BY DEF IInv, TypeOK, TurnstileTypeOK
  <2>2. ts_sleepq' = [ts_sleepq EXCEPT ![ts] = [ts_sleepq[ts] EXCEPT ![q] = new]]
    BY <1>0, <1>2, <1>3 DEF Wakes
  <2> QED BY <2>1, <2>2
<1>c. /\ ts_waiters'[ts] = a + b - 1
      /\ \A x \in Turnstiles : x # ts => ts_waiters'[x] = ts_waiters[x]
  BY <1>0, <1>1 DEF Wakes, IInv, TypeOK, TurnstileTypeOK
<1>d. /\ n <= Len(old) /\ n > 0 /\ Len(old) = IF q = "W" THEN a ELSE b
  BY <1>0, <1>1, <1>2 DEF Wakes, Queues
<1>e. PICK a1, b1 \in Nat : /\ a1 = Len(ts_sleepq'[ts]["W"])
                            /\ b1 = Len(ts_sleepq'[ts]["R"])
                            /\ a1 + b1 = a + b - 1
                            /\ a1 = IF q = "W" THEN a - 1 ELSE a
                            /\ b1 = IF q = "W" THEN b ELSE b - 1
  <2>1. CASE q = "W"
    <3>1. Len(ts_sleepq'[ts]["W"]) = a - 1 /\ Len(ts_sleepq'[ts]["R"]) = b
      BY <2>1, <1>b, <1>d, <1>1, <1>3 DEF Queues
    <3>2. a - 1 \in Nat /\ (a - 1) + b = a + b - 1
      BY <2>1, <1>d
    <3> QED BY <3>1, <3>2, <2>1
  <2>2. CASE q = "R"
    <3>1. Len(ts_sleepq'[ts]["W"]) = a /\ Len(ts_sleepq'[ts]["R"]) = b - 1
      BY <2>2, <1>b, <1>d, <1>1, <1>3 DEF Queues
    <3>2. b - 1 \in Nat /\ a + (b - 1) = a + b - 1
      BY <2>2, <1>d
    <3> QED BY <3>1, <3>2, <2>2
  <2> QED BY <2>1, <2>2 DEF Queues
(* The two ways to detach a turnstile.                                     *)
<1>f. /\ Active(ts) /\ IsFiniteSet(ts_free[ts]) /\ Cardinality(ts_free[ts]) = a + b - 1
      /\ tc_chain[l] = ts
      /\ \A k \in Locks : k # l => tc_chain[k] # ts
  <2>1. Active(ts) /\ tc_chain[l] = ts
    BY <1>0 DEF Wakes, Active
  <2>2. \A k \in Locks : k # l => tc_chain[k] # ts
    BY <2>1 DEF IInv, ChainInv
  <2>3. IsFiniteSet(ts_free[ts]) /\ Cardinality(ts_free[ts]) = ts_waiters[ts] - 1
    BY <2>1 DEF IInv, ContentInv
  <2> QED BY <1>1, <2>1, <2>2, <2>3
<1> DEFINE Given(f) == /\ f \in ts_free[ts]
                       /\ ts_free' = [ts_free EXCEPT ![ts] = @ \ {f}]
                       /\ t_ts' = [t_ts EXCEPT ![s] = f]
                       /\ tc_chain' = tc_chain
           Last == /\ ts_free[ts] = {}
                   /\ tc_chain' = [tc_chain EXCEPT ![l] = NULL]
                   /\ ts_free' = ts_free /\ t_ts' = t_ts
<1>g. (\E f \in Turnstiles : Given(f)) \/ Last
  <2>1. Detach(ts, s) /\ wk.sobj = l
    BY <1>0 DEF Wakes
  <2>2. ts_free[ts] \subseteq Turnstiles
    BY DEF IInv, TypeOK, TurnstileTypeOK
  <2> QED BY <2>1, <2>2 DEF Detach
(* If it is the last one, nobody but s sleeps on the lock.                 *)
<1>h. ASSUME Last PROVE /\ a + b = 1 /\ Len(old) = 1 /\ n = 1 /\ a1 = 0 /\ b1 = 0
                        /\ \A x \in Queues : Len(ts_sleepq'[ts][x]) = 0
                        /\ \A u \in Threads : u # s => t_wchan[u] # l
  <2>1. a + b = 1
    BY <1>f, <1>h, FS_EmptySet
  <2>2. Len(old) = 1 /\ n = 1 /\ a1 = 0 /\ b1 = 0
    BY <2>1, <1>d, <1>e DEF Queues
  <2>3. \A x \in Queues : Len(ts_sleepq'[ts][x]) = 0
    BY <2>2, <1>e DEF Queues
  <2>4. ASSUME NEW u \in Threads, u # s, t_wchan[u] = l PROVE FALSE
    <3>1. t_ts[u] = ts
      BY <2>4, <1>f DEF IInv, ChainInv
    <3>2. PICK x \in Queues : rw[u] = x
      BY DEF IInv, TypeOK
    <3>3. u \in Elems(ts_sleepq[ts][x])
      BY <2>4, <3>1, <3>2 DEF IInv, QueueInv
    <3>4. u \in Elems(ts_sleepq'[ts][x])
      BY <3>3, <2>4, <1>b, <1>2, <1>3
    <3>5. ts_sleepq'[ts][x] \in Seq(Threads) /\ Len(ts_sleepq'[ts][x]) = 0
      BY <2>3, <1>b
    <3> QED BY <3>4, <3>5, LenProperties DEF Elems
  <2> QED BY <2>1, <2>2, <2>3, <2>4
<1>i. /\ \A x \in Turnstiles : ts_free'[x] \subseteq ts_free[x]
      /\ \A x \in Turnstiles : x # ts => ts_free'[x] = ts_free[x]
      /\ \A u \in Threads : u # s => t_ts'[u] = t_ts[u]
      /\ \A k \in Locks : k # l => tc_chain'[k] = tc_chain[k]
      /\ \A k \in Locks : tc_chain'[k] \in {tc_chain[k], NULL}
      /\ ts_free' \in [Turnstiles -> SUBSET Turnstiles]
      /\ t_ts' \in [Threads -> Turnstiles]
      /\ tc_chain' \in [Locks -> Turnstiles \cup {NULL}]
  <2>0. /\ ts_free \in [Turnstiles -> SUBSET Turnstiles]
        /\ t_ts \in [Threads -> Turnstiles]
        /\ tc_chain \in [Locks -> Turnstiles \cup {NULL}]
    BY DEF IInv, TypeOK, TurnstileTypeOK
  <2>1. CASE \E f \in Turnstiles : Given(f)
    BY <2>0, <2>1
  <2>2. CASE Last
    BY <2>0, <2>2
  <2> QED BY <2>1, <2>2, <1>g
<1>j. \A x \in Turnstiles : x # ts => (Active(x)' <=> Active(x))
  BY <1>f, <1>i DEF Active
<1>4. TypeOK'
  <2>1. /\ pc' \in [Threads -> Labels] /\ lk' \in [Threads -> Locks \cup {NULL}]
        /\ rw' \in [Threads -> Queues]
        /\ t_wchan' \in [Threads -> Locks \cup {NULL}]
    BY <1>0 DEF Wakes, IInv, TypeOK, TurnstileTypeOK, Labels, Queues
  <2>2. hold' \in [Threads -> [Locks -> {"none", "R", "W"}]]
    BY <1>0 DEF Wakes, IInv, TypeOK, Queues
  <2>3. ts_waiters' \in [Turnstiles -> Nat]
    <3>1. a + b - 1 \in Nat
      BY <1>e
    <3>2. ts_waiters \in [Turnstiles -> Nat] /\ ts_waiters' = [ts_waiters EXCEPT ![ts] = a + b - 1]
      BY <1>0, <1>1, SMTT(30) DEF Wakes, IInv, TypeOK, TurnstileTypeOK
    <3> QED BY <3>1, <3>2
  <2>4. TurnstileTypeOK'
    BY <2>1, <2>3, <1>0, <1>b, <1>i
    DEF Wakes, Inheritable, IInv, TypeOK, TurnstileTypeOK
  <2> QED BY <2>1, <2>2, <2>4, <1>0 DEF Wakes, IInv, TypeOK
<1>5. ControlInv'
  <2>1. ASSUME NEW u \in Threads, u # s
        PROVE  /\ pc[u] \in TcLabels <=> tc_lock' = u
               /\ pc[u] = "run" <=> lk[u] = NULL
               /\ pc[u] \in QueuedLabels => t_wchan[u] = lk[u]
               /\ pc[u] \notin QueuedLabels => t_wchan[u] = NULL
               /\ pc[u] \in EnterLabels => hold[u][lk[u]] = "none"
               /\ pc[u] \in FinalLabels => hold[u][lk[u]] = rw[u]
               /\ pc[u] \in DownLabels => hold[u][lk[u]] = "R"
               /\ pc[u] \in WakeLabels => wk'.sobj = lk[u]
               /\ pc[u] # "pi"
    BY <1>0 DEF Wakes, IInv, ControlInv, TcLabels
  <2>2. tc_lock' # s
    BY <1>0 DEF Wakes
  <2> QED BY <2>1, <2>2, <1>a DEF ControlInv,
      TcLabels, QueuedLabels, EnterLabels, FinalLabels, DownLabels, WakeLabels
<1>6. ChainInv'
  <2>1. \A j, k \in Locks : tc_chain'[j] = tc_chain'[k] /\ j # k => tc_chain'[j] = NULL
    <3>1. \A j, k \in Locks : tc_chain[j] = tc_chain[k] /\ j # k => tc_chain[j] = NULL
      BY DEF IInv, ChainInv
    <3>2. \A k \in Locks : tc_chain'[k] \in {tc_chain[k], NULL}
      BY <1>i
    <3> QED BY <3>1, <3>2
  <2>2. ASSUME NEW u \in Threads, t_wchan'[u] # NULL PROVE tc_chain'[t_wchan'[u]] = t_ts'[u]
    <3>1. u # s /\ t_wchan'[u] = t_wchan[u] /\ t_ts'[u] = t_ts[u]
      BY <2>2, <1>a, <1>i
    <3>2. t_wchan[u] \in Locks /\ tc_chain[t_wchan[u]] = t_ts[u]
      BY <2>2, <3>1 DEF IInv, ChainInv, TypeOK, TurnstileTypeOK
    <3>3. CASE \E f \in Turnstiles : Given(f)
      BY <3>1, <3>2, <3>3
    <3>4. CASE Last
      BY <3>1, <3>2, <3>4, <1>h, <1>i
    <3> QED BY <3>3, <3>4, <1>g
  <2>3. ASSUME NEW u \in Threads, t_wchan'[u] = NULL
        PROVE  /\ \A k \in Locks : tc_chain'[k] # t_ts'[u]
               /\ \A x \in Turnstiles : t_ts'[u] \notin ts_free'[x]
               /\ \A v \in Threads : t_ts'[v] = t_ts'[u] => v = u
    <3>0. \A v \in Threads : t_ts[v] \in Turnstiles
      BY DEF IInv, TypeOK, TurnstileTypeOK
    <3>1. CASE \E f \in Turnstiles : Given(f)
      <4>1. PICK f \in Turnstiles : Given(f)
        BY <3>1
      <4>2. /\ \A k \in Locks : tc_chain[k] # f
            /\ \A x \in Turnstiles : f \in ts_free[x] => x = ts
        BY <4>1 DEF IInv, ChainInv, Active
      <4>3. ASSUME NEW v \in Threads PROVE t_ts[v] # f
        <5>1. CASE t_wchan[v] = NULL
          BY <5>1, <4>1 DEF IInv, ChainInv
        <5>2. CASE t_wchan[v] # NULL
          <6>1. t_wchan[v] \in Locks /\ tc_chain[t_wchan[v]] = t_ts[v]
            BY <5>2 DEF IInv, ChainInv, TypeOK, TurnstileTypeOK
          <6> QED BY <6>1, <4>2
        <5> QED BY <5>1, <5>2
      <4>4. \A v \in Threads : t_ts'[v] = IF v = s THEN f ELSE t_ts[v]
        BY <4>1 DEF IInv, TypeOK, TurnstileTypeOK
      <4>5. \A x \in Turnstiles : f \notin ts_free'[x]
        BY <4>1, <4>2 DEF IInv, TypeOK, TurnstileTypeOK
      <4>6. CASE u = s
        BY <4>1, <4>2, <4>3, <4>4, <4>5, <4>6
      <4>7. CASE u # s
        <5>1. t_wchan[u] = NULL
          BY <4>7, <2>3, <1>a
        <5>2. /\ \A k \in Locks : tc_chain[k] # t_ts[u]
              /\ \A x \in Turnstiles : t_ts[u] \notin ts_free[x]
              /\ \A v \in Threads : t_ts[v] = t_ts[u] => v = u
          BY <5>1 DEF IInv, ChainInv, Active
        <5>3. \A x \in Turnstiles : t_ts[u] \notin ts_free'[x]
          BY <5>2, <1>i
        <5>4. t_ts'[u] = t_ts[u] /\ t_ts'[s] # t_ts[u]
          BY <4>3, <4>4, <4>7
        <5> QED BY <5>2, <5>3, <5>4, <4>1, <4>4, <4>7
      <4> QED BY <4>6, <4>7
    <3>2. CASE Last
      <4>1. t_ts'[u] = t_ts[u] /\ \A k \in Locks : tc_chain'[k] # t_ts[u]
        <5>1. CASE u = s
          <6>1. t_ts[u] = ts /\ tc_chain'[l] = NULL
            BY <5>1, <3>2, <1>0 DEF Wakes, IInv, TypeOK, TurnstileTypeOK
          <6> QED BY <6>1, <3>2, <1>f, <1>i
        <5>2. CASE u # s
          <6>1. \A k \in Locks : tc_chain[k] # t_ts[u]
            BY <5>2, <2>3, <1>a DEF IInv, ChainInv, Active
          <6>2. t_ts[u] # NULL
            BY <3>0
          <6> QED BY <6>1, <6>2, <3>2, <1>i
        <5> QED BY <5>1, <5>2
      <4>2. \A x \in Turnstiles : t_ts[u] \notin ts_free[x]
        <5>1. CASE u = s
          BY <5>1, <1>0, <1>f, SMTT(30) DEF Wakes, IInv, ChainInv
        <5>2. CASE u # s
          BY <5>2, <2>3, <1>a DEF IInv, ChainInv
        <5> QED BY <5>1, <5>2
      <4>3. ASSUME NEW v \in Threads, t_ts[v] = t_ts[u] PROVE v = u
        <5>1. CASE u = s
          <6>1. t_ts[v] = ts
            BY <4>3, <5>1, <1>0 DEF Wakes
          <6>2. t_wchan[v] # NULL
            BY <6>1, <1>f DEF IInv, ChainInv
          <6>3. t_wchan[v] = l
            BY <6>1, <6>2, <1>f, SleepsOn
          <6> QED BY <6>3, <5>1, <3>2, <1>h
        <5>2. CASE u # s
          BY <5>2, <4>3, <2>3, <1>a DEF IInv, ChainInv
        <5> QED BY <5>1, <5>2
      <4> QED BY <4>1, <4>2, <4>3, <3>2
    <3> QED BY <3>1, <3>2, <1>g
  <2>4. ASSUME NEW x \in Turnstiles, NEW f \in ts_free'[x]
        PROVE  /\ \A k \in Locks : tc_chain'[k] # f
               /\ \A y \in Turnstiles : f \in ts_free'[y] => y = x
    <3>1. f \in ts_free[x] /\ f # NULL
      BY <2>4, <1>i
    <3>2. /\ \A k \in Locks : tc_chain[k] # f
          /\ \A y \in Turnstiles : f \in ts_free[y] => y = x
      BY <3>1 DEF IInv, ChainInv, Active
    <3> QED BY <3>1, <3>2, <1>i
  <2> QED BY <2>1, <2>2, <2>3, <2>4 DEF ChainInv, Active
<1>7. ContentInv'
  <2>1. ASSUME NEW x \in Turnstiles, x # ts
        PROVE  /\ IsFiniteSet(ts_free'[x])
               /\ ts_waiters'[x] = Len(ts_sleepq'[x]["W"]) + Len(ts_sleepq'[x]["R"])
               /\ ~Active(x)' => /\ ts_waiters'[x] = 0 /\ ts_free'[x] = {}
                                 /\ ts_inheritor'[x] = NULL
               /\ Active(x)' => Cardinality(ts_free'[x]) = ts_waiters'[x] - 1
    <3>1. /\ ts_free'[x] = ts_free[x] /\ ts_waiters'[x] = ts_waiters[x]
          /\ ts_inheritor'[x] = ts_inheritor[x]
      BY <2>1, <1>0, <1>c, <1>i DEF Wakes
    <3>2. /\ ts_sleepq'[x]["W"] = ts_sleepq[x]["W"]
          /\ ts_sleepq'[x]["R"] = ts_sleepq[x]["R"]
      BY <2>1, <1>b DEF Queues
    <3>3. Active(x)' <=> Active(x)
      BY <2>1, <1>j
    <3> QED BY <3>1, <3>2, <3>3 DEF IInv, ContentInv
  <2>2. ts_waiters'[ts] = Len(ts_sleepq'[ts]["W"]) + Len(ts_sleepq'[ts]["R"])
    BY <1>c, <1>e
  <2>3. /\ IsFiniteSet(ts_free'[ts])
        /\ ~Active(ts)' => /\ ts_waiters'[ts] = 0 /\ ts_free'[ts] = {}
                           /\ ts_inheritor'[ts] = NULL
        /\ Active(ts)' => Cardinality(ts_free'[ts]) = ts_waiters'[ts] - 1
    <3>1. CASE \E f \in Turnstiles : Given(f)
      <4>1. PICK f \in Turnstiles : Given(f)
        BY <3>1
      <4>2. ts_free'[ts] = ts_free[ts] \ {f}
        BY <4>1 DEF IInv, TypeOK, TurnstileTypeOK
      <4>3. IsFiniteSet(ts_free[ts] \ {f})
            /\ Cardinality(ts_free[ts] \ {f}) = Cardinality(ts_free[ts]) - 1
        BY <4>1, <1>f, FS_RemoveElement
      <4>4. Active(ts)'
        BY <4>1, <1>f DEF Active
      <4>5. Cardinality(ts_free'[ts]) = ts_waiters'[ts] - 1
        BY <4>2, <4>3, <1>c, <1>f
      <4> QED BY <4>2, <4>3, <4>4, <4>5
    <3>2. CASE Last
      <4>1. ~Active(ts)'
        <5>1. tc_chain'[l] = NULL
          BY <3>2 DEF IInv, TypeOK, TurnstileTypeOK
        <5> QED BY <5>1, <1>f, <1>i DEF Active
      <4>2. ts_waiters'[ts] = 0
        BY <3>2, <1>h, <1>c
      <4>3. ts_inheritor'[ts] = NULL
        BY <3>2, <1>h, <1>0 DEF Wakes
      <4> QED BY <4>1, <4>2, <4>3, <3>2, <1>f
    <3> QED BY <3>1, <3>2, <1>g
  <2> QED BY <2>1, <2>2, <2>3 DEF ContentInv
<1>8. QueueInv'
  <2>1. ASSUME NEW x \in Turnstiles, NEW y \in Queues
        PROVE  /\ NoDup(ts_sleepq'[x][y])
               /\ \A u \in Elems(ts_sleepq'[x][y]) :
                     t_wchan'[u] # NULL /\ t_ts'[u] = x /\ rw'[u] = y
    <3>0. /\ NoDup(ts_sleepq[x][y]) /\ Elems(ts_sleepq[x][y]) \subseteq Threads
          /\ \A u \in Elems(ts_sleepq[x][y]) :
                     t_wchan[u] # NULL /\ t_ts[u] = x /\ rw[u] = y
      BY QueueTypes, LenProperties DEF IInv, QueueInv, Elems
    <3>1. /\ NoDup(ts_sleepq'[x][y])
          /\ Elems(ts_sleepq'[x][y]) \subseteq Elems(ts_sleepq[x][y]) \ {s}
      <4>1. CASE x = ts /\ y = q
        BY <4>1, <1>b, <1>2, <1>3
      <4>2. CASE ~(x = ts /\ y = q)
        <5>1. s \notin Elems(ts_sleepq[x][y])
          BY <4>2, <3>0, <1>0 DEF Wakes
        <5> QED BY <5>1, <4>2, <3>0, <1>b
      <4> QED BY <4>1, <4>2
    <3> QED BY <3>0, <3>1, <1>a, <1>i
  <2>2. ASSUME NEW u \in Threads, t_wchan'[u] # NULL
        PROVE  u \in Elems(ts_sleepq'[t_ts'[u]][rw'[u]])
    <3>1. u # s /\ t_ts'[u] = t_ts[u] /\ rw'[u] = rw[u] /\ t_wchan[u] # NULL
      BY <2>2, <1>a, <1>i
    <3>2. PICK x \in Turnstiles, y \in Queues : x = t_ts[u] /\ y = rw[u]
      BY DEF IInv, TypeOK, TurnstileTypeOK
    <3>3. u \in Elems(ts_sleepq[x][y])
      BY <3>1, <3>2 DEF IInv, QueueInv
    <3>4. u \in Elems(ts_sleepq'[x][y])
      BY <3>1, <3>3, <1>b, <1>2, <1>3
    <3> QED BY <3>1, <3>2, <3>4
  <2> QED BY <2>1, <2>2 DEF QueueInv
<1>9. WakeupInv'
  <2>0. wk'.sobj = l /\ wk'.q = q /\ wk'.n = n - 1 /\ wk'.owner = NULL
    BY <1>0 DEF Wakes
  <2>1. pc'[t] = "wake" /\ \A u \in Threads : pc'[u] # "waive"
    BY <1>0, <1>a, SMTT(30) DEF Wakes, TcLabels
  <2>2. \A u \in Threads : pc'[u] \in DownLabels => lk'[u] # l
    BY <1>0, <1>a DEF Wakes, DownLabels
  <2>3. ASSUME n - 1 > 0
        PROVE  /\ q = "R" /\ tc_chain'[l] = ts
               /\ n - 1 <= Len(ts_sleepq'[ts][q])
    <3>1. q = "R"
      BY <2>3, <1>0 DEF Wakes, Queues
    <3>2. tc_chain'[l] = ts
      BY <2>3, <1>f, <1>g, <1>h
    <3>3. n - 1 <= Len(ts_sleepq'[ts][q])
      BY <1>b, <1>d, <1>2, <1>3
    <3> QED BY <3>1, <3>2, <3>3
  <2> QED BY <2>0, <2>1, <2>2, <2>3 DEF WakeupInv, WakeLabels
<1>10. HoldInv'
  <2>0. \A k \in Locks : k # l => \A y \in Queues : Pending(k, y) = 0 /\ Pending(k, y)' = 0
    BY <1>0 DEF Wakes, Pending
  <2>1. ASSUME NEW k \in Locks, k # l PROVE HoldOf(k)'
    <3>1. rw_wwwh'[k] = rw_wwwh[k] /\ CardR(k)' = CardR(k)
      BY <2>1, <1>0, CardStep DEF Wakes, IInv
    <3>2. /\ Pending(k, "R") = 0 /\ Pending(k, "W") = 0
          /\ Pending(k, "R")' = 0 /\ Pending(k, "W")' = 0
      BY <2>0, <2>1 DEF Queues
    <3>3. \A u \in Threads : hold'[u][k] = hold[u][k]
      BY <2>1, <1>a
    <3>4. \A u \in Threads : lk'[u] = k => lk[u] = k
      BY <1>a
    <3> QED BY <3>1, <3>2, <3>3, <3>4, AsideHold
  <2>2. HoldOf(l)'
    <3>1. PICK w \in Words : w = rw_wwwh[l] /\ w = rw_wwwh'[l]
      BY <1>0 DEF Wakes, IInv, TypeOK
    <3>2. w # RW_DOUBLE_LOCK
      BY <1>0, <3>1, InOperation DEF Wakes
    <3>3. /\ w.rd = CardR(l) + Pending(l, "R")
          /\ w.wl <=> w.wr # NULL
          /\ w.wl => w.rd = 0
          /\ Pending(l, "W") = 1 => w.wl /\ w.wr = wk.owner
          /\ \A u \in Threads : hold[u][l] = "W" => w.wl /\ w.wr = u
      BY <3>1, <3>2, ZenonT(60) DEF IInv, HoldInv, HoldOf, CardR
    <3>4. CardR(l) \in Nat
      BY CardFacts
    <3>5. CASE q = "R"
      <4>1. Pending(l, "R") = n /\ Pending(l, "R")' = n - 1 /\ Pending(l, "W")' = 0
        BY <3>5, <1>0 DEF Wakes, Pending
      <4>2. CardR(l)' = CardR(l) + 1
        BY <3>5, <1>0, CardStep DEF Wakes, IInv
      <4>3. w.rd = CardR(l)' + Pending(l, "R")' /\ w.rd > 0
        <5>1. w.rd = CardR(l) + n /\ n > 0
          BY <4>1, <3>3, <1>d
        <5> QED BY <5>1, <4>1, <4>2, <3>4
      <4>4. ~w.wl
        BY <4>3, <3>3
      <4>5. \A u \in Threads : hold'[u][l] # "W"
        BY <4>4, <3>3, <3>5, <1>a
      <4> QED BY <3>1, <3>2, <3>3, <4>1, <4>3, <4>4, <4>5 DEF HoldOf, CardR
    <3>6. CASE q = "W"
      <4>1. Pending(l, "W") = 1 /\ wk.owner = s
        BY <3>6, <1>0 DEF Wakes, Pending
      <4>2. Pending(l, "R") = 0 /\ Pending(l, "R")' = 0 /\ Pending(l, "W")' = 0
        BY <3>6, <1>0 DEF Wakes, Pending
      <4>3. CardR(l)' = CardR(l)
        BY <3>6, <1>0, CardStep DEF Wakes, IInv
      <4>4. w.wl /\ w.wr = s
        BY <4>1, <3>3
      <4>5. hold'[s][l] = "W" /\ \A u \in Threads : hold'[u][l] = "W" => u = s
        BY <4>4, <3>3, <3>6, <1>a
      <4> QED BY <3>1, <3>2, <3>3, <4>2, <4>3, <4>4, <4>5 DEF HoldOf, CardR
    <3> QED BY <3>5, <3>6 DEF Queues
  <2> QED BY <2>1, <2>2 DEF HoldInv
<1>11. BitsInv'
  <2>1. ASSUME NEW k \in Locks PROVE BitsOf(k)'
    <3>1. BitsOf(k) /\ rw_wwwh'[k] = rw_wwwh[k]
      BY <1>0 DEF Wakes, IInv, BitsInv
    <3>2. \A y \in Queues : Blocker(k, y)' <=> Blocker(k, y)
      <4>1. \A u \in Threads : (pc'[u] = "block" <=> pc[u] = "block")
                               /\ (pc[u] = "block" => lk'[u] = lk[u] /\ rw'[u] = rw[u])
        BY <1>0, <1>a DEF Wakes
      <4> QED BY <4>1 DEF Blocker
    <3>3. (\E d \in Threads : pc[d] \in DownLabels /\ lk[d] = k)
             => \E d \in Threads : pc'[d] \in DownLabels /\ lk'[d] = k
      <4>1. \A d \in Threads : pc[d] \in DownLabels => pc'[d] = pc[d] /\ lk'[d] = lk[d]
        BY <1>0, <1>a DEF Wakes, DownLabels
      <4> QED BY <4>1
    <3>4. (QueuedW(k)' <=> QueuedW(k)) /\ (QueuedR(k)' <=> QueuedR(k))
      <4>1. CASE k # l
        <5>1. /\ Pending(k, "R") = 0 /\ Pending(k, "W") = 0
              /\ Pending(k, "R")' = 0 /\ Pending(k, "W")' = 0
          BY <4>1, <1>0 DEF Wakes, Pending
        <5>2. tc_chain'[k] = tc_chain[k] /\ tc_chain[k] # ts
          BY <4>1, <1>f, <1>i
        <5>3. tc_chain[k] # NULL => tc_chain[k] \in Turnstiles
          BY DEF IInv, TypeOK, TurnstileTypeOK
        <5>4. tc_chain[k] # NULL => WQ(k)' = WQ(k) /\ RQ(k)' = RQ(k)
          BY <5>2, <5>3, <1>b DEF WQ, RQ, Queues
        <5> QED BY <5>1, <5>2, <5>4 DEF QueuedW, QueuedR
      <4>2. CASE k = l
        <5>1. PICK p, r \in Nat : p = Pending(l, "W") /\ r = Pending(l, "R")
          BY PendingFacts
        <5>2. /\ q = "W" => p = n /\ r = 0 /\ Pending(l, "W")' = n - 1 /\ Pending(l, "R")' = 0
              /\ q = "R" => p = 0 /\ r = n /\ Pending(l, "W")' = 0 /\ Pending(l, "R")' = n - 1
          BY <5>1, <1>0 DEF Wakes, Pending
        <5>3. QueuedW(l) <=> a > p
          BY <5>1, <1>1, <1>f DEF QueuedW, WQ
        <5>4. QueuedR(l) <=> b > r
          BY <5>1, <1>1, <1>f DEF QueuedR, RQ
        <5>5. CASE \E f \in Turnstiles : Given(f)
          <6>1. tc_chain'[l] = ts
            BY <5>5, <1>f
          <6>2. QueuedW(l)' <=> a1 > Pending(l, "W")'
            BY <6>1, <1>e DEF QueuedW, WQ
          <6>3. QueuedR(l)' <=> b1 > Pending(l, "R")'
            BY <6>1, <1>e DEF QueuedR, RQ
          <6>4. CASE q = "W"
            BY <6>2, <6>3, <6>4, <5>2, <5>3, <5>4, <1>e, <4>2
          <6>5. CASE q = "R"
            BY <6>2, <6>3, <6>5, <5>2, <5>3, <5>4, <1>e, <4>2
          <6> QED BY <6>4, <6>5 DEF Queues
        <5>6. CASE Last
          <6>1. ~QueuedW(l)' /\ ~QueuedR(l)'
            <7>1. tc_chain'[l] = NULL
              BY <5>6 DEF IInv, TypeOK, TurnstileTypeOK
            <7> QED BY <7>1 DEF QueuedW, QueuedR
          <6>2. ~(a > p) /\ ~(b > r)
            <7>1. a + b = 1 /\ n = 1 /\ a1 = 0 /\ b1 = 0
              BY <5>6, <1>h
            <7>2. CASE q = "W"
              BY <7>1, <7>2, <5>2, <1>e
            <7>3. CASE q = "R"
              BY <7>1, <7>3, <5>2, <1>e
            <7> QED BY <7>2, <7>3 DEF Queues
          <6> QED BY <6>1, <6>2, <5>3, <5>4, <4>2
        <5> QED BY <5>5, <5>6, <1>g
      <4> QED BY <4>1, <4>2
    <3> QED BY <3>1, <3>2, <3>3, <3>4 DEF BitsOf, Queues
  <2> QED BY <2>1 DEF BitsInv
<1>12. HandInv'
  <2>1. ASSUME NEW u \in Threads, pc'[u] \in FinalLabels \cup DownLabels
        PROVE  u # s /\ lk'[u] = lk[u] /\ rw'[u] = rw[u] /\ pc'[u] = pc[u]
    BY <2>1, <1>a DEF FinalLabels, DownLabels
  <2>2. rw_wwwh' = rw_wwwh
    BY <1>0 DEF Wakes
  <2> QED BY <2>1, <2>2 DEF IInv, HandInv
<1>13. InheritInv'
  <2>1. SUFFICES ASSUME NEW k \in Locks, tc_chain'[k] # NULL, ts_inheritor'[tc_chain'[k]] # NULL
                 PROVE  LET i == ts_inheritor'[tc_chain'[k]] IN
                        \/ hold'[i][k] = "W"
                        \/ lk'[i] = k /\ pc'[i] \in DownLabels \cup {"waive"}
    BY DEF InheritInv
  <2>2. PICK x \in Turnstiles : x = tc_chain'[k] /\ x = tc_chain[k]
    BY <2>1, <1>i
  <2>3. CASE ts_inheritor'[x] = ts_inheritor[x]
    <3>1. PICK i \in Threads : i = ts_inheritor[x] /\ i = ts_inheritor'[x]
      BY <2>1, <2>2, <2>3 DEF IInv, TypeOK, TurnstileTypeOK
    <3>2. hold[i][k] = "W" \/ (lk[i] = k /\ pc[i] \in DownLabels \cup {"waive"})
      BY <2>1, <2>2, <3>1, ZenonT(60) DEF IInv, InheritInv
    <3>3. CASE i = s
      <4>1. pc[s] = "sleep" /\ hold[s][l] = "none"
        BY <1>0 DEF Wakes
      <4>2. hold[s][k] = "W"
        BY <3>2, <3>3, <4>1 DEF DownLabels
      <4>3. k # l
        BY <4>1, <4>2
      <4>4. hold'[i][k] = "W"
        BY <4>2, <4>3, <3>3, <1>a
      <4> QED BY <4>4, <3>1, <2>2
    <3>4. CASE i # s
      BY <3>1, <3>2, <3>4, <2>2, <1>a
    <3> QED BY <3>3, <3>4
  <2>4. CASE x = ts /\ ts_inheritor'[x] = s /\ q = "W"
    <3>1. k = l
      BY <2>2, <2>4, <1>f
    <3> QED BY <3>1, <2>2, <2>4, <1>a
  <2> QED BY <2>3, <2>4, <1>0 DEF Wakes
<1> QED
  BY <1>4, <1>5, <1>6, <1>7, <1>8, <1>9, <1>10, <1>11, <1>12, <1>13 DEF IInv

-----------------------------------------------------------------------------
LEMMA InitInv == Init => IInv
<1> USE TurnstileAssumption DEF Init, TurnstileInit
<1> SUFFICES ASSUME Init PROVE IInv
  OBVIOUS
<1>0. wk.q = "W" /\ wk.n = 0 /\ wk.owner = NULL /\ wk.sobj = NULL
  BY DEF NoWakeup
<1>1. TypeOK
  <2>1. wk \in [q : Queues, n : Nat, owner : Threads \cup {NULL},
                sobj : Locks \cup {NULL}]
    BY DEF NoWakeup, Queues
  <2>2. rw_wwwh \in [Locks -> Words]
    BY DoubleLock
  <2>3. ts_sleepq \in [Turnstiles -> [Queues -> Seq(Threads)]]
    <3>1. <<>> \in Seq(Threads)
      OBVIOUS
    <3> QED BY <3>1
  <2>4. TurnstileTypeOK
    BY <2>1, <2>3 DEF TurnstileTypeOK
  <2>5. /\ hold \in [Threads -> [Locks -> {"none", "R", "W"}]]
        /\ pc \in [Threads -> Labels] /\ rw \in [Threads -> Queues]
        /\ lk \in [Threads -> Locks \cup {NULL}]
    BY DEF Labels, Queues
  <2>6. t_kpri_req \in [Threads -> Int]
    <3>1. t_kpri_req = [t \in Threads |-> 0]
      OBVIOUS
    <3> QED BY <3>1
  <2>7. panicstr \in BOOLEAN
    <3>1. panicstr = FALSE
      OBVIOUS
    <3> QED BY <3>1
  <2> QED BY <2>2, <2>4, <2>5, <2>6, <2>7 DEF TypeOK
<1>2. ControlInv
  BY DEF ControlInv, TcLabels, QueuedLabels, EnterLabels, FinalLabels,
         DownLabels, WakeLabels
<1>3. ChainInv
  BY DEF ChainInv, Active
<1>4. ContentInv
  BY FS_EmptySet DEF ContentInv, Active, Queues
<1>5. QueueInv
  BY DEF QueueInv, NoDup, Elems
<1>6. WakeupInv
  BY <1>0 DEF WakeupInv
<1>7. HoldInv
  <2>1. ASSUME NEW l \in Locks PROVE HoldOf(l)
    <3>1. CardR(l) = 0
      BY CardFacts
    <3>2. Pending(l, "R") = 0 /\ Pending(l, "W") = 0
      BY <1>0 DEF Pending
    <3> QED BY <3>1, <3>2, DoubleLock DEF HoldOf, CardR
  <2> QED BY <2>1 DEF HoldInv
<1>8. BitsInv
  BY <1>0, DoubleLock DEF BitsInv, BitsOf, QueuedW, QueuedR, Blocker
<1>9. HandInv
  BY DEF HandInv, FinalLabels, DownLabels
<1>10. InheritInv
  BY DEF InheritInv
<1> QED
  BY <1>1, <1>2, <1>3, <1>4, <1>5, <1>6, <1>7, <1>8, <1>9, <1>10 DEF IInv

LEMMA StutterInv == ASSUME IInv, UNCHANGED vars PROVE IInv'
<1> USE DEF vars, rw_vars, ts_vars, chain_vars, pi_vars
<1>1. TypeOK' /\ ControlInv'
  BY DEF IInv, TypeOK, TurnstileTypeOK, ControlInv
<1>2. ChainInv' /\ ContentInv' /\ QueueInv'
  BY TurnstilesKept
<1>3. WakeupInv'
  BY DEF IInv, WakeupInv, WQ
<1>4. HoldInv'
  BY SameHolds, OtherHoldKept DEF HoldInv
<1>5. BitsInv'
  BY QueuedKept DEF IInv, BitsInv, BitsOf, Blocker
<1>6. HandInv' /\ InheritInv'
  BY DEF IInv, HandInv, InheritInv
<1> QED BY <1>1, <1>2, <1>3, <1>4, <1>5, <1>6 DEF IInv

LEMMA NextInv == IInv /\ [Next]_vars => IInv'
<1> SUFFICES ASSUME IInv, [Next]_vars PROVE IInv'
  OBVIOUS
<1>1. ASSUME NEW t \in Threads, Continue(t) PROVE IInv'
  BY <1>1, EnterGrabInv, EnterBusyInv, EnterLookupInv, EnterRetryInv,
     EnterWaitInv, 
     EnterBlockInv, EnterWillInv, ExitLookupInv, ExitToReadersInv, ExitToWriterInv,
     WakeWaiveInv, WakeOneInv, WakeDoneInv, DowngradeLookupInv, DowngradeShareInv
     DEF Continue
<1>2. ASSUME NEW t \in Threads, NEW l \in Locks, NEW m \in {"R", "W"},
             rw_enter(t, l, m) \/ rw_tryenter(t, l, m)
      PROVE  IInv'
  <2>1. m \in Queues
    BY DEF Queues
  <2> QED BY <1>2, <2>1, rw_enterInv, rw_tryenterInv
<1>3. ASSUME NEW t \in Threads, NEW l \in Locks,
             rw_exit(t, l) \/ rw_downgrade(t, l) \/ rw_tryupgrade(t, l)
      PROVE  IInv'
  BY <1>3, ExitDropInv, ExitFinalInv, rw_downgradeInv, rw_tryupgradeInv
  DEF rw_exit
<1>4. ASSUME NEW l \in Destroyable, rw_destroy(l) \/ rw_init(l) PROVE IInv'
  BY <1>4, RWLockAssumption, rw_destroyInv, rw_initInv
<1>5. ASSUME NEW t \in Threads, NEW p \in Priorities, ChangePri(t, p) PROVE IInv'
  BY <1>5, ChangePriInv
<1>6. CASE UNCHANGED vars
  BY <1>6, StutterInv
<1> QED BY <1>1, <1>2, <1>3, <1>4, <1>5, <1>6 DEF Next

(* The inductive invariant of the rwlocks holds in every reachable state,  *)
(* for any number of threads, locks, turnstiles and priorities.            *)
THEOREM InductiveInvariant == Spec => []IInv
BY InitInv, NextInv, PTL DEF Spec

(* Type correctness of the rwlock and turnstile state: in particular the   *)
(* hold count of the word never goes below zero and every active turnstile *)
(* of turnstile_table is a turnstile.                                      *)
THEOREM TypeCorrect == Spec => []TypeOK
<1>1. IInv => TypeOK
  BY DEF IInv
<1> QED BY <1>1, InductiveInvariant, PTL

(* Mutual exclusion of rw_enter, rw_tryenter, rw_tryupgrade and the direct *)
(* handoffs of rw_exit_wakeup and rw_downgrade: a lock held for writing is *)
(* held by nobody else.                                                    *)
THEOREM Exclusion == Spec => []MutualExclusion
<1>1. IInv => MutualExclusion
  BY WriterFacts DEF MutualExclusion
<1> QED BY <1>1, InductiveInvariant, PTL

(* The lock word counts exactly the threads that hold the lock or have     *)
(* been granted it by the handoff in progress.                             *)
THEOREM WordExact == Spec => []WordCountsHolds
<1>1. ASSUME IInv PROVE WordCountsHolds
  <2>1. ASSUME NEW l \in Locks, rw_wwwh[l] # RW_DOUBLE_LOCK
        PROVE  LET w == rw_wwwh[l] IN
               /\ w.rd = Cardinality(HoldersR(l)) + Pending(l, "R")
               /\ w.wl <=> w.wr # NULL
               /\ w.wl => hold[w.wr][l] = "W" \/ (wk.sobj = l /\ wk.owner = w.wr)
               /\ ~w.wl => \A t \in Threads : hold[t][l] # "W"
    <3>1. HoldOf(l)
      BY <1>1 DEF IInv, HoldInv
    <3>2. Pending(l, "W") = 1 => wk.sobj = l
      BY DEF Pending
    <3> QED BY <2>1, <3>1, <3>2 DEF HoldOf
  <2> QED BY <2>1 DEF WordCountsHolds
<1> QED BY <1>1, InductiveInvariant, PTL

-----------------------------------------------------------------------------
(***************************************************************************)
(* What rwlocks do for the threads that wait: the bits of the word and the *)
(* turnstiles are exact; the queues are in priority order and the kernel   *)
(* priority requests balanced; the owner of a lock runs at the priority of *)
(* the threads that sleep on it and nobody keeps a priority it inherited;  *)
(* and waiting threads are granted the lock as AbstractRWLock says.        *)
(***************************************************************************)

(* A thread is granted a lock it sleeps for exactly if it is among the     *)
(* first ones of the queue that the wakeup is taking.                      *)
LEMMA GrantedIsPending ==
    ASSUME IInv, NEW l \in Locks, NEW q \in Queues, NEW t \in Threads,
           tc_chain[l] \in Turnstiles, t_wchan[t] = l,
           NEW i \in DOMAIN ts_sleepq[tc_chain[l]][q],
           ts_sleepq[tc_chain[l]][q][i] = t
    PROVE  Granted(t) <=> i <= Pending(l, q)
<1> DEFINE ts == tc_chain[l]
           sq == ts_sleepq[ts][q]
<1>1. sq \in Seq(Threads) /\ NoDup(sq) /\ Len(sq) \in Nat
  BY QueueTypes
<1>2. DOMAIN sq = 1..Len(sq)
  BY <1>1, LenProperties
<1>3. t_ts[t] = ts /\ rw[t] = q
  BY DEF IInv, QueueInv, Elems
<1>4. wk.n \in Nat /\ l # NULL
  BY TurnstileAssumption DEF IInv, TypeOK, TurnstileTypeOK
<1>5. i \in Nat /\ i >= 1 /\ i <= Len(sq)
  BY <1>1, <1>2
<1>6. CASE wk.sobj = l /\ wk.q = q
  <2>1. Pending(l, q) = wk.n
    BY <1>6 DEF Pending
  <2>2. Granted(t) <=> \E j \in 1..wk.n : sq[j] = t
    BY <1>3, <1>4, <1>6 DEF Granted
  <2>3. wk.n <= Len(sq)
    <3>1. wk.n > 0 => wk.n <= Len(sq)
      BY <1>6 DEF IInv, WakeupInv
    <3> QED BY <3>1, <1>1, <1>4
  <2>4. ASSUME NEW j \in 1..wk.n, sq[j] = t PROVE j = i
    <3>1. j \in DOMAIN sq
      BY <2>3, <1>1, <1>2, <1>4
    <3> QED BY <3>1, <2>4, <1>1 DEF NoDup
  <2>5. i <= wk.n => i \in 1..wk.n
    BY <1>4, <1>5
  <2>6. (\E j \in 1..wk.n : sq[j] = t) <=> i <= wk.n
    <3>1. ASSUME NEW j \in 1..wk.n, sq[j] = t PROVE i <= wk.n
      BY <3>1, <2>4, <1>4
    <3> QED BY <3>1, <2>5
  <2> QED BY <2>1, <2>2, <2>6
<1>7. CASE ~(wk.sobj = l /\ wk.q = q)
  <2>1. Pending(l, q) = 0
    BY <1>7 DEF Pending
  <2>2. ~Granted(t)
    BY <1>3, <1>7 DEF Granted
  <2> QED BY <2>1, <2>2, <1>5
<1> QED BY <1>6, <1>7

(* A thread waits for lock l in mode q if the queue is longer than the     *)
(* wakeup under way, or if it is about to join the queue.                  *)
LEMMA WaitingQueued ==
    ASSUME IInv, NEW l \in Locks, NEW q \in Queues
    PROVE  Waiting(l, q) # {} <=>
              \/ tc_chain[l] # NULL
                    /\ Len(ts_sleepq[tc_chain[l]][q]) > Pending(l, q)
              \/ Blocker(l, q)
<1> DEFINE sq == ts_sleepq[tc_chain[l]][q]
<1>1. Pending(l, q) \in Nat
  BY PendingFacts DEF Queues
<1>2. ASSUME Blocker(l, q) PROVE Waiting(l, q) # {}
  <2>1. PICK t \in Threads : pc[t] = "block" /\ lk[t] = l /\ rw[t] = q
    BY <1>2 DEF Blocker
  <2>2. t_wchan[t] = NULL
    BY <2>1 DEF IInv, ControlInv, QueuedLabels
  <2>3. ~Granted(t)
    BY <2>2 DEF Granted
  <2> QED BY <2>1, <2>3 DEF Waiting
<1>3. ASSUME tc_chain[l] # NULL, Len(sq) > Pending(l, q)
      PROVE  Waiting(l, q) # {}
  <2>1. tc_chain[l] \in Turnstiles
    BY <1>3 DEF IInv, TypeOK, TurnstileTypeOK
  <2>2. sq \in Seq(Threads) /\ Len(sq) \in Nat
    BY <2>1, QueueTypes
  <2>3. DOMAIN sq = 1..Len(sq) /\ \A i \in 1..Len(sq) : sq[i] \in Threads
    BY <2>2, LenProperties
  <2>4. PICK i \in 1..Len(sq) : i > Pending(l, q)
    BY <1>1, <1>3, <2>2
  <2>5. PICK t \in Threads : t = sq[i]
    BY <2>3
  <2>6. t_wchan[t] # NULL /\ t_ts[t] = tc_chain[l] /\ rw[t] = q
    BY <2>1, <2>3, <2>5 DEF IInv, QueueInv, Elems
  <2>7. t_wchan[t] = l /\ lk[t] = l /\ pc[t] \in QueuedLabels
    BY <2>6, SleepsOn
  <2>8. ~Granted(t)
    <3>1. i \in DOMAIN sq
      BY <2>3
    <3>2. ~(i <= Pending(l, q))
      BY <2>4, <1>1, <2>2
    <3> QED BY <2>1, <2>5, <2>7, <3>1, <3>2, GrantedIsPending
  <2> QED BY <2>6, <2>7, <2>8 DEF Waiting, QueuedLabels
<1>4. ASSUME NEW t \in Waiting(l, q), ~Blocker(l, q)
      PROVE  tc_chain[l] # NULL /\ Len(sq) > Pending(l, q)
  <2>1. /\ t \in Threads /\ pc[t] \in QueuedLabels
        /\ lk[t] = l /\ rw[t] = q /\ ~Granted(t)
    BY <1>4 DEF Waiting, Blocker, QueuedLabels
  <2>2. t_wchan[t] = l /\ l # NULL
    BY <2>1, TurnstileAssumption DEF IInv, ControlInv
  <2>3. tc_chain[l] = t_ts[t] /\ t \in Elems(ts_sleepq[t_ts[t]][rw[t]])
    BY <2>1, <2>2 DEF IInv, ChainInv, QueueInv
  <2>4. tc_chain[l] \in Turnstiles
    BY <2>1, <2>3 DEF IInv, TypeOK, TurnstileTypeOK
  <2>5. sq \in Seq(Threads) /\ Len(sq) \in Nat
    BY <2>4, QueueTypes
  <2>6. PICK i \in DOMAIN sq : sq[i] = t
    BY <2>1, <2>3 DEF Elems
  <2>7. ~(i <= Pending(l, q))
    BY <2>1, <2>2, <2>4, <2>6, GrantedIsPending
  <2>8. i \in 1..Len(sq)
    BY <2>5, <2>6, LenProperties
  <2>9. Len(sq) > Pending(l, q)
    BY <2>5, <2>7, <2>8, <1>1
  <2> QED BY <2>4, <2>9, TurnstileAssumption
<1> QED BY <1>2, <1>3, <1>4

LEMMA BitsFollow ==
    ASSUME IInv PROVE WaitersBitsExact
<1>1. ASSUME NEW l \in Locks
      PROVE  LET w == rw_wwwh[l] IN
             /\ w.ww <=> Waiting(l, "W") # {}
             /\ w.hw <=> Waiting(l, "W") \cup Waiting(l, "R") # {}
             /\ w.hw => RW_LOCKED(w)
  <2>1. BitsOf(l)
    BY DEF IInv, BitsInv
  <2>2. Waiting(l, "W") # {} <=> QueuedW(l) \/ Blocker(l, "W")
    BY WaitingQueued DEF QueuedW, WQ, Queues
  <2>3. Waiting(l, "R") # {} <=> QueuedR(l) \/ Blocker(l, "R")
    BY WaitingQueued DEF QueuedR, RQ, Queues
  <2>4. Waiting(l, "W") \cup Waiting(l, "R") # {}
           <=> Waiting(l, "W") # {} \/ Waiting(l, "R") # {}
    OBVIOUS
  <2> QED BY <2>1, <2>2, <2>3, <2>4 DEF BitsOf
<1> QED BY <1>1 DEF WaitersBitsExact

(* The waiters bits are exact for any number of threads and locks: no      *)
(* exit, downgrade or interleaving of both with a blocking rw_enter        *)
(* strands a waiter of a lock or leaves a bit set for nobody.              *)
THEOREM BitsExact == Spec => []WaitersBitsExact
BY BitsFollow, InductiveInvariant, PTL

(* The threads asleep on lock l are those of its turnstile's two queues,   *)
(* and ts_waiters counts them.                                             *)
LEMMA WaitersCounted ==
    ASSUME IInv, NEW l \in Locks, tc_chain[l] # NULL
    PROVE  LET sleepers == {t \in Threads : t_wchan[t] = l} IN
           /\ \A t \in sleepers : t_ts[t] = tc_chain[l]
           /\ ts_waiters[tc_chain[l]] = Cardinality(sleepers)
<1> DEFINE sleepers == {t \in Threads : t_wchan[t] = l}
<1>1. PICK ts \in Turnstiles : ts = tc_chain[l]
  BY DEF IInv, TypeOK, TurnstileTypeOK
<1>2. PICK w \in Seq(Threads) : w = ts_sleepq[ts]["W"] /\ NoDup(w)
  BY QueueTypes DEF Queues
<1>3. PICK r \in Seq(Threads) : r = ts_sleepq[ts]["R"] /\ NoDup(r)
  BY QueueTypes DEF Queues
<1>4. ASSUME NEW t \in sleepers
      PROVE  t_ts[t] = ts /\ t \in Elems(w) \cup Elems(r)
  <2>1. t \in Threads /\ t_wchan[t] = l /\ t_wchan[t] # NULL
    BY TurnstileAssumption
  <2>2. t_ts[t] = ts /\ t \in Elems(ts_sleepq[t_ts[t]][rw[t]])
    BY <2>1, <1>1 DEF IInv, ChainInv, QueueInv
  <2>3. rw[t] \in Queues
    BY <2>1 DEF IInv, TypeOK
  <2> QED BY <2>2, <2>3, <1>2, <1>3 DEF Queues
<1>5. /\ \A t \in Elems(w) : t_wchan[t] # NULL /\ t_ts[t] = ts /\ rw[t] = "W"
      /\ \A t \in Elems(r) : t_wchan[t] # NULL /\ t_ts[t] = ts /\ rw[t] = "R"
  BY <1>2, <1>3 DEF IInv, QueueInv, Queues
<1>6. Elems(w) \subseteq Threads /\ Elems(r) \subseteq Threads
  <2>1. \A i \in DOMAIN w : w[i] \in Threads
    BY LenProperties
  <2>2. \A i \in DOMAIN r : r[i] \in Threads
    BY LenProperties
  <2> QED BY <2>1, <2>2 DEF Elems
<1>7. Elems(w) \cup Elems(r) \subseteq sleepers
  BY <1>1, <1>5, <1>6, SleepsOn
<1>8. sleepers = Elems(w) \cup Elems(r) /\ Elems(w) \cap Elems(r) = {}
  <2>1. Elems(w) \cap Elems(r) = {}
    BY <1>5
  <2>2. sleepers \subseteq Elems(w) \cup Elems(r)
    BY <1>4
  <2> QED BY <2>1, <2>2, <1>7
<1>9. /\ IsFiniteSet(Elems(w)) /\ Cardinality(Elems(w)) = Len(w) /\ Len(w) \in Nat
      /\ IsFiniteSet(Elems(r)) /\ Cardinality(Elems(r)) = Len(r) /\ Len(r) \in Nat
  <2>1. IsFiniteSet(Elems(w)) /\ Cardinality(Elems(w)) = Len(w) /\ Len(w) \in Nat
    BY <1>2, QueueCardinality, LenProperties
  <2>2. IsFiniteSet(Elems(r)) /\ Cardinality(Elems(r)) = Len(r) /\ Len(r) \in Nat
    BY <1>3, QueueCardinality, LenProperties
  <2> QED BY <2>1, <2>2
<1>10. Cardinality(sleepers) = Len(w) + Len(r)
  <2> HIDE DEF sleepers
  <2>1. Cardinality(Elems(w) \cup Elems(r))
           = Len(w) + Len(r) - Cardinality(Elems(w) \cap Elems(r))
    BY <1>9, FS_Union
  <2>2. Cardinality(Elems(w) \cap Elems(r)) = 0
    BY <1>8, FS_EmptySet
  <2> QED BY <2>1, <2>2, <1>8, <1>9
<1>11. ts_waiters[ts] = Len(w) + Len(r)
  BY <1>2, <1>3 DEF IInv, ContentInv
<1> QED BY <1>1, <1>4, <1>10, <1>11

(* Turnstiles are conserved for any number of threads and locks by every   *)
(* turnstile_block and turnstile_wakeup: a thread that wakes up takes away *)
(* a turnstile that nobody else has.                                       *)
THEOREM Conservation == Spec => []TurnstileConservation
<1>1. ASSUME IInv PROVE TurnstileConservation
  <2>1. ASSUME NEW t \in Threads, NEW u \in Threads, t_wchan[t] = NULL
        PROVE  /\ t # u => t_ts[u] # t_ts[t]
               /\ \A l \in Locks : tc_chain[l] # t_ts[t]
               /\ \A ts \in Turnstiles : t_ts[t] \notin ts_free[ts]
               /\ ts_waiters[t_ts[t]] = 0 /\ ts_free[t_ts[t]] = {}
    <3>1. t_ts[t] \in Turnstiles
      BY <1>1 DEF IInv, TypeOK, TurnstileTypeOK
    <3>2. ~Active(t_ts[t])
      BY <1>1, <2>1 DEF IInv, ChainInv
    <3>3. ts_waiters[t_ts[t]] = 0 /\ ts_free[t_ts[t]] = {}
      BY <1>1, <3>1, <3>2 DEF IInv, ContentInv
    <3> QED BY <1>1, <2>1, <3>2, <3>3 DEF IInv, ChainInv, Active
  <2>2. ASSUME NEW l \in Locks, tc_chain[l] # NULL
        PROVE  Cardinality(ts_free[tc_chain[l]]) = ts_waiters[tc_chain[l]] - 1
    <3>1. tc_chain[l] \in Turnstiles /\ Active(tc_chain[l])
      BY <1>1, <2>2 DEF IInv, TypeOK, TurnstileTypeOK, Active
    <3> QED BY <1>1, <3>1 DEF IInv, ContentInv
  <2>3. ASSUME NEW l \in Locks, tc_chain[l] = NULL, NEW t \in Threads
        PROVE  t_wchan[t] # l
    <3>1. t_ts[t] \in Turnstiles /\ l # NULL
      BY <1>1, TurnstileAssumption DEF IInv, TypeOK, TurnstileTypeOK
    <3> QED BY <1>1, <2>3, <3>1, TurnstileAssumption DEF IInv, ChainInv
  <2> QED BY <1>1, <2>1, <2>2, <2>3, WaitersCounted DEF TurnstileConservation
<1> QED BY <1>1, InductiveInvariant, PTL
-----------------------------------------------------------------------------
(* Which threads a wakeup in progress has granted the lock.                *)
WaitLabels == {"block", "pi", "sleep"}

LEMMA GrantedFacts ==
    ASSUME IInv, NEW t \in Threads, Granted(t)
    PROVE  /\ wk.n \in Nat /\ wk.n > 0 /\ wk.sobj \in Locks /\ t_wchan[t] = wk.sobj
           /\ pc[t] \in QueuedLabels /\ lk[t] = wk.sobj /\ rw[t] = wk.q
           /\ hold[t][wk.sobj] = "none"
<1>1. wk.n \in Nat /\ t_wchan[t] = wk.sobj /\ rw[t] = wk.q /\ wk.sobj # NULL
      /\ wk.sobj \in Locks
  BY DEF Granted, IInv, TypeOK, TurnstileTypeOK
<1>2. wk.n > 0
  BY <1>1 DEF Granted
<1>3. pc[t] \in QueuedLabels /\ lk[t] = wk.sobj
  BY <1>1 DEF IInv, ControlInv
<1> QED BY <1>1, <1>2, <1>3 DEF IInv, ControlInv, QueuedLabels, EnterLabels

LEMMA GrantedKept ==
    ASSUME UNCHANGED <<wk, t_wchan, ts_sleepq, t_ts>>, NEW t \in Threads,
           t_wchan[t] # NULL => rw'[t] = rw[t]
    PROVE  Granted(t)' <=> Granted(t)
BY DEF Granted

(* While no wakeup is under way nobody is granted a lock.                  *)
LEMMA NobodyGranted ==
    ASSUME wk.n = 0 PROVE \A t \in Threads : ~Granted(t)
BY DEF Granted

(* A thread is requeued, or goes to sleep, while nobody is granted a lock. *)
LEMMA GrantedRequeued ==
    ASSUME IInv, NEW t \in Threads,
           EnterBlock(t) \/ EnterWill(t) \/ (\E p \in Priorities : ChangePri(t, p))
    PROVE  \A u \in Threads : Granted(u)' <=> Granted(u)
<1>1. CASE EnterBlock(t) \/ EnterWill(t)
  <2>1. pc[t] \in TcLabels \ WakeLabels
    BY <1>1 DEF EnterBlock, EnterWill, At, TcLabels, WakeLabels
  <2>2. wk.n = 0 /\ UNCHANGED wk
    BY <1>1, <2>1, Quiet
    DEF EnterBlock, EnterWill, turnstile_block, turnstile_block_pi
  <2> QED BY <2>2 DEF Granted
<1>2. CASE \E p \in Priorities : ChangePri(t, p)
  <2>1. UNCHANGED <<rw, wk, t_wchan, t_ts>>
    BY <1>2 DEF ChangePri, thread_change_pri, rw_vars, chain_vars
  <2>2. CASE t_wchan[t] = NULL
    BY <1>2, <2>1, <2>2, GrantedKept DEF ChangePri, thread_change_pri
  <2>3. CASE t_wchan[t] # NULL
    <3>1. tc_lock = NULL
      BY <1>2, <2>3 DEF ChangePri, thread_change_pri
    <3>2. \A u \in Threads : pc[u] \notin WakeLabels
      BY <3>1, TurnstileAssumption DEF IInv, ControlInv, TcLabels, WakeLabels
    <3>3. wk.n = 0
      BY <3>2 DEF IInv, WakeupInv
    <3> QED BY <2>1, <3>3 DEF Granted
  <2> QED BY <2>2, <2>3
<1> QED BY <1>1, <1>2

LEMMA GrantedWaived ==
    ASSUME IInv, NEW t \in Threads, WakeWaive(t)
    PROVE  \A u \in Threads : Granted(u)' <=> Granted(u)
<1>1. TypeOK /\ pc[t] = "waive" /\ Goto(t, "wake")
      /\ UNCHANGED <<hold, lk, rw, wk, t_wchan, t_ts>>
  BY DEF IInv, WakeWaive, At, turnstile_wakeup_waive, chain_vars
<1>2. PICK l \in Locks : wk.sobj = l /\ lk[t] = l /\ tc_chain[l] # NULL
  BY <1>1, InOperation DEF IInv, ControlInv, WakeupInv, WakeLabels
<1>3. PICK ts \in Turnstiles : ts = tc_chain[l]
  BY <1>2 DEF IInv, TypeOK, TurnstileTypeOK
<1>4. ts_sleepq'[ts] = ts_sleepq[ts]
  <2>1. CASE ts_inheritor[ts] = NULL
    BY <1>2, <1>3, <2>1 DEF WakeWaive, turnstile_wakeup_waive
  <2>2. CASE ts_inheritor[ts] # NULL
    <3>1. PICK i \in Threads : i = ts_inheritor[ts]
      BY <2>2 DEF IInv, TypeOK, TurnstileTypeOK
    <3>2. t_wchan[i] # NULL => t_ts[i] # ts
      <4>1. hold[i][l] = "W" \/ (lk[i] = l /\ pc[i] \in DownLabels \cup {"waive"})
        BY <1>2, <1>3, <2>2, <3>1 DEF IInv, InheritInv
      <4> QED BY <1>3, <4>1, SleepsOn DEF QueuedLabels, DownLabels
    <3>3. turnstile_pi_waive(ts)
      BY <1>2, <1>3, <2>2 DEF WakeWaive, turnstile_wakeup_waive
    <3>4. PICK e : thread_change_epri(i, e) \/ UNCHANGED ts_sleepq
      BY <3>1, <3>3 DEF turnstile_pi_waive
    <3>5. ts \in DOMAIN ts_sleepq /\ t_ts[i] \in DOMAIN ts_sleepq
      BY <3>1 DEF IInv, TypeOK, TurnstileTypeOK
    <3> QED BY <3>2, <3>4, <3>5 DEF thread_change_epri, turnstile_change_pri
  <2> QED BY <2>1, <2>2
<1>5. ASSUME NEW u \in Threads PROVE Granted(u)' <=> Granted(u)
  <2>1. CASE t_wchan[u] = l
    <3>1. t_ts[u] = ts
      BY <1>3, <2>1, TurnstileAssumption DEF IInv, ChainInv
    <3> QED BY <1>1, <1>4, <3>1 DEF Granted
  <2>2. CASE t_wchan[u] # l
    BY <1>1, <1>2, <2>2 DEF Granted
  <2> QED BY <2>1, <2>2
<1> QED BY <1>5

(* The threads the wakeup loop has yet to reach stay granted.              *)
LEMMA GrantedWoken ==
    ASSUME IInv, NEW t \in Threads, NEW s \in Threads, NEW l \in Locks,
           NEW ts \in Turnstiles, NEW q \in Queues, NEW n \in Nat,
           Wakes(t, s, l, ts, q, n)
    PROVE  /\ Granted(s) /\ lk[s] = l /\ rw[s] = q
           /\ pc'[s] = "run" /\ hold'[s][l] = q
           /\ \A k \in Locks : k # l => hold'[s][k] = hold[s][k]
           /\ \A u \in Threads : u # s =>
                 /\ pc'[u] = pc[u] /\ lk'[u] = lk[u] /\ rw'[u] = rw[u]
                 /\ hold'[u] = hold[u]
                 /\ Granted(u)' <=> Granted(u)
<1>2. PICK sq \in Seq(Threads) : sq = ts_sleepq[ts][q] /\ Len(sq) \in Nat /\ NoDup(sq)
  BY QueueTypes
<1>3. /\ n > 0 /\ n <= Len(sq) /\ s = Head(sq) /\ wk.sobj = l /\ wk.q = q /\ wk.n = n
      /\ tc_chain[l] = ts /\ t_wchan[s] = l /\ t_ts[s] = ts /\ lk[s] = l /\ rw[s] = q
      /\ l # NULL
  BY <1>2, TurnstileAssumption DEF Wakes
<1>4. /\ wk'.sobj = l /\ wk'.q = q /\ wk'.n = n - 1 /\ ts_sleepq'[ts][q] = Tail(sq)
      /\ pc'[s] = "run" /\ hold'[s][l] = q
      /\ \A k \in Locks : k # l => hold'[s][k] = hold[s][k]
  <2>1. TypeOK /\ TurnstileTypeOK
    BY DEF IInv, TypeOK
  <2>2. wk'.sobj = l /\ wk'.q = q /\ wk'.n = n - 1
    BY DEF Wakes
  <2>3. ts_sleepq'[ts][q] = Tail(sq)
    BY <1>2, <2>1 DEF Wakes, TurnstileTypeOK
  <2>4. pc'[s] = "run"
    BY <2>1 DEF Wakes, TypeOK
  <2>5. hold'[s][l] = q /\ \A k \in Locks : k # l => hold'[s][k] = hold[s][k]
    BY <2>1 DEF Wakes, TypeOK
  <2> QED BY <2>2, <2>3, <2>4, <2>5
<1>5. \A u \in Threads : u # s =>
         /\ pc'[u] = pc[u] /\ lk'[u] = lk[u] /\ rw'[u] = rw[u] /\ hold'[u] = hold[u]
         /\ t_wchan'[u] = t_wchan[u] /\ t_ts'[u] = t_ts[u]
  <2>1. TypeOK /\ TurnstileTypeOK
    BY DEF IInv, TypeOK
  <2>2. \A u \in Threads : u # s =>
           pc'[u] = pc[u] /\ lk'[u] = lk[u] /\ rw'[u] = rw[u] /\ hold'[u] = hold[u]
    BY <2>1 DEF Wakes, TypeOK
  <2>3. \A u \in Threads : u # s => t_wchan'[u] = t_wchan[u]
    BY <2>1 DEF Wakes, TurnstileTypeOK
  <2>4. Detach(ts, s)
    BY DEF Wakes
  <2>5. \A u \in Threads : u # s => t_ts'[u] = t_ts[u]
    BY <2>1, <2>4 DEF Detach, TurnstileTypeOK
  <2> QED BY <2>2, <2>3, <2>5
<1>6. /\ DOMAIN sq = 1..Len(sq) /\ sq[1] = s
      /\ \A i \in 1..(Len(sq) - 1) : Tail(sq)[i] = sq[i + 1]
  BY <1>2, <1>3, LenProperties, HeadTailProperties
<1>7. ASSUME NEW u \in Threads, u # s PROVE Granted(u)' <=> Granted(u)
  <2>1. CASE t_wchan[u] = l /\ rw[u] = q
    <3>1. t_ts[u] = ts
      BY <1>3, <2>1 DEF IInv, ChainInv
    <3>2. Granted(u) <=> \E i \in 1..n : sq[i] = u
      BY <1>2, <1>3, <2>1, <3>1 DEF Granted
    <3>3. Granted(u)' <=> \E i \in 1..(n - 1) : Tail(sq)[i] = u
      <4>1. t_wchan'[u] = l /\ rw'[u] = q /\ t_ts'[u] = ts
        BY <1>5, <1>7, <2>1, <3>1
      <4> QED BY <1>3, <1>4, <4>1 DEF Granted
    <3>4. ASSUME NEW i \in 1..n, sq[i] = u
          PROVE  i - 1 \in 1..(n - 1) /\ Tail(sq)[i - 1] = u
      <4>1. i # 1
        BY <1>6, <1>7, <3>4
      <4>2. i - 1 \in 1..(n - 1) /\ i - 1 \in 1..(Len(sq) - 1) /\ (i - 1) + 1 = i
        BY <1>2, <1>3, <4>1
      <4> QED BY <1>6, <3>4, <4>2
    <3>5. ASSUME NEW i \in 1..(n - 1), Tail(sq)[i] = u
          PROVE  i + 1 \in 1..n /\ sq[i + 1] = u
      <4>1. i + 1 \in 1..n /\ i \in 1..(Len(sq) - 1)
        BY <1>2, <1>3
      <4> QED BY <1>6, <3>5, <4>1
    <3> QED BY <3>2, <3>3, <3>4, <3>5
  <2>2. CASE ~(t_wchan[u] = l /\ rw[u] = q)
    BY <1>3, <1>4, <1>5, <1>7, <2>2 DEF Granted
  <2> QED BY <2>1, <2>2
<1>8. Granted(s)
  <2>1. 1 \in 1..n
    BY <1>3
  <2> QED BY <1>2, <1>3, <1>6, <2>1 DEF Granted
<1> QED BY <1>3, <1>4, <1>5, <1>7, <1>8

(* A handoff grants the lock to the first n threads of a queue.            *)
LEMMA GrantedNow ==
    ASSUME IInv, NEW t \in Threads, NEW l \in Locks, NEW q \in Queues, NEW n \in Nat,
           NEW o, NEW ts \in Turnstiles, lk[t] = l, pc[t] \in {"hand", "share"},
           ts = tc_chain[l], n <= Len(ts_sleepq[ts][q]),
           wk' = [q |-> q, n |-> n, owner |-> o, sobj |-> l],
           UNCHANGED <<rw, chain_vars, ts_sleepq>>
    PROVE  \A u \in Threads :
              ~Granted(u) /\ (Granted(u)' <=> \E i \in 1..n : ts_sleepq[ts][q][i] = u)
<1>1. wk.n = 0 /\ l # NULL
  BY HandoverFacts, TurnstileAssumption
<1>2. PICK sq \in Seq(Threads) : sq = ts_sleepq[ts][q] /\ Len(sq) \in Nat
  BY QueueTypes
<1>3. ASSUME NEW u \in Threads
      PROVE  Granted(u)' <=> \E i \in 1..n : sq[i] = u
  <2>1. Granted(u)' <=> /\ t_wchan[u] = l /\ rw[u] = q
                        /\ \E i \in 1..n : ts_sleepq[t_ts[u]][q][i] = u
    BY <1>1 DEF Granted, chain_vars
  <2>2. t_wchan[u] = l => t_ts[u] = ts
    BY <1>1 DEF IInv, ChainInv
  <2>3. ASSUME NEW i \in 1..n, sq[i] = u PROVE t_wchan[u] = l /\ rw[u] = q
    <3>1. i \in DOMAIN sq
      BY <1>2, LenProperties
    <3>2. u \in Elems(sq)
      BY <2>3, <3>1 DEF Elems
    <3>3. t_wchan[u] # NULL /\ t_ts[u] = ts /\ rw[u] = q
      BY <1>2, <3>2 DEF IInv, QueueInv
    <3> QED BY <3>3, SleepsOn
  <2> QED BY <1>2, <2>1, <2>2, <2>3
<1> QED BY <1>1, <1>2, <1>3, NobodyGranted

(* A final exit that does not serve readers finds a writer to serve.       *)
LEMMA WriterToWake ==
    ASSUME IInv, NEW t \in Threads, NEW l \in Locks, lk[t] = l, pc[t] = "hand",
           ~GrantsReaders(t, tc_chain[l])
    PROVE  1 <= Len(ts_sleepq[tc_chain[l]]["W"])
<1>1. PICK ts \in Turnstiles : ts = tc_chain[l]
  BY HandoverFacts
<1>2. PICK a \in Nat, b \in Nat : a = Len(ts_sleepq[ts]["W"]) /\ b = Len(ts_sleepq[ts]["R"])
  BY Waiters
<1>3. Pending(l, "W") = 0 /\ Pending(l, "R") = 0 /\ ~Blocker(l, "W") /\ ~Blocker(l, "R")
      /\ rw_wwwh[l].hw
  BY HandoverFacts DEF Queues
<1>4. (QueuedW(l) => a > 0) /\ (QueuedR(l) => b > 0)
  BY <1>1, <1>2, <1>3 DEF QueuedW, QueuedR, WQ, RQ
<1>5. QueuedW(l) \/ QueuedR(l)
  BY <1>3 DEF IInv, BitsInv, BitsOf
<1>6. CASE rw[t] = "R"
  <2>1. rw_wwwh[l].ww
    BY <1>6 DEF IInv, HandInv, FinalLabels
  <2>2. QueuedW(l)
    BY <1>3, <2>1 DEF IInv, BitsInv, BitsOf
  <2> QED BY <1>1, <1>2, <1>4, <2>2
<1>7. CASE rw[t] = "W"
  <2>1. PICK n \in Nat : n = rw_readers_to_wake(ts) /\ (a = 0 => n = b)
    BY <1>2, ReadersToWake
  <2>2. ~(n > 0)
    BY <1>1, <1>7, <2>1 DEF GrantsReaders
  <2> QED BY <1>1, <1>2, <1>4, <1>5, <2>1, <2>2
<1>8. rw[t] \in {"R", "W"}
  BY DEF IInv, TypeOK, Queues
<1> QED BY <1>6, <1>7, <1>8

(* A step of t that leaves all others where they are and wakes nobody.     *)
Aside(t) ==
    /\ UNCHANGED <<wk, t_wchan, ts_sleepq, t_ts>>
    /\ \A u \in Threads : u # t =>
          pc'[u] = pc[u] /\ lk'[u] = lk[u] /\ rw'[u] = rw[u] /\ hold'[u] = hold[u]

(* What the locals of a step change.                                       *)
LEMMA HoldMine ==
    ASSUME TypeOK, NEW t \in Threads, NEW l \in Locks, NEW m, SetHold(t, l, m)
    PROVE  \A u \in Threads : u # t => hold'[u] = hold[u]
BY DEF SetHold, TypeOK

LEMMA GotoMine ==
    ASSUME TypeOK, NEW t \in Threads, NEW label, Goto(t, label)
    PROVE  pc'[t] = label /\ \A u \in Threads : u # t => pc'[u] = pc[u]
BY DEF Goto, TypeOK

LEMMA BeginMine ==
    ASSUME TypeOK, NEW t \in Threads, NEW label, NEW l, NEW m, Begin(t, label, l, m)
    PROVE  /\ pc'[t] = label /\ lk'[t] = l /\ rw'[t] = m
           /\ \A u \in Threads : u # t =>
                 pc'[u] = pc[u] /\ lk'[u] = lk[u] /\ rw'[u] = rw[u]
BY DEF Begin, Goto, TypeOK
-----------------------------------------------------------------------------
(* The queues stay sorted, whatever changes the priority of a thread.      *)
LEMMA QueuedOnce ==
    ASSUME IInv, NEW t \in Threads
    PROVE  /\ t_wchan[t] = NULL =>
                 \A ts \in Turnstiles, q \in Queues : t \notin Elems(ts_sleepq[ts][q])
           /\ \A ts \in Turnstiles, x, y \in Queues :
                 t \in Elems(ts_sleepq[ts][x]) /\ t \in Elems(ts_sleepq[t_ts[t]][y])
                    => ts = t_ts[t] /\ x = y
<1>1. t_ts[t] \in Turnstiles
  BY DEF IInv, TypeOK, TurnstileTypeOK
<1> QED BY <1>1 DEF IInv, QueueInv

LEMMA RepositionSorted ==
    ASSUME IInv, SortedInv, NEW t \in Threads,
           NEW pri \in [Threads -> Priorities], NEW epri \in [Threads -> Inheritable],
           \A x \in Threads : x # t => pri[x] = t_pri[x] /\ epri[x] = t_epri[x],
           t_pri' = pri, t_epri' = epri,
           ts_sleepq' = IF t_wchan[t] = NULL THEN ts_sleepq
                        ELSE turnstile_change_pri(t, Prio(pri, epri))
    PROVE  SortedInv'
<1>1. PICK old : old = DISP_PRIO
  OBVIOUS
<1>2. PICK new : new = Prio(pri, epri)
  OBVIOUS
<1>3. DISP_PRIO' = new
  BY <1>2 DEF DISP_PRIO
<1>4. \A x \in Threads : new[x] \in Nat
  BY <1>2, PrioType
<1>5. \A x \in Threads : x # t => new[x] = old[x]
  BY <1>1, <1>2 DEF DISP_PRIO, Prio
<1>6. TurnstileTypeOK /\ AllNoDup
  BY NoDupAll
<1>7. \A ts \in Turnstiles, q \in Queues : Sorted(ts_sleepq[ts][q], old)
  BY <1>1 DEF SortedInv
<1>8. \A ts \in Turnstiles, q \in Queues : Sorted(ts_sleepq'[ts][q], new)
  <2>1. CASE t_wchan[t] = NULL
    <3>1. ASSUME NEW ts \in Turnstiles, NEW q \in Queues
          PROVE  Sorted(ts_sleepq[ts][q], new)
      <4>1. ts_sleepq[ts][q] \in Seq(Threads)
        BY <1>6 DEF TurnstileTypeOK
      <4>2. \A x \in Elems(ts_sleepq[ts][q]) : x \in Threads /\ x # t
        BY <2>1, <4>1, QueuedOnce, ElementOfSeq, LenProperties DEF Elems
      <4> QED BY <1>5, <1>7, <4>2, SortedSame
    <3> QED BY <2>1, <3>1
  <2>2. CASE t_wchan[t] # NULL
    <3>1. \E q \in Queues : t \in Elems(ts_sleepq[t_ts[t]][q])
      BY <2>2, AsleepQueued
    <3>2. \A ts \in Turnstiles, q \in Queues :
              Sorted(turnstile_change_pri(t, new)[ts][q], new)
      BY <1>4, <1>5, <1>6, <1>7, <3>1, QueuedOnce, ChangePriSorted
    <3> QED BY <1>2, <2>2, <3>2
  <2> QED BY <2>1, <2>2
<1> QED BY <1>3, <1>8 DEF SortedInv

LEMMA ChangeEpriSorted ==
    ASSUME IInv, SortedInv, NEW t \in Threads, NEW e \in Inheritable,
           thread_change_epri(t, e), UNCHANGED t_pri
    PROVE  SortedInv'
<1>1. TurnstileTypeOK
  BY DEF IInv, TypeOK
<1>2. PICK epri : epri = [t_epri EXCEPT ![t] = e]
  OBVIOUS
<1>3. /\ epri \in [Threads -> Inheritable] /\ t_pri \in [Threads -> Priorities]
      /\ \A x \in Threads : x # t => epri[x] = t_epri[x]
  BY <1>1, <1>2 DEF TurnstileTypeOK, Inheritable
<1>4. PICK pri \in [Threads -> Priorities] : pri = t_pri
  BY <1>3
<1>5. /\ t_epri' = epri /\ t_pri' = pri
      /\ ts_sleepq' = IF t_wchan[t] = NULL THEN ts_sleepq
                      ELSE turnstile_change_pri(t, Prio(pri, epri))
  BY <1>2, <1>4 DEF thread_change_epri
<1> QED BY <1>3, <1>4, <1>5, RepositionSorted

LEMMA SortedKept ==
    ASSUME SortedInv, UNCHANGED <<ts_sleepq, t_pri, t_epri>> PROVE SortedInv'
BY DEF SortedInv, DISP_PRIO, Prio

LEMMA BlockSorted ==
    ASSUME IInv, SortedInv, NEW t \in Threads, EnterBlock(t) PROVE SortedInv'
<1>0. turnstile_block(t, rw[t], lk[t]) /\ TurnstileTypeOK
  BY DEF EnterBlock, IInv, TypeOK
<1>1. PICK pri \in ClassPri(t) : pri = t_pri'
  BY <1>0 DEF turnstile_block
<1>2. PICK old, new : old = DISP_PRIO /\ new = Prio(pri, t_epri)
  OBVIOUS
<1>3. PICK l \in Locks, q \in Queues : l = lk[t] /\ q = rw[t]
  BY InOperation DEF EnterBlock, At, IInv, TypeOK
<1>4. PICK ts : ts = IF tc_chain[l] = NULL THEN t_ts[t] ELSE tc_chain[l]
  OBVIOUS
<1>5. ts \in Turnstiles
  BY <1>0, <1>4 DEF TurnstileTypeOK
<1>6. /\ ts_sleepq' = [ts_sleepq EXCEPT ![ts][q] = sleepq_insert(@, t, new)]
      /\ UNCHANGED t_epri
  BY <1>0, <1>1, <1>2, <1>3, <1>4 DEF turnstile_block, pi_vars
<1>7. DISP_PRIO' = new
  BY <1>1, <1>2, <1>6 DEF DISP_PRIO
<1>8. /\ \A x \in Threads : new[x] \in Nat
      /\ \A x \in Threads : x # t => new[x] = old[x]
  <2>1. pri \in [Threads -> Priorities] /\ \A x \in Threads : x # t => new[x] = old[x]
    BY <1>0, <1>2, ClassPriIs
  <2>2. \A x \in Threads : new[x] \in Nat
    <3>0. Priorities \subseteq Nat
      BY TurnstileAssumption
    <3>1. /\ t_epri \in [Threads -> Priorities \cup {0}]
          /\ new = [x \in Threads |-> IF t_epri[x] > 0 THEN t_epri[x] ELSE pri[x]]
      BY <1>0, <1>2 DEF Prio, TurnstileTypeOK
    <3>2. ASSUME NEW x \in Threads PROVE new[x] \in Nat
      <4>1. new[x] = (IF t_epri[x] > 0 THEN t_epri[x] ELSE pri[x])
        BY <3>1
      <4>2. t_epri[x] \in Nat
        <5>1. t_epri[x] \in Priorities \cup {0}
          BY <3>1
        <5>2. \A n \in Priorities \cup {0} : n \in Nat
          BY <3>0
        <5> QED BY <5>1, <5>2
      <4>3. pri[x] \in Nat
        <5>1. pri[x] \in Priorities
          BY <2>1
        <5> QED BY <3>0, <5>1
      <4> QED BY <4>1, <4>2, <4>3
    <3> QED BY <3>2
  <2> QED BY <2>1, <2>2
<1>9. t_wchan[t] = NULL
  BY DEF EnterBlock, At, IInv, ControlInv, QueuedLabels
<1>10. ASSUME NEW x \in Turnstiles, NEW y \in Queues PROVE Sorted(ts_sleepq'[x][y], new)
  <2>0. PICK sq \in Seq(Threads) : sq = ts_sleepq[x][y] /\ Sorted(sq, old)
    BY <1>0, <1>2 DEF TurnstileTypeOK, SortedInv
  <2>1. \A z \in Elems(sq) : z \in Threads /\ z # t
    <3>1. \A z \in Elems(sq) : z \in Threads
      BY <2>0, ElementOfSeq, LenProperties DEF Elems
    <3> QED BY <1>9, <2>0, <3>1 DEF IInv, QueueInv
  <2>2. Sorted(sq, new)
    BY <1>8, <2>0, <2>1, SortedSame
  <2>3. Sorted(sleepq_insert(sq, t, new), new)
    BY <1>8, <2>0, <2>2, InsertSorted
  <2>4. ts_sleepq'[x][y] = IF x = ts /\ y = q THEN sleepq_insert(sq, t, new) ELSE sq
    BY <1>0, <1>5, <1>6, <2>0 DEF TurnstileTypeOK
  <2> QED BY <2>2, <2>3, <2>4
<1> QED BY <1>7, <1>10 DEF SortedInv

LEMMA WillSorted ==
    ASSUME IInv, SortedInv, NEW t \in Threads, EnterWill(t) PROVE SortedInv'
<1>1. PICK c \in Threads : c = pi_cur /\ t_wchan[c] \in Locks
  BY DEF EnterWill, At, IInv, ControlInv
<1>2. PICK owner \in Threads \cup {NULL} : owner = rw_owner(t_wchan[pi_cur])
  BY <1>1 DEF rw_owner, IInv, TypeOK, Words
<1>3. PICK e \in Inheritable : e = DISP_PRIO[pi_cur]
  BY <1>1, NoDupAll, DispPrioType DEF Inheritable
<1>4. turnstile_block_pi(t, owner)
  BY <1>2 DEF EnterWill
<1>5. \/ owner \in Threads /\ thread_change_epri(owner, e)
      \/ UNCHANGED <<t_epri, ts_sleepq>>
  BY <1>3, <1>4, TurnstileAssumption DEF turnstile_block_pi, pi_vars
<1>6. UNCHANGED t_pri
  BY <1>4 DEF turnstile_block_pi
<1> QED BY <1>5, <1>6, ChangeEpriSorted, SortedKept

LEMMA WaiveSorted ==
    ASSUME IInv, SortedInv, NEW t \in Threads, WakeWaive(t) PROVE SortedInv'
<1>1. PICK l \in Locks : wk.sobj = l /\ tc_chain[l] # NULL
  BY InOperation DEF WakeWaive, At, IInv, ControlInv, WakeupInv, WakeLabels
<1>2. PICK ts \in Turnstiles : ts = tc_chain[wk.sobj]
  BY <1>1 DEF IInv, TypeOK, TurnstileTypeOK
<1>3. UNCHANGED t_pri
  BY DEF WakeWaive, turnstile_wakeup_waive
<1>4. CASE ts_inheritor[ts] = NULL
  <2>1. UNCHANGED <<t_epri, ts_sleepq>>
    BY <1>2, <1>4 DEF WakeWaive, turnstile_wakeup_waive, pi_vars
  <2> QED BY <1>3, <2>1, SortedKept
<1>5. CASE ts_inheritor[ts] # NULL
  <2>1. PICK i \in Threads : i = ts_inheritor[ts]
    BY <1>5 DEF IInv, TypeOK, TurnstileTypeOK
  <2>2. PICK S \in SUBSET Inheritable :
           S = {0} \cup {ts_epri[x] : x \in t_prioinv[i] \ {ts}}
    <3>1. t_prioinv[i] \in SUBSET Turnstiles
      BY DEF IInv, TypeOK, TurnstileTypeOK
    <3>2. {0} \cup {ts_epri[x] : x \in t_prioinv[i] \ {ts}} \in SUBSET Inheritable
      BY <3>1 DEF IInv, TypeOK, TurnstileTypeOK, Inheritable
    <3> QED BY <3>2
  <2>3. MaxOf(S) \in Inheritable
    BY <2>2, MaxOfType
  <2>4. thread_change_epri(i, MaxOf(S)) \/ UNCHANGED <<t_epri, ts_sleepq>>
    BY <1>2, <1>5, <2>1, <2>2
       DEF WakeWaive, turnstile_wakeup_waive, turnstile_pi_waive
  <2> QED BY <1>3, <2>3, <2>4, ChangeEpriSorted, SortedKept
<1> QED BY <1>4, <1>5

LEMMA WakeSorted ==
    ASSUME IInv, SortedInv, NEW t \in Threads, WakeOne(t) PROVE SortedInv'
<1>1. PICK s \in Threads, l \in Locks, ts \in Turnstiles, q \in Queues, n \in Nat :
           Wakes(t, s, l, ts, q, n)
  BY WakeOneStep
<1>2. TurnstileTypeOK /\ AllNoDup
  BY NoDupAll
<1>3. PICK sq \in Seq(Threads) : sq = ts_sleepq[ts][q]
  BY <1>2 DEF TurnstileTypeOK
<1>4. /\ wk.sobj = l /\ wk.q = q /\ tc_chain[l] = ts /\ s = Head(sq) /\ t_ts[s] = ts
      /\ n \in Nat /\ n > 0 /\ n <= Len(sq)
      /\ ts_sleepq' = [ts_sleepq EXCEPT ![ts] = [ts_sleepq[ts] EXCEPT ![q] = Tail(sq)]]
      /\ t_pri' \in ClassPri(s)
  BY <1>1, <1>3 DEF Wakes
<1>5. Len(sq) > 0 /\ NoDup(sq)
  BY <1>2, <1>3, <1>4, LenProperties DEF AllNoDup
<1>6. \A x \in Threads : x # s => t_epri'[x] = t_epri[x]
  <2>1. WakeNext = s
    BY <1>3, <1>4 DEF WakeNext
  <2>2. (\E e : t_epri' = [t_epri EXCEPT ![s] = e]) \/ UNCHANGED t_epri
    BY <2>1 DEF WakeOne, turnstile_wakeup_one, pi_vars
  <2> QED BY <1>2, <2>2 DEF TurnstileTypeOK
<1>7. PICK old : old = DISP_PRIO
  OBVIOUS
<1>8. PICK new : new = DISP_PRIO'
  OBVIOUS
<1>9. \A x \in Threads : x # s => new[x] = old[x]
  <2>1. \A x \in Threads : x # s => t_pri'[x] = t_pri[x]
    BY <1>2, <1>4, ClassPriIs
  <2> QED BY <1>6, <1>7, <1>8, <2>1 DEF DISP_PRIO, Prio
<1>10. ASSUME NEW x \in Turnstiles, NEW y \in Queues PROVE Sorted(ts_sleepq'[x][y], new)
  <2>1. ts_sleepq[x][y] \in Seq(Threads) /\ Sorted(ts_sleepq[x][y], old)
    BY <1>2, <1>7 DEF TurnstileTypeOK, SortedInv
  <2>2. CASE x = ts /\ y = q
    <3>1. ts_sleepq'[x][y] = Tail(sq)
      BY <1>2, <1>4, <2>2 DEF TurnstileTypeOK
    <3>2. Sorted(Tail(sq), old) /\ Tail(sq) \in Seq(Threads) /\ s \notin Elems(Tail(sq))
      BY <1>3, <1>4, <1>5, <2>1, <2>2, TailSorted, TailQueue
    <3>3. \A z \in Elems(Tail(sq)) : z \in Threads /\ z # s
      BY <3>2, ElementOfSeq, LenProperties DEF Elems
    <3> QED BY <1>9, <3>1, <3>2, <3>3, SortedSame
  <2>3. CASE ~(x = ts /\ y = q)
    <3>1. ts_sleepq'[x][y] = ts_sleepq[x][y]
      BY <1>2, <1>4, <2>3 DEF TurnstileTypeOK
    <3>2. s \in Elems(sq)
      BY <1>4, <1>5, TailQueue
    <3>3. s \notin Elems(ts_sleepq[x][y])
      BY <1>3, <1>4, <2>3, <3>2, QueuedOnce
    <3>4. \A z \in Elems(ts_sleepq[x][y]) : z \in Threads /\ z # s
      BY <2>1, <3>3, ElementOfSeq, LenProperties DEF Elems
    <3> QED BY <1>9, <2>1, <3>1, <3>4, SortedSame
  <2> QED BY <2>2, <2>3
<1> QED BY <1>8, <1>10 DEF SortedInv

LEMMA PrioritySorted ==
    ASSUME IInv, SortedInv, NEW t \in Threads, NEW p \in Priorities, ChangePri(t, p)
    PROVE  SortedInv'
<1>1. TurnstileTypeOK
  BY DEF IInv, TypeOK
<1>2. PICK pri \in [Threads -> Priorities] : pri = [t_pri EXCEPT ![t] = p]
  BY <1>1 DEF TurnstileTypeOK
<1>3. PICK epri \in [Threads -> Inheritable] : epri = t_epri
  BY <1>1 DEF TurnstileTypeOK, Inheritable
<1>4. \A x \in Threads : x # t => pri[x] = t_pri[x] /\ epri[x] = t_epri[x]
  BY <1>1, <1>2, <1>3 DEF TurnstileTypeOK
<1>5. /\ t_epri' = epri /\ t_pri' = pri
      /\ ts_sleepq' = IF t_wchan[t] = NULL THEN ts_sleepq
                      ELSE turnstile_change_pri(t, Prio(pri, epri))
  BY <1>2, <1>3 DEF ChangePri, thread_change_pri, pi_vars
<1> QED BY <1>4, <1>5, RepositionSorted

LEMMA NextSorted == IInv /\ SortedInv /\ [Next]_vars => SortedInv'
<1> SUFFICES ASSUME IInv, SortedInv, [Next]_vars PROVE SortedInv'
  OBVIOUS
<1>1. ASSUME NEW t \in Threads, Continue(t) PROVE SortedInv'
  <2>1. CASE EnterBlock(t)
    BY <2>1, BlockSorted
  <2>2. CASE EnterWill(t)
    BY <2>2, WillSorted
  <2>3. CASE WakeWaive(t)
    BY <2>3, WaiveSorted
  <2>4. CASE WakeOne(t)
    BY <2>4, WakeSorted
  <2>5. CASE \/ EnterGrab(t) \/ EnterBusy(t) \/ EnterLookup(t) \/ EnterRetry(t)
             \/ EnterWait(t) \/ ExitLookup(t) \/ ExitToReaders(t)
             \/ ExitToWriter(t) \/ WakeDone(t) \/ DowngradeLookup(t)
             \/ DowngradeShare(t)
    <3>1. UNCHANGED <<ts_sleepq, t_pri, t_epri>>
      BY <2>5 DEF EnterGrab, EnterBusy, EnterLookup, EnterRetry, EnterWait,
                  ExitLookup, ExitToReaders, ExitToWriter, WakeDone,
                  DowngradeLookup, DowngradeShare, turnstile_lookup,
                  turnstile_exit, turnstile_wakeup_done, ts_vars, pi_vars
    <3> QED BY <3>1, SortedKept
  <2> QED BY <1>1, <2>1, <2>2, <2>3, <2>4, <2>5 DEF Continue
<1>2. ASSUME NEW t \in Threads, NEW l \in Locks,
             \/ \E m \in {"R", "W"} : rw_enter(t, l, m) \/ rw_tryenter(t, l, m)
             \/ rw_exit(t, l) \/ rw_downgrade(t, l) \/ rw_tryupgrade(t, l)
      PROVE  SortedInv'
  <2>1. UNCHANGED <<ts_sleepq, t_pri, t_epri>>
    BY <1>2 DEF rw_enter, rw_tryenter, rw_exit, ExitDrop, ExitFinal, rw_downgrade,
                rw_tryupgrade, ts_vars, pi_vars
  <2> QED BY <2>1, SortedKept
<1>3. ASSUME NEW l \in Destroyable, rw_destroy(l) \/ rw_init(l) PROVE SortedInv'
  BY <1>3, SortedKept DEF rw_destroy, rw_init, ts_vars, pi_vars
<1>4. ASSUME NEW t \in Threads, NEW p \in Priorities, ChangePri(t, p) PROVE SortedInv'
  BY <1>4, PrioritySorted
<1>5. CASE UNCHANGED vars
  BY <1>5, SortedKept DEF vars, ts_vars, pi_vars
<1> QED BY <1>1, <1>2, <1>3, <1>4, <1>5 DEF Next

LEMMA InitSorted == Init => SortedInv
BY DEF Init, TurnstileInit, SortedInv, Sorted, Queues

(* Every sleep queue of every turnstile is always in the order of the      *)
(* effective priorities of its threads: turnstile_change_pri moves a       *)
(* sleeper whose priority changes, and the head is the one to wake.        *)
THEOREM AlwaysSorted == Spec => []SortedInv
<1>1. Init => SortedInv
  BY InitSorted
<1>2. IInv /\ SortedInv /\ [Next]_vars => SortedInv'
  BY NextSorted
<1> QED BY <1>1, <1>2, InductiveInvariant, PTL DEF Spec

(* QueuesExact: turnstile_change_pri, sleepq_insert and the wakeup loop    *)
(* leave in each queue exactly the threads asleep for that kind of access, *)
(* once and in priority order, although priorities change while they sleep.*)
THEOREM QueueOrder == Spec => []QueuesExact
<1>1. ASSUME IInv, SortedInv PROVE QueuesExact
  <2>1. ASSUME NEW ts \in Turnstiles, NEW q \in Queues
        PROVE  Elems(ts_sleepq[ts][q]) =
                  {t \in Threads : t_wchan[t] # NULL /\ t_ts[t] = ts /\ rw[t] = q}
    <3>1. ts_sleepq[ts][q] \in Seq(Threads)
      BY <1>1, QueueTypes
    <3>2. Elems(ts_sleepq[ts][q]) \subseteq Threads
      BY <3>1, ElementOfSeq, LenProperties DEF Elems
    <3> QED BY <1>1, <3>2 DEF IInv, QueueInv
  <2> QED BY <1>1, <2>1 DEF QueuesExact, SortedInv, IInv, QueueInv
<1> QED BY <1>1, InductiveInvariant, AlwaysSorted, PTL
-----------------------------------------------------------------------------
(* Kernel priority requests.                                               *)
One(P) == IF P THEN 1 ELSE 0

LEMMA KpriKept ==
    ASSUME NEW u \in Threads, KpriOf(u), hold'[u] = hold[u], t_kpri_req[u] \in Int,
           t_kpri_req'[u] = t_kpri_req[u] + One(Owes(u)') - One(Owes(u))
    PROVE  KpriOf(u)'
<1>1. PICK H : H = ReadHeld(u)
  OBVIOUS
<1>2. ReadHeld(u)' = H
  BY <1>1 DEF ReadHeld
<1>3. PICK n \in Nat : n = Cardinality(H)
  BY <1>1, FS_CardinalityType DEF KpriOf
<1>4. t_kpri_req[u] = n + One(Owes(u))
  BY <1>1, <1>3 DEF KpriOf, One
<1>5. t_kpri_req'[u] = n + One(Owes(u)')
  BY <1>4 DEF One
<1> QED BY <1>1, <1>2, <1>3, <1>5 DEF KpriOf, One

LEMMA ReadHeldStep ==
    ASSUME NEW u \in Threads, NEW l \in Locks, IsFiniteSet(ReadHeld(u)),
           \A k \in Locks : k # l => hold'[u][k] = hold[u][k]
    PROVE  /\ IsFiniteSet(ReadHeld(u)')
           /\ Cardinality(ReadHeld(u)) \in Nat /\ Cardinality(ReadHeld(u)') \in Nat
           /\ Cardinality(ReadHeld(u)') = Cardinality(ReadHeld(u))
                 + One(hold'[u][l] = "R") - One(hold[u][l] = "R")
<1>1. PICK H : H = ReadHeld(u)
  OBVIOUS
<1>2. PICK K : K = ReadHeld(u)'
  OBVIOUS
<1>3. PICK n \in Nat : n = Cardinality(H)
  BY <1>1, FS_CardinalityType
<1>4. /\ \A k \in Locks : k # l => (k \in H <=> k \in K)
      /\ H \subseteq Locks /\ K \subseteq Locks
      /\ l \in H <=> hold[u][l] = "R"
      /\ l \in K <=> hold'[u][l] = "R"
  BY <1>1, <1>2 DEF ReadHeld
<1>5. CASE l \in H /\ l \notin K
  <2>1. K = H \ {l}
    BY <1>4, <1>5
  <2>2. IsFiniteSet(K) /\ Cardinality(K) = n - 1 /\ Cardinality(K) \in Nat
    BY <1>1, <1>3, <1>5, <2>1, FS_RemoveElement, FS_CardinalityType
  <2> QED BY <1>1, <1>2, <1>3, <1>4, <1>5, <2>2 DEF One
<1>6. CASE l \notin H /\ l \in K
  <2>1. K = H \cup {l}
    BY <1>4, <1>6
  <2>2. IsFiniteSet(K) /\ Cardinality(K) = n + 1
    BY <1>1, <1>3, <1>6, <2>1, FS_AddElement
  <2> QED BY <1>1, <1>2, <1>3, <1>4, <1>6, <2>2 DEF One
<1>7. CASE l \in H <=> l \in K
  <2>1. K = H
    BY <1>4, <1>7
  <2> QED BY <1>1, <1>2, <1>3, <1>4, <1>7, <2>1 DEF One
<1> QED BY <1>5, <1>6, <1>7

LEMMA KpriStep ==
    ASSUME NEW u \in Threads, NEW l \in Locks, KpriOf(u), t_kpri_req[u] \in Int,
           \A k \in Locks : k # l => hold'[u][k] = hold[u][k],
           t_kpri_req'[u] = t_kpri_req[u]
              + (One(hold'[u][l] = "R") - One(hold[u][l] = "R"))
              + (One(Owes(u)') - One(Owes(u)))
    PROVE  KpriOf(u)'
<1>1. PICK n \in Nat, m \in Nat :
         n = Cardinality(ReadHeld(u)) /\ m = Cardinality(ReadHeld(u)')
  BY ReadHeldStep DEF KpriOf
<1>2. PICK d \in Int : d = One(hold'[u][l] = "R") - One(hold[u][l] = "R")
  <2>1. One(hold'[u][l] = "R") \in Int /\ One(hold[u][l] = "R") \in Int
    BY DEF One
  <2> QED BY <2>1
<1>3. m = n + d /\ IsFiniteSet(ReadHeld(u)')
  BY <1>1, <1>2, ReadHeldStep DEF KpriOf, One
<1>4. PICK a \in Int, b \in Int : a = One(Owes(u)) /\ b = One(Owes(u)')
  BY DEF One
<1>5. t_kpri_req[u] = n + a
  BY <1>1, <1>4 DEF KpriOf, One
<1>6. t_kpri_req'[u] = m + b
  BY <1>2, <1>3, <1>4, <1>5
<1> QED BY <1>1, <1>3, <1>4, <1>6 DEF KpriOf, One

(* The threads that a step of t does not concern.                          *)
LEMMA KpriAside ==
    ASSUME IInv, KpriInv, NEW t \in Threads, Aside(t), NEW u \in Threads, u # t,
           t_kpri_req'[u] = t_kpri_req[u]
    PROVE  KpriOf(u)'
<1>1. /\ pc'[u] = pc[u] /\ rw'[u] = rw[u] /\ hold'[u] = hold[u]
      /\ Granted(u)' <=> Granted(u)
  BY GrantedKept DEF Aside
<1>2. Owes(u)' <=> Owes(u)
  BY <1>1 DEF Owes
<1>3. t_kpri_req[u] \in Int /\ KpriOf(u)
  BY DEF IInv, TypeOK, KpriInv
<1> QED BY <1>1, <1>2, <1>3, KpriKept DEF One

LEMMA OwesOutside ==
    ASSUME IInv, NEW t \in Threads, pc[t] \notin WaitLabels
    PROVE  Owes(t) <=> /\ rw[t] = "R"
                       /\ pc[t] \in {"enter", "slow", "look", "waive", "wake"}
<1>1. ~Granted(t)
  BY GrantedFacts DEF QueuedLabels, WaitLabels
<1> QED BY <1>1 DEF Owes

OwesKnown ==
    IInv => \A t \in Threads : pc[t] \notin WaitLabels =>
        (Owes(t) <=> /\ rw[t] = "R"
                     /\ pc[t] \in {"enter", "slow", "look", "waive", "wake"})

LEMMA OwesBoth == OwesKnown /\ OwesKnown'
<1>1. OwesKnown
  BY OwesOutside DEF OwesKnown
<1> QED BY <1>1, PTL

(* A step of t that changes only t's requests, hold of l and place.        *)
OwesAt(label, m) == m = "R" /\ label \in {"enter", "slow", "look", "waive", "wake"}

LEMMA KpriOwn ==
    ASSUME IInv, IInv', KpriInv, NEW t \in Threads, NEW l \in Locks, NEW d \in Int,
           Aside(t), pc[t] \notin WaitLabels, pc'[t] \notin WaitLabels,
           \A k \in Locks : k # l => hold'[t][k] = hold[t][k],
           t_kpri_req' = [t_kpri_req EXCEPT ![t] = @ + d],
           d = (One(hold'[t][l] = "R") - One(hold[t][l] = "R"))
               + (One(OwesAt(pc'[t], rw'[t])) - One(OwesAt(pc[t], rw[t]))),
           pc'[t] \in DownLabels => rw'[t] = "W"
    PROVE  KpriInv'
<1>1. t_kpri_req \in [Threads -> Int]
  BY DEF IInv, TypeOK
<1>2. (Owes(t) <=> OwesAt(pc[t], rw[t])) /\ (Owes(t)' <=> OwesAt(pc'[t], rw'[t]))
  BY OwesBoth DEF OwesKnown, OwesAt
<1>3. KpriOf(t)'
  <2>1. t_kpri_req'[t] = t_kpri_req[t] + d /\ t_kpri_req[t] \in Int /\ KpriOf(t)
    BY <1>1 DEF KpriInv
  <2>2. d = (One(hold'[t][l] = "R") - One(hold[t][l] = "R"))
            + (One(Owes(t)') - One(Owes(t)))
    BY <1>2 DEF One
  <2>3. PICK a \in Int, b \in Int :
           a = One(hold'[t][l] = "R") - One(hold[t][l] = "R")
           /\ b = One(Owes(t)') - One(Owes(t))
    <3>1. /\ One(hold'[t][l] = "R") \in Int /\ One(hold[t][l] = "R") \in Int
          /\ One(Owes(t)') \in Int /\ One(Owes(t)) \in Int
      BY DEF One
    <3> QED BY <3>1
  <2>4. t_kpri_req'[t] = t_kpri_req[t] + a + b
    BY <2>1, <2>2, <2>3
  <2> QED BY <2>1, <2>3, <2>4, KpriStep
<1>4. ASSUME NEW u \in Threads, u # t PROVE KpriOf(u)'
  <2>1. t_kpri_req'[u] = t_kpri_req[u]
    BY <1>1, <1>4
  <2> QED BY <1>4, <2>1, KpriAside
<1>5. \A u \in Threads : pc'[u] \in DownLabels => rw'[u] = "W"
  BY DEF Aside, KpriInv
<1> QED BY <1>3, <1>4, <1>5 DEF KpriInv

LEMMA KpriMine ==
    ASSUME TypeOK, NEW t \in Threads, NEW d \in Int
    PROVE  /\ t_kpri_req' = Kpri(t, d) => t_kpri_req' = [t_kpri_req EXCEPT ![t] = @ + d]
           /\ UNCHANGED t_kpri_req => t_kpri_req' = [t_kpri_req EXCEPT ![t] = @ + 0]
BY DEF Kpri, TypeOK

LEMMA EnterKpri ==
    ASSUME IInv, IInv', KpriInv, NEW t \in Threads, NEW l \in Locks, NEW m \in Queues,
           rw_enter(t, l, m)
    PROVE  KpriInv'
<1>1. TypeOK /\ pc[t] = "run" /\ Begin(t, "enter", l, m) /\ UNCHANGED hold
  BY DEF rw_enter, At, IInv
<1>2. pc'[t] = "enter" /\ rw'[t] = m
  BY <1>1, BeginMine
<1>3. Aside(t)
  BY <1>1, BeginMine DEF rw_enter, Aside, ts_vars, chain_vars
<1>4. PICK d \in Int : d = IF m = "R" THEN 1 ELSE 0
  OBVIOUS
<1>5. t_kpri_req' = [t_kpri_req EXCEPT ![t] = @ + d]
  BY <1>1, <1>4, KpriMine DEF rw_enter
<1>6. d = (One(hold'[t][l] = "R") - One(hold[t][l] = "R"))
          + (One(OwesAt(pc'[t], rw'[t])) - One(OwesAt(pc[t], rw[t])))
  BY <1>1, <1>2, <1>4 DEF OwesAt, One
<1> QED BY <1>1, <1>2, <1>3, <1>5, <1>6, KpriOwn DEF WaitLabels, DownLabels

LEMMA GrabKpri ==
    ASSUME IInv, IInv', KpriInv, NEW t \in Threads, EnterGrab(t)
    PROVE  KpriInv'
<1>1. PICK l \in Locks, m \in Queues : l = lk[t] /\ m = rw[t]
  BY InOperation DEF EnterGrab, At, IInv, TypeOK
<1>2. /\ TypeOK /\ pc[t] = "enter" /\ hold[t][l] = "none" /\ SetHold(t, l, m)
      /\ Begin(t, "run", NULL, "R")
  BY <1>1 DEF EnterGrab, At, IInv, ControlInv, EnterLabels, Return
<1>3. /\ pc'[t] = "run" /\ rw'[t] = "R" /\ hold'[t][l] = m
      /\ \A k \in Locks : k # l => hold'[t][k] = hold[t][k]
  BY <1>2, BeginMine DEF SetHold, TypeOK
<1>4. Aside(t)
  BY <1>2, BeginMine, HoldMine DEF EnterGrab, Aside, ts_vars, chain_vars
<1>0. PICK d \in Int : d = 0
  OBVIOUS
<1>5. t_kpri_req' = [t_kpri_req EXCEPT ![t] = @ + d]
  BY <1>0, <1>2, KpriMine DEF EnterGrab
<1>6. d = (One(hold'[t][l] = "R") - One(hold[t][l] = "R"))
          + (One(OwesAt(pc'[t], rw'[t])) - One(OwesAt(pc[t], rw[t])))
  BY <1>0, <1>1, <1>2, <1>3 DEF OwesAt, One, Queues
<1> QED BY <1>2, <1>3, <1>4, <1>5, <1>6, KpriOwn DEF WaitLabels, DownLabels

(* The steps of the slow paths that neither take nor give anything.        *)
LEMMA QuietKpri ==
    ASSUME IInv, IInv', KpriInv, NEW t \in Threads,
           \/ EnterBusy(t) \/ EnterLookup(t) \/ EnterRetry(t)
           \/ ExitLookup(t) \/ DowngradeLookup(t)
    PROVE  KpriInv'
<1>1. TypeOK /\ UNCHANGED <<hold, lk, rw, t_kpri_req>>
  BY DEF EnterBusy, EnterLookup, EnterRetry, ExitLookup, DowngradeLookup, IInv
<1>2. PICK l \in Locks : l = lk[t]
  BY InOperation
     DEF EnterBusy, EnterLookup, EnterRetry, ExitLookup, DowngradeLookup, At
<1>3. PICK a \in Labels, b \in Labels :
         /\ pc[t] = a /\ Goto(t, b)
         /\ \/ a \in {"enter", "slow", "look"} /\ b \in {"enter", "slow", "look"}
            \/ a = "final" /\ b = "hand"
            \/ a = "down" /\ b = "share"
  BY
  DEF EnterBusy, EnterLookup, EnterRetry, ExitLookup, DowngradeLookup, At, Labels
<1>4. pc'[t] = b /\ rw'[t] = rw[t] /\ hold'[t] = hold[t]
  BY <1>1, <1>3, GotoMine
<1>5. Aside(t)
  BY <1>1, <1>3, GotoMine
     DEF EnterBusy, EnterLookup, EnterRetry, ExitLookup, DowngradeLookup, Aside,
         turnstile_lookup, turnstile_exit, ts_vars, chain_vars
<1>6. PICK d \in Int : d = 0
  OBVIOUS
<1>7. t_kpri_req' = [t_kpri_req EXCEPT ![t] = @ + d]
  BY <1>1, <1>6, KpriMine
<1>8. d = (One(hold'[t][l] = "R") - One(hold[t][l] = "R"))
          + (One(OwesAt(pc'[t], rw'[t])) - One(OwesAt(pc[t], rw[t])))
  BY <1>3, <1>4, <1>6 DEF OwesAt, One
<1>9. pc[t] \notin WaitLabels /\ pc'[t] \notin WaitLabels
  BY <1>3, <1>4 DEF WaitLabels
<1>10. pc'[t] \in DownLabels => rw'[t] = "W"
  BY <1>3, <1>4 DEF KpriInv, DownLabels
<1> QED BY <1>4, <1>5, <1>7, <1>8, <1>9, <1>10, KpriOwn

(* The calls that complete at once, and the first half of the others.      *)
LEMMA CallKpri ==
    ASSUME IInv, IInv', KpriInv, NEW t \in Threads, NEW l \in Locks,
           \/ \E m \in Queues : rw_tryenter(t, l, m)
           \/ rw_exit(t, l) \/ rw_downgrade(t, l) \/ rw_tryupgrade(t, l)
    PROVE  KpriInv'
<1>1. TypeOK /\ pc[t] = "run" /\ UNCHANGED ts_vars
  BY
  DEF rw_tryenter, rw_exit, ExitDrop, ExitFinal, rw_downgrade, rw_tryupgrade, At,
      IInv
<1>2. \/ UNCHANGED <<pc, lk, rw>>
      \/ Begin(t, "final", l, lock_value(rw_wwwh[l])) /\ UNCHANGED hold
      \/ Begin(t, "down", l, "W")
  BY DEF rw_tryenter, rw_exit, ExitDrop, ExitFinal, rw_downgrade, rw_tryupgrade
<1>3. pc'[t] \in {"run", "final", "down"} /\ (pc'[t] = "down" => rw'[t] = "W")
  BY <1>1, <1>2, BeginMine
<1>4. UNCHANGED hold \/ \E m \in {"none", "R", "W"} : SetHold(t, l, m)
  BY
  DEF rw_tryenter, rw_exit, ExitDrop, ExitFinal, rw_downgrade, rw_tryupgrade,
      Queues
<1>5. Aside(t)
  BY <1>1, <1>2, <1>4, BeginMine, HoldMine DEF Aside, ts_vars, chain_vars
<1>6. \A k \in Locks : k # l => hold'[t][k] = hold[t][k]
  BY <1>1, <1>4 DEF SetHold, TypeOK
<1>7. PICK d \in {-1, 0, 1} :
         /\ t_kpri_req' = [t_kpri_req EXCEPT ![t] = @ + d]
         /\ d = One(hold'[t][l] = "R") - One(hold[t][l] = "R")
  <2>1. CASE \E m \in Queues : rw_tryenter(t, l, m)
    <3>1. PICK m \in Queues : rw_tryenter(t, l, m)
      BY <2>1
    <3>2. hold[t][l] = "none" /\ hold'[t][l] = m
      BY <1>1, <3>1 DEF rw_tryenter, SetHold, TypeOK
    <3>3. CASE m = "R"
      <4>1. t_kpri_req' = [t_kpri_req EXCEPT ![t] = @ + 1]
        BY <1>1, <3>1, <3>3, KpriMine DEF rw_tryenter
      <4> QED BY <3>2, <3>3, <4>1 DEF One
    <3>4. CASE m = "W"
      <4>1. t_kpri_req' = [t_kpri_req EXCEPT ![t] = @ + 0]
        BY <1>1, <3>1, <3>4, KpriMine DEF rw_tryenter
      <4> QED BY <3>2, <3>4, <4>1 DEF One
    <3> QED BY <3>3, <3>4 DEF Queues
  <2>2. CASE ExitDrop(t, l)
    <3>1. /\ hold'[t][l] = "none" /\ hold[t][l] \in {"R", "W"}
          /\ rw_wwwh[l].wl <=> hold[t][l] = "W"
      BY <1>1, <2>2, ModeOfHold DEF ExitDrop, SetHold, TypeOK
    <3>2. CASE hold[t][l] = "R"
      <4>1. t_kpri_req' = [t_kpri_req EXCEPT ![t] = @ + (-1)]
        BY <2>2, <3>1, <3>2 DEF ExitDrop, Kpri
      <4> QED BY <3>1, <3>2, <4>1 DEF One
    <3>3. CASE hold[t][l] = "W"
      <4>1. t_kpri_req' = [t_kpri_req EXCEPT ![t] = @ + 0]
        BY <1>1, <2>2, <3>1, <3>3, KpriMine DEF ExitDrop
      <4> QED BY <3>1, <3>3, <4>1 DEF One
    <3> QED BY <3>1, <3>2, <3>3
  <2>3. CASE ExitFinal(t, l)
    BY <1>1, <2>3, KpriMine DEF ExitFinal, One
  <2>4. CASE rw_downgrade(t, l)
    <3>1. hold[t][l] = "W" /\ hold'[t][l] = "R"
      BY <1>1, <2>4 DEF rw_downgrade, SetHold, TypeOK
    <3> QED BY <1>1, <2>4, <3>1, KpriMine DEF rw_downgrade, One
  <2>5. CASE rw_tryupgrade(t, l)
    <3>1. hold[t][l] = "R" /\ hold'[t][l] = "W"
      BY <1>1, <2>5 DEF rw_tryupgrade, SetHold, TypeOK
    <3> QED BY <1>1, <2>5, <3>1, KpriMine DEF rw_tryupgrade, One
  <2> QED BY <2>1, <2>2, <2>3, <2>4, <2>5 DEF rw_exit
<1>8. d \in Int /\ d = (One(hold'[t][l] = "R") - One(hold[t][l] = "R"))
          + (One(OwesAt(pc'[t], rw'[t])) - One(OwesAt(pc[t], rw[t])))
  BY <1>1, <1>3, <1>7 DEF OwesAt, One
<1> QED BY <1>1, <1>3, <1>5, <1>6, <1>7, <1>8, KpriOwn DEF WaitLabels, DownLabels

LEMMA DoneKpri ==
    ASSUME IInv, IInv', KpriInv, NEW t \in Threads, WakeDone(t)
    PROVE  KpriInv'
<1>1. /\ TypeOK /\ pc[t] = "wake" /\ UNCHANGED hold /\ Begin(t, "run", NULL, "R")
      /\ wk.n = 0 /\ wk' = NoWakeup
  BY DEF WakeDone, At, IInv, Return, turnstile_wakeup_done
<1>2. /\ pc'[t] = "run" /\ rw'[t] = "R"
      /\ \A u \in Threads : u # t => pc'[u] = pc[u] /\ rw'[u] = rw[u]
  BY <1>1, BeginMine
<1>3. \A u \in Threads : ~Granted(u) /\ ~Granted(u)'
  BY <1>1 DEF Granted, NoWakeup
<1>4. \A u \in Threads : t_kpri_req[u] \in Int /\ KpriOf(u) /\ hold'[u] = hold[u]
  BY <1>1 DEF TypeOK, KpriInv
<1>5. ASSUME NEW u \in Threads, u # t PROVE KpriOf(u)'
  <2>1. Owes(u)' <=> Owes(u)
    BY <1>2, <1>3, <1>5 DEF Owes
  <2>2. t_kpri_req'[u] = t_kpri_req[u]
    BY <1>1, <1>5 DEF WakeDone, Kpri, TypeOK
  <2> QED BY <1>4, <2>1, <2>2, KpriKept DEF One
<1>6. KpriOf(t)'
  <2>1. ~Owes(t)' /\ (Owes(t) <=> rw[t] = "R")
    BY <1>1, <1>2, <1>3 DEF Owes
  <2>2. t_kpri_req'[t] = IF rw[t] = "R" THEN t_kpri_req[t] - 1 ELSE t_kpri_req[t]
    BY <1>1 DEF WakeDone, Kpri, TypeOK
  <2> QED BY <1>4, <2>1, <2>2, KpriKept DEF One
<1>7. \A u \in Threads : pc'[u] \in DownLabels => rw'[u] = "W"
  BY <1>2 DEF KpriInv, DownLabels
<1> QED BY <1>5, <1>6, <1>7 DEF KpriInv

(* Going to sleep: a reader gives its request back.                        *)
LEMMA WaitKpri ==
    ASSUME IInv, KpriInv, NEW t \in Threads, EnterWait(t)
    PROVE  KpriInv'
<1>1. /\ TypeOK /\ pc[t] = "look" /\ Goto(t, "block") /\ UNCHANGED <<hold, lk, rw, ts_vars>>
  BY DEF EnterWait, At, IInv
<1>2. pc'[t] = "block" /\ \A u \in Threads : u # t => pc'[u] = pc[u]
  BY <1>1, GotoMine
<1>3. Aside(t)
  BY <1>1, <1>2 DEF Aside, ts_vars, chain_vars
<1>4. \A u \in Threads : t_kpri_req[u] \in Int /\ KpriOf(u) /\ hold'[u] = hold[u]
  BY <1>1 DEF TypeOK, KpriInv
<1>5. ASSUME NEW u \in Threads, u # t PROVE KpriOf(u)'
  <2>1. t_kpri_req'[u] = t_kpri_req[u]
    BY <1>1, <1>5 DEF EnterWait, Kpri, TypeOK
  <2> QED BY <1>3, <1>5, <2>1, KpriAside
<1>6. KpriOf(t)'
  <2>1. ~Granted(t) /\ ~Granted(t)'
    <3>1. ~Granted(t)
      BY <1>1, GrantedFacts DEF QueuedLabels
    <3> QED BY <1>1, <3>1, GrantedKept DEF ts_vars, chain_vars
  <2>2. ~Owes(t)' /\ (Owes(t) <=> rw[t] = "R")
    BY <1>1, <1>2, <2>1 DEF Owes
  <2>3. t_kpri_req'[t] = IF rw[t] = "R" THEN t_kpri_req[t] - 1 ELSE t_kpri_req[t]
    BY <1>1 DEF EnterWait, Kpri, TypeOK
  <2> QED BY <1>4, <2>2, <2>3, KpriKept DEF One
<1>7. \A u \in Threads : pc'[u] \in DownLabels => rw'[u] = "W"
  BY <1>1, <1>2 DEF KpriInv, DownLabels
<1> QED BY <1>5, <1>6, <1>7 DEF KpriInv

(* Steps under which everybody keeps what it has and is granted.           *)
LEMMA SameKpri ==
    ASSUME IInv, KpriInv, UNCHANGED <<hold, rw, t_kpri_req>>,
           \A u \in Threads : Granted(u)' <=> Granted(u),
           \A u \in Threads : \/ pc'[u] = pc[u]
                              \/ pc[u] \in WaitLabels /\ pc'[u] \in WaitLabels
                              \/ pc[u] \in WakeLabels /\ pc'[u] \in WakeLabels
    PROVE  KpriInv'
<1>1. \A u \in Threads : t_kpri_req[u] \in Int /\ KpriOf(u)
  BY DEF IInv, TypeOK, KpriInv
<1>2. \A u \in Threads : Owes(u)' <=> Owes(u)
  BY DEF Owes, WaitLabels, WakeLabels
<1>3. \A u \in Threads : KpriOf(u)'
  BY <1>1, <1>2, KpriKept DEF One
<1>4. \A u \in Threads : pc'[u] \in DownLabels => rw'[u] = "W"
  BY DEF KpriInv, DownLabels, WaitLabels, WakeLabels
<1> QED BY <1>3, <1>4 DEF KpriInv

LEMMA SleepKpri ==
    ASSUME IInv, KpriInv, NEW t \in Threads,
           \/ EnterBlock(t) \/ EnterWill(t) \/ WakeWaive(t)
           \/ \E p \in Priorities : ChangePri(t, p)
    PROVE  KpriInv'
<1>1. UNCHANGED <<hold, rw, t_kpri_req>>
  BY DEF EnterBlock, EnterWill, WakeWaive, ChangePri, rw_vars
<1>2. \A u \in Threads : Granted(u)' <=> Granted(u)
  BY GrantedRequeued, GrantedWaived
<1>3. \/ UNCHANGED pc
      \/ pc[t] \in WaitLabels /\ \E b \in WaitLabels : Goto(t, b)
      \/ pc[t] \in WakeLabels /\ Goto(t, "wake")
  BY
  DEF EnterBlock, EnterWill, WakeWaive, ChangePri, rw_vars, At, WaitLabels,
      WakeLabels
<1>4. \A u \in Threads : \/ pc'[u] = pc[u]
                         \/ pc[u] \in WaitLabels /\ pc'[u] \in WaitLabels
                         \/ pc[u] \in WakeLabels /\ pc'[u] \in WakeLabels
  <2>1. TypeOK
    BY DEF IInv
  <2> QED BY <1>3, <2>1, GotoMine DEF WakeLabels
<1> QED BY <1>1, <1>2, <1>4, SameKpri

(* A woken reader has the request that the waker made on its behalf.       *)
LEMMA WokenKpri ==
    ASSUME IInv, IInv', KpriInv, NEW t \in Threads, WakeOne(t)
    PROVE  KpriInv'
<1>1. PICK s \in Threads, l \in Locks, ts \in Turnstiles, q \in Queues, n \in Nat :
           Wakes(t, s, l, ts, q, n)
  BY WakeOneStep
<1>2. /\ Granted(s) /\ lk[s] = l /\ rw[s] = q /\ pc'[s] = "run" /\ hold'[s][l] = q
      /\ \A k \in Locks : k # l => hold'[s][k] = hold[s][k]
      /\ \A u \in Threads : u # s =>
            /\ pc'[u] = pc[u] /\ lk'[u] = lk[u] /\ rw'[u] = rw[u]
            /\ hold'[u] = hold[u]
            /\ Granted(u)' <=> Granted(u)
  BY <1>1, GrantedWoken
<1>3. hold[s][l] = "none" /\ UNCHANGED t_kpri_req
  BY <1>1 DEF Wakes
<1>4. \A u \in Threads : t_kpri_req[u] \in Int /\ KpriOf(u)
  BY DEF IInv, TypeOK, KpriInv
<1>5. ASSUME NEW u \in Threads, u # s PROVE KpriOf(u)'
  <2>1. Owes(u)' <=> Owes(u)
    BY <1>2, <1>5 DEF Owes
  <2> QED BY <1>2, <1>3, <1>4, <1>5, <2>1, KpriKept DEF One
<1>6. KpriOf(s)'
  <2>1. ~Owes(s)'
    BY <1>2, OwesBoth DEF OwesKnown, WaitLabels
  <2>2. Owes(s) <=> q = "R"
    BY <1>2 DEF Owes
  <2>3. (One(hold'[s][l] = "R") - One(hold[s][l] = "R"))
           + (One(Owes(s)') - One(Owes(s))) = 0
    BY <1>2, <1>3, <2>1, <2>2 DEF One
  <2>4. PICK a \in Int, b \in Int :
           a = One(hold'[s][l] = "R") - One(hold[s][l] = "R")
           /\ b = One(Owes(s)') - One(Owes(s))
    <3>1. /\ One(hold'[s][l] = "R") \in Int /\ One(hold[s][l] = "R") \in Int
          /\ One(Owes(s)') \in Int /\ One(Owes(s)) \in Int
      BY DEF One
    <3> QED BY <3>1
  <2>5. t_kpri_req'[s] = t_kpri_req[s] + a + b
    BY <1>3, <1>4, <2>3, <2>4
  <2> QED BY <1>2, <1>4, <2>4, <2>5, KpriStep
<1>7. \A u \in Threads : pc'[u] \in DownLabels => rw'[u] = "W"
  BY <1>2 DEF KpriInv, DownLabels
<1> QED BY <1>5, <1>6, <1>7 DEF KpriInv

(* A handoff: the waker requests kernel priority for the readers it grants *)
(* the lock, and a reader keeps its own request until it has woken them.   *)
LEMMA HandKpri ==
    ASSUME IInv, KpriInv, NEW t \in Threads, NEW l \in Locks, NEW q \in Queues,
           NEW n \in Nat, NEW o, NEW ts \in Turnstiles,
           lk[t] = l, pc[t] \in {"hand", "share"},
           ts = tc_chain[l], n <= Len(ts_sleepq[ts][q]),
           wk' = [q |-> q, n |-> n, owner |-> o, sobj |-> l], Goto(t, "waive"),
           UNCHANGED <<lk, rw, chain_vars, ts_sleepq>>,
           t_kpri_req' = IF q = "R" THEN KpriForReaders(ts, n) ELSE t_kpri_req,
           \A u \in Threads : u # t => hold'[u] = hold[u],
           \A k \in Locks : k # l => hold'[t][k] = hold[t][k],
           \/ rw[t] = "R" /\ hold[t][l] = "R" /\ hold'[t][l] # "R"
           \/ rw[t] = "W" /\ (hold'[t][l] = "R" <=> hold[t][l] = "R")
    PROVE  KpriInv'
<1>1. TypeOK /\ \A u \in Threads : t_kpri_req[u] \in Int /\ KpriOf(u)
  BY DEF IInv, TypeOK, KpriInv
<1>2. pc'[t] = "waive" /\ \A u \in Threads : u # t => pc'[u] = pc[u]
  BY <1>1, GotoMine
<1>3. \A u \in Threads :
         ~Granted(u) /\ (Granted(u)' <=> \E i \in 1..n : ts_sleepq[ts][q][i] = u)
  BY GrantedNow
<1>4. ~Granted(t)'
  <2>1. t_wchan[t] = NULL /\ l # NULL
    BY TurnstileAssumption DEF IInv, ControlInv, QueuedLabels
  <2> QED BY <2>1 DEF Granted, chain_vars
<1>5. ASSUME NEW u \in Threads
      PROVE  t_kpri_req'[u] = t_kpri_req[u] + One(q = "R" /\ Granted(u)')
  <2>1. CASE q = "R"
    BY <1>1, <1>3, <2>1 DEF KpriForReaders, One
  <2>2. CASE q # "R"
    BY <1>1, <2>2 DEF One
  <2> QED BY <2>1, <2>2
<1>6. ASSUME NEW u \in Threads, u # t PROVE KpriOf(u)'
  <2>1. Granted(u)' => rw[u] = q
    BY DEF Granted
  <2>2. Granted(u)' => pc[u] \in QueuedLabels
    <3>1. Granted(u)' => t_wchan[u] = l /\ l # NULL
      BY TurnstileAssumption DEF Granted, chain_vars
    <3> QED BY <3>1 DEF IInv, ControlInv
  <2>3. Owes(u)' <=> Owes(u) \/ (q = "R" /\ Granted(u)')
    BY <1>2, <1>3, <1>6, <2>1 DEF Owes
  <2>4. (q = "R" /\ Granted(u)') => ~Owes(u)
    BY <1>3, <2>2 DEF Owes, QueuedLabels
  <2>5. One(Owes(u)') - One(Owes(u)) = One(q = "R" /\ Granted(u)')
    BY <2>3, <2>4 DEF One
  <2>6. PICK a \in Int, b \in Int : a = One(Owes(u)') /\ b = One(Owes(u))
    BY DEF One
  <2>7. t_kpri_req'[u] = t_kpri_req[u] + a - b
    BY <1>1, <1>5, <2>5, <2>6
  <2> QED BY <1>1, <1>6, <2>6, <2>7, KpriKept
<1>7. KpriOf(t)'
  <2>1. ~Owes(t) /\ (Owes(t)' <=> rw[t] = "R")
    BY <1>2, <1>3, <1>4 DEF Owes
  <2>2. t_kpri_req'[t] = t_kpri_req[t]
    BY <1>1, <1>4, <1>5 DEF One
  <2>3. PICK a \in Int, b \in Int :
           a = One(hold'[t][l] = "R") - One(hold[t][l] = "R")
           /\ b = One(Owes(t)') - One(Owes(t))
    <3>1. /\ One(hold'[t][l] = "R") \in Int /\ One(hold[t][l] = "R") \in Int
          /\ One(Owes(t)') \in Int /\ One(Owes(t)) \in Int
      BY DEF One
    <3> QED BY <3>1
  <2>4. a + b = 0
    BY <2>1, <2>3 DEF One
  <2>5. t_kpri_req'[t] = t_kpri_req[t] + a + b
    BY <1>1, <2>2, <2>3, <2>4
  <2> QED BY <1>1, <2>3, <2>5, KpriStep
<1>8. \A u \in Threads : pc'[u] \in DownLabels => rw'[u] = "W"
  BY <1>2 DEF KpriInv, DownLabels
<1> QED BY <1>6, <1>7, <1>8 DEF KpriInv

LEMMA ToReadersKpri ==
    ASSUME IInv, KpriInv, NEW t \in Threads, ExitToReaders(t) \/ DowngradeShare(t)
    PROVE  KpriInv'
<1>1. PICK l \in Locks : l = lk[t]
  BY InOperation DEF ExitToReaders, DowngradeShare, At
<1>2. pc[t] \in {"hand", "share"} /\ TypeOK
  BY DEF ExitToReaders, DowngradeShare, At, IInv
<1>3. PICK ts \in Turnstiles : ts = tc_chain[l]
  BY <1>1, <1>2, HandoverFacts
<1>4. PICK n \in Nat : n = rw_readers_to_wake(ts) /\ n <= Len(ts_sleepq[ts]["R"])
  BY <1>3, ReadersToWake
<1>50. PICK q \in Queues : q = "R"
  BY DEF Queues
<1>5. PICK o : q = "R" /\ o = NULL
  BY <1>50
<1>6. /\ wk' = [q |-> q, n |-> n, owner |-> o, sobj |-> l]
      /\ Goto(t, "waive") /\ UNCHANGED <<lk, rw, chain_vars, ts_sleepq>>
      /\ t_kpri_req' = KpriForReaders(ts, n)
  BY <1>1, <1>3, <1>4, <1>5 DEF ExitToReaders, DowngradeShare, Wakeup
<1>7. /\ \A u \in Threads : u # t => hold'[u] = hold[u]
      /\ \A k \in Locks : k # l => hold'[t][k] = hold[t][k]
      /\ rw[t] = "W" /\ (hold'[t][l] = "R" <=> hold[t][l] = "R")
  <2>1. CASE ExitToReaders(t)
    <3>1. SetHold(t, l, "none") /\ rw[t] = "W" /\ pc[t] = "hand"
      BY <1>1, <2>1 DEF ExitToReaders, GrantsReaders, At
    <3>2. hold[t][l] = "W"
      BY <1>1, <3>1 DEF IInv, ControlInv, FinalLabels
    <3> QED BY <1>2, <3>1, <3>2 DEF SetHold, TypeOK
  <2>2. CASE DowngradeShare(t)
    BY <2>2 DEF DowngradeShare, At, KpriInv, DownLabels
  <2> QED BY <2>1, <2>2
<1> QED BY <1>1, <1>2, <1>3, <1>4, <1>5, <1>6, <1>7, HandKpri

LEMMA ToWriterKpri ==
    ASSUME IInv, KpriInv, NEW t \in Threads, ExitToWriter(t)
    PROVE  KpriInv'
<1>1. PICK l \in Locks : l = lk[t]
  BY InOperation DEF ExitToWriter, At
<1>2. /\ pc[t] = "hand" /\ TypeOK /\ SetHold(t, l, "none")
      /\ ~GrantsReaders(t, tc_chain[l])
  BY <1>1 DEF ExitToWriter, At, IInv
<1>3. PICK ts \in Turnstiles : ts = tc_chain[l]
  BY <1>1, <1>2, HandoverFacts
<1>4. PICK n \in Nat : n = 1 /\ n <= Len(ts_sleepq[ts]["W"])
  BY <1>1, <1>2, <1>3, WriterToWake
<1>50. PICK q \in Queues : q = "W"
  BY DEF Queues
<1>5. PICK o : q = "W" /\ o = Head(ts_sleepq[ts]["W"])
  BY <1>50
<1>6. /\ wk' = [q |-> q, n |-> n, owner |-> o, sobj |-> l]
      /\ Goto(t, "waive") /\ UNCHANGED <<lk, rw, chain_vars, ts_sleepq>>
      /\ UNCHANGED t_kpri_req
  BY <1>1, <1>3, <1>4, <1>5 DEF ExitToWriter, Wakeup
<1>7. /\ \A u \in Threads : u # t => hold'[u] = hold[u]
      /\ \A k \in Locks : k # l => hold'[t][k] = hold[t][k]
      /\ hold'[t][l] = "none"
  BY <1>2 DEF SetHold, TypeOK
<1>8. hold[t][l] = rw[t] /\ rw[t] \in {"R", "W"}
  BY <1>1, <1>2 DEF IInv, ControlInv, FinalLabels, TypeOK, Queues
<1> QED BY <1>1, <1>2, <1>3, <1>4, <1>5, <1>6, <1>7, <1>8, HandKpri

LEMMA NextKpri == IInv /\ IInv' /\ KpriInv /\ [Next]_vars => KpriInv'
<1> SUFFICES ASSUME IInv, IInv', KpriInv, [Next]_vars PROVE KpriInv'
  OBVIOUS
<1>1. ASSUME NEW t \in Threads, Continue(t) PROVE KpriInv'
  BY <1>1, GrabKpri, QuietKpri, WaitKpri, SleepKpri, ToReadersKpri, ToWriterKpri,
     WokenKpri, DoneKpri DEF Continue
<1>2. ASSUME NEW t \in Threads, NEW l \in Locks,
             \/ \E m \in {"R", "W"} : rw_enter(t, l, m) \/ rw_tryenter(t, l, m)
             \/ rw_exit(t, l) \/ rw_downgrade(t, l) \/ rw_tryupgrade(t, l)
      PROVE  KpriInv'
  BY <1>2, EnterKpri, CallKpri DEF Queues
<1>3. ASSUME NEW t \in Threads, NEW p \in Priorities, ChangePri(t, p) PROVE KpriInv'
  BY <1>3, SleepKpri
<1>4. CASE UNCHANGED vars \/ \E l \in Destroyable : rw_destroy(l) \/ rw_init(l)
  <2>1. UNCHANGED <<hold, pc, lk, rw, t_kpri_req, ts_vars>>
    BY <1>4 DEF vars, rw_vars, rw_destroy, rw_init
  <2>2. \A u \in Threads : Granted(u)' <=> Granted(u)
    BY <2>1, GrantedKept DEF ts_vars, chain_vars
  <2> QED BY <2>1, <2>2, SameKpri
<1> QED BY <1>1, <1>2, <1>3, <1>4 DEF Next

LEMMA InitKpri == Init => KpriInv
<1> SUFFICES ASSUME Init PROVE KpriInv
  OBVIOUS
<1>1. ASSUME NEW t \in Threads PROVE KpriOf(t)
  <2>1. ReadHeld(t) = {} /\ t_kpri_req[t] = 0
    BY DEF Init, ReadHeld
  <2>2. ~Owes(t)
    BY DEF Init, TurnstileInit, Owes, Granted, NoWakeup
  <2> QED BY <2>1, <2>2, FS_EmptySet DEF KpriOf
<1> QED BY <1>1 DEF KpriInv, Init, DownLabels

(* KpriBalanced: requests given back before blocking and made again by the *)
(* waker on the sleeper's behalf leave every thread, whenever it is back   *)
(* in its caller's code or waits, with one request for each read hold.     *)
THEOREM KpriExact == Spec => []KpriBalanced
<1>1. Init => KpriInv
  BY InitKpri
<1>2. IInv /\ IInv' /\ KpriInv /\ [Next]_vars => KpriInv'
  BY NextKpri
<1>3. ASSUME IInv, KpriInv PROVE KpriBalanced
  <2>1. ASSUME NEW t \in Threads,
               pc[t] = "run" \/ (pc[t] \in {"block", "pi", "sleep"} /\ ~Granted(t))
        PROVE  t_kpri_req[t] = Cardinality({l \in Locks : hold[t][l] = "R"})
    <3>1. ~Owes(t)
      BY <1>3, <2>1, OwesOutside DEF Owes, WaitLabels
    <3>2. Cardinality(ReadHeld(t)) \in Nat
      BY <1>3, FS_CardinalityType DEF KpriInv, KpriOf
    <3> QED BY <1>3, <3>1, <3>2 DEF KpriInv, KpriOf, ReadHeld
  <2> QED BY <2>1 DEF KpriBalanced
<1> QED BY <1>1, <1>2, <1>3, InductiveInvariant, PTL DEF Spec
-----------------------------------------------------------------------------
(* Priority inheritance, while assigned priorities do not change: the      *)
(* inductive invariant is PriorityInv of RWLockInv.  First its parts that  *)
(* a step which leaves the turnstiles alone keeps.                         *)
LEMMA DonorKept ==
    ASSUME DonorInv, UNCHANGED <<pi_vars, t_pri, t_wchan, tc_chain>>
    PROVE  DonorInv'
BY DEF DonorInv, pi_vars, DISP_PRIO

LEMMA CoverKept ==
    ASSUME CoverInv, UNCHANGED <<pi_vars, t_pri, t_wchan, tc_chain, pi_cur>>,
           \A t, o \in Threads, l \in Locks :
              t_wchan[t] = l /\ rw_owner(l)' = o /\ Pending(l, "W")' = 0
                 => rw_owner(l) = o /\ Pending(l, "W") = 0
    PROVE  CoverInv'
<1>1. UNCHANGED DISP_PRIO
  BY DEF DISP_PRIO, pi_vars
<1>2. ASSUME NEW l \in Locks, NEW t \in Threads, NEW o \in Threads,
             t_wchan'[t] = l, t # pi_cur', rw_owner(l)' = o, Pending(l, "W")' = 0
      PROVE  \/ DISP_PRIO'[t] <= t_pri'[o]
             \/ /\ ts_inheritor'[tc_chain'[l]] = o
                /\ DISP_PRIO'[t] <= ts_epri'[tc_chain'[l]]
  BY <1>1, <1>2 DEF CoverInv, pi_vars
<1> QED BY <1>2 DEF CoverInv

LEMMA WaiveKept ==
    ASSUME WaiveInv, UNCHANGED <<wk, ts_inheritor, tc_chain, pi_cur>>,
           \A u \in Threads : pc'[u] = "waive" => pc[u] = "waive" /\ hold'[u] = hold[u],
           \A u \in Threads : pc[u] = "pi" => pc'[u] = "pi"
    PROVE  WaiveInv'
BY DEF WaiveInv

(* Nobody sleeps on a lock without waiters, once its handoffs are over.    *)
LEMMA NoSleepers ==
    ASSUME IInv, NEW l \in Locks, ~rw_wwwh[l].hw,
           Pending(l, "R") = 0, Pending(l, "W") = 0
    PROVE  \A t \in Threads : t_wchan[t] # l
<1>1. SUFFICES ASSUME NEW t \in Threads, t_wchan[t] = l PROVE FALSE
  OBVIOUS
<1>2. PICK ts \in Turnstiles : tc_chain[l] = ts /\ t_ts[t] = ts
  BY <1>1, TurnstileAssumption DEF IInv, ChainInv, TypeOK, TurnstileTypeOK
<1>3. PICK q \in Queues : q = rw[t] /\ t \in Elems(ts_sleepq[ts][q])
  BY <1>1, <1>2, TurnstileAssumption DEF IInv, QueueInv, TypeOK
<1>4. ts_sleepq[ts][q] \in Seq(Threads) /\ Len(ts_sleepq[ts][q]) \in Nat
  BY QueueTypes
<1>5. Len(ts_sleepq[ts][q]) > 0
  BY <1>3, <1>4, LenProperties DEF Elems
<1>6. QueuedW(l) \/ QueuedR(l)
  BY <1>2, <1>3, <1>5, TurnstileAssumption DEF QueuedW, QueuedR, WQ, RQ, Queues
<1> QED BY <1>6 DEF IInv, BitsInv, BitsOf

(* What PriorityInv says beyond the order of the queues.                   *)
PInv == Books /\ DonorInv /\ CoverInv /\ WaiveInv

(* A step of t that at most takes the ownership of l away, or takes l when *)
(* nobody sleeps on it.                                                    *)
LEMMA QuietPriority ==
    ASSUME PInv, NEW t, NEW l \in Locks,
           UNCHANGED <<chain_vars, pi_vars, t_pri, pi_cur, wk>>,
           t \in Threads => pc[t] # "pi" /\ pc'[t] # "waive",
           \A u \in Threads : u # t => pc'[u] = pc[u] /\ hold'[u] = hold[u],
           \A k \in Locks : k # l => rw_wwwh'[k] = rw_wwwh[k],
           \/ rw_owner(l)' \in {rw_owner(l), NULL}
           \/ \A u \in Threads : t_wchan[u] # l
    PROVE  PInv'
<1>1. UNCHANGED <<tc_chain, t_wchan, ts_inheritor>>
  BY DEF chain_vars, pi_vars
<1>2. Books' /\ DonorInv'
  BY <1>1, BooksKept, DonorKept DEF PInv
<1>3. CoverInv'
  <2>1. ASSUME NEW u \in Threads, NEW o \in Threads, NEW k \in Locks,
               t_wchan[u] = k, rw_owner(k)' = o, Pending(k, "W")' = 0
        PROVE  rw_owner(k) = o /\ Pending(k, "W") = 0
    <3>1. Pending(k, "W")' = Pending(k, "W")
      BY DEF Pending
    <3>2. rw_owner(k) = o
      BY <2>1, TurnstileAssumption DEF rw_owner
    <3> QED BY <2>1, <3>1, <3>2
  <2> QED BY <1>1, <2>1, CoverKept DEF PInv
<1>4. WaiveInv'
  BY <1>1, WaiveKept DEF PInv
<1> QED BY <1>2, <1>3, <1>4 DEF PInv

(* A lock that nobody holds or has been granted: nobody sleeps on it.      *)
LEMMA FreeLock ==
    ASSUME IInv, NEW l \in Locks, rw_wwwh[l] # RW_DOUBLE_LOCK, ~RW_LOCKED(rw_wwwh[l])
    PROVE  \A t \in Threads : t_wchan[t] # l
<1>1. rw_wwwh[l] \in Words /\ HoldOf(l) /\ BitsOf(l)
  BY DEF IInv, TypeOK, HoldInv, BitsInv
<1>2. rw_wwwh[l].rd = 0 /\ rw_wwwh[l].wr = NULL
  BY <1>1 DEF RW_LOCKED, Words
<1>3. ~rw_wwwh[l].hw
  BY <1>1 DEF BitsOf
<1>4. Pending(l, "R") = 0 /\ Pending(l, "W") = 0
  <2>1. Pending(l, "R") \in Nat /\ Pending(l, "W") \in {0, 1} /\ CardR(l) \in Nat
    BY PendingFacts, CardFacts
  <2>2. rw_wwwh[l].rd = CardR(l) + Pending(l, "R")
    BY <1>1 DEF HoldOf, CardR
  <2>3. Pending(l, "W") # 1
    BY <1>1, <1>2 DEF HoldOf
  <2> QED BY <1>2, <2>1, <2>2, <2>3
<1> QED BY <1>3, <1>4, NoSleepers

LEMMA EnterPriority ==
    ASSUME IInv, PInv, NEW t \in Threads, NEW l \in Locks, NEW m \in Queues,
           rw_enter(t, l, m)
    PROVE  PInv'
<1>1. /\ pc[t] = "run" /\ pc'[t] = "enter" /\ TypeOK
      /\ UNCHANGED <<rw_wwwh, hold, ts_vars>>
      /\ \A u \in Threads : u # t => pc'[u] = pc[u]
  BY BeginMine DEF rw_enter, At, IInv
<1>2. rw_owner(l)' = rw_owner(l)
  BY <1>1 DEF rw_owner
<1> QED BY <1>1, <1>2, QuietPriority DEF ts_vars

LEMMA GrabPriority ==
    ASSUME IInv, PInv, NEW t \in Threads, EnterGrab(t) PROVE PInv'
<1>1. PICK l \in Locks : l = lk[t] /\ rw_wwwh[l] # RW_DOUBLE_LOCK
  BY InOperation DEF EnterGrab, At
<1>2. /\ pc[t] = "enter" /\ pc'[t] = "run" /\ TypeOK /\ UNCHANGED ts_vars
      /\ \A u \in Threads : u # t => pc'[u] = pc[u]
  BY BeginMine DEF EnterGrab, Return, At, IInv
<1>3. \A u \in Threads : u # t => hold'[u] = hold[u]
  BY <1>1, <1>2, HoldMine DEF EnterGrab
<1>4. PICK w \in Words : w = rw_wwwh[l]
  BY <1>2 DEF TypeOK
<1>5. /\ \A k \in Locks : k # l => rw_wwwh'[k] = rw_wwwh[k]
      /\ rw_wwwh'[l] = Grant(w, t, rw[t]) /\ ~lock_busy(w, rw[t]) /\ rw[t] \in Queues
  BY <1>1, <1>2, <1>4 DEF EnterGrab, SetWord, TypeOK
<1>6. CASE rw[t] = "R"
  <2>1. rw_owner(l)' = rw_owner(l)
    BY <1>4, <1>5, <1>6, GrantWord DEF rw_owner
  <2> QED BY <1>2, <1>3, <1>5, <2>1, QuietPriority DEF ts_vars
<1>7. CASE rw[t] = "W"
  <2>1. ~RW_LOCKED(w)
    BY <1>5, <1>7 DEF lock_busy
  <2>2. \A u \in Threads : t_wchan[u] # l
    BY <1>1, <1>4, <2>1, FreeLock
  <2> QED BY <1>2, <1>3, <1>5, <2>2, QuietPriority DEF ts_vars
<1> QED BY <1>5, <1>6, <1>7 DEF Queues

LEMMA MovePriority ==
    ASSUME IInv, PInv, NEW t \in Threads,
           \/ EnterBusy(t) \/ EnterLookup(t) \/ EnterRetry(t)
           \/ ExitLookup(t) \/ DowngradeLookup(t)
    PROVE  PInv'
<1>1. PICK l \in Locks : l = lk[t]
  BY InOperation
  DEF EnterBusy, EnterLookup, EnterRetry, ExitLookup, DowngradeLookup, At
<1>2. /\ pc[t] # "pi" /\ UNCHANGED <<rw_wwwh, hold>>
      /\ UNCHANGED <<chain_vars, pi_vars, t_pri, pi_cur, wk>>
  BY DEF EnterBusy, EnterLookup, EnterRetry, ExitLookup, DowngradeLookup, At,
         turnstile_lookup, turnstile_exit, ts_vars
<1>3. /\ pc'[t] # "waive" /\ \A u \in Threads : u # t => pc'[u] = pc[u]
  <2>1. \E label \in {"slow", "look", "enter", "hand", "share"} : Goto(t, label)
    BY DEF EnterBusy, EnterLookup, EnterRetry, ExitLookup, DowngradeLookup
  <2> QED BY <2>1 DEF Goto, IInv, TypeOK
<1>4. rw_owner(l)' = rw_owner(l)
  BY <1>2 DEF rw_owner
<1> QED BY <1>2, <1>3, <1>4, QuietPriority

LEMMA WaitPriority ==
    ASSUME IInv, PInv, NEW t \in Threads, EnterWait(t) PROVE PInv'
<1>1. PICK l \in Locks : l = lk[t]
  BY InOperation DEF EnterWait, At
<1>2. PICK w \in Words : w = rw_wwwh[l]
  BY DEF IInv, TypeOK
<1>3. /\ pc[t] = "look" /\ pc'[t] = "block" /\ UNCHANGED <<hold, ts_vars>>
      /\ \A u \in Threads : u # t => pc'[u] = pc[u]
  BY GotoMine DEF EnterWait, At, IInv
<1>4. /\ \A k \in Locks : k # l => rw_wwwh'[k] = rw_wwwh[k]
      /\ rw_wwwh'[l] = [w EXCEPT !.hw = TRUE, !.ww = @ \/ rw[t] = "W"]
  BY <1>1, <1>2 DEF EnterWait, SetWord, IInv, TypeOK
<1>5. rw_owner(l)' = rw_owner(l)
  BY <1>2, <1>4 DEF rw_owner, Words
<1> QED BY <1>3, <1>4, <1>5, QuietPriority DEF ts_vars

LEMMA TryPriority ==
    ASSUME IInv, PInv, NEW t \in Threads, NEW l \in Locks, NEW m \in Queues,
           rw_tryenter(t, l, m)
    PROVE  PInv'
<1>1. /\ pc[t] = "run" /\ UNCHANGED <<pc, ts_vars>> /\ TypeOK
      /\ \A u \in Threads : u # t => hold'[u] = hold[u]
  BY HoldMine DEF rw_tryenter, At, IInv
<1>2. PICK w \in Words : w = rw_wwwh[l]
  BY <1>1 DEF TypeOK
<1>3. /\ \A k \in Locks : k # l => rw_wwwh'[k] = rw_wwwh[k]
      /\ rw_wwwh'[l] = Grant(w, t, m)
  BY <1>1, <1>2 DEF rw_tryenter, SetWord, TypeOK
<1>4. CASE m = "R"
  <2>1. rw_owner(l)' = rw_owner(l)
    BY <1>2, <1>3, <1>4, GrantWord DEF rw_owner
  <2> QED BY <1>1, <1>3, <2>1, QuietPriority DEF ts_vars
<1>5. CASE m = "W"
  <2>1. w = Unheld
    BY <1>2, <1>5 DEF rw_tryenter
  <2>2. \A u \in Threads : t_wchan[u] # l
    <3>1. w # RW_DOUBLE_LOCK /\ ~RW_LOCKED(w)
      BY <2>1, DoubleLock DEF RW_LOCKED
    <3> QED BY <1>2, <3>1, FreeLock
  <2> QED BY <1>1, <1>3, <2>2, QuietPriority DEF ts_vars
<1> QED BY <1>4, <1>5 DEF Queues

LEMMA ExitPriority ==
    ASSUME IInv, PInv, NEW t \in Threads, NEW l \in Locks, rw_exit(t, l) PROVE PInv'
<1>1. PICK w \in Words : w = rw_wwwh[l]
  BY DEF IInv, TypeOK
<1>2. CASE ExitDrop(t, l)
  <2>1. /\ pc[t] = "run" /\ UNCHANGED <<pc, ts_vars>>
        /\ \A u \in Threads : u # t => hold'[u] = hold[u]
    BY <1>2, HoldMine DEF ExitDrop, At, IInv
  <2>2. /\ \A k \in Locks : k # l => rw_wwwh'[k] = rw_wwwh[k]
        /\ rw_wwwh'[l] = Drop(w, lock_value(w))
    BY <1>1, <1>2 DEF ExitDrop, SetWord, IInv, TypeOK
  <2>3. rw_owner(l)' \in {rw_owner(l), NULL}
    BY <1>1, <2>2, DropWord DEF rw_owner, lock_value
  <2> QED BY <2>1, <2>2, <2>3, QuietPriority DEF ts_vars
<1>3. CASE ExitFinal(t, l)
  <2>1. /\ pc[t] = "run" /\ pc'[t] = "final" /\ UNCHANGED <<rw_wwwh, hold, ts_vars>>
        /\ \A u \in Threads : u # t => pc'[u] = pc[u]
    BY <1>3, BeginMine DEF ExitFinal, At, IInv
  <2>2. rw_owner(l)' = rw_owner(l)
    BY <2>1 DEF rw_owner
  <2> QED BY <2>1, <2>2, QuietPriority DEF ts_vars
<1> QED BY <1>2, <1>3 DEF rw_exit

LEMMA DowngradePriority ==
    ASSUME IInv, PInv, NEW t \in Threads, NEW l \in Locks, rw_downgrade(t, l)
    PROVE  PInv'
<1>1. /\ pc[t] = "run" /\ pc'[t] # "waive" /\ UNCHANGED ts_vars
      /\ \A u \in Threads : u # t => pc'[u] = pc[u]
  BY BeginMine DEF rw_downgrade, At, IInv
<1>2. \A u \in Threads : u # t => hold'[u] = hold[u]
  BY HoldMine DEF rw_downgrade, IInv
<1>3. PICK w \in Words : w = rw_wwwh[l]
  BY DEF IInv, TypeOK
<1>4. /\ \A k \in Locks : k # l => rw_wwwh'[k] = rw_wwwh[k]
      /\ rw_wwwh'[l] = [w EXCEPT !.rd = 1, !.wr = NULL, !.wl = FALSE]
  BY <1>3 DEF rw_downgrade, SetWord, IInv, TypeOK
<1>5. rw_owner(l)' = NULL
  BY <1>4 DEF rw_owner, Words
<1> QED BY <1>1, <1>2, <1>4, <1>5, QuietPriority DEF ts_vars

(* The only reader of a lock without blocked writers: nobody sleeps on it, *)
(* or there would be a second reader, halfway through rw_downgrade.        *)
LEMMA UpgradePriority ==
    ASSUME IInv, PInv, NEW t \in Threads, NEW l \in Locks, rw_tryupgrade(t, l)
    PROVE  PInv'
<1>1. /\ pc[t] = "run" /\ hold[t][l] = "R" /\ UNCHANGED <<pc, ts_vars>>
      /\ \A u \in Threads : u # t => hold'[u] = hold[u]
  BY HoldMine DEF rw_tryupgrade, At, IInv
<1>2. PICK w \in Words : w = rw_wwwh[l]
  BY DEF IInv, TypeOK
<1>3. w.rd = 1 /\ ~w.wl /\ ~w.ww
  <2>1. [w EXCEPT !.hw = FALSE] = [Unheld EXCEPT !.rd = 1]
    BY <1>2 DEF rw_tryupgrade
  <2> QED BY <1>2, <2>1 DEF Words, Unheld
<1>4. /\ w.rd = CardR(l) + Pending(l, "R") /\ CardR(l) \in Nat /\ CardR(l) >= 1
      /\ Pending(l, "R") \in Nat /\ Pending(l, "W") = 0
  BY <1>1, <1>2, ReaderFacts
<1>5. CardR(l) = 1 /\ Pending(l, "R") = 0
  BY <1>3, <1>4
<1>6. ~w.hw
  <2>1. SUFFICES ASSUME w.hw PROVE FALSE
    OBVIOUS
  <2>2. PICK d \in Threads : pc[d] \in DownLabels /\ lk[d] = l
    BY <1>2, <1>3, <2>1 DEF IInv, BitsInv, BitsOf
  <2>3. hold[d][l] = "R" /\ d # t
    BY <1>1, <2>2 DEF IInv, ControlInv, DownLabels
  <2> QED BY <1>1, <1>5, <2>3, CardFacts
<1>7. \A u \in Threads : t_wchan[u] # l
  BY <1>2, <1>4, <1>5, <1>6, NoSleepers
<1>8. \A k \in Locks : k # l => rw_wwwh'[k] = rw_wwwh[k]
  BY DEF rw_tryupgrade, SetWord, IInv, TypeOK
<1> QED BY <1>1, <1>7, <1>8, QuietPriority DEF ts_vars

LEMMA ReusePriority ==
    ASSUME IInv, PInv, NEW l \in Locks, rw_destroy(l) \/ rw_init(l)
    PROVE  PInv'
<1>1. PICK t : t = NULL /\ t \notin Threads
  BY TurnstileAssumption
<1>2. UNCHANGED <<hold, pc, ts_vars>>
  BY DEF rw_destroy, rw_init
<1>3. PICK v \in {Unheld, RW_DOUBLE_LOCK} : rw_wwwh' = [rw_wwwh EXCEPT ![l] = v]
  BY DEF rw_destroy, rw_init, SetWord
<1>4. rw_wwwh'[l] = v /\ \A k \in Locks : k # l => rw_wwwh'[k] = rw_wwwh[k]
  BY <1>3 DEF IInv, TypeOK
<1>5. rw_owner(l)' = NULL
  BY <1>3, <1>4, DoubleLock DEF rw_owner
<1> QED BY <1>1, <1>2, <1>4, <1>5, QuietPriority DEF ts_vars
-----------------------------------------------------------------------------
(* The walk of the blocking chain.                                         *)

LEMMA SleeperActive ==
    ASSUME IInv, NEW u \in Threads, NEW l \in Locks, t_wchan[u] = l
    PROVE  tc_chain[l] = t_ts[u] /\ tc_chain[l] \in Turnstiles /\ tc_chain[l] # NULL
<1>1. tc_chain[l] = t_ts[u]
  BY TurnstileAssumption DEF IInv, ChainInv
<1>2. t_ts[u] \in Turnstiles
  BY DEF IInv, TypeOK, TurnstileTypeOK
<1> QED BY <1>1, <1>2, TurnstileAssumption

(* Nobody walks while another thread has the chain lock.                   *)
LEMMA NoWalk ==
    ASSUME IInv, PInv, NEW t \in Threads, tc_lock = t, pc[t] # "pi"
    PROVE  pi_cur = NULL
BY DEF PInv, WaiveInv, IInv, ControlInv, TcLabels

LEMMA BlockPriority ==
    ASSUME DynamicPri = FALSE, IInv, PInv, NEW t \in Threads, EnterBlock(t) PROVE PInv'
<1> USE TurnstileAssumption
<1>1. PICK l \in Locks : l = lk[t]
  BY InOperation DEF EnterBlock, At
<1>2. /\ pc[t] = "block" /\ tc_lock = t /\ t_wchan[t] = NULL
      /\ \A u \in Threads : u # t => pc[u] \notin TcLabels
  BY DEF EnterBlock, At, turnstile_block, IInv, ControlInv, QueuedLabels, TcLabels
<1>3. pi_cur = NULL
  BY <1>2, NoWalk
<1>4. /\ UNCHANGED <<pi_vars, t_pri, wk, rw_wwwh>> /\ pi_cur' = t
      /\ t_wchan' = [t_wchan EXCEPT ![t] = l]
      /\ tc_chain' = [tc_chain EXCEPT ![l] = IF tc_chain[l] = NULL THEN t_ts[t]
                                             ELSE tc_chain[l]]
      /\ Goto(t, "pi")
  <2>1. TurnstileTypeOK /\ t_pri' \in ClassPri(t)
    BY DEF EnterBlock, turnstile_block, IInv, TypeOK
  <2>2. UNCHANGED t_pri
    BY <2>1, ClassPriIs
  <2> QED BY <1>1, <2>2 DEF EnterBlock, turnstile_block
<1>5. /\ t_wchan'[t] = l /\ \A u \in Threads : u # t => t_wchan'[u] = t_wchan[u]
      /\ \A k \in Locks : tc_chain[k] # NULL => tc_chain'[k] = tc_chain[k]
      /\ \A k \in Locks : tc_chain[k] = NULL /\ tc_chain'[k] # NULL =>
            k = l /\ tc_chain'[k] = t_ts[t]
      /\ pc'[t] = "pi" /\ \A u \in Threads : u # t => pc'[u] = pc[u]
  BY <1>4 DEF Goto, IInv, TypeOK, TurnstileTypeOK
<1>6. UNCHANGED DISP_PRIO
  BY <1>4 DEF DISP_PRIO, pi_vars
<1>7. Books'
  BY <1>4, BooksKept DEF PInv
<1>8. DonorInv'
  <2>1. SUFFICES ASSUME NEW k \in Locks, tc_chain'[k] # NULL,
                        ts_inheritor[tc_chain'[k]] # NULL
                 PROVE  \E u \in Threads : t_wchan'[u] = k
                             /\ DISP_PRIO[u] >= ts_epri[tc_chain'[k]]
    BY <1>4, <1>6 DEF DonorInv, pi_vars
  <2>2. ~Active(t_ts[t]) /\ t_ts[t] \in Turnstiles
    BY <1>2 DEF IInv, ChainInv, TypeOK, TurnstileTypeOK
  <2>3. ts_inheritor[t_ts[t]] = NULL
    BY <2>2 DEF IInv, ContentInv
  <2>4. tc_chain[k] # NULL /\ tc_chain'[k] = tc_chain[k]
    BY <1>5, <2>1, <2>3
  <2>5. PICK u \in Threads : t_wchan[u] = k /\ DISP_PRIO[u] >= ts_epri[tc_chain[k]]
    BY <2>1, <2>4 DEF PInv, DonorInv
  <2>6. u # t
    BY <1>2, <2>5
  <2> QED BY <1>5, <2>4, <2>5, <2>6
<1>9. CoverInv'
  <2>1. SUFFICES ASSUME NEW k \in Locks, NEW u \in Threads, NEW o \in Threads,
                        t_wchan'[u] = k, u # t, rw_owner(k)' = o, Pending(k, "W")' = 0
                 PROVE  \/ DISP_PRIO[u] <= t_pri[o]
                        \/ /\ ts_inheritor[tc_chain'[k]] = o
                           /\ DISP_PRIO[u] <= ts_epri[tc_chain'[k]]
    BY <1>4, <1>6 DEF CoverInv, pi_vars
  <2>2. t_wchan[u] = k /\ u # pi_cur /\ rw_owner(k) = o /\ Pending(k, "W") = 0
    BY <1>3, <1>4, <1>5, <2>1 DEF rw_owner, Pending
  <2>3. tc_chain[k] # NULL
    BY <2>2, SleeperActive
  <2> QED BY <1>5, <2>2, <2>3 DEF PInv, CoverInv
<1>10. WaiveInv'
  <2>1. \A u \in Threads : pc'[u] # "waive"
    BY <1>2, <1>5 DEF TcLabels
  <2> QED BY <1>5, <2>1 DEF WaiveInv
<1> QED BY <1>7, <1>8, <1>9, <1>10 DEF PInv

(* The owner of a lock on which a thread sleeps, while no handoff is under *)
(* way: the only thread that can inherit from the lock's turnstile.        *)
LEMMA OwnerInherits ==
    ASSUME IInv, NEW t \in Threads, pc[t] \in TcLabels \ WakeLabels,
           NEW l \in Locks, NEW o \in Threads, rw_owner(l) = o,
           tc_chain[l] # NULL
    PROVE  hold[o][l] = "W" /\ ts_inheritor[tc_chain[l]] \in {NULL, o}
<1> USE TurnstileAssumption
<1>1. /\ \A u \in Threads \ {t} : pc[u] \notin TcLabels
      /\ Pending(l, "W") = 0
  BY Quiet DEF Queues
<1>2. rw_wwwh[l].wl /\ rw_wwwh[l].wr = o
  BY DEF rw_owner
<1>3. hold[o][l] = "W"
  <2>1. rw_wwwh[l] # RW_DOUBLE_LOCK
    BY <1>2, DoubleLock
  <2> QED BY <1>1, <1>2, <2>1 DEF IInv, HoldInv, HoldOf
<1>4. SUFFICES ASSUME NEW i \in Threads, i = ts_inheritor[tc_chain[l]] PROVE i = o
  BY <1>3 DEF IInv, TypeOK, TurnstileTypeOK
<1>5. hold[i][l] = "W" \/ (lk[i] = l /\ pc[i] \in DownLabels \cup {"waive"})
  BY <1>4 DEF IInv, InheritInv
<1>6. pc[i] # "waive"
  BY <1>1 DEF TcLabels, WakeLabels
<1>7. lk[i] = l /\ pc[i] \in DownLabels => hold[i][l] = "R"
  BY DEF IInv, ControlInv
<1>8. i # o => hold[i][l] = "none"
  BY <1>3, WriterFacts
<1> QED BY <1>5, <1>6, <1>7, <1>8

(* Effective priorities are numbers before and after a step.               *)
PrioKnown == IInv => \A u \in Threads : DISP_PRIO[u] \in Nat
LEMMA DispPrioBoth == PrioKnown /\ PrioKnown'
<1>1. PrioKnown
  BY DispPrioType DEF PrioKnown, IInv, TypeOK
<1> QED BY <1>1, PTL

(* One iteration of the walk: the owner of what the cursor sleeps on       *)
(* inherits the cursor's priority, and becomes the cursor if it sleeps.    *)
LEMMA WillPriority ==
    ASSUME IInv, PInv, NEW t \in Threads, EnterWill(t) PROVE PInv'
<1> USE TurnstileAssumption
<1>1. /\ pc[t] = "pi" /\ tc_lock = t /\ pi_cur \in Threads
      /\ t_wchan[pi_cur] \in Locks
      /\ \A u \in Threads : u # t => pc[u] \notin TcLabels
  BY DEF EnterWill, At, turnstile_block_pi, IInv, ControlInv
<1>2. PICK c \in Threads : c = pi_cur
  BY <1>1
<1>3. PICK l \in Locks : l = t_wchan[c]
  BY <1>1, <1>2
<1>4. PICK ts \in Turnstiles : tc_chain[l] = ts /\ t_ts[c] = ts /\ ts # NULL
  BY <1>3, SleeperActive
<1>5. PICK p \in Inheritable : p = DISP_PRIO[c] /\ p \in Nat
  BY DispPrioType DEF Inheritable, IInv, TypeOK
<1>6. PICK own : own = rw_owner(l)
  OBVIOUS
<1>7. /\ turnstile_block_pi(t, own)
      /\ pc' = [pc EXCEPT ![t] = IF PiWalkEnds(own) THEN "sleep" ELSE "pi"]
      /\ UNCHANGED <<rw_wwwh, hold, lk, rw>>
  BY <1>2, <1>3, <1>6 DEF EnterWill, Goto
<1>8. /\ UNCHANGED <<tc_chain, t_wchan, t_pri, wk>>
      /\ pi_cur' = IF PiWalkEnds(own) THEN NULL ELSE own
  BY <1>7 DEF turnstile_block_pi, chain_vars
<1>9. WaiveInv'
  <2>1. \A u \in Threads : pc'[u] # "waive"
    BY <1>1, <1>7 DEF TcLabels, IInv, TypeOK
  <2>2. pi_cur' # NULL => pc'[t] = "pi"
    BY <1>7, <1>8 DEF IInv, TypeOK
  <2> QED BY <2>1, <2>2 DEF WaiveInv
<1>10. \A k \in Locks : rw_owner(k)' = rw_owner(k) /\ Pending(k, "W")' = Pending(k, "W")
  BY <1>7, <1>8 DEF rw_owner, Pending
<1>11. CASE own = NULL
  <2>1. UNCHANGED pi_vars /\ pi_cur' = NULL
    BY <1>7, <1>8, <1>11 DEF turnstile_block_pi, PiWalkEnds
  <2>2. Books' /\ DonorInv'
    BY <1>8, <2>1, BooksKept, DonorKept DEF PInv
  <2>3. UNCHANGED DISP_PRIO
    BY <1>8, <2>1 DEF DISP_PRIO, pi_vars
  <2>4. CoverInv'
    <3>1. SUFFICES ASSUME NEW k \in Locks, NEW u \in Threads, NEW o \in Threads,
                          t_wchan[u] = k, rw_owner(k) = o, Pending(k, "W") = 0
                   PROVE  \/ DISP_PRIO[u] <= t_pri[o]
                          \/ /\ ts_inheritor[tc_chain[k]] = o
                             /\ DISP_PRIO[u] <= ts_epri[tc_chain[k]]
      <4>1. UNCHANGED <<tc_chain, t_wchan, t_pri, ts_inheritor, ts_epri>>
        BY <1>8, <2>1 DEF pi_vars
      <4> QED BY <1>10, <2>3, <4>1, SMTT(60) DEF CoverInv
    <3>2. u # c
      BY <1>3, <1>6, <1>11, <3>1
    <3> QED BY <1>2, <3>1, <3>2 DEF PInv, CoverInv
  <2> QED BY <1>9, <2>2, <2>4 DEF PInv
<1>12. CASE own # NULL
  <2>1. PICK o \in Threads : o = own
    <3>1. rw_wwwh[l] \in Words
      BY DEF IInv, TypeOK
    <3> QED BY <1>6, <1>12, <3>1 DEF rw_owner, Words
  <2>2. hold[o][l] = "W" /\ ts_inheritor[ts] \in {NULL, o}
    BY <1>1, <1>4, <1>6, <2>1, OwnerInherits DEF TcLabels, WakeLabels
  <2>3. o # c
    BY <1>3, <1>4, <2>2, SleepsOn
  <2>4. Inherits(ts, o, p)
    <3>1. turnstile_pi_inherit(t_pri, ts, o, p)
      BY <1>2, <1>4, <1>5, <1>7, <1>12, <2>1 DEF turnstile_block_pi
    <3>2. t_epri' = [t_epri EXCEPT ![o] = IF RaisesPrio(t_pri, o, p) THEN p ELSE @]
      <4>1. IF RaisesPrio(t_pri, o, p) THEN thread_change_epri(o, p)
            ELSE UNCHANGED <<t_epri, ts_sleepq>>
        BY <1>2, <1>5, <1>7, <1>12, <2>1 DEF turnstile_block_pi
      <4>2. t_epri \in [Threads -> Inheritable]
        BY DEF IInv, TypeOK, TurnstileTypeOK, Inheritable
      <4> QED BY <4>1, <4>2 DEF thread_change_epri
    <3> QED BY <1>8, <3>1, <3>2 DEF Inherits
  <2>5. Books' /\ Inherited(ts, o, p)
    BY <2>2, <2>4, InheritBooks DEF PInv, IInv, TypeOK
  <2>6. /\ \A x \in Turnstiles : x # ts =>
              ts_inheritor'[x] = ts_inheritor[x] /\ ts_epri'[x] = ts_epri[x]
        /\ \A u \in Threads : u # o => DISP_PRIO'[u] = DISP_PRIO[u]
        /\ \A u \in Threads : DISP_PRIO'[u] >= DISP_PRIO[u]
    BY <2>5 DEF Inherited
  <2>7. \A u \in Threads : DISP_PRIO[u] \in Nat
    BY DispPrioType DEF IInv, TypeOK
  <2>8. /\ \A x \in Turnstiles : ts_epri[x] \in Nat
        /\ \A u \in Threads : t_pri[u] \in Nat
    BY PrioNumbers DEF IInv, TypeOK
  <2>9. \A k \in Locks : tc_chain[k] \in Turnstiles /\ tc_chain[k] = ts => k = l
    BY <1>4 DEF IInv, ChainInv
  <2>10. \A k \in Locks : tc_chain[k] # NULL => tc_chain[k] \in Turnstiles
    BY DEF IInv, TypeOK, TurnstileTypeOK
  <2>11. CASE ~Inverted(t_pri, o, p)
    <3>1. UNCHANGED <<ts_inheritor, ts_epri>> /\ pi_cur' = NULL /\ p <= t_pri[o]
      BY <1>2, <1>5, <1>8, <2>1, <2>5, <2>8, <2>11
         DEF Inherited, PiWalkEnds, Inverted
    <3>2. UNCHANGED DISP_PRIO
      <4>1. ~RaisesPrio(t_pri, o, p)
        BY <2>11 DEF RaisesPrio
      <4>2. UNCHANGED t_epri
        BY <2>4, <4>1 DEF Inherits, IInv, TypeOK, TurnstileTypeOK
      <4> QED BY <1>8, <4>2 DEF DISP_PRIO
    <3>3. DonorInv'
      BY <1>8, <3>1, <3>2 DEF PInv, DonorInv
    <3>4. CoverInv'
      <4>1. SUFFICES ASSUME NEW k \in Locks, NEW u \in Threads, NEW x \in Threads,
                            t_wchan[u] = k, rw_owner(k) = x, Pending(k, "W") = 0
                     PROVE  \/ DISP_PRIO[u] <= t_pri[x]
                            \/ /\ ts_inheritor[tc_chain[k]] = x
                               /\ DISP_PRIO[u] <= ts_epri[tc_chain[k]]
        BY <1>8, <1>10, <3>1, <3>2 DEF CoverInv
      <4>2. CASE u = c
        BY <1>3, <1>5, <1>6, <2>1, <3>1, <4>1, <4>2
      <4>3. CASE u # c
        BY <1>2, <4>1, <4>3 DEF PInv, CoverInv
      <4> QED BY <4>2, <4>3
    <3> QED BY <1>9, <2>5, <3>3, <3>4 DEF PInv
  <2>12. CASE Inverted(t_pri, o, p)
    <3>1. /\ ts_inheritor'[ts] = o /\ ts_epri'[ts] >= p
          /\ \/ ts_epri'[ts] = p
             \/ ts_inheritor[ts] = o /\ ts_epri'[ts] = ts_epri[ts]
          /\ ts_inheritor[ts] = o => ts_epri'[ts] >= ts_epri[ts]
      BY <2>5, <2>12 DEF Inherited
    <3>2. PICK e \in Nat : e = ts_epri'[ts]
      BY <1>5, <2>8, <3>1
    <3>3. t_wchan[o] # NULL => pi_cur' = o
      BY <1>2, <1>5, <1>8, <2>1, <2>12 DEF PiWalkEnds
    <3>4. DonorInv'
      <4>1. SUFFICES ASSUME NEW k \in Locks, tc_chain[k] # NULL,
                            ts_inheritor'[tc_chain[k]] # NULL
                     PROVE  \E u \in Threads : t_wchan[u] = k
                                 /\ DISP_PRIO'[u] >= ts_epri'[tc_chain[k]]
        BY <1>8 DEF DonorInv
      <4>2. \A u \in Threads : DISP_PRIO'[u] \in Nat
        <5>1. IInv'
          BY EnterWillInv
        <5>2. (\A u \in Threads : DISP_PRIO[u] \in Nat)'
          BY <5>1, DispPrioBoth DEF PrioKnown
        <5> QED BY <5>2
      <4>3. CASE k = l /\ e = p
        <5>1. DISP_PRIO'[c] = p
          BY <1>5, <2>3, <2>6
        <5>2. ts_epri'[tc_chain[k]] = p
          BY <1>4, <3>2, <4>3
        <5>3. p >= p
          BY <3>2, <4>3
        <5> QED BY <1>3, <4>3, <5>1, <5>2, <5>3
      <4>4. CASE ~(k = l /\ e = p)
        <5>1. /\ ts_inheritor[tc_chain[k]] # NULL
              /\ ts_epri'[tc_chain[k]] = ts_epri[tc_chain[k]]
          BY <1>4, <2>6, <2>9, <2>10, <3>1, <3>2, <4>1, <4>4
        <5>2. PICK u \in Threads : t_wchan[u] = k
                                   /\ DISP_PRIO[u] >= ts_epri[tc_chain[k]]
          BY <4>1, <5>1 DEF PInv, DonorInv
        <5>3. DISP_PRIO'[u] >= ts_epri[tc_chain[k]]
          BY <2>6, <2>7, <2>8, <2>10, <4>1, <4>2, <5>2
        <5> QED BY <5>1, <5>2, <5>3
      <4> QED BY <4>3, <4>4
    <3>5. CoverInv'
      <4>1. SUFFICES ASSUME NEW k \in Locks, NEW u \in Threads, NEW x \in Threads,
                            t_wchan[u] = k, u # pi_cur',
                            rw_owner(k) = x, Pending(k, "W") = 0
                     PROVE  \/ DISP_PRIO'[u] <= t_pri[x]
                            \/ /\ ts_inheritor'[tc_chain[k]] = x
                               /\ DISP_PRIO'[u] <= ts_epri'[tc_chain[k]]
        BY <1>8, <1>10 DEF CoverInv
      <4>2. u # o /\ DISP_PRIO'[u] = DISP_PRIO[u]
        BY <2>6, <3>3, <4>1
      <4>3. CASE u = c
        <5>1. k = l /\ x = o
          BY <1>3, <1>6, <2>1, <4>1, <4>3
        <5> QED BY <1>4, <1>5, <3>1, <3>2, <4>2, <4>3, <5>1
      <4>4. CASE u # c
        <5>1. \/ DISP_PRIO[u] <= t_pri[x]
              \/ /\ ts_inheritor[tc_chain[k]] = x
                 /\ DISP_PRIO[u] <= ts_epri[tc_chain[k]]
          BY <1>2, <4>1, <4>4 DEF PInv, CoverInv
        <5>2. tc_chain[k] \in Turnstiles
          BY <4>1, SleeperActive
        <5>3. CASE k = l
          <6>1. x = o
            BY <1>6, <2>1, <4>1, <5>3
          <6> QED BY <1>4, <2>7, <2>8, <3>1, <3>2, <4>2, <5>1, <5>3, <6>1
        <5>4. CASE k # l
          BY <2>6, <2>9, <4>2, <5>1, <5>2, <5>4
        <5> QED BY <5>3, <5>4
      <4> QED BY <4>3, <4>4
    <3> QED BY <1>9, <2>5, <3>4, <3>5 DEF PInv
  <2> QED BY <2>11, <2>12
<1> QED BY <1>11, <1>12
-----------------------------------------------------------------------------
(* The handover: a thread that gives up the lock, or lets readers in, is   *)
(* the only one that can have inherited from its turnstile.                *)
LEMMA HanderInherits ==
    ASSUME IInv, NEW t \in Threads, NEW l \in Locks, lk[t] = l,
           pc[t] \in {"hand", "share"}
    PROVE  ts_inheritor[tc_chain[l]] \in {NULL, t}
<1> USE TurnstileAssumption
<1>1. /\ tc_chain[l] \in Turnstiles
      /\ \A u \in Threads \ {t} : pc[u] \notin TcLabels
      /\ \A u \in Threads : lk[u] = l /\ pc[u] \in FinalLabels \cup DownLabels => u = t
  BY HandoverFacts
<1>2. hold[t][l] # "none"
  BY DEF IInv, ControlInv, FinalLabels, DownLabels, TypeOK, Queues
<1>3. SUFFICES ASSUME NEW i \in Threads, i = ts_inheritor[tc_chain[l]], i # t
               PROVE  FALSE
  BY <1>1 DEF IInv, TypeOK, TurnstileTypeOK
<1>4. hold[i][l] = "W" \/ (lk[i] = l /\ pc[i] \in DownLabels \cup {"waive"})
  BY <1>1, <1>3 DEF IInv, InheritInv
<1>5. hold[i][l] # "W"
  BY <1>2, <1>3, WriterFacts
<1>6. pc[i] # "waive"
  BY <1>1, <1>3 DEF TcLabels
<1> QED BY <1>1, <1>3, <1>4, <1>5, <1>6

LEMMA HandPriority ==
    ASSUME IInv, PInv, NEW t \in Threads, NEW l \in Locks, NEW q \in Queues,
           NEW n \in Nat, NEW o, lk[t] = l, pc[t] \in {"hand", "share"},
           wk' = [q |-> q, n |-> n, owner |-> o, sobj |-> l], Goto(t, "waive"),
           UNCHANGED <<chain_vars, pi_vars, t_pri, pi_cur>>,
           \A k \in Locks : k # l => rw_wwwh'[k] = rw_wwwh[k],
           rw_owner(l)' \in {rw_owner(l), NULL} \/ (q = "W" /\ n > 0),
           n = 0 => hold'[t][l] = "R"
    PROVE  PInv'
<1> USE TurnstileAssumption
<1>1. /\ \A k \in Locks, x \in Queues : Pending(k, x) = 0
      /\ \A u \in Threads \ {t} : pc[u] \notin TcLabels
      /\ tc_lock = t
  BY HandoverFacts
<1>2. UNCHANGED <<tc_chain, t_wchan, ts_inheritor>>
  BY DEF chain_vars, pi_vars
<1>3. Books' /\ DonorInv'
  BY <1>2, BooksKept, DonorKept DEF PInv
<1>4. CoverInv'
  <2>1. ASSUME NEW u \in Threads, NEW x \in Threads, NEW k \in Locks,
               t_wchan[u] = k, rw_owner(k)' = x, Pending(k, "W")' = 0
        PROVE  rw_owner(k) = x /\ Pending(k, "W") = 0
    <3>1. Pending(k, "W") = 0
      BY <1>1 DEF Queues
    <3>2. CASE k # l
      BY <2>1, <3>1, <3>2 DEF rw_owner
    <3>3. CASE k = l
      <4>1. ~(q = "W" /\ n > 0)
        BY <2>1, <3>3 DEF Pending
      <4> QED BY <2>1, <3>1, <3>3, <4>1
    <3> QED BY <3>2, <3>3
  <2> QED BY <1>2, <2>1, CoverKept DEF PInv
<1>5. WaiveInv'
  <2>1. pc'[t] = "waive" /\ \A u \in Threads : u # t => pc'[u] = pc[u]
    BY GotoMine DEF IInv
  <2>2. \A u \in Threads : pc'[u] = "waive" => u = t
    BY <1>1, <2>1 DEF TcLabels
  <2>3. ts_inheritor'[tc_chain'[l]] \in {NULL, t}
    BY <1>2, HanderInherits
  <2>4. pi_cur' = NULL
    BY <1>1, NoWalk
  <2> QED BY <2>2, <2>3, <2>4 DEF WaiveInv
<1> QED BY <1>3, <1>4, <1>5 DEF PInv

LEMMA HandoversPriority ==
    ASSUME IInv, PInv, NEW t \in Threads,
           ExitToReaders(t) \/ ExitToWriter(t) \/ DowngradeShare(t)
    PROVE  PInv'
<1> USE TurnstileAssumption
<1>1. PICK l \in Locks : l = lk[t]
  BY InOperation DEF ExitToReaders, ExitToWriter, DowngradeShare, At
<1>2. pc[t] \in {"hand", "share"} /\ TypeOK
  BY DEF ExitToReaders, ExitToWriter, DowngradeShare, At, IInv
<1>3. PICK ts \in Turnstiles : ts = tc_chain[l]
  BY <1>1, <1>2, HandoverFacts
<1>4. PICK n \in Nat : n = rw_readers_to_wake(ts)
  BY <1>3, ReadersToWake
<1>5. /\ Goto(t, "waive") /\ UNCHANGED <<chain_vars, pi_vars, t_pri, pi_cur>>
  BY DEF ExitToReaders, ExitToWriter, DowngradeShare
<1>6. \A k \in Locks : k # l => rw_wwwh'[k] = rw_wwwh[k]
  BY <1>1, <1>2 DEF ExitToReaders, ExitToWriter, DowngradeShare, SetWord, TypeOK
<1>7. CASE ExitToReaders(t)
  <2>1. PICK q \in Queues : q = "R"
    BY DEF Queues
  <2>2. wk' = [q |-> q, n |-> n, owner |-> NULL, sobj |-> l] /\ n > 0
    BY <1>1, <1>3, <1>4, <1>7, <2>1 DEF ExitToReaders, Wakeup, GrantsReaders
  <2>3. rw_wwwh'[l] = [Unheld EXCEPT !.rd = n, !.hw = WaitersLeft(ts, n),
                                     !.ww = ts_sleepq[ts]["W"] # <<>>]
    BY <1>1, <1>2, <1>3, <1>4, <1>7 DEF ExitToReaders, SetWord, TypeOK
  <2>4. rw_owner(l)' = NULL
    BY <2>3 DEF rw_owner, Unheld
  <2> QED BY <1>1, <1>2, <1>5, <1>6, <2>2, <2>4, HandPriority
<1>8. CASE ExitToWriter(t)
  <2>1. PICK q \in Queues : q = "W"
    BY DEF Queues
  <2>2. PICK m \in Nat : m = 1
    OBVIOUS
  <2>3. PICK o : wk' = [q |-> q, n |-> m, owner |-> o, sobj |-> l]
    BY <1>1, <1>8, <2>1, <2>2 DEF ExitToWriter, Wakeup
  <2> QED BY <1>1, <1>2, <1>5, <1>6, <2>1, <2>2, <2>3, HandPriority
<1>9. CASE DowngradeShare(t)
  <2>1. PICK q \in Queues : q = "R"
    BY DEF Queues
  <2>2. wk' = [q |-> q, n |-> n, owner |-> NULL, sobj |-> l]
    BY <1>1, <1>3, <1>4, <1>9, <2>1 DEF DowngradeShare, Wakeup
  <2>3. PICK w \in Words : w = rw_wwwh[l]
    BY <1>2 DEF TypeOK
  <2>4. rw_wwwh'[l] = [w EXCEPT !.rd = @ + n,
                                !.hw = @ /\ ~(n > 0 /\ ts_waiters[ts] = n)]
    BY <1>1, <1>2, <1>3, <1>4, <1>9, <2>3 DEF DowngradeShare, SetWord, TypeOK
  <2>5. rw_owner(l)' = rw_owner(l)
    BY <2>3, <2>4 DEF rw_owner, Words
  <2>6. hold'[t][l] = "R"
    BY <1>1, <1>9 DEF DowngradeShare, At, IInv, ControlInv, DownLabels
  <2> QED BY <1>1, <1>2, <1>5, <1>6, <2>2, <2>5, <2>6, HandPriority
<1> QED BY <1>7, <1>8, <1>9
-----------------------------------------------------------------------------
(* The wakeup.                                                             *)

(* Before it wakes anybody, the thread gives up what it inherited from the *)
(* lock.  It does not own the lock any more, so nobody relied on it.       *)
LEMMA WaivePriority ==
    ASSUME IInv, PInv, NEW t \in Threads, WakeWaive(t) PROVE PInv'
<1> USE TurnstileAssumption
<1>1. PICK l \in Locks : wk.sobj = l /\ lk[t] = l /\ tc_chain[l] # NULL
  BY InOperation DEF WakeWaive, At, IInv, ControlInv, WakeupInv, WakeLabels
<1>2. PICK ts \in Turnstiles : ts = tc_chain[l]
  BY <1>1 DEF IInv, TypeOK, TurnstileTypeOK
<1>3. /\ pc[t] = "waive" /\ tc_lock = t /\ t_wchan[t] = NULL
      /\ \A u \in Threads \ {t} : pc[u] \notin TcLabels
  BY
  DEF WakeWaive, At, turnstile_wakeup_waive, IInv, ControlInv, QueuedLabels,
      TcLabels
<1>4. /\ pc' = [pc EXCEPT ![t] = "wake"]
      /\ UNCHANGED <<rw_wwwh, hold, lk, rw>>
      /\ UNCHANGED <<tc_chain, t_wchan, t_pri, pi_cur, wk>>
  BY DEF WakeWaive, turnstile_wakeup_waive, Goto, chain_vars
<1>5. WaiveInv'
  <2>1. \A u \in Threads : pc'[u] # "waive"
    BY <1>3, <1>4 DEF TcLabels, IInv, TypeOK
  <2>2. pi_cur' = NULL
    BY <1>3, <1>4, NoWalk
  <2> QED BY <2>1, <2>2 DEF WaiveInv
<1>6. \A k \in Locks : rw_owner(k)' = rw_owner(k) /\ Pending(k, "W")' = Pending(k, "W")
  BY <1>4 DEF rw_owner, Pending
<1>7. ts_inheritor[ts] \in {NULL, t} /\ (wk.n = 0 => hold[t][l] = "R")
  BY <1>1, <1>2, <1>3 DEF PInv, WaiveInv
<1>8. CASE ts_inheritor[ts] = NULL
  <2>1. UNCHANGED pi_vars
    BY <1>1, <1>2, <1>8 DEF WakeWaive, turnstile_wakeup_waive
  <2>2. Books' /\ DonorInv'
    BY <1>4, <2>1, BooksKept, DonorKept DEF PInv
  <2>3. CoverInv'
    BY <1>4, <1>6, <2>1, CoverKept DEF PInv
  <2> QED BY <1>5, <2>2, <2>3 DEF PInv
<1>9. CASE ts_inheritor[ts] = t
  <2>1. turnstile_pi_waive(ts)
    BY <1>1, <1>2, <1>9 DEF WakeWaive, turnstile_wakeup_waive
  <2>2. Books' /\ Waived(ts, t)
    BY <1>4, <1>9, <2>1, WaiveBooks DEF PInv, IInv, TypeOK
  <2>3. /\ ts_inheritor'[ts] = NULL
        /\ \A x \in Turnstiles : x # ts =>
              ts_inheritor'[x] = ts_inheritor[x] /\ ts_epri'[x] = ts_epri[x]
        /\ \A u \in Threads : u # t => DISP_PRIO'[u] = DISP_PRIO[u]
    BY <2>2 DEF Waived
  <2>4. \A k \in Locks : tc_chain[k] # NULL => tc_chain[k] \in Turnstiles
    BY DEF IInv, TypeOK, TurnstileTypeOK
  <2>5. \A k \in Locks : k # l /\ tc_chain[k] # NULL => tc_chain[k] # ts
    BY <1>2 DEF IInv, ChainInv
  <2>6. DonorInv'
    <3>1. SUFFICES ASSUME NEW k \in Locks, tc_chain[k] # NULL,
                          ts_inheritor'[tc_chain[k]] # NULL
                   PROVE  \E u \in Threads : t_wchan[u] = k
                               /\ DISP_PRIO'[u] >= ts_epri'[tc_chain[k]]
      BY <1>4 DEF DonorInv
    <3>2. /\ ts_inheritor[tc_chain[k]] # NULL
          /\ ts_epri'[tc_chain[k]] = ts_epri[tc_chain[k]]
      BY <2>3, <2>4, <3>1
    <3>3. PICK u \in Threads : t_wchan[u] = k /\ DISP_PRIO[u] >= ts_epri[tc_chain[k]]
      BY <3>1, <3>2 DEF PInv, DonorInv
    <3>4. u # t
      BY <1>3, <3>3
    <3> QED BY <2>3, <3>2, <3>3, <3>4
  <2>7. ~(rw_owner(l) = t /\ Pending(l, "W") = 0)
    <3>1. SUFFICES ASSUME rw_owner(l) = t, Pending(l, "W") = 0 PROVE FALSE
      OBVIOUS
    <3>2. rw_wwwh[l].wl /\ rw_wwwh[l].wr = t
      BY <3>1 DEF rw_owner
    <3>3. rw_wwwh[l] # RW_DOUBLE_LOCK
      BY <3>2, DoubleLock
    <3>4. hold[t][l] = "W"
      BY <3>1, <3>2, <3>3 DEF IInv, HoldInv, HoldOf
    <3>5. Pending(l, "R") = 0
      BY <3>4, WriterFacts
    <3>6. wk.n = 0
      BY <1>1, <3>1, <3>5 DEF Pending, IInv, TypeOK, TurnstileTypeOK, Queues
    <3> QED BY <1>7, <3>4, <3>6
  <2>8. CoverInv'
    <3>1. SUFFICES ASSUME NEW k \in Locks, NEW u \in Threads, NEW x \in Threads,
                          t_wchan[u] = k, u # pi_cur,
                          rw_owner(k) = x, Pending(k, "W") = 0
                   PROVE  \/ DISP_PRIO'[u] <= t_pri[x]
                          \/ /\ ts_inheritor'[tc_chain[k]] = x
                             /\ DISP_PRIO'[u] <= ts_epri'[tc_chain[k]]
      BY <1>4, <1>6 DEF CoverInv
    <3>2. DISP_PRIO'[u] = DISP_PRIO[u]
      BY <1>3, <2>3, <3>1
    <3>3. \/ DISP_PRIO[u] <= t_pri[x]
          \/ /\ ts_inheritor[tc_chain[k]] = x
             /\ DISP_PRIO[u] <= ts_epri[tc_chain[k]]
      BY <3>1 DEF PInv, CoverInv
    <3>4. tc_chain[k] # NULL
      BY <3>1, SleeperActive
    <3>5. CASE k # l
      BY <2>3, <2>4, <2>5, <3>2, <3>3, <3>4, <3>5
    <3>6. CASE k = l
      <4>1. x # t
        BY <2>7, <3>1, <3>6
      <4> QED BY <1>2, <1>9, <3>2, <3>3, <3>6, <4>1
    <3> QED BY <3>5, <3>6
  <2> QED BY <1>5, <2>2, <2>6, <2>8 DEF PInv
<1> QED BY <1>7, <1>8, <1>9

LEMMA DonePriority ==
    ASSUME IInv, PInv, NEW t \in Threads, WakeDone(t) PROVE PInv'
<1>1. /\ pc[t] = "wake" /\ tc_lock = t /\ wk.n = 0 /\ wk' = NoWakeup
      /\ UNCHANGED <<rw_wwwh, hold, chain_vars, pi_vars, t_pri, pi_cur>>
  BY DEF WakeDone, At, turnstile_wakeup_done
<1>2. pc'[t] = "run" /\ \A u \in Threads : u # t => pc'[u] = pc[u]
  BY BeginMine DEF WakeDone, Return, IInv
<1>3. UNCHANGED <<tc_chain, t_wchan, ts_inheritor>>
  BY <1>1 DEF chain_vars, pi_vars
<1>4. Books' /\ DonorInv'
  BY <1>1, <1>3, BooksKept, DonorKept DEF PInv
<1>5. CoverInv'
  <2>1. \A k \in Locks : rw_owner(k)' = rw_owner(k) /\ Pending(k, "W") = 0
    BY <1>1 DEF rw_owner, Pending
  <2> QED BY <1>1, <1>3, <2>1, CoverKept DEF PInv
<1>6. WaiveInv'
  <2>1. \A u \in Threads : pc'[u] # "waive"
    BY <1>1, <1>2 DEF IInv, ControlInv, TcLabels
  <2>2. pi_cur' = NULL
    BY <1>1, NoWalk
  <2> QED BY <2>1, <2>2 DEF WaiveInv
<1> QED BY <1>4, <1>5, <1>6 DEF PInv

(* The priority the new owner inherits is the highest of the threads left  *)
(* in the two queues, which are sorted.                                    *)
TopPrio(left) == IF HeadPrio(left["W"]) > HeadPrio(left["R"])
                 THEN HeadPrio(left["W"]) ELSE HeadPrio(left["R"])
LEMMA LeftHeads ==
    ASSUME TurnstileTypeOK, NEW left \in [Queues -> Seq(Threads)],
           \A q \in Queues : Sorted(left[q], DISP_PRIO)
    PROVE  /\ TopPrio(left) \in Inheritable /\ TopPrio(left) \in Nat
           /\ \A q \in Queues : \A u \in Elems(left[q]) : DISP_PRIO[u] <= TopPrio(left)
           /\ TopPrio(left) # 0 =>
                 \E q \in Queues : \E u \in Elems(left[q]) : DISP_PRIO[u] = TopPrio(left)
<1>0. PICK e : e = TopPrio(left)
  OBVIOUS
<1>1. /\ \A t \in Threads : DISP_PRIO[t] \in Nat
      /\ \A q \in Seq(Threads) : HeadPrio(q) \in Inheritable /\ HeadPrio(q) \in Nat
  BY DispPrioType, PrioNumbers
<1>2. PICK w \in Nat : w = HeadPrio(left["W"]) /\ w \in Inheritable
  BY <1>1 DEF Queues
<1>3. PICK r \in Nat : r = HeadPrio(left["R"]) /\ r \in Inheritable
  BY <1>1 DEF Queues
<1>4. PICK p : p = DISP_PRIO
  OBVIOUS
<1>5. ASSUME NEW q \in Seq(Threads), Sorted(q, p)
      PROVE  /\ \A u \in Elems(q) : p[u] <= HeadPrio(q)
             /\ HeadPrio(q) # 0 => \E u \in Elems(q) : p[u] = HeadPrio(q)
  <2>1. CASE q = <<>>
    BY <2>1 DEF HeadPrio, Elems
  <2>2. CASE q # <<>>
    <3>1. Len(q) \in Nat /\ DOMAIN q = 1..Len(q) /\ \A i \in 1..Len(q) : q[i] \in Threads
      BY ElementOfSeq, LenProperties
    <3>2. 1 \in DOMAIN q /\ Head(q) = q[1]
      BY <2>2, <3>1
    <3>3. HeadPrio(q) = p[q[1]] /\ p[q[1]] \in Nat
      BY <1>1, <1>4, <2>2, <3>1, <3>2 DEF HeadPrio
    <3>4. ASSUME NEW u \in Elems(q) PROVE p[u] <= p[q[1]]
      <4>1. PICK i \in 1..Len(q) : u = q[i]
        BY <3>1 DEF Elems
      <4>2. CASE i = 1
        BY <3>3, <4>1, <4>2
      <4>3. CASE i > 1
        <5>1. p[q[1]] >= p[q[i]] /\ p[q[i]] \in Nat
          BY <1>1, <1>4, <1>5, <3>1, <3>2, <4>1, <4>3 DEF Sorted
        <5> QED BY <3>3, <4>1, <5>1
      <4> QED BY <3>1, <4>2, <4>3
    <3>5. q[1] \in Elems(q)
      BY <3>2 DEF Elems
    <3> QED BY <3>3, <3>4, <3>5
  <2> QED BY <2>1, <2>2
<1>6. /\ \A u \in Elems(left["W"]) : p[u] <= w
      /\ w # 0 => \E u \in Elems(left["W"]) : p[u] = w
  BY <1>2, <1>4, <1>5 DEF Queues
<1>7. /\ \A u \in Elems(left["R"]) : p[u] <= r
      /\ r # 0 => \E u \in Elems(left["R"]) : p[u] = r
  BY <1>3, <1>4, <1>5 DEF Queues
<1>8. e = (IF w > r THEN w ELSE r) /\ e \in Inheritable /\ e \in Nat
  BY <1>0, <1>2, <1>3 DEF TopPrio
<1>9. \A q \in Queues : \A u \in Elems(left[q]) : u \in Threads
  BY ElementOfSeq, LenProperties DEF Elems
<1>10. ASSUME NEW q \in Queues, NEW u \in Elems(left[q]) PROVE p[u] <= e
  <2>1. p[u] \in Nat
    BY <1>1, <1>4, <1>9
  <2>2. p[u] <= w \/ p[u] <= r
    BY <1>6, <1>7 DEF Queues
  <2> QED BY <1>8, <2>1, <2>2
<1>11. e # 0 => \E q \in Queues : \E u \in Elems(left[q]) : p[u] = e
  BY <1>6, <1>7, <1>8 DEF Queues
<1> QED BY <1>0, <1>4, <1>8, <1>10, <1>11

SleeperHasTurnstile == IInv => \A u \in Threads, l \in Locks : t_wchan[u] = l =>
    tc_chain[l] = t_ts[u] /\ tc_chain[l] \in Turnstiles /\ tc_chain[l] # NULL
LEMMA SleeperBoth == SleeperHasTurnstile /\ SleeperHasTurnstile'
<1>1. SleeperHasTurnstile
  BY SleeperActive DEF SleeperHasTurnstile
<1> QED BY <1>1, PTL

(* Each thread woken takes its turnstile with it; one that is woken as the *)
(* owner inherits from those that still wait.                              *)
LEMMA WakePriority ==
    ASSUME DynamicPri = FALSE, IInv, SortedInv, PInv, NEW t \in Threads, WakeOne(t)
    PROVE  PInv'
<1> USE TurnstileAssumption
<1>1. PICK s \in Threads, l \in Locks, ts \in Turnstiles, q \in Queues, n \in Nat :
           Wakes(t, s, l, ts, q, n)
  BY WakeOneStep
<1>2. /\ wk.sobj = l /\ wk.q = q /\ wk.n = n /\ n > 0 /\ tc_lock = t /\ pc[t] = "wake"
      /\ q = "W" => n = 1 /\ wk.owner = s
      /\ q = "R" => wk.owner = NULL
      /\ tc_chain[l] = ts /\ ts_inheritor[ts] = NULL /\ t_wchan[s] = l
      /\ s = Head(ts_sleepq[ts][q]) /\ n <= Len(ts_sleepq[ts][q])
      /\ wk'.sobj = l /\ Detach(ts, s) /\ s # t
      /\ UNCHANGED <<rw_wwwh, t_pri, pi_cur>>
  <2>1. TurnstileTypeOK /\ t_pri' \in ClassPri(s)
    BY <1>1, Zenon DEF Wakes, IInv, TypeOK
  <2>2. UNCHANGED t_pri
    BY <2>1, ClassPriIs
  <2> QED BY <1>1, <2>2, Zenon DEF Wakes
<1>3. /\ t_wchan'[s] = NULL /\ \A u \in Threads : u # s => t_wchan'[u] = t_wchan[u]
  BY <1>1 DEF Wakes, IInv, TypeOK, TurnstileTypeOK
<1>4. /\ \A k \in Locks : k # l => tc_chain'[k] = tc_chain[k]
      /\ tc_chain'[l] \in {ts, NULL}
  BY <1>2 DEF Detach, IInv, TypeOK, TurnstileTypeOK
<1>5. \A k \in Locks : k # l /\ tc_chain[k] # NULL => tc_chain[k] # ts
  BY <1>2 DEF IInv, ChainInv
<1>6. \A k \in Locks : tc_chain[k] # NULL => tc_chain[k] \in Turnstiles
  BY DEF IInv, TypeOK, TurnstileTypeOK
<1>7. \A k \in Locks : rw_owner(k)' = rw_owner(k)
  BY <1>2 DEF rw_owner
<1>8. \A k \in Locks : k # l => Pending(k, "W") = 0
  BY <1>2 DEF Pending
<1>9. pi_cur = NULL
  BY <1>2, NoWalk
<1>10. WaiveInv'
  <2>1. \A u \in Threads : pc'[u] # "waive"
    <3>1. \A u \in Threads : u # t => pc[u] \notin TcLabels
      BY <1>1, Zenon DEF Wakes
    <3>2. pc' = [pc EXCEPT ![s] = "run"]
      BY <1>1, Zenon DEF Wakes
    <3> QED BY <1>2, <3>1, <3>2 DEF TcLabels, IInv, TypeOK
  <2>2. pi_cur' = NULL
    BY <1>2, <1>9
  <2> QED BY <2>1, <2>2 DEF WaiveInv
<1>11. \A u \in Threads, k \in Locks : t_wchan'[u] = k =>
          u # s /\ t_wchan[u] = k /\ tc_chain'[k] # NULL
  <2>1. IInv'
    BY WakeOneInv
  <2>2. (\A u \in Threads, k \in Locks : t_wchan[u] = k =>
          tc_chain[k] = t_ts[u] /\ tc_chain[k] \in Turnstiles /\ tc_chain[k] # NULL)'
    BY <2>1, SleeperBoth DEF SleeperHasTurnstile
  <2> QED BY <1>3, <2>2
<1>12. WakeNext = s
  BY <1>2 DEF WakeNext
(* What holds of the other locks.                                          *)
<1>13. ASSUME \A x \in Turnstiles : x # ts =>
                 ts_inheritor'[x] = ts_inheritor[x] /\ ts_epri'[x] = ts_epri[x],
              \A u \in Threads : u # s => DISP_PRIO'[u] = DISP_PRIO[u],
              NEW k \in Locks, k # l
       PROVE  /\ tc_chain'[k] # NULL /\ ts_inheritor'[tc_chain'[k]] # NULL =>
                    \E u \in Threads : t_wchan'[u] = k
                                       /\ DISP_PRIO'[u] >= ts_epri'[tc_chain'[k]]
              /\ \A u, o \in Threads : t_wchan'[u] = k /\ rw_owner(k) = o =>
                    \/ DISP_PRIO'[u] <= t_pri[o]
                    \/ /\ ts_inheritor'[tc_chain'[k]] = o
                       /\ DISP_PRIO'[u] <= ts_epri'[tc_chain'[k]]
  <2>1. tc_chain'[k] = tc_chain[k]
    BY <1>4, <1>13
  <2>2. ASSUME tc_chain[k] # NULL
        PROVE  /\ ts_inheritor'[tc_chain[k]] = ts_inheritor[tc_chain[k]]
               /\ ts_epri'[tc_chain[k]] = ts_epri[tc_chain[k]]
    BY <1>5, <1>6, <1>13, <2>2
  <2>3. ASSUME tc_chain[k] # NULL, ts_inheritor[tc_chain[k]] # NULL
        PROVE  \E u \in Threads : t_wchan'[u] = k
                                  /\ DISP_PRIO'[u] >= ts_epri[tc_chain[k]]
    <3>1. PICK u \in Threads : t_wchan[u] = k /\ DISP_PRIO[u] >= ts_epri[tc_chain[k]]
      BY <2>3 DEF PInv, DonorInv
    <3>2. u # s
      BY <1>2, <1>13, <3>1
    <3> QED BY <1>3, <1>13, <3>1, <3>2
  <2>4. ASSUME NEW u \in Threads, NEW o \in Threads, t_wchan'[u] = k, rw_owner(k) = o
        PROVE  /\ tc_chain[k] # NULL
               /\ \/ DISP_PRIO'[u] <= t_pri[o]
                  \/ /\ ts_inheritor[tc_chain[k]] = o
                     /\ DISP_PRIO'[u] <= ts_epri[tc_chain[k]]
    <3>1. u # s /\ t_wchan[u] = k /\ tc_chain[k] # NULL
      BY <1>11, <2>1, <2>4
    <3>2. u # pi_cur
      BY <1>9
    <3>3. \/ DISP_PRIO[u] <= t_pri[o]
          \/ /\ ts_inheritor[tc_chain[k]] = o
             /\ DISP_PRIO[u] <= ts_epri[tc_chain[k]]
      BY <1>8, <1>13, <2>4, <3>1, <3>2 DEF PInv, CoverInv
    <3> QED BY <1>13, <3>1, <3>3
  <2> QED BY <2>1, <2>2, <2>3, <2>4
<1>14. CASE q = "R"
  <2>1. s # wk.owner
    BY <1>2, <1>14
  <2>2. UNCHANGED pi_vars
    BY <1>12, <2>1 DEF WakeOne, turnstile_wakeup_one
  <2>3. Books' /\ UNCHANGED <<ts_inheritor, ts_epri>> /\ DISP_PRIO' = DISP_PRIO
    BY <1>2, <2>2, BooksKept DEF PInv, pi_vars, DISP_PRIO
  <2>4. DonorInv'
    <3>1. SUFFICES ASSUME NEW k \in Locks, tc_chain'[k] # NULL,
                          ts_inheritor'[tc_chain'[k]] # NULL
                   PROVE  \E u \in Threads : t_wchan'[u] = k
                               /\ DISP_PRIO'[u] >= ts_epri'[tc_chain'[k]]
      BY DEF DonorInv
    <3>2. k # l
      BY <1>2, <1>4, <2>3, <3>1
    <3> QED BY <1>13, <2>3, <3>1, <3>2
  <2>5. rw_owner(l) = NULL
    <3>1. Pending(l, "R") = n
      BY <1>2, <1>14 DEF Pending
    <3>2. rw_wwwh[l] # RW_DOUBLE_LOCK
      BY <1>2, <3>1, PendingFacts DEF IInv, HoldInv, HoldOf
    <3>3. PICK w \in Words : w = rw_wwwh[l]
      BY DEF IInv, TypeOK
    <3>4. w.rd = CardR(l) + n /\ CardR(l) \in Nat /\ (w.wl => w.rd = 0)
      BY <3>1, <3>2, <3>3, CardFacts DEF IInv, HoldInv, HoldOf, CardR
    <3>5. ~w.wl
      BY <1>2, <3>4
    <3> QED BY <3>3, <3>5 DEF rw_owner
  <2>6. CoverInv'
    <3>1. SUFFICES ASSUME NEW k \in Locks, NEW u \in Threads, NEW o \in Threads,
                          t_wchan'[u] = k, rw_owner(k) = o
                   PROVE  \/ DISP_PRIO'[u] <= t_pri[o]
                          \/ /\ ts_inheritor'[tc_chain'[k]] = o
                             /\ DISP_PRIO'[u] <= ts_epri'[tc_chain'[k]]
      BY <1>2, <1>7 DEF CoverInv
    <3>2. k # l
      BY <2>5, <3>1
    <3> QED BY <1>13, <2>3, <3>1, <3>2
  <2> QED BY <1>10, <2>3, <2>4, <2>6 DEF PInv
<1>15. CASE q = "W"
  <2>1. s = wk.owner /\ n = 1
    BY <1>2, <1>15
  <2>2. PICK left : left = [ts_sleepq[ts] EXCEPT ![q] = Tail(ts_sleepq[ts][q])]
    OBVIOUS
  <2>3. PICK e : e = TopPrio(left)
    OBVIOUS
  <2>4. Inherits(ts, s, e)
    BY <1>2, <1>12, <2>1, <2>2, <2>3
       DEF WakeOne, turnstile_wakeup_one, Inherits, TopPrio
  <2>5. PICK old \in Seq(Threads) : old = ts_sleepq[ts][q] /\ NoDup(old) /\ Len(old) \in Nat
    BY QueueTypes
  <2>6. /\ Len(old) > 0 /\ s = Head(old) /\ Tail(old) \in Seq(Threads)
        /\ Elems(Tail(old)) = Elems(old) \ {s}
    <3>1. Len(old) > 0 /\ s = Head(old)
      BY <1>2, <2>5
    <3> QED BY <2>5, <3>1, TailQueue
  <2>7. /\ left \in [Queues -> Seq(Threads)] /\ left[q] = Tail(old)
        /\ \A x \in Queues : x # q => left[x] = ts_sleepq[ts][x]
    BY <2>2, <2>5, <2>6 DEF IInv, TypeOK, TurnstileTypeOK
  <2>8. \A x \in Queues : Sorted(left[x], DISP_PRIO)
    <3>1. Sorted(old, DISP_PRIO)
      BY <2>5 DEF SortedInv
    <3>2. Sorted(Tail(old), DISP_PRIO)
      BY <2>5, <2>6, <3>1, TailSorted
    <3> QED BY <2>7, <3>2 DEF SortedInv
  <2>9. /\ e \in Inheritable /\ e \in Nat
        /\ \A x \in Queues : \A u \in Elems(left[x]) : DISP_PRIO[u] <= e
        /\ e # 0 => \E x \in Queues : \E u \in Elems(left[x]) : DISP_PRIO[u] = e
    <3>1. TurnstileTypeOK
      BY DEF IInv, TypeOK
    <3> QED BY <2>3, <2>7, <2>8, <3>1, LeftHeads
  <2>10. Books' /\ Inherited(ts, s, e)
    BY <1>2, <2>4, <2>9, InheritBooks DEF PInv, IInv, TypeOK
  <2>11. /\ \A x \in Turnstiles : x # ts =>
               ts_inheritor'[x] = ts_inheritor[x] /\ ts_epri'[x] = ts_epri[x]
         /\ \A u \in Threads : u # s => DISP_PRIO'[u] = DISP_PRIO[u]
         /\ ~Inverted(t_pri, s, e) => UNCHANGED <<ts_inheritor, ts_epri>>
         /\ Inverted(t_pri, s, e) => ts_inheritor'[ts] = s /\ ts_epri'[ts] = e
    BY <1>2, <2>10 DEF Inherited
  (* The threads left in the queues are the other sleepers of the lock.    *)
  <2>12. \A x \in Queues : \A u \in Elems(left[x]) :
            u \in Threads /\ u # s /\ t_wchan[u] = l
    <3>1. SUFFICES ASSUME NEW x \in Queues, NEW u \in Elems(left[x])
                   PROVE  u \in Threads /\ u # s /\ t_wchan[u] = l
      OBVIOUS
    <3>2. u \in Elems(ts_sleepq[ts][x]) /\ (x = q => u # s)
      BY <2>5, <2>6, <2>7, <3>1
    <3>3. u \in Threads
      BY <3>2, QueueTypes, ElementOfSeq, LenProperties DEF Elems
    <3>4. t_wchan[u] # NULL /\ t_ts[u] = ts /\ rw[u] = x
      BY <3>2 DEF IInv, QueueInv
    <3>5. t_wchan[u] = l
      BY <1>2, <3>3, <3>4, SleepsOn
    <3>6. rw[s] = q
      BY <1>1, Zenon DEF Wakes
    <3> QED BY <3>2, <3>3, <3>4, <3>5, <3>6
  <2>13. ASSUME NEW u \in Threads, u # s, t_wchan[u] = l PROVE DISP_PRIO[u] <= e
    <3>1. t_ts[u] = ts /\ t_wchan[u] # NULL
      BY <1>2, <2>13, SleeperActive
    <3>2. PICK x \in Queues : u \in Elems(ts_sleepq[ts][x])
      BY <3>1 DEF IInv, QueueInv, TypeOK
    <3>3. u \in Elems(left[x])
      BY <2>5, <2>6, <2>7, <2>13, <3>2
    <3> QED BY <2>9, <3>3
  <2>14. t_pri[s] \in Nat /\ \A u \in Threads : DISP_PRIO[u] \in Nat
    BY PrioNumbers, DispPrioType DEF IInv, TypeOK
  <2>15. DonorInv'
    <3>1. SUFFICES ASSUME NEW k \in Locks, tc_chain'[k] # NULL,
                          ts_inheritor'[tc_chain'[k]] # NULL
                   PROVE  \E u \in Threads : t_wchan'[u] = k
                               /\ DISP_PRIO'[u] >= ts_epri'[tc_chain'[k]]
      BY DEF DonorInv
    <3>2. CASE k # l
      BY <1>13, <2>11, <3>1, <3>2
    <3>3. CASE k = l
      <4>1. tc_chain'[l] = ts
        BY <1>4, <3>1, <3>3
      <4>2. Inverted(t_pri, s, e) /\ ts_epri'[ts] = e
        BY <1>2, <2>11, <3>1, <3>3, <4>1
      <4>3. e # 0
        BY <2>9, <2>14, <4>2 DEF Inverted
      <4>4. PICK x \in Queues : \E v \in Elems(left[x]) : DISP_PRIO[v] = e
        BY <2>9, <4>3
      <4>. PICK u \in Elems(left[x]) : DISP_PRIO[u] = e
        BY <4>4
      <4>5. /\ u \in Threads /\ t_wchan'[u] = l /\ DISP_PRIO'[u] = e
        BY <1>3, <2>11, <2>12
      <4>6. e >= e
        BY <2>9
      <4> QED BY <3>3, <4>1, <4>2, <4>5, <4>6
    <3> QED BY <3>2, <3>3
  <2>16. rw_owner(l) = s
    <3>1. Pending(l, "W") = 1
      BY <1>2, <1>15, <2>1 DEF Pending
    <3>2. rw_wwwh[l] # RW_DOUBLE_LOCK
      BY <3>1, PendingFacts DEF IInv, HoldInv, HoldOf
    <3> QED BY <2>1, <3>1, <3>2 DEF IInv, HoldInv, HoldOf, rw_owner
  <2>17. CoverInv'
    <3>1. SUFFICES ASSUME NEW k \in Locks, NEW u \in Threads, NEW o \in Threads,
                          t_wchan'[u] = k, rw_owner(k) = o
                   PROVE  \/ DISP_PRIO'[u] <= t_pri[o]
                          \/ /\ ts_inheritor'[tc_chain'[k]] = o
                             /\ DISP_PRIO'[u] <= ts_epri'[tc_chain'[k]]
      BY <1>2, <1>7 DEF CoverInv
    <3>2. CASE k # l
      BY <1>13, <2>11, <3>1, <3>2
    <3>3. CASE k = l
      <4>1. u # s /\ t_wchan[u] = l /\ tc_chain'[l] = ts
        BY <1>4, <1>11, <3>1, <3>3
      <4>2. DISP_PRIO'[u] = DISP_PRIO[u] /\ DISP_PRIO[u] <= e /\ DISP_PRIO[u] \in Nat
        BY <2>11, <2>13, <2>14, <4>1
      <4>3. o = s
        BY <2>16, <3>1, <3>3
      <4>4. CASE Inverted(t_pri, s, e)
        BY <2>11, <3>3, <4>1, <4>2, <4>3, <4>4
      <4>5. CASE ~Inverted(t_pri, s, e)
        <5>1. e <= t_pri[s]
          BY <2>9, <2>14, <4>5 DEF Inverted
        <5>2. DISP_PRIO[u] <= t_pri[s]
          BY <2>9, <2>14, <4>2, <5>1
        <5> QED BY <4>2, <4>3, <5>2
      <4> QED BY <4>4, <4>5
    <3> QED BY <3>2, <3>3
  <2> QED BY <1>10, <2>10, <2>15, <2>17 DEF PInv
<1> QED BY <1>14, <1>15 DEF Queues
-----------------------------------------------------------------------------
LEMMA NextPriority ==
    ASSUME DynamicPri = FALSE
    PROVE  IInv /\ SortedInv /\ PInv /\ [Next]_vars => PInv'
<1> SUFFICES ASSUME IInv, SortedInv, PInv, [Next]_vars PROVE PInv'
  OBVIOUS
<1>1. ASSUME NEW t \in Threads, Continue(t) PROVE PInv'
  <2>1. CASE EnterGrab(t)
    BY <2>1, GrabPriority
  <2>2. CASE \/ EnterBusy(t) \/ EnterLookup(t) \/ EnterRetry(t)
             \/ ExitLookup(t) \/ DowngradeLookup(t)
    BY <2>2, MovePriority
  <2>3. CASE EnterWait(t)
    BY <2>3, WaitPriority
  <2>4. CASE EnterBlock(t)
    BY <2>4, BlockPriority
  <2>5. CASE EnterWill(t)
    BY <2>5, WillPriority
  <2>6. CASE ExitToReaders(t) \/ ExitToWriter(t) \/ DowngradeShare(t)
    BY <2>6, HandoversPriority
  <2>7. CASE WakeWaive(t)
    BY <2>7, WaivePriority
  <2>8. CASE WakeOne(t)
    BY <2>8, WakePriority
  <2>9. CASE WakeDone(t)
    BY <2>9, DonePriority
  <2> QED BY <1>1, <2>1, <2>2, <2>3, <2>4, <2>5, <2>6, <2>7, <2>8, <2>9
    DEF Continue
<1>2. ASSUME NEW t \in Threads, NEW l \in Locks,
             \/ \E m \in {"R", "W"} : rw_enter(t, l, m) \/ rw_tryenter(t, l, m)
             \/ rw_exit(t, l) \/ rw_downgrade(t, l) \/ rw_tryupgrade(t, l)
      PROVE  PInv'
  <2>1. CASE \E m \in {"R", "W"} : rw_enter(t, l, m) \/ rw_tryenter(t, l, m)
    BY <2>1, EnterPriority, TryPriority DEF Queues
  <2>2. CASE rw_exit(t, l) \/ rw_downgrade(t, l) \/ rw_tryupgrade(t, l)
    BY <2>2, ExitPriority, DowngradePriority, UpgradePriority
  <2> QED BY <1>2, <2>1, <2>2
<1>3. ASSUME NEW l \in Destroyable, rw_destroy(l) \/ rw_init(l) PROVE PInv'
  BY <1>3, ReusePriority, RWLockAssumption
<1>4. ASSUME NEW t \in Threads, NEW p \in Priorities, ChangePri(t, p) PROVE PInv'
  BY <1>4 DEF ChangePri
<1>5. CASE UNCHANGED vars
  <2>1. UNCHANGED <<pi_vars, t_pri, t_wchan, tc_chain, pi_cur, wk, ts_inheritor,
                    rw_wwwh, pc, hold>>
    BY <1>5 DEF vars, rw_vars, ts_vars, chain_vars, pi_vars
  <2>2. \A k \in Locks : rw_owner(k)' = rw_owner(k) /\ Pending(k, "W")' = Pending(k, "W")
    BY <2>1 DEF rw_owner, Pending
  <2> QED BY <2>1, <2>2, BooksKept, DonorKept, CoverKept, WaiveKept DEF PInv
<1> QED BY <1>1, <1>2, <1>3, <1>4, <1>5 DEF Next

LEMMA InitPriority == Init => PInv
<1> USE TurnstileAssumption
<1> SUFFICES ASSUME Init PROVE PInv
  OBVIOUS
<1>1. /\ \A ts \in Turnstiles : ts_inheritor[ts] = NULL
      /\ \A t \in Threads : t_prioinv[t] = {} /\ t_epri[t] = 0 /\ t_wchan[t] = NULL
      /\ \A l \in Locks : tc_chain[l] = NULL
      /\ \A t \in Threads : pc[t] = "run"
      /\ pi_cur = NULL
  BY DEF Init, TurnstileInit
<1>2. Books
  BY <1>1 DEF Books, ListInv, AmountInv, SourceInv
<1>3. DonorInv /\ CoverInv /\ WaiveInv
  BY <1>1 DEF DonorInv, CoverInv, WaiveInv
<1> QED BY <1>2, <1>3 DEF PInv

LEMMA PriorityInductive ==
    ASSUME DynamicPri = FALSE PROVE Spec => [](IInv /\ PInv)
<1>1. Init => PInv
  BY InitPriority
<1>2. IInv /\ SortedInv /\ PInv /\ [Next]_vars => PInv'
  BY NextPriority
<1> QED BY <1>1, <1>2, InductiveInvariant, AlwaysSorted, PTL DEF Spec

(* The walk of turnstile_block and the inheritance on wakeup are complete: *)
(* whenever the chain lock is free, the owner of a lock has at least the   *)
(* priority of every thread that sleeps on it, through any chain of        *)
(* blocked owners, as long as nobody's assigned priority is changed.       *)
THEOREM NoInversion ==
    ASSUME DynamicPri = FALSE PROVE Spec => []NoPriorityInversion
<1>1. ASSUME IInv, PInv PROVE NoPriorityInversion
  <2> USE TurnstileAssumption
  <2>1. SUFFICES ASSUME tc_lock = NULL, NEW l \in Locks, NEW t \in Threads,
                        t_wchan[t] = l, rw_owner(l) # NULL
                 PROVE  DISP_PRIO[rw_owner(l)] >= DISP_PRIO[t]
    BY DEF NoPriorityInversion
  <2>2. PICK o \in Threads : o = rw_owner(l)
    BY <1>1, <2>1 DEF rw_owner, IInv, TypeOK, Words
  <2>3. \A u \in Threads : pc[u] \notin TcLabels
    BY <1>1, <2>1 DEF IInv, ControlInv
  <2>4. t # pi_cur
    BY <1>1, <2>3 DEF PInv, WaiveInv, TcLabels
  <2>5. Pending(l, "W") = 0
    BY <1>1, <2>3 DEF IInv, WakeupInv, Pending, WakeLabels, TcLabels
  <2>6. PICK ts \in Turnstiles : ts = tc_chain[l]
    BY <1>1, <2>1, SleeperActive
  <2>7. \/ DISP_PRIO[t] <= t_pri[o]
        \/ ts_inheritor[ts] = o /\ DISP_PRIO[t] <= ts_epri[ts]
    BY <1>1, <2>1, <2>2, <2>4, <2>5, <2>6 DEF PInv, CoverInv
  <2>8. TurnstileTypeOK /\ Books
    BY <1>1 DEF IInv, TypeOK, PInv
  <2>9. /\ t_pri[o] \in Nat /\ DISP_PRIO[o] \in Nat /\ t_pri[o] <= DISP_PRIO[o]
        /\ DISP_PRIO[t] \in Nat /\ ts_epri[ts] \in Nat
    BY <2>8, AtLeastAssigned, PrioNumbers
  <2>10. ts_inheritor[ts] = o => ts_epri[ts] <= DISP_PRIO[o]
    BY <2>8 DEF Books, AmountInv
  <2>11. DISP_PRIO[o] >= DISP_PRIO[t]
    BY <2>7, <2>9, <2>10
  <2> QED BY <2>2, <2>11
<1> QED BY <1>1, PriorityInductive, PTL

(* turnstile_pi_waive gives back exactly what was inherited: a thread runs *)
(* above its own priority only while it holds a lock for writing, or is    *)
(* halfway through downgrading it, and a thread of that priority sleeps on *)
(* the lock, as long as nobody's assigned priority is changed.             *)
THEOREM NothingLeaked ==
    ASSUME DynamicPri = FALSE PROVE Spec => []NoLeakedPriority
<1>1. ASSUME IInv, PInv PROVE NoLeakedPriority
  <2> USE TurnstileAssumption
  <2>1. SUFFICES ASSUME tc_lock = NULL, NEW t \in Threads, t_epri[t] # 0
                 PROVE  \E l \in Locks, u \in Threads :
                            /\ hold[t][l] = "W" \/ (pc[t] = "down" /\ lk[t] = l)
                            /\ t_wchan[u] = l /\ DISP_PRIO[u] >= t_epri[t]
    BY DEF NoLeakedPriority
  <2>2. PICK ts \in Turnstiles : ts_inheritor[ts] = t /\ ts_epri[ts] = t_epri[t]
    BY <1>1, <2>1 DEF PInv, Books, SourceInv
  <2>3. PICK l \in Locks : tc_chain[l] = ts
    BY <1>1, <2>2 DEF IInv, ContentInv, Active
  <2>4. pc[t] \notin TcLabels
    BY <1>1, <2>1 DEF IInv, ControlInv
  <2>5. hold[t][l] = "W" \/ (lk[t] = l /\ pc[t] \in DownLabels \cup {"waive"})
    BY <1>1, <2>2, <2>3 DEF IInv, InheritInv
  <2>6. hold[t][l] = "W" \/ (pc[t] = "down" /\ lk[t] = l)
    BY <2>4, <2>5 DEF DownLabels, TcLabels
  <2>7. PICK u \in Threads : t_wchan[u] = l /\ DISP_PRIO[u] >= ts_epri[ts]
    BY <1>1, <2>2, <2>3 DEF PInv, DonorInv
  <2> QED BY <2>2, <2>6, <2>7
<1> QED BY <1>1, PriorityInductive, PTL
-----------------------------------------------------------------------------
(* rwlock.c on turnstil.c implements AbstractRWLock: under the mapping Abs *)
(* of RWLock every initial state is an abstract initial state and every    *)
(* step an abstract step or a stutter.  The abstract holds and wants of a  *)
(* thread depend on its own locals and on whether it has been granted the  *)
(* lock it sleeps for.                                                     *)
AbsHold(t, l) == IF t_wchan[t] = l /\ Granted(t) THEN rw[t] ELSE hold[t][l]
AbsWant(t, l) ==
    IF t \in Waiting(l, "R") \cup Waiting(l, "W") THEN rw[t] ELSE "none"

LEMMA AbsSets ==
    ASSUME NEW l \in Locks
    PROVE  /\ Abs!Holders(l) = {t \in Threads : AbsHold(t, l) # "none"}
           /\ \A m : Abs!Wanting(l, m) = {t \in Threads : AbsWant(t, l) = m}
BY DEF Abs!Wanting, Abs!Holders, AbsHold, AbsWant

(* A step that changes neither is a stuttering step of the abstract lock.  *)
LEMMA AbsStutter ==
    ASSUME \A u \in Threads, k \in Locks :
              AbsHold(u, k)' = AbsHold(u, k) /\ AbsWant(u, k)' = AbsWant(u, k)
    PROVE  UNCHANGED Abs!avars
<1>1. /\ [t \in Threads |-> [l \in Locks |-> AbsHold(t, l)]]'
           = [t \in Threads |-> [l \in Locks |-> AbsHold(t, l)]]
      /\ [t \in Threads |-> [l \in Locks |-> AbsWant(t, l)]]'
           = [t \in Threads |-> [l \in Locks |-> AbsWant(t, l)]]
  OBVIOUS
<1> QED BY <1>1 DEF Abs!avars, AbsHold, AbsWant

(* One that changes them for lock l only, as Move says.                    *)
LEMMA AbsMove ==
    ASSUME NEW t \in Threads, NEW l \in Locks, NEW m, NEW S, NEW g,
           \A u \in Threads, k \in Locks : k # l =>
              AbsHold(u, k)' = AbsHold(u, k) /\ AbsWant(u, k)' = AbsWant(u, k),
           \A u \in Threads :
              /\ AbsHold(u, l)' = IF u \in S THEN g
                                  ELSE IF u = t THEN m ELSE AbsHold(u, l)
              /\ AbsWant(u, l)' = IF u \in S THEN "none" ELSE AbsWant(u, l)
    PROVE  Abs!Move(t, l, m, S, g)
<1> DEFINE H == [u \in Threads |-> [k \in Locks |-> AbsHold(u, k)]]
           W == [u \in Threads |-> [k \in Locks |-> AbsWant(u, k)]]
<1>1. H' = [u \in Threads |->
          [H[u] EXCEPT ![l] = IF u \in S THEN g ELSE IF u = t THEN m ELSE @]]
  OBVIOUS
<1>2. W' = [u \in Threads |-> [W[u] EXCEPT ![l] = IF u \in S THEN "none" ELSE @]]
  OBVIOUS
<1> QED BY <1>1, <1>2 DEF Abs!Move, AbsHold, AbsWant

(* What IInv says of the abstract state of a thread.                       *)
LEMMA AbsThread ==
    ASSUME IInv, NEW t \in Threads, NEW l \in Locks
    PROVE  /\ AbsHold(t, l) = IF Granted(t) /\ lk[t] = l THEN rw[t] ELSE hold[t][l]
           /\ AbsWant(t, l) = IF pc[t] \in WaitLabels /\ ~Granted(t) /\ lk[t] = l
                              THEN rw[t] ELSE "none"
           /\ AbsHold(t, l) \in {"none", "R", "W"}
           /\ AbsWant(t, l) \in {"none", "R", "W"}
<1>1. rw[t] \in {"R", "W"} /\ hold[t][l] \in {"none", "R", "W"}
  BY DEF IInv, TypeOK, Queues
<1>2. Granted(t) => lk[t] = t_wchan[t]
  BY GrantedFacts
<1>3. t \in Waiting(l, "R") \cup Waiting(l, "W")
        <=> pc[t] \in WaitLabels /\ ~Granted(t) /\ lk[t] = l
  BY <1>1 DEF Waiting, WaitLabels
<1> QED BY <1>1, <1>2, <1>3 DEF AbsHold, AbsWant

AbsThreads ==
    IInv => \A t \in Threads, l \in Locks :
        /\ AbsHold(t, l) = IF Granted(t) /\ lk[t] = l THEN rw[t] ELSE hold[t][l]
        /\ AbsWant(t, l) = IF pc[t] \in WaitLabels /\ ~Granted(t) /\ lk[t] = l
                           THEN rw[t] ELSE "none"

(* The same, before and after a step.                                      *)
LEMMA AbsBoth == AbsThreads /\ AbsThreads'
<1>1. AbsThreads
  BY AbsThread DEF AbsThreads
<1> QED BY <1>1, PTL

(* A thread that is not in the middle of rw_enter has what its code says.  *)
LEMMA AbsOutside ==
    ASSUME IInv, NEW t \in Threads, pc[t] \notin WaitLabels
    PROVE  /\ ~Granted(t)
           /\ \A l \in Locks : AbsHold(t, l) = hold[t][l] /\ AbsWant(t, l) = "none"
<1>1. ~Granted(t)
  BY GrantedFacts DEF QueuedLabels, WaitLabels
<1> QED BY <1>1, AbsThread

LEMMA AbsKept ==
    ASSUME IInv, IInv', NEW t \in Threads,
           hold'[t] = hold[t], lk'[t] = lk[t], rw'[t] = rw[t],
           pc'[t] \in WaitLabels <=> pc[t] \in WaitLabels,
           Granted(t)' <=> Granted(t)
    PROVE  \A l \in Locks : AbsHold(t, l)' = AbsHold(t, l) /\ AbsWant(t, l)' = AbsWant(t, l)
<1>1. SUFFICES ASSUME NEW l \in Locks
               PROVE  AbsHold(t, l)' = AbsHold(t, l) /\ AbsWant(t, l)' = AbsWant(t, l)
  OBVIOUS
<1>2. /\ AbsHold(t, l) = IF Granted(t) /\ lk[t] = l THEN rw[t] ELSE hold[t][l]
      /\ AbsWant(t, l) = IF pc[t] \in WaitLabels /\ ~Granted(t) /\ lk[t] = l
                         THEN rw[t] ELSE "none"
  BY AbsThread
<1>3. /\ AbsHold(t, l)' = IF Granted(t)' /\ lk'[t] = l THEN rw'[t] ELSE hold'[t][l]
      /\ AbsWant(t, l)' = IF pc'[t] \in WaitLabels /\ ~Granted(t)' /\ lk'[t] = l
                          THEN rw'[t] ELSE "none"
  BY AbsBoth DEF AbsThreads
<1> QED BY <1>2, <1>3

(* The threads that a wakeup of readers has yet to wake.                   *)
GrantedR(l) == {t \in Threads : Granted(t) /\ lk[t] = l /\ rw[t] = "R"}

LEMMA GrantedCounted ==
    ASSUME IInv, NEW l \in Locks
    PROVE  IsFiniteSet(GrantedR(l)) /\ Cardinality(GrantedR(l)) = Pending(l, "R")
<1>1. CASE wk.sobj = l /\ wk.q = "R" /\ wk.n > 0
  <2>1. PICK n \in Nat : n = wk.n /\ Pending(l, "R") = n
    BY <1>1 DEF Pending, IInv, TypeOK, TurnstileTypeOK
  <2>2. PICK ts \in Turnstiles : ts = tc_chain[l]
    BY <1>1 DEF IInv, WakeupInv, TypeOK, TurnstileTypeOK
  <2>3. PICK rq \in Seq(Threads) : rq = ts_sleepq[ts]["R"] /\ NoDup(rq) /\ Len(rq) \in Nat
    BY QueueTypes DEF Queues
  <2>4. n <= Len(rq)
    BY <1>1, <2>1, <2>2, <2>3 DEF IInv, WakeupInv
  <2>5. DOMAIN rq = 1..Len(rq) /\ \A i \in 1..Len(rq) : rq[i] \in Threads
    BY <2>3, LenProperties
  <2>6. \A i \in 1..n : i \in DOMAIN rq
    BY <2>3, <2>4, <2>5
  <2>7. ASSUME NEW i \in 1..n PROVE rq[i] \in GrantedR(l)
    <3>1. PICK t \in Threads : t = rq[i]
      BY <2>5, <2>6
    <3>2. t_wchan[t] # NULL /\ t_ts[t] = ts /\ rw[t] = "R"
      BY <2>3, <2>6, <3>1 DEF IInv, QueueInv, Elems, Queues
    <3>3. t_wchan[t] = l /\ lk[t] = l
      BY <2>2, <3>2, SleepsOn
    <3>4. Granted(t)
      BY <1>1, <2>1, <2>3, <3>1, <3>2, <3>3, TurnstileAssumption DEF Granted
    <3> QED BY <3>1, <3>2, <3>3, <3>4 DEF GrantedR
  <2>8. ASSUME NEW t \in GrantedR(l) PROVE \E i \in 1..n : rq[i] = t
    <3>1. t \in Threads /\ t_wchan[t] = l /\ t_wchan[t] # NULL
      BY <1>1, GrantedFacts, TurnstileAssumption DEF GrantedR
    <3>2. t_ts[t] = ts
      BY <2>2, <3>1 DEF IInv, ChainInv
    <3> QED BY <1>1, <2>1, <2>3, <3>2 DEF GrantedR, Granted
  <2>9. [i \in 1..n |-> rq[i]] \in Bijection(1..n, GrantedR(l))
    BY <2>3, <2>6, <2>7, <2>8
    DEF Bijection, Injection, Surjection, IsInjective, NoDup
  <2>10. ExistsBijection(1..n, GrantedR(l))
    BY <2>9 DEF ExistsBijection
  <2>11. IsFiniteSet(1..n) /\ Cardinality(1..n) = n
    BY FS_Interval
  <2> QED BY <2>1, <2>10, <2>11, FS_Bijection
<1>2. CASE ~(wk.sobj = l /\ wk.q = "R" /\ wk.n > 0)
  <2>1. GrantedR(l) = {}
    BY <1>2, GrantedFacts DEF GrantedR
  <2>2. Pending(l, "R") = 0
    BY <1>2 DEF Pending, IInv, TypeOK, TurnstileTypeOK
  <2> QED BY <2>1, <2>2, FS_EmptySet
<1> QED BY <1>1, <1>2

(* The hold count of the word is the number of abstract readers.           *)
AbsReaders(l) == {t \in Threads : AbsHold(t, l) = "R"}

LEMMA ReadersCounted ==
    ASSUME IInv, NEW l \in Locks, rw_wwwh[l] # RW_DOUBLE_LOCK
    PROVE  IsFiniteSet(AbsReaders(l)) /\ rw_wwwh[l].rd = Cardinality(AbsReaders(l))
<1>1. AbsReaders(l) = HoldersR(l) \cup GrantedR(l)
  <2>1. SUFFICES ASSUME NEW t \in Threads
                 PROVE  t \in AbsReaders(l) <=> t \in HoldersR(l) \cup GrantedR(l)
    BY DEF AbsReaders, HoldersR, GrantedR
  <2>2. AbsHold(t, l) = IF Granted(t) /\ lk[t] = l THEN rw[t] ELSE hold[t][l]
    BY AbsThread
  <2>3. Granted(t) /\ lk[t] = l => hold[t][l] = "none"
    BY GrantedFacts
  <2> QED BY <2>2, <2>3 DEF AbsReaders, HoldersR, GrantedR
<1>2. HoldersR(l) \cap GrantedR(l) = {}
  BY GrantedFacts DEF HoldersR, GrantedR
<1>3. IsFiniteSet(HoldersR(l)) /\ Cardinality(HoldersR(l)) = CardR(l) /\ CardR(l) \in Nat
  BY CardFacts DEF CardR
<1>4. IsFiniteSet(GrantedR(l)) /\ Cardinality(GrantedR(l)) = Pending(l, "R")
  BY GrantedCounted
<1>5. Pending(l, "R") \in Nat
  BY PendingFacts
<1>6. Cardinality(HoldersR(l) \cap GrantedR(l)) = 0
  BY <1>2, FS_EmptySet
<1>7. /\ IsFiniteSet(HoldersR(l) \cup GrantedR(l))
      /\ Cardinality(HoldersR(l) \cup GrantedR(l)) = CardR(l) + Pending(l, "R") - 0
  BY <1>3, <1>4, <1>6, FS_Union
<1>8. rw_wwwh[l].rd = CardR(l) + Pending(l, "R")
  BY DEF IInv, HoldInv, HoldOf, CardR
<1> QED BY <1>1, <1>3, <1>5, <1>7, <1>8

LEMMA WriterIsOwner ==
    ASSUME IInv, NEW l \in Locks, rw_wwwh[l] # RW_DOUBLE_LOCK, NEW t \in Threads
    PROVE  AbsHold(t, l) = "W" <=> rw_wwwh[l].wl /\ rw_wwwh[l].wr = t
<1> DEFINE w == rw_wwwh[l]
<1>1. AbsHold(t, l) = IF Granted(t) /\ lk[t] = l THEN rw[t] ELSE hold[t][l]
  BY AbsThread
<1>2. HoldOf(l)
  BY DEF IInv, HoldInv
<1>3. ASSUME Pending(l, "W") = 1
      PROVE  \A u \in Threads : Granted(u) /\ lk[u] = l /\ rw[u] = "W" <=> u = wk.owner
  <2>1. wk.sobj = l /\ wk.q = "W" /\ wk.n = 1 /\ l # NULL
    BY <1>3, TurnstileAssumption DEF Pending
  <2>2. PICK ts \in Turnstiles : ts = tc_chain[l]
    BY <2>1 DEF IInv, WakeupInv, TypeOK, TurnstileTypeOK
  <2>3. PICK wq \in Seq(Threads) : wq = ts_sleepq[ts]["W"] /\ Len(wq) \in Nat /\ NoDup(wq)
    BY QueueTypes DEF Queues
  <2>4. wk.owner = Head(wq) /\ Len(wq) >= 1
    BY <2>1, <2>2, <2>3 DEF IInv, WakeupInv, WQ
  <2>5. wk.owner = wq[1] /\ wq[1] \in Elems(wq) /\ wq[1] \in Threads
    BY <2>3, <2>4, TailQueue
  <2>6. ASSUME NEW u \in Threads, u = wk.owner
        PROVE  Granted(u) /\ lk[u] = l /\ rw[u] = "W"
    <3>1. t_wchan[u] # NULL /\ t_ts[u] = ts /\ rw[u] = "W"
      BY <2>3, <2>5, <2>6 DEF IInv, QueueInv, Queues
    <3>2. t_wchan[u] = l /\ lk[u] = l
      BY <2>2, <3>1, SleepsOn
    <3> QED BY <2>1, <2>3, <2>5, <2>6, <3>1, <3>2 DEF Granted
  <2>7. ASSUME NEW u \in Threads, Granted(u) PROVE u = wk.owner
    <3>1. t_wchan[u] = l /\ rw[u] = "W"
      BY <2>1, <2>7, GrantedFacts
    <3>2. t_ts[u] = ts
      BY <2>1, <2>2, <3>1 DEF IInv, ChainInv
    <3> QED BY <2>1, <2>3, <2>5, <2>7, <3>2 DEF Granted
  <2> QED BY <2>6, <2>7
<1>4. ASSUME Granted(t), lk[t] = l, rw[t] = "W" PROVE Pending(l, "W") = 1
  <2>1. wk.sobj = l /\ wk.q = "W" /\ wk.n > 0
    BY <1>4, GrantedFacts
  <2> QED BY <2>1 DEF Pending, IInv, WakeupInv
<1>5. ASSUME AbsHold(t, l) = "W" PROVE w.wl /\ w.wr = t
  <2>1. CASE Granted(t) /\ lk[t] = l
    BY <1>1, <1>2, <1>3, <1>4, <1>5, <2>1 DEF HoldOf
  <2>2. CASE ~(Granted(t) /\ lk[t] = l)
    BY <1>1, <1>2, <1>5, <2>2 DEF HoldOf
  <2> QED BY <2>1, <2>2
<1>6. ASSUME w.wl, w.wr = t PROVE AbsHold(t, l) = "W"
  <2>1. CASE hold[t][l] = "W"
    BY <1>1, <2>1, GrantedFacts
  <2>2. CASE Pending(l, "W") = 1 /\ wk.owner = t
    BY <1>1, <1>3, <2>2
  <2> QED BY <1>2, <1>6, <2>1, <2>2 DEF HoldOf
<1> QED BY <1>5, <1>6

(* What the word of a lock says of its abstract holders and waiters.       *)
LEMMA AbsWord ==
    ASSUME IInv, NEW l \in Locks, rw_wwwh[l] # RW_DOUBLE_LOCK
    PROVE  LET w == rw_wwwh[l] IN
           /\ \A t \in Threads : AbsHold(t, l) = "W" <=> w.wl /\ w.wr = t
           /\ \A t \in Threads : AbsHold(t, l) = "R" => ~w.wl /\ w.rd >= 1
           /\ \A t, u \in Threads : AbsHold(t, l) = "R" /\ AbsHold(u, l) = "R"
                                       /\ t # u => w.rd >= 2
           /\ RW_LOCKED(w) => \E t \in Threads : AbsHold(t, l) # "none"
           /\ w.ww <=> \E t \in Threads : AbsWant(t, l) = "W"
           /\ w.hw <=> \E t \in Threads : AbsWant(t, l) # "none"
<1> DEFINE w == rw_wwwh[l]
           R == AbsReaders(l)
<1>1. IsFiniteSet(R) /\ w.rd = Cardinality(R) /\ w.rd \in Nat
  BY ReadersCounted DEF IInv, TypeOK, Words
<1>2. \A t \in Threads : AbsHold(t, l) = "W" <=> w.wl /\ w.wr = t
  BY WriterIsOwner
<1>3. \A t \in R : w.rd >= 1
  BY <1>1, FS_EmptySet
<1>4. ASSUME NEW t \in R, NEW u \in R, t # u PROVE w.rd >= 2
  <2>0. IsFiniteSet({t}) /\ Cardinality({t}) = 1 /\ u \notin {t}
    BY <1>4, FS_Singleton
  <2>1. IsFiniteSet({t} \cup {u}) /\ Cardinality({t} \cup {u}) = 2
    BY <2>0, FS_AddElement
  <2>2. {t} \cup {u} \subseteq R
    BY <1>4
  <2> HIDE DEF R
  <2> QED BY <1>1, <2>1, <2>2, FS_Subset
<1>5. \A t \in R : ~w.wl
  BY <1>1, <1>3 DEF IInv, HoldInv, HoldOf
<1>6. ASSUME RW_LOCKED(w) PROVE \E t \in Threads : AbsHold(t, l) # "none"
  <2>1. CASE w.rd > 0
    <3>1. R # {}
      BY <1>1, <2>1, FS_EmptySet
    <3> QED BY <3>1 DEF AbsReaders
  <2>2. CASE w.wr # NULL
    <3>1. w.wl /\ w.wr \in Threads
      BY <2>2 DEF IInv, HoldInv, HoldOf, TypeOK, Words
    <3> QED BY <1>2, <3>1
  <2> QED BY <1>6, <2>1, <2>2 DEF RW_LOCKED
<1>7. /\ w.ww <=> Waiting(l, "W") # {}
      /\ w.hw <=> Waiting(l, "W") \cup Waiting(l, "R") # {}
  BY BitsFollow DEF WaitersBitsExact
<1>8. ASSUME NEW t \in Threads
      PROVE  /\ t \in Waiting(l, "W") <=> AbsWant(t, l) = "W"
             /\ t \in Waiting(l, "R") <=> AbsWant(t, l) = "R"
             /\ AbsWant(t, l) \in {"none", "R", "W"}
  BY AbsThread DEF AbsWant, Waiting
<1>9. \A m : Waiting(l, m) \subseteq Threads
  BY DEF Waiting
<1>10. w.ww <=> \E t \in Threads : AbsWant(t, l) = "W"
  BY <1>7, <1>8, <1>9
<1>11. w.hw <=> \E t \in Threads : AbsWant(t, l) # "none"
  BY <1>7, <1>8, <1>9
<1> QED BY <1>2, <1>3, <1>4, <1>5, <1>6, <1>10, <1>11 DEF AbsReaders
-----------------------------------------------------------------------------
LEMMA AsideOthers ==
    ASSUME IInv, IInv', NEW t \in Threads, Aside(t)
    PROVE  \A u \in Threads, l \in Locks : u # t =>
              AbsHold(u, l)' = AbsHold(u, l) /\ AbsWant(u, l)' = AbsWant(u, l)
<1>1. SUFFICES ASSUME NEW u \in Threads, u # t
               PROVE  \A l \in Locks : /\ AbsHold(u, l)' = AbsHold(u, l)
                                       /\ AbsWant(u, l)' = AbsWant(u, l)
  OBVIOUS
<1>2. Granted(u)' <=> Granted(u)
  BY <1>1, GrantedKept DEF Aside
<1> QED BY <1>1, <1>2, AbsKept DEF Aside

(* A thread outside the waiting part of rw_enter, before and after.        *)
LEMMA OutsideNext ==
    ASSUME IInv', NEW t \in Threads, pc'[t] \notin WaitLabels
    PROVE  \A l \in Locks : AbsHold(t, l)' = hold'[t][l] /\ AbsWant(t, l)' = "none"
<1>1. ~Granted(t)'
  <2>1. t_wchan'[t] = NULL
    BY DEF IInv, ControlInv, QueuedLabels, WaitLabels
  <2> QED BY <2>1 DEF Granted
<1> QED BY <1>1, AbsBoth DEF AbsThreads

LEMMA AsideStutter ==
    ASSUME IInv, IInv', NEW t \in Threads, Aside(t), pc[t] \notin WaitLabels,
           pc'[t] \notin WaitLabels, hold'[t] = hold[t]
    PROVE  UNCHANGED Abs!avars
BY AsideOthers, OutsideNext, AbsOutside, AbsStutter

(* Such a thread changes its hold on one lock.                             *)
LEMMA AsideMove ==
    ASSUME IInv, IInv', NEW t \in Threads, NEW l \in Locks, NEW m, Aside(t),
           pc[t] \notin WaitLabels, pc'[t] \notin WaitLabels, SetHold(t, l, m)
    PROVE  Abs!Move(t, l, m, {}, "none")
<1>1. hold'[t][l] = m /\ \A k \in Locks : k # l => hold'[t][k] = hold[t][k]
  BY DEF SetHold, IInv, TypeOK
<1> QED BY <1>1, AsideOthers, OutsideNext, AbsOutside, AbsMove

-----------------------------------------------------------------------------
(* The steps of an operation that the abstract lock does not see.          *)
LEMMA HiddenSteps ==
    ASSUME IInv, IInv', NEW t \in Threads,
           \/ EnterBusy(t) \/ EnterLookup(t) \/ EnterRetry(t)
           \/ ExitLookup(t) \/ DowngradeLookup(t)
    PROVE  UNCHANGED Abs!avars
<1>1. TypeOK
  BY DEF IInv
<1>2. PICK label \in {"slow", "look", "enter", "hand", "share"} : Goto(t, label)
  BY DEF EnterBusy, EnterLookup, EnterRetry, ExitLookup, DowngradeLookup
<1>3. UNCHANGED <<hold, lk, rw, wk, t_wchan, ts_sleepq, t_ts>>
  BY DEF EnterBusy, EnterLookup, EnterRetry, ExitLookup, DowngradeLookup,
         turnstile_lookup, turnstile_exit, ts_vars, chain_vars
<1>4. Aside(t) /\ pc'[t] = label
  BY <1>1, <1>2, <1>3, GotoMine DEF Aside
<1>5. pc[t] \notin WaitLabels
  BY
  DEF EnterBusy, EnterLookup, EnterRetry, ExitLookup, DowngradeLookup, At,
      WaitLabels
<1> QED BY <1>2, <1>3, <1>4, <1>5, AsideStutter DEF WaitLabels

LEMMA HiddenCalls ==
    ASSUME IInv, IInv', NEW t \in Threads, NEW l \in Locks,
           (\E m \in Queues : rw_enter(t, l, m)) \/ ExitFinal(t, l)
    PROVE  UNCHANGED Abs!avars
<1>1. TypeOK
  BY DEF IInv
<1>2. PICK label \in {"enter", "final"}, r \in Queues : Begin(t, label, l, r)
  BY DEF rw_enter, ExitFinal, lock_value, Queues
<1>3. UNCHANGED <<hold, wk, t_wchan, ts_sleepq, t_ts>>
  BY DEF rw_enter, ExitFinal, ts_vars, chain_vars
<1>4. Aside(t) /\ pc'[t] = label
  BY <1>1, <1>2, <1>3, BeginMine DEF Aside
<1>5. pc[t] \notin WaitLabels
  BY DEF rw_enter, ExitFinal, At, WaitLabels
<1> QED BY <1>2, <1>3, <1>4, <1>5, AsideStutter DEF WaitLabels

(* Locks that nobody uses come and go.                                     *)
LEMMA HiddenLocks ==
    ASSUME IInv, IInv', NEW l \in Locks, rw_destroy(l) \/ rw_init(l)
    PROVE  UNCHANGED Abs!avars
<1>1. UNCHANGED <<hold, pc, lk, rw, wk, t_wchan, ts_sleepq, t_ts>>
  BY DEF rw_destroy, rw_init, ts_vars, chain_vars
<1>2. ASSUME NEW u \in Threads
      PROVE  \A k \in Locks : /\ AbsHold(u, k)' = AbsHold(u, k)
                              /\ AbsWant(u, k)' = AbsWant(u, k)
  BY <1>1, GrantedKept, AbsKept
<1> QED BY <1>2, AbsStutter

(* Nobody is granted anything while a thread with the chain lock is not in *)
(* a wakeup, or nobody has that lock: the order of the queues may change.  *)
LEMMA HiddenBlocking ==
    ASSUME IInv, IInv', NEW t \in Threads, EnterBlock(t) \/ EnterWill(t)
    PROVE  UNCHANGED Abs!avars
<1>1. TypeOK /\ pc[t] \in WaitLabels /\ UNCHANGED <<hold, lk, rw>>
  BY DEF IInv, EnterBlock, EnterWill, At, WaitLabels
<1>2. PICK label \in {"pi", "sleep"} : Goto(t, label)
  BY DEF EnterBlock, EnterWill
<1>3. \A u \in Threads : pc'[u] \in WaitLabels <=> pc[u] \in WaitLabels
  BY <1>1, <1>2, GotoMine DEF WaitLabels
<1>4. \A u \in Threads, k \in Locks : /\ AbsHold(u, k)' = AbsHold(u, k)
                                      /\ AbsWant(u, k)' = AbsWant(u, k)
  BY <1>1, <1>3, GrantedRequeued, AbsKept
<1> QED BY <1>4, AbsStutter

LEMMA HiddenPriority ==
    ASSUME IInv, IInv', NEW t \in Threads, NEW p \in Priorities, ChangePri(t, p)
    PROVE  UNCHANGED Abs!avars
<1>1. UNCHANGED <<hold, pc, lk, rw>>
  BY DEF ChangePri, rw_vars
<1>2. \A u \in Threads, k \in Locks : /\ AbsHold(u, k)' = AbsHold(u, k)
                                      /\ AbsWant(u, k)' = AbsWant(u, k)
  BY <1>1, GrantedRequeued, AbsKept
<1> QED BY <1>2, AbsStutter

(* turnstile_wakeup: what the woken threads have was theirs already.       *)
LEMMA HiddenWaive ==
    ASSUME IInv, IInv', NEW t \in Threads, WakeWaive(t)
    PROVE  UNCHANGED Abs!avars
<1>1. TypeOK /\ pc[t] = "waive" /\ Goto(t, "wake") /\ UNCHANGED <<hold, lk, rw>>
  BY DEF IInv, WakeWaive, At
<1>2. \A u \in Threads : pc'[u] \in WaitLabels <=> pc[u] \in WaitLabels
  BY <1>1, GotoMine DEF WaitLabels
<1>3. \A u \in Threads, k \in Locks : /\ AbsHold(u, k)' = AbsHold(u, k)
                                      /\ AbsWant(u, k)' = AbsWant(u, k)
  BY <1>1, <1>2, GrantedWaived, AbsKept
<1> QED BY <1>3, AbsStutter

LEMMA HiddenWakeup ==
    ASSUME IInv, IInv', NEW t \in Threads, WakeOne(t)
    PROVE  UNCHANGED Abs!avars
<1>1. PICK s \in Threads, l \in Locks, ts \in Turnstiles, q \in Queues, n \in Nat :
           Wakes(t, s, l, ts, q, n)
  BY WakeOneStep
<1>2. /\ Granted(s) /\ lk[s] = l /\ rw[s] = q /\ pc'[s] = "run" /\ hold'[s][l] = q
      /\ \A k \in Locks : k # l => hold'[s][k] = hold[s][k]
      /\ \A u \in Threads : u # s =>
            /\ pc'[u] = pc[u] /\ lk'[u] = lk[u] /\ rw'[u] = rw[u]
            /\ hold'[u] = hold[u]
            /\ Granted(u)' <=> Granted(u)
  BY <1>1, GrantedWoken
<1>3. ASSUME NEW u \in Threads, u # s
      PROVE  \A k \in Locks : /\ AbsHold(u, k)' = AbsHold(u, k)
                              /\ AbsWant(u, k)' = AbsWant(u, k)
  BY <1>2, <1>3, AbsKept
<1>4. ASSUME NEW k \in Locks
      PROVE  AbsHold(s, k)' = AbsHold(s, k) /\ AbsWant(s, k)' = AbsWant(s, k)
  <2>1. AbsHold(s, k) = (IF k = l THEN q ELSE hold[s][k]) /\ AbsWant(s, k) = "none"
    BY <1>2, AbsThread
  <2>2. AbsHold(s, k)' = hold'[s][k] /\ AbsWant(s, k)' = "none"
    BY <1>2, OutsideNext DEF WaitLabels
  <2> QED BY <1>2, <2>1, <2>2
<1> QED BY <1>3, <1>4, AbsStutter

LEMMA HiddenDone ==
    ASSUME IInv, IInv', NEW t \in Threads, WakeDone(t)
    PROVE  UNCHANGED Abs!avars
<1>1. /\ TypeOK /\ pc[t] = "wake" /\ wk.n = 0 /\ wk' = NoWakeup
      /\ Begin(t, "run", NULL, "R") /\ UNCHANGED hold
  BY DEF WakeDone, At, turnstile_wakeup_done, Return, IInv
<1>2. \A u \in Threads : ~Granted(u) /\ ~Granted(u)'
  BY <1>1 DEF Granted, NoWakeup
<1>3. /\ pc'[t] = "run"
      /\ \A u \in Threads : u # t => pc'[u] = pc[u] /\ lk'[u] = lk[u] /\ rw'[u] = rw[u]
  BY <1>1, BeginMine
<1>4. ASSUME NEW u \in Threads, u # t
      PROVE  \A k \in Locks : /\ AbsHold(u, k)' = AbsHold(u, k)
                              /\ AbsWant(u, k)' = AbsWant(u, k)
  BY <1>1, <1>2, <1>3, <1>4, AbsKept
<1>5. \A k \in Locks : AbsHold(t, k)' = AbsHold(t, k) /\ AbsWant(t, k)' = AbsWant(t, k)
  BY <1>1, <1>3, AbsOutside, OutsideNext DEF WaitLabels
<1> QED BY <1>4, <1>5, AbsStutter
-----------------------------------------------------------------------------
(* The first n threads of queue q of lock l are granted the lock.          *)
LEMMA GrantMove ==
    ASSUME IInv, IInv', NEW t \in Threads, NEW l \in Locks, NEW m, NEW q \in Queues,
           NEW n \in Nat, NEW o, lk[t] = l, pc[t] \in {"hand", "share"},
           wk' = [q |-> q, n |-> n, owner |-> o, sobj |-> l],
           Goto(t, "waive"), SetHold(t, l, m),
           UNCHANGED <<lk, rw, chain_vars, ts_sleepq>>,
           n <= Len(ts_sleepq[tc_chain[l]][q])
    PROVE  \E S \in SUBSET Threads :
              /\ Abs!Move(t, l, m, S, q) /\ S \subseteq Abs!Wanting(l, q)
              /\ n > 0 => S # {}
              /\ n = 1 => \A u, v \in S : u = v
<1>0. PICK S \in SUBSET Threads : \A u \in Threads : u \in S <=> Granted(u)'
  <2>1. {u \in Threads : Granted(u)'} \in SUBSET Threads
    OBVIOUS
  <2> QED BY <2>1
<1>1. wk.n = 0 /\ tc_chain[l] \in Turnstiles /\ TypeOK /\ l # NULL
  BY HandoverFacts, TurnstileAssumption DEF IInv
<1>2. PICK ts \in Turnstiles : ts = tc_chain[l]
  BY <1>1
<1>3. PICK sq \in Seq(Threads) : sq = ts_sleepq[ts][q] /\ Len(sq) \in Nat /\ NoDup(sq)
  BY QueueTypes
<1>4. \A u \in Threads : ~Granted(u)
  BY <1>1, NobodyGranted
<1>5. /\ pc'[t] = "waive" /\ \A u \in Threads : u # t => pc'[u] = pc[u]
      /\ \A u \in Threads : u # t => hold'[u] = hold[u]
      /\ hold'[t][l] = m /\ \A k \in Locks : k # l => hold'[t][k] = hold[t][k]
  BY <1>1, GotoMine, HoldMine DEF SetHold, TypeOK
<1>6. /\ \A k \in Locks : AbsHold(t, k) = hold[t][k] /\ AbsWant(t, k) = "none"
      /\ \A k \in Locks : AbsHold(t, k)' = hold'[t][k] /\ AbsWant(t, k)' = "none"
      /\ t \notin S
  <2>1. pc[t] \notin WaitLabels /\ pc'[t] \notin WaitLabels
    BY <1>5 DEF WaitLabels
  <2>2. t_wchan'[t] = NULL
    BY <2>1 DEF IInv, ControlInv, QueuedLabels, WaitLabels
  <2> QED BY <1>0, <2>1, <2>2, AbsOutside, OutsideNext DEF Granted
<1>7. ASSUME NEW u \in S
      PROVE  /\ u \in Threads /\ u # t /\ AbsWant(u, l) = q
             /\ AbsHold(u, l)' = q /\ AbsWant(u, l)' = "none"
             /\ \A k \in Locks : k # l => /\ AbsHold(u, k)' = AbsHold(u, k)
                                          /\ AbsWant(u, k)' = AbsWant(u, k)
  <2>1. u \in Threads /\ u # t /\ t_wchan[u] = l /\ rw[u] = q
    BY <1>0, <1>6, <1>7 DEF Granted, chain_vars
  <2>2. lk[u] = l /\ pc[u] \in QueuedLabels
    BY <1>1, <2>1 DEF IInv, ControlInv
  <2>3. pc[u] \in WaitLabels /\ pc'[u] = pc[u] /\ lk'[u] = l /\ rw'[u] = q
        /\ hold'[u] = hold[u]
    BY <1>5, <2>1, <2>2 DEF QueuedLabels, WaitLabels
  <2>4. \A k \in Locks :
           /\ AbsHold(u, k) = hold[u][k]
           /\ AbsWant(u, k) = IF k = l THEN q ELSE "none"
    BY <1>4, <2>1, <2>2, <2>3, AbsThread
  <2>5. \A k \in Locks :
           /\ AbsHold(u, k)' = IF k = l THEN q ELSE hold[u][k]
           /\ AbsWant(u, k)' = "none"
    BY <1>0, <1>7, <2>1, <2>3, AbsBoth DEF AbsThreads
  <2> QED BY <2>1, <2>4, <2>5
<1>8. ASSUME NEW u \in Threads, u \notin S, u # t
      PROVE  \A k \in Locks : /\ AbsHold(u, k)' = AbsHold(u, k)
                              /\ AbsWant(u, k)' = AbsWant(u, k)
  <2>1. ~Granted(u)'
    BY <1>0, <1>8
  <2> QED BY <1>4, <1>5, <1>8, <2>1, AbsKept
<1>9. Abs!Move(t, l, m, S, q)
  <2>1. \A u \in Threads, k \in Locks : k # l =>
           AbsHold(u, k)' = AbsHold(u, k) /\ AbsWant(u, k)' = AbsWant(u, k)
    BY <1>5, <1>6, <1>7, <1>8
  <2>2. \A u \in Threads :
           /\ AbsHold(u, l)' = IF u \in S THEN q
                               ELSE IF u = t THEN m ELSE AbsHold(u, l)
           /\ AbsWant(u, l)' = IF u \in S THEN "none" ELSE AbsWant(u, l)
    BY <1>5, <1>6, <1>7, <1>8
  <2> QED BY <2>1, <2>2, AbsMove
<1>10. S \subseteq Abs!Wanting(l, q)
  BY <1>7, AbsSets
<1>11. \A u \in Threads : t_wchan[u] = l => t_ts[u] = ts
  BY <1>1, <1>2 DEF IInv, ChainInv
<1>12. ASSUME n > 0 PROVE S # {}
  <2>1. 1 \in 1..n /\ sq[1] \in Elems(sq) /\ sq[1] \in Threads
    BY <1>2, <1>3, <1>12, TailQueue
  <2>2. PICK u \in Threads : u = sq[1]
    BY <2>1
  <2>3. t_wchan[u] # NULL /\ t_ts[u] = ts /\ rw[u] = q
    BY <1>3, <2>1, <2>2 DEF IInv, QueueInv
  <2>4. t_wchan[u] = l
    BY <1>2, <2>3, SleepsOn
  <2>5. Granted(u)'
    BY <1>1, <1>3, <2>1, <2>2, <2>3, <2>4 DEF Granted, chain_vars
  <2> QED BY <1>0, <2>5
<1>13. ASSUME n = 1, NEW u \in S, NEW v \in S PROVE u = v
  <2>1. \A x \in S : x = sq[1]
    BY <1>0, <1>3, <1>11, <1>13 DEF Granted, chain_vars
  <2> QED BY <2>1
<1> QED BY <1>9, <1>10, <1>12, <1>13
-----------------------------------------------------------------------------
(* The abstract actions in terms of what IInv is about.                    *)
LEMMA AcquireAbs ==
    ASSUME NEW t \in Threads, NEW l \in Locks, NEW m,
           AbsHold(t, l) = "none", AbsWant(t, l) = "none",
           \A u \in Threads : AbsHold(u, l) # "none" => m = "R" /\ AbsHold(u, l) = "R",
           \A u \in Threads : AbsWant(u, l) # "W",
           Abs!Move(t, l, m, {}, "none")
    PROVE  Abs!Acquire(t, l, m)
<1>1. Abs!Wanting(l, "W") = {}
  BY AbsSets
<1>2. \A u \in Abs!Holders(l) : u \in Threads /\ m = "R" /\ AbsHold(u, l) = "R"
  BY AbsSets
<1> QED BY <1>1, <1>2 DEF Abs!Acquire, AbsHold, AbsWant

LEMMA WaitAbs ==
    ASSUME NEW t \in Threads, NEW l \in Locks, NEW m,
           AbsHold(t, l) = "none", AbsWant(t, l) = "none",
           \E u \in Threads : AbsHold(u, l) # "none",
           \A u \in Threads, k \in Locks :
              /\ AbsHold(u, k)' = AbsHold(u, k)
              /\ AbsWant(u, k)' = IF u = t /\ k = l THEN m ELSE AbsWant(u, k)
    PROVE  Abs!Wait(t, l, m)
<1> DEFINE H == [u \in Threads |-> [k \in Locks |-> AbsHold(u, k)]]
           W == [u \in Threads |-> [k \in Locks |-> AbsWant(u, k)]]
<1>1. H' = H
  OBVIOUS
<1>2. W' = [W EXCEPT ![t][l] = m]
  OBVIOUS
<1>3. Abs!Holders(l) # {}
  BY AbsSets
<1> QED BY <1>1, <1>2, <1>3 DEF Abs!Wait, AbsHold, AbsWant

LEMMA ReleaseAbs ==
    ASSUME NEW t \in Threads, NEW l \in Locks,
           AbsHold(t, l) # "none",
           \/ \E u \in Threads : u # t /\ AbsHold(u, l) # "none"
           \/ \A u \in Threads : AbsWant(u, l) = "none",
           Abs!Move(t, l, "none", {}, "none")
    PROVE  Abs!Release(t, l)
<1>1. Abs!Holders(l) = {t} => Abs!Wanting(l, "R") \cup Abs!Wanting(l, "W") = {}
  BY AbsSets
<1> QED BY <1>1 DEF Abs!Release, AbsHold

LEMMA HandOverAbs ==
    ASSUME NEW t \in Threads, NEW l \in Locks, NEW S, NEW m,
           AbsHold(t, l) # "none",
           \A u \in Threads : AbsHold(u, l) # "none" => u = t,
           S # {}, S \subseteq Abs!Wanting(l, m),
           IF m = "W" THEN \A u, v \in S : u = v ELSE AbsHold(t, l) = "W",
           Abs!Move(t, l, "none", S, m)
    PROVE  Abs!HandOver(t, l, S, m)
<1>1. Abs!Holders(l) = {t}
  BY AbsSets
<1> QED BY <1>1 DEF Abs!HandOver, AbsHold

LEMMA DowngradeAbs ==
    ASSUME NEW t \in Threads, NEW l \in Locks, AbsHold(t, l) = "W",
           Abs!Move(t, l, "R", {}, "none")
    PROVE  Abs!Downgrade(t, l)
BY DEF Abs!Downgrade, AbsHold

LEMMA ShareAbs ==
    ASSUME NEW t \in Threads, NEW l \in Locks, NEW S, AbsHold(t, l) = "R",
           S \subseteq Abs!Wanting(l, "R"), Abs!Move(t, l, "R", S, "R")
    PROVE  Abs!Share(t, l, S)
BY DEF Abs!Share, AbsHold

LEMMA UpgradeAbs ==
    ASSUME NEW t \in Threads, NEW l \in Locks, AbsHold(t, l) = "R",
           \A u \in Threads : AbsHold(u, l) # "none" => u = t,
           \A u \in Threads : AbsWant(u, l) # "W",
           Abs!Move(t, l, "W", {}, "none")
    PROVE  Abs!Upgrade(t, l)
<1>1. Abs!Holders(l) = {t} /\ Abs!Wanting(l, "W") = {}
  BY AbsSets
<1> QED BY <1>1 DEF Abs!Upgrade, AbsHold
-----------------------------------------------------------------------------
(* The steps that acquire, give up or change a hold without a handoff.     *)
LEMMA AvailableAbs ==
    ASSUME IInv, NEW t \in Threads, NEW l \in Locks, NEW m \in Queues,
           pc[t] \notin WaitLabels, hold[t][l] = "none",
           rw_wwwh[l] # RW_DOUBLE_LOCK, ~lock_busy(rw_wwwh[l], m),
           Abs!Move(t, l, m, {}, "none")
    PROVE  Abs!Acquire(t, l, m)
<1>1. PICK w \in Words : w = rw_wwwh[l]
  BY DEF IInv, TypeOK
<1>2. AbsHold(t, l) = "none" /\ AbsWant(t, l) = "none"
  BY AbsOutside
<1>3. ~w.wl /\ ~w.ww /\ (m = "W" => w.rd = 0)
  <2>1. w.hw => RW_LOCKED(w)
    BY <1>1 DEF IInv, BitsInv, BitsOf
  <2>2. w.ww => w.hw
    BY <1>1 DEF IInv, BitsInv, BitsOf
  <2>3. w.wl <=> w.wr # NULL
    BY <1>1 DEF IInv, HoldInv, HoldOf
  <2>4. CASE m = "R"
    BY <1>1, <2>4 DEF lock_busy, RW_WRITE_CLAIMED
  <2>5. CASE m = "W"
    <3>1. w.rd \in Nat /\ ~RW_LOCKED(w)
      BY <1>1, <2>5 DEF lock_busy, Words
    <3> QED BY <2>1, <2>2, <2>3, <3>1 DEF RW_LOCKED
  <2> QED BY <2>4, <2>5 DEF Queues
<1>4. ASSUME NEW u \in Threads, AbsHold(u, l) # "none"
      PROVE  m = "R" /\ AbsHold(u, l) = "R"
  <2>1. AbsHold(u, l) \in {"R", "W"}
    BY <1>4, AbsThread
  <2>2. AbsHold(u, l) # "W"
    BY <1>1, <1>3, AbsWord
  <2>3. w.rd >= 1
    BY <1>1, <2>1, <2>2, AbsWord
  <2> QED BY <1>3, <2>1, <2>2, <2>3 DEF Queues
<1>5. \A u \in Threads : AbsWant(u, l) # "W"
  BY <1>1, <1>3, AbsWord
<1> QED BY <1>2, <1>4, <1>5, AcquireAbs

LEMMA GrabAcquires ==
    ASSUME IInv, IInv', NEW t \in Threads, EnterGrab(t)
    PROVE  \E l \in Locks, m \in Queues : Abs!Acquire(t, l, m)
<1>1. PICK l \in Locks, m \in Queues : l = lk[t] /\ m = rw[t]
  BY InOperation DEF EnterGrab, At, IInv, TypeOK
<1>2. /\ pc[t] = "enter" /\ hold[t][l] = "none" /\ ~lock_busy(rw_wwwh[l], m)
      /\ SetHold(t, l, m) /\ Begin(t, "run", NULL, "R") /\ TypeOK
      /\ rw_wwwh[l] # RW_DOUBLE_LOCK
  BY <1>1, InOperation DEF EnterGrab, At, IInv, ControlInv, EnterLabels, Return
<1>3. /\ pc'[t] = "run"
      /\ \A u \in Threads : u # t => /\ pc'[u] = pc[u] /\ lk'[u] = lk[u]
                                     /\ rw'[u] = rw[u] /\ hold'[u] = hold[u]
  BY <1>2, BeginMine, HoldMine
<1>4. Aside(t)
  BY <1>3 DEF EnterGrab, Aside, ts_vars, chain_vars
<1>5. pc[t] \notin WaitLabels /\ pc'[t] \notin WaitLabels
  BY <1>2, <1>3 DEF WaitLabels
<1>6. Abs!Move(t, l, m, {}, "none")
  BY <1>2, <1>4, <1>5, AsideMove
<1>7. Abs!Acquire(t, l, m)
  BY <1>2, <1>5, <1>6, AvailableAbs
<1> QED BY <1>7

LEMMA TryAcquires ==
    ASSUME IInv, IInv', NEW t \in Threads, NEW l \in Locks, NEW m \in Queues,
           rw_tryenter(t, l, m)
    PROVE  Abs!Acquire(t, l, m)
<1>1. /\ pc[t] = "run" /\ hold[t][l] = "none" /\ SetHold(t, l, m) /\ TypeOK
      /\ UNCHANGED <<pc, lk, rw>>
  BY DEF rw_tryenter, At, IInv
<1>2. rw_wwwh[l] # RW_DOUBLE_LOCK /\ ~lock_busy(rw_wwwh[l], m)
  BY DoubleLock DEF rw_tryenter, lock_busy, RW_WRITE_CLAIMED, RW_LOCKED, Queues
<1>3. Aside(t)
  BY <1>1, HoldMine DEF rw_tryenter, Aside, ts_vars, chain_vars
<1>4. pc[t] \notin WaitLabels /\ pc'[t] \notin WaitLabels
  BY <1>1 DEF WaitLabels
<1>5. Abs!Move(t, l, m, {}, "none")
  BY <1>1, <1>3, <1>4, AsideMove
<1> QED BY <1>1, <1>2, <1>4, <1>5, AvailableAbs

LEMMA DropReleases ==
    ASSUME IInv, IInv', NEW t \in Threads, NEW l \in Locks, ExitDrop(t, l)
    PROVE  Abs!Release(t, l)
<1>1. /\ pc[t] = "run" /\ hold[t][l] # "none" /\ ~FinalExit(rw_wwwh[l])
      /\ SetHold(t, l, "none") /\ TypeOK /\ UNCHANGED <<pc, lk, rw>>
  BY DEF ExitDrop, At, IInv
<1>2. PICK w \in Words : w = rw_wwwh[l]
  BY DEF IInv, TypeOK
<1>3. Aside(t)
  BY <1>1, HoldMine DEF ExitDrop, Aside, ts_vars, chain_vars
<1>4. pc[t] \notin WaitLabels /\ pc'[t] \notin WaitLabels
  BY <1>1 DEF WaitLabels
<1>5. Abs!Move(t, l, "none", {}, "none")
  BY <1>1, <1>3, <1>4, AsideMove
<1>6. AbsHold(t, l) = hold[t][l]
  BY <1>4, AbsOutside
<1>7. w # RW_DOUBLE_LOCK /\ hold[t][l] = lock_value(w) /\ (w.wl => w.rd = 0)
  <2>1. hold[t][l] \in {"R", "W"}
    BY <1>1 DEF TypeOK
  <2>2. w # RW_DOUBLE_LOCK
    BY <1>2, <2>1, WriterFacts, ReaderFacts
  <2> QED BY <1>1, <1>2, <2>2, ModeOfHold DEF IInv, HoldInv, HoldOf
<1>8. \/ \E u \in Threads : u # t /\ AbsHold(u, l) # "none"
      \/ \A u \in Threads : AbsWant(u, l) = "none"
  <2>1. CASE ~w.hw
    BY <1>2, <1>7, <2>1, AbsWord
  <2>2. CASE w.hw /\ w.wl
    BY <1>1, <1>2, <1>7, <2>2, DropWord DEF FinalExit, RW_LOCKED, lock_value
  <2>3. CASE w.hw /\ ~w.wl
    <3>1. w.rd - 1 # 0
      <4>1. FinalExit(w) <=> ~RW_LOCKED(Drop(w, "R"))
        BY <1>2, <2>3, DropWord DEF FinalExit, lock_value
      <4>2. Drop(w, "R").rd = w.rd - 1 /\ Drop(w, "R").wr = w.wr /\ w.rd \in Nat
        BY DropWord DEF Words
      <4>3. w.wr = NULL
        BY <1>2, <1>7, <2>3 DEF IInv, HoldInv, HoldOf
      <4> QED BY <1>1, <1>2, <4>1, <4>2, <4>3 DEF RW_LOCKED
    <3>2. w.rd = Cardinality(AbsReaders(l)) /\ IsFiniteSet(AbsReaders(l))
      BY <1>2, <1>7, ReadersCounted
    <3>3. AbsReaders(l) # {t}
      BY <3>1, <3>2, FS_Singleton
    <3>4. t \in AbsReaders(l)
      BY <1>1, <1>6, <1>7, <2>3 DEF AbsReaders, lock_value
    <3>5. PICK u \in AbsReaders(l) : u # t
      BY <3>3, <3>4
    <3> QED BY <3>5 DEF AbsReaders
  <2> QED BY <2>1, <2>2, <2>3
<1> QED BY <1>1, <1>5, <1>6, <1>8, ReleaseAbs

LEMMA DowngradeDowngrades ==
    ASSUME IInv, IInv', NEW t \in Threads, NEW l \in Locks, rw_downgrade(t, l)
    PROVE  Abs!Downgrade(t, l)
<1>1. /\ pc[t] = "run" /\ hold[t][l] = "W" /\ SetHold(t, l, "R") /\ TypeOK
      /\ Begin(t, "down", l, "W") \/ UNCHANGED <<pc, lk, rw>>
  BY DEF rw_downgrade, At, IInv
<1>2. /\ pc'[t] \in {"down", "run"}
      /\ \A u \in Threads : u # t => /\ pc'[u] = pc[u] /\ lk'[u] = lk[u]
                                     /\ rw'[u] = rw[u] /\ hold'[u] = hold[u]
  BY <1>1, BeginMine, HoldMine
<1>3. Aside(t)
  BY <1>2 DEF rw_downgrade, Aside, ts_vars, chain_vars
<1>4. pc[t] \notin WaitLabels /\ pc'[t] \notin WaitLabels
  BY <1>1, <1>2 DEF WaitLabels
<1>5. Abs!Move(t, l, "R", {}, "none") /\ AbsHold(t, l) = "W"
  BY <1>1, <1>3, <1>4, AsideMove, AbsOutside
<1> QED BY <1>5, DowngradeAbs

LEMMA TryUpgrades ==
    ASSUME IInv, IInv', NEW t \in Threads, NEW l \in Locks, rw_tryupgrade(t, l)
    PROVE  Abs!Upgrade(t, l)
<1>1. /\ pc[t] = "run" /\ hold[t][l] = "R" /\ SetHold(t, l, "W") /\ TypeOK
      /\ UNCHANGED <<pc, lk, rw>>
  BY DEF rw_tryupgrade, At, IInv
<1>2. PICK w \in Words : w = rw_wwwh[l]
  BY DEF IInv, TypeOK
<1>3. w.rd = 1 /\ ~w.ww /\ ~w.wl
  <2>1. [w EXCEPT !.hw = FALSE] = [Unheld EXCEPT !.rd = 1]
    BY <1>2 DEF rw_tryupgrade
  <2>2. PICK v : v = [w EXCEPT !.hw = FALSE]
    OBVIOUS
  <2>3. v.rd = w.rd /\ v.ww = w.ww /\ v.wl = w.wl
    BY <2>2 DEF Words
  <2>4. v.rd = 1 /\ v.ww = FALSE /\ v.wl = FALSE
    BY <2>1, <2>2 DEF Unheld
  <2> QED BY <2>3, <2>4
<1>4. Aside(t)
  BY <1>1, HoldMine DEF rw_tryupgrade, Aside, ts_vars, chain_vars
<1>5. pc[t] \notin WaitLabels /\ pc'[t] \notin WaitLabels
  BY <1>1 DEF WaitLabels
<1>6. Abs!Move(t, l, "W", {}, "none") /\ AbsHold(t, l) = "R"
  BY <1>1, <1>4, <1>5, AsideMove, AbsOutside
<1>7. w # RW_DOUBLE_LOCK
  BY <1>1, <1>2, ReaderFacts
<1>8. ASSUME NEW u \in Threads, AbsHold(u, l) # "none" PROVE u = t
  <2>1. AbsHold(u, l) = "R"
    BY <1>2, <1>3, <1>7, <1>8, AbsWord, AbsThread
  <2>2. ASSUME u # t PROVE FALSE
    <3>1. w.rd >= 2
      BY <1>2, <1>6, <1>7, <2>1, <2>2, AbsWord
    <3> QED BY <1>3, <3>1
  <2> QED BY <2>2
<1>9. \A u \in Threads : AbsWant(u, l) # "W"
  BY <1>2, <1>3, <1>7, AbsWord
<1> QED BY <1>6, <1>8, <1>9, UpgradeAbs

LEMMA WaitWaits ==
    ASSUME IInv, IInv', NEW t \in Threads, EnterWait(t)
    PROVE  \E l \in Locks, m \in Queues : Abs!Wait(t, l, m)
<1>1. PICK l \in Locks, m \in Queues : l = lk[t] /\ m = rw[t]
  BY InOperation DEF EnterWait, At, IInv, TypeOK
<1>2. /\ pc[t] = "look" /\ hold[t][l] = "none" /\ lock_busy(rw_wwwh[l], m)
      /\ Goto(t, "block") /\ TypeOK /\ rw_wwwh[l] # RW_DOUBLE_LOCK
      /\ UNCHANGED <<hold, lk, rw, ts_vars>>
  BY <1>1, InOperation DEF EnterWait, At, IInv, ControlInv, EnterLabels
<1>3. pc'[t] = "block" /\ \A u \in Threads : u # t => pc'[u] = pc[u]
  BY <1>2, GotoMine
<1>4. Aside(t)
  BY <1>2, <1>3 DEF Aside, ts_vars, chain_vars
<1>5. pc[t] \notin WaitLabels /\ pc'[t] \in WaitLabels
  BY <1>2, <1>3 DEF WaitLabels
<1>6. /\ ~Granted(t)
      /\ \A k \in Locks : AbsHold(t, k) = hold[t][k] /\ AbsWant(t, k) = "none"
  BY <1>5, AbsOutside
<1>7. ~Granted(t)'
  BY <1>2, <1>6, GrantedKept DEF ts_vars, chain_vars
<1>8. \A k \in Locks : /\ AbsHold(t, k)' = hold[t][k]
                       /\ AbsWant(t, k)' = IF k = l THEN m ELSE "none"
  BY <1>1, <1>2, <1>5, <1>7, AbsBoth DEF AbsThreads
<1>9. \A u \in Threads, k \in Locks :
         /\ AbsHold(u, k)' = AbsHold(u, k)
         /\ AbsWant(u, k)' = IF u = t /\ k = l THEN m ELSE AbsWant(u, k)
  BY <1>4, <1>6, <1>8, AsideOthers
<1>10. \E u \in Threads : AbsHold(u, l) # "none"
  <2>1. PICK w \in Words : w = rw_wwwh[l]
    BY DEF IInv, TypeOK
  <2>2. (w.wl <=> w.wr # NULL) /\ (w.hw => RW_LOCKED(w)) /\ (w.ww => w.hw)
    BY <1>2, <2>1 DEF IInv, HoldInv, HoldOf, BitsInv, BitsOf
  <2>3. RW_LOCKED(w)
    BY <1>2, <2>1, <2>2 DEF lock_busy, RW_WRITE_CLAIMED, RW_LOCKED
  <2> QED BY <1>2, <2>1, <2>3, AbsWord
<1>11. Abs!Wait(t, l, m)
  BY <1>2, <1>6, <1>9, <1>10, WaitAbs
<1> QED BY <1>11
-----------------------------------------------------------------------------
(* The handoffs: the thread that is in the final exit is the only holder.  *)
LEMMA SoleHolder ==
    ASSUME IInv, NEW t \in Threads, NEW l \in Locks, lk[t] = l, pc[t] = "hand"
    PROVE  /\ AbsHold(t, l) = rw[t] /\ rw[t] \in {"R", "W"}
           /\ \A u \in Threads : AbsHold(u, l) # "none" => u = t
<1>1. rw[t] \in {"R", "W"} /\ hold[t][l] = rw[t]
  BY DEF IInv, TypeOK, Queues, ControlInv, FinalLabels
<1>2. AbsHold(t, l) = rw[t]
  BY <1>1, AbsOutside DEF WaitLabels
<1>3. PICK w \in Words : w = rw_wwwh[l]
  BY DEF IInv, TypeOK
<1>4. w # RW_DOUBLE_LOCK
  BY <1>3, HandoverFacts
<1>5. rw[t] = "R" => w.rd = 1
  BY <1>3 DEF IInv, HandInv, FinalLabels
<1>6. ASSUME NEW u \in Threads, AbsHold(u, l) # "none", u # t PROVE FALSE
  <2>1. AbsHold(u, l) \in {"R", "W"}
    BY <1>6, AbsThread
  <2>2. CASE rw[t] = "W"
    <3>1. w.wl /\ w.wr = t
      BY <1>2, <1>3, <1>4, <2>2, AbsWord
    <3> QED BY <1>3, <1>4, <1>6, <2>1, <3>1, AbsWord
  <2>3. CASE rw[t] = "R"
    <3>1. ~w.wl
      BY <1>2, <1>3, <1>4, <2>3, AbsWord
    <3>2. AbsHold(u, l) = "R"
      BY <1>3, <1>4, <2>1, <3>1, AbsWord
    <3>3. w.rd >= 2
      BY <1>2, <1>3, <1>4, <1>6, <2>3, <3>2, AbsWord
    <3> QED BY <1>5, <2>3, <3>3
  <2> QED BY <1>1, <2>2, <2>3
<1> QED BY <1>1, <1>2, <1>6

LEMMA ReadersHandOver ==
    ASSUME IInv, IInv', NEW t \in Threads, ExitToReaders(t)
    PROVE  \E l \in Locks, S \in SUBSET Threads : Abs!HandOver(t, l, S, "R")
<1>1. PICK l \in Locks : l = lk[t] /\ pc[t] = "hand"
  BY InOperation DEF ExitToReaders, At
<1>2. PICK ts \in Turnstiles : ts = tc_chain[l]
  BY <1>1, HandoverFacts
<1>3. PICK n \in Nat : n = rw_readers_to_wake(ts) /\ n <= Len(ts_sleepq[ts]["R"])
  BY <1>2, ReadersToWake
<1>4. /\ wk' = [q |-> "R", n |-> n, owner |-> NULL, sobj |-> l]
      /\ Goto(t, "waive") /\ SetHold(t, l, "none")
      /\ UNCHANGED <<lk, rw, chain_vars, ts_sleepq>>
      /\ rw[t] = "W" /\ n > 0
  BY <1>1, <1>2, <1>3 DEF ExitToReaders, Wakeup, GrantsReaders
<1>5. PICK S \in SUBSET Threads :
         /\ Abs!Move(t, l, "none", S, "R") /\ S \subseteq Abs!Wanting(l, "R")
         /\ S # {}
  <2>1. "R" \in Queues
    BY DEF Queues
  <2> QED BY <1>1, <1>2, <1>3, <1>4, <2>1, GrantMove
<1>6. Abs!HandOver(t, l, S, "R")
  <2>1. AbsHold(t, l) = "W" /\ \A u \in Threads : AbsHold(u, l) # "none" => u = t
    BY <1>1, <1>4, SoleHolder
  <2> QED BY <1>5, <2>1, HandOverAbs
<1> QED BY <1>6

LEMMA WriterHandsOver ==
    ASSUME IInv, IInv', NEW t \in Threads, ExitToWriter(t)
    PROVE  \E l \in Locks, S \in SUBSET Threads : Abs!HandOver(t, l, S, "W")
<1>1. PICK l \in Locks : l = lk[t] /\ pc[t] = "hand"
  BY InOperation DEF ExitToWriter, At
<1>2. PICK o : o = Head(ts_sleepq[tc_chain[l]]["W"])
  OBVIOUS
<1>3. /\ wk' = [q |-> "W", n |-> 1, owner |-> o, sobj |-> l]
      /\ Goto(t, "waive") /\ SetHold(t, l, "none")
      /\ UNCHANGED <<lk, rw, chain_vars, ts_sleepq>>
      /\ ~GrantsReaders(t, tc_chain[l])
  BY <1>1, <1>2 DEF ExitToWriter, Wakeup
<1>4. 1 <= Len(ts_sleepq[tc_chain[l]]["W"]) /\ 1 \in Nat /\ 1 > 0 /\ "W" \in Queues
  BY <1>1, <1>3, WriterToWake DEF Queues
<1>5. PICK S \in SUBSET Threads :
         /\ Abs!Move(t, l, "none", S, "W") /\ S \subseteq Abs!Wanting(l, "W")
         /\ S # {} /\ \A u, v \in S : u = v
  BY <1>1, <1>3, <1>4, GrantMove
<1>6. Abs!HandOver(t, l, S, "W")
  <2>1. AbsHold(t, l) # "none" /\ \A u \in Threads : AbsHold(u, l) # "none" => u = t
    BY <1>1, SoleHolder
  <2> QED BY <1>5, <2>1, HandOverAbs
<1> QED BY <1>6

LEMMA DowngradeShares ==
    ASSUME IInv, IInv', NEW t \in Threads, DowngradeShare(t)
    PROVE  \E l \in Locks, S \in SUBSET Threads : Abs!Share(t, l, S)
<1>1. PICK l \in Locks : l = lk[t] /\ pc[t] = "share"
  BY InOperation DEF DowngradeShare, At
<1>2. PICK ts \in Turnstiles : ts = tc_chain[l]
  BY <1>1, HandoverFacts
<1>3. PICK n \in Nat : n = rw_readers_to_wake(ts) /\ n <= Len(ts_sleepq[ts]["R"])
  BY <1>2, ReadersToWake
<1>4. /\ wk' = [q |-> "R", n |-> n, owner |-> NULL, sobj |-> l]
      /\ Goto(t, "waive") /\ UNCHANGED <<hold, lk, rw, chain_vars, ts_sleepq>>
  BY <1>1, <1>2, <1>3 DEF DowngradeShare, Wakeup
<1>5. hold[t][l] = "R"
  BY <1>1 DEF IInv, ControlInv, DownLabels
<1>6. SetHold(t, l, "R")
  BY <1>4, <1>5 DEF SetHold, IInv, TypeOK
<1>7. PICK S \in SUBSET Threads :
         Abs!Move(t, l, "R", S, "R") /\ S \subseteq Abs!Wanting(l, "R")
  <2>1. "R" \in Queues
    BY DEF Queues
  <2> QED BY <1>1, <1>2, <1>3, <1>4, <1>6, <2>1, GrantMove
<1>8. AbsHold(t, l) = "R"
  BY <1>1, <1>5, AbsOutside DEF WaitLabels
<1>9. Abs!Share(t, l, S)
  BY <1>7, <1>8, ShareAbs
<1> QED BY <1>9
-----------------------------------------------------------------------------
LEMMA InitAbs == Init => Abs!AInit
<1> SUFFICES ASSUME Init PROVE Abs!AInit
  OBVIOUS
<1>1. IInv
  BY InitInv
<1>2. \A t \in Threads : pc[t] \notin WaitLabels /\ \A l \in Locks : hold[t][l] = "none"
  BY DEF Init, WaitLabels
<1>3. \A t \in Threads, l \in Locks : AbsHold(t, l) = "none" /\ AbsWant(t, l) = "none"
  BY <1>1, <1>2, AbsOutside
<1>4. /\ [t \in Threads |-> [l \in Locks |-> AbsHold(t, l)]]
           = [t \in Threads |-> [l \in Locks |-> "none"]]
      /\ [t \in Threads |-> [l \in Locks |-> AbsWant(t, l)]]
           = [t \in Threads |-> [l \in Locks |-> "none"]]
  BY <1>3
<1> QED BY <1>4 DEF Abs!AInit, Abs!Nobody, AbsHold, AbsWant

LEMMA ContinueAbs ==
    ASSUME IInv, IInv', NEW t \in Threads, Continue(t)
    PROVE  Abs!ANext \/ UNCHANGED Abs!avars
<1> USE DEF Queues
<1>1. CASE EnterGrab(t)
  BY <1>1, GrabAcquires DEF Abs!ANext
<1>2. CASE EnterWait(t)
  BY <1>2, WaitWaits DEF Abs!ANext
<1>3. CASE ExitToReaders(t)
  BY <1>3, ReadersHandOver DEF Abs!ANext
<1>4. CASE ExitToWriter(t)
  BY <1>4, WriterHandsOver DEF Abs!ANext
<1>5. CASE DowngradeShare(t)
  BY <1>5, DowngradeShares DEF Abs!ANext
<1>6. CASE \/ EnterBusy(t) \/ EnterLookup(t) \/ EnterRetry(t)
           \/ ExitLookup(t) \/ DowngradeLookup(t)
  BY <1>6, HiddenSteps
<1>7. CASE EnterBlock(t) \/ EnterWill(t)
  BY <1>7, HiddenBlocking
<1>8. CASE WakeWaive(t)
  BY <1>8, HiddenWaive
<1>9. CASE WakeOne(t)
  BY <1>9, HiddenWakeup
<1>10. CASE WakeDone(t)
  BY <1>10, HiddenDone
<1> QED BY <1>1, <1>2, <1>3, <1>4, <1>5, <1>6, <1>7, <1>8, <1>9, <1>10
  DEF Continue

LEMMA StutterAbs == ASSUME UNCHANGED vars PROVE UNCHANGED Abs!avars
BY DEF vars, rw_vars, ts_vars, chain_vars, Abs!avars, Granted, Waiting

(* Every step of rwlock.c is a step of the abstract locks or none at all.  *)
LEMMA NextAbs == IInv /\ IInv' /\ [Next]_vars => [Abs!ANext]_(Abs!avars)
<1> SUFFICES ASSUME IInv, IInv', [Next]_vars
             PROVE  Abs!ANext \/ UNCHANGED Abs!avars
  OBVIOUS
<1>1. ASSUME NEW t \in Threads, Continue(t) PROVE Abs!ANext \/ UNCHANGED Abs!avars
  BY <1>1, ContinueAbs
<1>2. ASSUME NEW t \in Threads, NEW l \in Locks, NEW m \in {"R", "W"},
             rw_enter(t, l, m) \/ rw_tryenter(t, l, m)
      PROVE  Abs!ANext \/ UNCHANGED Abs!avars
  <2>1. CASE rw_enter(t, l, m)
    BY <1>2, <2>1, HiddenCalls DEF Queues
  <2>2. CASE rw_tryenter(t, l, m)
    <3>1. Abs!Acquire(t, l, m)
      BY <2>2, TryAcquires DEF Queues
    <3> QED BY <3>1 DEF Abs!ANext
  <2> QED BY <1>2, <2>1, <2>2
<1>3. ASSUME NEW t \in Threads, NEW l \in Locks,
             rw_exit(t, l) \/ rw_downgrade(t, l) \/ rw_tryupgrade(t, l)
      PROVE  Abs!ANext \/ UNCHANGED Abs!avars
  <2>1. CASE ExitDrop(t, l)
    BY <2>1, DropReleases DEF Abs!ANext
  <2>2. CASE ExitFinal(t, l)
    BY <2>2, HiddenCalls
  <2>3. CASE rw_downgrade(t, l)
    BY <2>3, DowngradeDowngrades DEF Abs!ANext
  <2>4. CASE rw_tryupgrade(t, l)
    BY <2>4, TryUpgrades DEF Abs!ANext
  <2> QED BY <1>3, <2>1, <2>2, <2>3, <2>4 DEF rw_exit
<1>4. ASSUME NEW l \in Destroyable, rw_destroy(l) \/ rw_init(l)
      PROVE  Abs!ANext \/ UNCHANGED Abs!avars
  BY <1>4, HiddenLocks, RWLockAssumption
<1>5. ASSUME NEW t \in Threads, NEW p \in Priorities, ChangePri(t, p)
      PROVE  Abs!ANext \/ UNCHANGED Abs!avars
  BY <1>5, HiddenPriority
<1>6. CASE UNCHANGED vars
  BY <1>6, StutterAbs
<1> QED BY <1>1, <1>2, <1>3, <1>4, <1>5, <1>6 DEF Next

(* Implements: whatever the words, queues, turnstiles and wakeups of       *)
(* rwlock.c and turnstil.c do in between, its callers see the abstract     *)
(* locks: a hold is granted only beside compatible ones, a lock is only    *)
(* waited for while it is held, a release never leaves waiters behind a    *)
(* free lock, and the last holder passes the lock on as the policy says.   *)
THEOREM Refinement == Spec => Implements
<1>1. Init => Abs!AInit
  BY InitAbs
<1>2. Spec => []IInv
  BY InductiveInvariant
<1>3. IInv /\ IInv' /\ [Next]_vars => [Abs!ANext]_(Abs!avars)
  BY NextAbs
<1> QED BY <1>1, <1>2, <1>3, PTL DEF Spec, Implements, Abs!ASpec
=============================================================================
