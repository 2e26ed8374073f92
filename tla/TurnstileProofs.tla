-------------------------- MODULE TurnstileProofs --------------------------
(***************************************************************************)
(* Facts about the turnstile operations, for the proofs of their clients.  *)
(***************************************************************************)
EXTENDS Turnstile, SleepQProofs

(* A priority that may be inherited: one that is assigned, or none.        *)
Inheritable == Priorities \cup {0}

LEMMA PrioType ==
    ASSUME NEW pri \in [Threads -> Priorities],
           NEW epri \in [Threads -> Inheritable], NEW t \in Threads
    PROVE  Prio(pri, epri)[t] \in Priorities /\ Prio(pri, epri)[t] \in Nat
<1>1. Prio(pri, epri)[t] = IF epri[t] > 0 THEN epri[t] ELSE pri[t]
  BY DEF Prio
<1>2. pri[t] \in Priorities /\ (epri[t] \in Priorities \/ epri[t] = 0)
  BY DEF Inheritable
<1>3. Priorities \subseteq Nat
  BY TurnstileAssumption
<1>4. Prio(pri, epri)[t] \in Priorities
  BY <1>1, <1>2
<1> QED BY <1>3, <1>4

(* DISP_PRIO of a thread, and of the first thread of a queue.              *)
LEMMA DispPrioType ==
    ASSUME TurnstileTypeOK
    PROVE  /\ \A t \in Threads : DISP_PRIO[t] \in Priorities
           /\ \A t \in Threads : DISP_PRIO[t] \in Nat
           /\ \A q \in Seq(Threads) : HeadPrio(q) \in Inheritable
<1>1. \A t \in Threads : DISP_PRIO[t] \in Priorities /\ DISP_PRIO[t] \in Nat
  BY PrioType DEF TurnstileTypeOK, DISP_PRIO, Inheritable
<1>2. ASSUME NEW q \in Seq(Threads) PROVE HeadPrio(q) \in Inheritable
  <2>1. CASE q = <<>>
    BY <2>1 DEF HeadPrio, Inheritable
  <2>2. CASE q # <<>>
    BY <2>2, <1>1, HeadTailProperties DEF HeadPrio, Inheritable
  <2> QED BY <2>1, <2>2
<1> QED BY <1>1, <1>2

(* The priority turnstile_pi_waive leaves its caller with.                 *)
LEMMA MaxOfType ==
    ASSUME NEW S \in SUBSET Inheritable, S # {}
    PROVE  MaxOf(S) \in Inheritable
<1>1. IsFiniteSet(Inheritable) /\ Inheritable \subseteq Nat
  BY TurnstileAssumption, FS_AddElement DEF Inheritable
<1>2. IsFiniteSet(S) /\ S \in SUBSET Nat
  BY <1>1, FS_Subset
<1>3. \E x \in S : \A y \in S : y <= x
  BY <1>2, MaxExists
<1> QED BY <1>3 DEF MaxOf

(* The queues sp are ts_sleepq but for the place of thread t in its own.   *)
Requeued(t, sp) ==
    /\ sp \in [Turnstiles -> [Queues -> Seq(Threads)]]
    /\ \A ts \in Turnstiles, q \in Queues :
          /\ Len(sp[ts][q]) = Len(ts_sleepq[ts][q])
          /\ Elems(sp[ts][q]) = Elems(ts_sleepq[ts][q])
          /\ NoDup(sp[ts][q])
    /\ \A ts \in Turnstiles : ts # t_ts[t] => sp[ts] = ts_sleepq[ts]

AllNoDup == \A ts \in Turnstiles, q \in Queues : NoDup(ts_sleepq[ts][q])

LEMMA NotRequeued ==
    ASSUME TurnstileTypeOK, AllNoDup, NEW t
    PROVE  Requeued(t, ts_sleepq)
BY DEF TurnstileTypeOK, AllNoDup, Requeued

(* turnstile_change_pri loses nobody and invents nobody.                   *)
LEMMA ChangePriRequeues ==
    ASSUME TurnstileTypeOK, AllNoDup, NEW t \in Threads, NEW prio,
           \E q \in Queues : t \in Elems(ts_sleepq[t_ts[t]][q])
    PROVE  Requeued(t, turnstile_change_pri(t, prio))
<1> DEFINE ts == t_ts[t]
           q  == IF t \in Elems(ts_sleepq[ts]["W"]) THEN "W" ELSE "R"
           old == ts_sleepq[ts][q]
           out == sleepq_dequeue(old, t)
           new == sleepq_insert(out, t, prio)
           sp == turnstile_change_pri(t, prio)
<1>1. ts \in Turnstiles /\ q \in Queues /\ old \in Seq(Threads)
  BY DEF TurnstileTypeOK, Queues
<1>2. t \in Elems(old) /\ NoDup(old)
  BY <1>1 DEF Queues, AllNoDup
<1>3. sp = [ts_sleepq EXCEPT ![ts][q] = new]
  BY DEF turnstile_change_pri
<1> HIDE DEF ts, q, sp
<1>4. out \in Seq(Threads) /\ Len(out) = Len(old) - 1
      /\ Elems(out) = Elems(old) \ {t} /\ NoDup(out)
  <2> HIDE DEF old
  <2> QED BY <1>1, <1>2, DequeueQueue
<1>5. new \in Seq(Threads) /\ Len(new) = Len(old)
      /\ Elems(new) = Elems(old) /\ NoDup(new)
  <2> HIDE DEF out
  <2>1. new \in Seq(Threads) /\ Len(new) = Len(out) + 1
        /\ Elems(new) = Elems(out) \cup {t} /\ NoDup(new)
    BY <1>4, InsertQueue
  <2>2. Len(old) \in Nat
    BY <1>1, LenProperties
  <2> QED BY <2>1, <2>2, <1>2, <1>4
<1> HIDE DEF new
<1>6. sp \in [Turnstiles -> [Queues -> Seq(Threads)]]
  BY <1>1, <1>3, <1>5 DEF TurnstileTypeOK
<1>7. ASSUME NEW x \in Turnstiles, NEW y \in Queues
      PROVE  /\ Len(sp[x][y]) = Len(ts_sleepq[x][y])
             /\ Elems(sp[x][y]) = Elems(ts_sleepq[x][y])
             /\ NoDup(sp[x][y])
  <2>1. CASE x = ts /\ y = q
    BY <2>1, <1>1, <1>3, <1>5 DEF TurnstileTypeOK
  <2>2. CASE ~(x = ts /\ y = q)
    <3>1. sp[x][y] = ts_sleepq[x][y]
      BY <2>2, <1>1, <1>3 DEF TurnstileTypeOK
    <3> QED BY <3>1 DEF AllNoDup
  <2> QED BY <2>1, <2>2
<1>8. \A x \in Turnstiles : x # ts => sp[x] = ts_sleepq[x]
  BY <1>1, <1>3 DEF TurnstileTypeOK
<1> QED BY <1>6, <1>7, <1>8 DEF Requeued, sp, ts

(* ... and keeps the queues in the order of the new priorities.            *)
LEMMA ChangePriSorted ==
    ASSUME TurnstileTypeOK, AllNoDup, NEW t \in Threads, NEW old, NEW new,
           \A x \in Threads : new[x] \in Nat,
           \A x \in Threads : x # t => new[x] = old[x],
           \A ts \in Turnstiles, q \in Queues : Sorted(ts_sleepq[ts][q], old),
           \E q \in Queues : t \in Elems(ts_sleepq[t_ts[t]][q]),
           \A ts \in Turnstiles, x, y \in Queues :
              t \in Elems(ts_sleepq[ts][x]) /\ t \in Elems(ts_sleepq[t_ts[t]][y])
                 => ts = t_ts[t] /\ x = y
    PROVE  \A ts \in Turnstiles, q \in Queues :
              Sorted(turnstile_change_pri(t, new)[ts][q], new)
<1>1. PICK ts \in Turnstiles : ts = t_ts[t]
  BY DEF TurnstileTypeOK
<1>2. PICK q \in Queues : q = IF t \in Elems(ts_sleepq[ts]["W"]) THEN "W" ELSE "R"
  BY DEF Queues
<1>3. PICK sq \in Seq(Threads) : sq = ts_sleepq[ts][q]
  BY DEF TurnstileTypeOK
<1>4. t \in Elems(sq) /\ NoDup(sq) /\ Sorted(sq, old)
  BY <1>1, <1>2, <1>3 DEF Queues, AllNoDup
<1>5. PICK out \in Seq(Threads) : out = sleepq_dequeue(sq, t)
  BY <1>4, DequeueQueue
<1>6. Elems(out) = Elems(sq) \ {t} /\ Sorted(out, old)
  BY <1>4, <1>5, DequeueQueue, DequeueSorted
<1>7. \A s \in Seq(Threads) : Elems(s) \subseteq Threads
  <2>1. ASSUME NEW s \in Seq(Threads) PROVE Elems(s) \subseteq Threads
    BY <2>1, ElementOfSeq, LenProperties DEF Elems
  <2> QED BY <2>1
<1>8. Sorted(out, new)
  <2>1. \A x \in Elems(out) : new[x] = old[x]
    BY <1>6, <1>7
  <2> QED BY <1>6, <2>1, SortedSame
<1>9. Sorted(sleepq_insert(out, t, new), new)
  BY <1>8, InsertSorted
<1>10. turnstile_change_pri(t, new) =
          [ts_sleepq EXCEPT ![ts][q] = sleepq_insert(out, t, new)]
  BY <1>1, <1>2, <1>3, <1>5 DEF turnstile_change_pri
<1>11. ASSUME NEW x \in Turnstiles, NEW y \in Queues
       PROVE  Sorted(turnstile_change_pri(t, new)[x][y], new)
  <2>1. CASE x = ts /\ y = q
    BY <1>9, <1>10, <2>1 DEF TurnstileTypeOK
  <2>2. CASE ~(x = ts /\ y = q)
    <3>1. turnstile_change_pri(t, new)[x][y] = ts_sleepq[x][y]
      BY <1>10, <2>2 DEF TurnstileTypeOK
    <3>2. t \notin Elems(ts_sleepq[x][y])
      BY <1>1, <1>3, <1>4, <2>2
    <3>3. Elems(ts_sleepq[x][y]) \subseteq Threads
      BY <1>7 DEF TurnstileTypeOK
    <3>4. \A z \in Elems(ts_sleepq[x][y]) : new[z] = old[z]
      BY <3>2, <3>3
    <3> QED BY <3>1, <3>4, SortedSame
  <2> QED BY <2>1, <2>2
<1> QED BY <1>11
(* What the class leaves behind as a thread goes to sleep or is woken.     *)
LEMMA ClassPriIs ==
    ASSUME TurnstileTypeOK, NEW t \in Threads, NEW pri \in ClassPri(t)
    PROVE  /\ pri \in [Threads -> Priorities]
           /\ \A u \in Threads : u # t =>
                 pri[u] = t_pri[u] /\ Prio(pri, t_epri)[u] = DISP_PRIO[u]
           /\ DynamicPri = FALSE => pri = t_pri
<1>1. PICK p \in Priorities : pri = [t_pri EXCEPT ![t] = p]
                            /\ (DynamicPri = FALSE => p = t_pri[t])
  BY TurnstileAssumption DEF ClassPri, TurnstileTypeOK
<1> QED BY <1>1 DEF TurnstileTypeOK, DISP_PRIO, Prio

-----------------------------------------------------------------------------
(* The books of priority inheritance.                                      *)
Books == ListInv /\ AmountInv /\ SourceInv

LEMMA BooksKept ==
    ASSUME Books, UNCHANGED <<pi_vars, t_pri>> PROVE Books'
BY DEF Books, ListInv, AmountInv, SourceInv, pi_vars, DISP_PRIO

LEMMA PrioNumbers ==
    ASSUME TurnstileTypeOK
    PROVE  /\ \A t \in Threads : t_pri[t] \in Nat /\ t_epri[t] \in Nat
           /\ \A ts \in Turnstiles : ts_epri[ts] \in Nat
           /\ Inheritable \subseteq Nat
<1>1. Inheritable \subseteq Nat /\ Priorities \subseteq Nat
  BY TurnstileAssumption DEF Inheritable
<1>2. \A t \in Threads : t_pri[t] \in Priorities /\ t_epri[t] \in Inheritable
  BY DEF TurnstileTypeOK, Inheritable
<1>3. \A ts \in Turnstiles : ts_epri[ts] \in Inheritable
  BY DEF TurnstileTypeOK, Inheritable
<1> QED BY <1>1, <1>2, <1>3

LEMMA DispPrioOf ==
    ASSUME NEW t \in Threads
    PROVE  DISP_PRIO[t] = IF t_epri[t] > 0 THEN t_epri[t] ELSE t_pri[t]
BY DEF DISP_PRIO, Prio

(* The effective priority is never below the assigned one.                 *)
LEMMA AtLeastAssigned ==
    ASSUME TurnstileTypeOK, Books, NEW t \in Threads
    PROVE  t_pri[t] <= DISP_PRIO[t] /\ t_pri[t] \in Nat /\ DISP_PRIO[t] \in Nat
<1>1. t_pri[t] \in Nat /\ t_epri[t] \in Nat
  BY PrioNumbers
<1>2. t_epri[t] # 0 => t_pri[t] < t_epri[t]
  BY DEF Books, SourceInv, AmountInv
<1> QED BY <1>1, <1>2, DispPrioOf

(* What turnstile_pi_inherit and the change of the inheritor's priority    *)
(* that follows do for a turnstile that nobody else inherits from.         *)
Inherits(ts, i, e) ==
    /\ turnstile_pi_inherit(t_pri, ts, i, e)
    /\ t_epri' = [t_epri EXCEPT ![i] = IF RaisesPrio(t_pri, i, e) THEN e ELSE @]
    /\ UNCHANGED t_pri

(* What it leaves behind.                                                  *)
Inherited(ts, i, e) ==
    /\ \A x \in Turnstiles : x # ts =>
          ts_inheritor'[x] = ts_inheritor[x] /\ ts_epri'[x] = ts_epri[x]
    /\ \A u \in Threads : u # i => DISP_PRIO'[u] = DISP_PRIO[u]
    /\ \A u \in Threads : DISP_PRIO'[u] >= DISP_PRIO[u]
    /\ ~Inverted(t_pri, i, e) => UNCHANGED <<ts_inheritor, ts_epri>>
    /\ Inverted(t_pri, i, e) =>
          /\ ts_inheritor'[ts] = i /\ ts_epri'[ts] >= e
          /\ \/ ts_epri'[ts] = e
             \/ ts_inheritor[ts] = i /\ ts_epri'[ts] = ts_epri[ts]
          /\ ts_inheritor[ts] = i => ts_epri'[ts] >= ts_epri[ts]

LEMMA InheritBooks ==
    ASSUME TurnstileTypeOK, Books, NEW ts \in Turnstiles, NEW i \in Threads,
           NEW e \in Inheritable, ts_inheritor[ts] \in {NULL, i}, Inherits(ts, i, e)
    PROVE  Books' /\ Inherited(ts, i, e)
<1> USE TurnstileAssumption
<1>1. /\ e \in Nat
      /\ \A u \in Threads : t_pri[u] \in Nat /\ t_epri[u] \in Nat
      /\ \A x \in Turnstiles : ts_epri[x] \in Nat
  BY PrioNumbers
<1>2. PICK d \in Nat : d = DISP_PRIO[i] /\ t_pri[i] <= d
  BY AtLeastAssigned
<1>3. /\ d = IF t_epri[i] > 0 THEN t_epri[i] ELSE t_pri[i]
      /\ \A u \in Threads :
            DISP_PRIO'[u] = IF t_epri'[u] > 0 THEN t_epri'[u] ELSE t_pri[u]
  BY <1>2, DispPrioOf DEF DISP_PRIO, Prio, Inherits
<1>4. \A u \in Threads : u # i => t_epri'[u] = t_epri[u]
  BY DEF Inherits, TurnstileTypeOK
<1>5. t_epri'[i] = IF e > t_pri[i] /\ e > d THEN e ELSE t_epri[i]
  BY <1>2 DEF Inherits, RaisesPrio, Inverted, TurnstileTypeOK, DISP_PRIO
<1>6. PICK dn \in Nat : dn = DISP_PRIO'[i] /\ dn = IF e > t_pri[i] /\ e > d THEN e ELSE d
  BY <1>1, <1>3, <1>5
<1>7. \A u \in Threads : u # i => DISP_PRIO'[u] = DISP_PRIO[u]
  BY <1>3, <1>4, DispPrioOf
<1>8. \A u \in Threads : DISP_PRIO'[u] >= DISP_PRIO[u]
  <2>1. \A u \in Threads : DISP_PRIO[u] \in Nat
    BY DispPrioType
  <2>2. DISP_PRIO'[i] >= DISP_PRIO[i]
    BY <1>1, <1>2, <1>6
  <2>3. \A u \in Threads : DISP_PRIO[u] >= DISP_PRIO[u]
    BY <2>1
  <2> QED BY <1>7, <2>2, <2>3
<1>9. CASE ~Inverted(t_pri, i, e)
  <2>1. UNCHANGED <<ts_inheritor, ts_epri, t_prioinv>> /\ ~(e > t_pri[i])
    BY <1>9 DEF Inherits, turnstile_pi_inherit, Inverted
  <2>2. t_epri' = t_epri
    BY <1>4, <1>5, <2>1 DEF Inherits, TurnstileTypeOK
  <2>3. Books'
    BY <2>1, <2>2, BooksKept DEF pi_vars, Inherits
  <2> QED BY <1>7, <1>8, <1>9, <2>1, <2>3 DEF Inherited
<1>10. CASE Inverted(t_pri, i, e)
  <2>1. e > t_pri[i]
    BY <1>10 DEF Inverted
  <2>2. /\ ts_inheritor'[ts] = i
        /\ \A x \in Turnstiles : x # ts =>
              ts_inheritor'[x] = ts_inheritor[x] /\ ts_epri'[x] = ts_epri[x]
        /\ \A x \in Turnstiles : x # ts => \A u \in Threads :
              x \in t_prioinv'[u] <=> x \in t_prioinv[u]
        /\ \A u \in Threads : ts \in t_prioinv'[u] <=> u = i
        /\ ts_epri'[ts] = IF ts_inheritor[ts] = i /\ ts_epri[ts] >= e
                          THEN ts_epri[ts] ELSE e
    <3>1. CASE ts_inheritor[ts] = NULL
      <4>1. /\ ts_inheritor' = [ts_inheritor EXCEPT ![ts] = i]
            /\ ts_epri' = [ts_epri EXCEPT ![ts] = e]
            /\ t_prioinv' = [t_prioinv EXCEPT ![i] = @ \cup {ts}]
        BY <1>10, <3>1 DEF Inherits, turnstile_pi_inherit
      <4>2. \A u \in Threads : ts \notin t_prioinv[u]
        BY <3>1 DEF Books, ListInv
      <4> QED BY <3>1, <4>1, <4>2 DEF TurnstileTypeOK
    <3>2. CASE ts_inheritor[ts] = i
      <4>1. /\ UNCHANGED <<ts_inheritor, t_prioinv>>
            /\ ts_epri' = [ts_epri EXCEPT ![ts] = IF @ < e THEN e ELSE @]
        BY <1>10, <3>2 DEF Inherits, turnstile_pi_inherit
      <4>2. \A u \in Threads : ts \in t_prioinv[u] <=> u = i
        BY <3>2 DEF Books, ListInv
      <4>3. ts_epri'[ts] = IF ts_epri[ts] < e THEN e ELSE ts_epri[ts]
        BY <4>1 DEF TurnstileTypeOK
      <4>4. \A x \in Turnstiles : x # ts => ts_epri'[x] = ts_epri[x]
        BY <4>1 DEF TurnstileTypeOK
      <4> QED BY <1>1, <3>2, <4>1, <4>2, <4>3, <4>4
    <3> QED BY <3>1, <3>2
  <2>3. PICK o \in Nat, n \in Nat : o = ts_epri[ts] /\ n = ts_epri'[ts]
    BY <1>1, <2>2
  <2>4. /\ n >= e /\ (n = e \/ (ts_inheritor[ts] = i /\ n = o))
        /\ ts_inheritor[ts] = i => n >= o
    BY <1>1, <2>2, <2>3
  <2>5. ListInv'
    BY <2>2 DEF Books, ListInv
  <2>6. \A x \in Turnstiles : ts_inheritor[x] = i =>
           t_pri[i] < ts_epri[x] /\ ts_epri[x] <= d
    BY <1>2 DEF Books, AmountInv
  <2>7. AmountInv'
    <3>1. SUFFICES ASSUME NEW x \in Turnstiles, NEW u \in Threads,
                          ts_inheritor'[x] = u
                   PROVE  t_pri[u] < ts_epri'[x] /\ ts_epri'[x] <= DISP_PRIO'[u]
      BY DEF AmountInv, Inherits
    <3>2. CASE x = ts
      <4>1. u = i
        BY <2>2, <3>1, <3>2
      <4>2. n = o /\ ts_inheritor[ts] = i => n <= d
        BY <2>3, <2>6
      <4>3. n <= dn /\ t_pri[i] < n
        BY <1>1, <1>2, <1>6, <2>1, <2>3, <2>4, <4>2
      <4> QED BY <1>6, <2>3, <3>2, <4>1, <4>3
    <3>3. CASE x # ts
      <4>1. ts_inheritor[x] = u /\ ts_epri'[x] = ts_epri[x]
        BY <2>2, <3>1, <3>3
      <4>2. t_pri[u] < ts_epri[x] /\ ts_epri[x] <= DISP_PRIO[u]
        BY <4>1 DEF Books, AmountInv
      <4>3. DISP_PRIO[u] <= DISP_PRIO'[u] /\ DISP_PRIO[u] \in Nat
        BY <1>8, DispPrioType
      <4>4. DISP_PRIO'[u] \in Nat
        BY <1>6, <1>7, <4>3
      <4> QED BY <1>1, <4>1, <4>2, <4>3, <4>4
    <3> QED BY <3>2, <3>3
  <2>8. SourceInv'
    <3>1. SUFFICES ASSUME NEW u \in Threads, t_epri'[u] # 0
                   PROVE  \E x \in Turnstiles :
                             ts_inheritor'[x] = u /\ ts_epri'[x] = t_epri'[u]
      BY DEF SourceInv
    <3>2. CASE u # i
      <4>1. PICK x \in Turnstiles : ts_inheritor[x] = u /\ ts_epri[x] = t_epri[u]
        BY <1>4, <3>1, <3>2 DEF Books, SourceInv
      <4>2. x # ts
        BY <3>2, <4>1
      <4> QED BY <1>4, <2>2, <3>2, <4>1, <4>2
    <3>3. CASE u = i /\ e > d
      <4>1. t_epri'[i] = e
        BY <1>5, <2>1, <3>3
      <4>2. n = e
        BY <1>1, <2>3, <2>4, <2>6, <3>3
      <4> QED BY <2>2, <2>3, <3>3, <4>1, <4>2
    <3>4. CASE u = i /\ ~(e > d)
      <4>1. t_epri'[i] = t_epri[i]
        BY <1>5, <3>4
      <4>2. PICK x \in Turnstiles : ts_inheritor[x] = i /\ ts_epri[x] = t_epri[i]
        BY <3>1, <3>4, <4>1 DEF Books, SourceInv
      <4>3. d = t_epri[i]
        BY <1>1, <1>3, <3>1, <3>4, <4>1
      <4>4. CASE x = ts
        BY <1>1, <1>2, <2>2, <2>3, <3>4, <4>1, <4>2, <4>3, <4>4
      <4>5. CASE x # ts
        BY <2>2, <3>4, <4>1, <4>2, <4>5
      <4> QED BY <4>4, <4>5
    <3> QED BY <3>2, <3>3, <3>4
  <2>9. Inherited(ts, i, e)
    BY <1>7, <1>8, <1>10, <2>2, <2>3, <2>4 DEF Inherited
  <2> QED BY <2>5, <2>7, <2>8, <2>9 DEF Books
<1> QED BY <1>9, <1>10

(* turnstile_pi_waive: the inheritor is left with the best of the others.  *)
LEMMA MaxOfIs ==
    ASSUME NEW S \in SUBSET Inheritable, S # {}
    PROVE  MaxOf(S) \in S /\ \A y \in S : y <= MaxOf(S)
<1>1. IsFiniteSet(Inheritable) /\ Inheritable \subseteq Nat
  BY TurnstileAssumption, FS_AddElement DEF Inheritable
<1>2. IsFiniteSet(S) /\ S \in SUBSET Nat
  BY <1>1, FS_Subset
<1>3. \E x \in S : \A y \in S : y <= x
  BY <1>2, MaxExists
<1> QED BY <1>3 DEF MaxOf

Waived(ts, i) ==
    /\ ts_inheritor'[ts] = NULL
    /\ \A x \in Turnstiles : x # ts =>
          ts_inheritor'[x] = ts_inheritor[x] /\ ts_epri'[x] = ts_epri[x]
    /\ \A u \in Threads : u # i => DISP_PRIO'[u] = DISP_PRIO[u]

LEMMA WaiveBooks ==
    ASSUME TurnstileTypeOK, Books, NEW ts \in Turnstiles, NEW i \in Threads,
           ts_inheritor[ts] = i, turnstile_pi_waive(ts), UNCHANGED t_pri
    PROVE  Books' /\ Waived(ts, i)
<1> USE TurnstileAssumption
<1>1. /\ \A u \in Threads : t_pri[u] \in Nat /\ t_epri[u] \in Nat
      /\ \A x \in Turnstiles : ts_epri[x] \in Nat
  BY PrioNumbers
<1>2. PICK rest \in SUBSET Turnstiles : rest = t_prioinv[i] \ {ts}
  BY DEF TurnstileTypeOK
<1>3. PICK S \in SUBSET Inheritable : S = {0} \cup {ts_epri[x] : x \in rest}
  <2>1. {ts_epri[x] : x \in rest} \subseteq Inheritable
    BY DEF TurnstileTypeOK, Inheritable
  <2> QED BY <2>1 DEF Inheritable
<1>4. PICK m \in Inheritable : m = MaxOf(S)
  BY <1>3, MaxOfType
<1>5. /\ m \in Nat /\ (m = 0 \/ \E x \in rest : m = ts_epri[x])
      /\ \A x \in rest : ts_epri[x] <= m
  BY <1>3, <1>4, MaxOfIs, PrioNumbers
<1>6. PICK d \in Nat : d = DISP_PRIO[i] /\ t_pri[i] <= d
  BY AtLeastAssigned
<1>7. d = t_epri[i] /\ t_epri[i] > 0
  <2>1. t_pri[i] < ts_epri[ts] /\ ts_epri[ts] <= d
    BY <1>6 DEF Books, AmountInv
  <2>2. d = IF t_epri[i] > 0 THEN t_epri[i] ELSE t_pri[i]
    BY <1>6, DispPrioOf
  <2> QED BY <1>1, <2>1, <2>2
<1>8. /\ t_prioinv' = [t_prioinv EXCEPT ![i] = rest]
      /\ ts_inheritor' = [ts_inheritor EXCEPT ![ts] = NULL]
      /\ ts_epri' = [ts_epri EXCEPT ![ts] = 0]
      /\ t_epri' = [t_epri EXCEPT ![i] = m]
  <2>1. /\ t_prioinv' = [t_prioinv EXCEPT ![i] = rest]
        /\ ts_inheritor' = [ts_inheritor EXCEPT ![ts] = NULL]
        /\ ts_epri' = [ts_epri EXCEPT ![ts] = 0]
        /\ IF m # d THEN thread_change_epri(i, m) ELSE UNCHANGED <<t_epri, ts_sleepq>>
    BY <1>2, <1>3, <1>4, <1>6 DEF turnstile_pi_waive
  <2>2. CASE m = d
    BY <1>7, <2>1, <2>2 DEF TurnstileTypeOK
  <2>3. CASE m # d
    BY <2>1, <2>3 DEF thread_change_epri
  <2> QED BY <2>1, <2>2, <2>3
<1>9. /\ \A u \in Threads : u # i => t_epri'[u] = t_epri[u]
      /\ \A u \in Threads : u # i => t_prioinv'[u] = t_prioinv[u]
      /\ t_epri'[i] = m /\ t_prioinv'[i] = rest
      /\ ts_inheritor'[ts] = NULL
      /\ \A x \in Turnstiles : x # ts =>
            ts_inheritor'[x] = ts_inheritor[x] /\ ts_epri'[x] = ts_epri[x]
  BY <1>8 DEF TurnstileTypeOK
<1>10. \A u \in Threads :
          DISP_PRIO'[u] = IF t_epri'[u] > 0 THEN t_epri'[u] ELSE t_pri[u]
  BY DEF DISP_PRIO, Prio
<1>11. \A u \in Threads : u # i => DISP_PRIO'[u] = DISP_PRIO[u]
  BY <1>9, <1>10, DispPrioOf
<1>12. \A x \in Turnstiles : x \in rest <=> x # ts /\ ts_inheritor[x] = i
  BY <1>2 DEF Books, ListInv
<1>13. ListInv'
  BY <1>9, <1>12 DEF Books, ListInv
<1>14. AmountInv'
  <2>1. SUFFICES ASSUME NEW x \in Turnstiles, NEW u \in Threads,
                        ts_inheritor'[x] = u
                 PROVE  t_pri[u] < ts_epri'[x] /\ ts_epri'[x] <= DISP_PRIO'[u]
    BY DEF AmountInv
  <2>2. x # ts /\ ts_inheritor[x] = u /\ ts_epri'[x] = ts_epri[x]
    BY <1>9, <2>1
  <2>3. t_pri[u] < ts_epri[x] /\ ts_epri[x] <= DISP_PRIO[u]
    BY <2>2 DEF Books, AmountInv
  <2>4. CASE u # i
    BY <1>11, <2>2, <2>3, <2>4
  <2>5. CASE u = i
    <3>1. ts_epri[x] <= m
      BY <1>5, <1>12, <2>2, <2>5
    <3>2. m > 0
      BY <1>1, <1>5, <2>3, <2>5, <3>1
    <3>3. DISP_PRIO'[i] = m
      BY <1>9, <1>10, <3>2
    <3> QED BY <2>2, <2>3, <2>5, <3>1, <3>3
  <2> QED BY <2>4, <2>5
<1>15. SourceInv'
  <2>1. SUFFICES ASSUME NEW u \in Threads, t_epri'[u] # 0
                 PROVE  \E x \in Turnstiles :
                           ts_inheritor'[x] = u /\ ts_epri'[x] = t_epri'[u]
    BY DEF SourceInv
  <2>2. CASE u # i
    <3>1. PICK x \in Turnstiles : ts_inheritor[x] = u /\ ts_epri[x] = t_epri[u]
      BY <1>9, <2>1, <2>2 DEF Books, SourceInv
    <3> QED BY <1>9, <2>2, <3>1
  <2>3. CASE u = i
    <3>1. PICK x \in rest : m = ts_epri[x]
      BY <1>5, <1>9, <2>1, <2>3
    <3> QED BY <1>9, <1>12, <2>3, <3>1
  <2> QED BY <2>2, <2>3
<1> QED BY <1>9, <1>11, <1>13, <1>14, <1>15 DEF Books, Waived
=============================================================================
