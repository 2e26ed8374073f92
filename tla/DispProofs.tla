---------------------------- MODULE DispProofs ----------------------------
(***************************************************************************)
(* The invariants of the dispatcher hold for any sets of CPUs, threads,    *)
(* priorities and bindings.                                                *)
(***************************************************************************)
EXTENDS Disp, SleepQProofs

DispT == [q : [Priorities -> Seq(Threads)],
          maxrunpri : Priorities \cup {-1}, max_unbound_pri : Priorities \cup {-1}]

LEMMA PriNumbers == Priorities \subseteq Nat /\ \A p \in Priorities : p # -1
<1>1. Priorities \subseteq Nat
  BY DispAssumption DEF Priorities
<1> QED BY <1>1

LEMMA Emptiness ==
    ASSUME NEW T, NEW s \in Seq(T) PROVE s = <<>> <=> Elems(s) = {}
<1>1. DOMAIN s = 1..Len(s) /\ Len(s) \in Nat
  BY LenProperties
<1>2. Elems(s) = {} => Len(s) = 0
  <2>1. Len(s) # 0 => 1 \in DOMAIN s
    BY <1>1
  <2> QED BY <2>1 DEF Elems
<1>3. Len(s) = 0 => s = <<>>
  BY EmptySeq
<1>4. s = <<>> => Elems(s) = {}
  BY DEF Elems
<1> QED BY <1>2, <1>3, <1>4

(* The highest priority with a thread.                                     *)
LEMMA TopIs ==
    ASSUME NEW q \in [Priorities -> Seq(Threads)]
    PROVE  /\ Top(q) \in Priorities \cup {-1}
           /\ \A p \in Priorities : Elems(q[p]) # {} => p <= Top(q)
           /\ Top(q) # -1 => Elems(q[Top(q)]) # {}
<1> DEFINE active == {p \in DOMAIN q : q[p] # <<>>}
<1>1. active \in SUBSET Nat /\ IsFiniteSet(active) /\ active \subseteq Priorities
  <2>1. active \subseteq Priorities
    OBVIOUS
  <2> QED BY <2>1, PriNumbers, DispAssumption, FS_Subset
<1>2. \A p \in Priorities : Elems(q[p]) # {} <=> p \in active
  BY Emptiness
<1>3. CASE active = {}
  BY <1>2, <1>3 DEF Top
<1>4. CASE active # {}
  <2>1. \E x \in active : \A y \in active : y <= x
    BY <1>1, <1>4, MaxExists
  <2>2. \E x \in active : \A y \in active : x >= y
    BY <1>1, <2>1
  <2>3. Max(active) \in active /\ \A y \in active : Max(active) >= y
    BY <2>2 DEF Max
  <2>4. Top(q) = Max(active)
    BY <1>4 DEF Top
  <2> HIDE DEF active
  <2> QED BY <1>1, <1>2, <2>3, <2>4
<1> QED BY <1>3, <1>4

LEMMA TopOnly ==
    ASSUME NEW q \in [Priorities -> Seq(Threads)], NEW m \in Priorities \cup {-1},
           \A p \in Priorities : Elems(q[p]) # {} => p <= m,
           m # -1 => Elems(q[m]) # {}
    PROVE  Top(q) = m
<1>1. /\ Top(q) \in Priorities \cup {-1}
      /\ \A p \in Priorities : Elems(q[p]) # {} => p <= Top(q)
      /\ Top(q) # -1 => Elems(q[Top(q)]) # {}
  BY TopIs
<1>2. PICK n : n = Top(q)
  OBVIOUS
<1>3. n # -1 => n \in Nat /\ n <= m
  BY <1>1, <1>2, PriNumbers
<1>4. m # -1 => m \in Nat /\ m <= n
  BY <1>1, <1>2, PriNumbers
<1> QED BY <1>1, <1>2, <1>3, <1>4

LEMMA AppendThread ==
    ASSUME NEW T, NEW s \in Seq(T), NEW t \in T
    PROVE  /\ Append(s, t) \in Seq(T) /\ Elems(Append(s, t)) = Elems(s) \cup {t}
           /\ NoDup(s) /\ t \notin Elems(s) => NoDup(Append(s, t))
<1>1. /\ Len(s) \in Nat /\ DOMAIN s = 1..Len(s)
      /\ Append(s, t) \in Seq(T) /\ DOMAIN Append(s, t) = 1..(Len(s) + 1)
      /\ \A i \in 1..Len(s) : Append(s, t)[i] = s[i]
      /\ Append(s, t)[Len(s) + 1] = t
  BY LenProperties, AppendProperties
<1>2. Elems(Append(s, t)) = Elems(s) \cup {t}
  <2>1. ASSUME NEW y \in Elems(Append(s, t)) PROVE y \in Elems(s) \cup {t}
    BY <1>1 DEF Elems
  <2>2. Len(s) + 1 \in 1..(Len(s) + 1) /\ \A i \in 1..Len(s) : i \in 1..(Len(s) + 1)
    BY <1>1
  <2> QED BY <1>1, <2>1, <2>2 DEF Elems
<1>3. ASSUME NoDup(s), t \notin Elems(s) PROVE NoDup(Append(s, t))
  BY <1>1, <1>3 DEF NoDup, Elems
<1> QED BY <1>1, <1>2, <1>3

LEMMA PushThread ==
    ASSUME NEW T, NEW s \in Seq(T), NEW t \in T
    PROVE  /\ <<t>> \o s \in Seq(T) /\ Elems(<<t>> \o s) = Elems(s) \cup {t}
           /\ NoDup(s) /\ t \notin Elems(s) => NoDup(<<t>> \o s)
<1>1. PICK r : r = <<t>> \o s
  OBVIOUS
<1>2. /\ Len(s) \in Nat /\ DOMAIN s = 1..Len(s)
      /\ r \in Seq(T) /\ DOMAIN r = 1..(Len(s) + 1) /\ r[1] = t
      /\ \A i \in 2..(Len(s) + 1) : r[i] = s[i - 1]
  <2>1. <<t>> \in Seq(T) /\ Len(<<t>>) = 1 /\ <<t>>[1] = t
    OBVIOUS
  <2>2. /\ r \in Seq(T) /\ Len(r) = 1 + Len(s)
        /\ \A i \in 1..(1 + Len(s)) : r[i] = IF i <= 1 THEN <<t>>[i] ELSE s[i - 1]
    BY <1>1, <2>1, ConcatProperties
  <2>3. Len(s) \in Nat /\ DOMAIN s = 1..Len(s) /\ DOMAIN r = 1..Len(r)
    BY <2>2, LenProperties
  <2> QED BY <2>1, <2>2, <2>3
<1>3. Elems(r) = Elems(s) \cup {t}
  <2>1. ASSUME NEW y \in Elems(r) PROVE y \in Elems(s) \cup {t}
    <3>1. PICK i \in 1..(Len(s) + 1) : y = r[i]
      BY <1>2 DEF Elems
    <3>2. i = 1 \/ (i \in 2..(Len(s) + 1) /\ i - 1 \in 1..Len(s))
      BY <1>2
    <3> QED BY <1>2, <3>1, <3>2 DEF Elems
  <2>2. ASSUME NEW i \in 1..Len(s) PROVE s[i] \in Elems(r)
    <3>1. /\ i + 1 \in 2..(Len(s) + 1) /\ i + 1 \in 1..(Len(s) + 1)
          /\ (i + 1) - 1 = i
      BY <1>2
    <3>2. r[i + 1] = s[(i + 1) - 1]
      BY <1>2, <3>1
    <3>3. r[i + 1] = s[i]
      BY <3>1, <3>2
    <3> QED BY <1>2, <3>1, <3>3 DEF Elems
  <2>3. t \in Elems(r)
    <3>1. 1 \in 1..(Len(s) + 1)
      BY <1>2
    <3> QED BY <1>2, <3>1 DEF Elems
  <2> QED BY <1>2, <2>1, <2>2, <2>3 DEF Elems
<1>4. ASSUME NoDup(s), t \notin Elems(s) PROVE NoDup(r)
  <2>1. SUFFICES ASSUME NEW i \in 1..(Len(s) + 1), NEW j \in 1..(Len(s) + 1), r[i] = r[j]
                 PROVE  i = j
    BY <1>2 DEF NoDup
  <2>2. ASSUME NEW k \in 1..(Len(s) + 1), k # 1
        PROVE  k - 1 \in 1..Len(s) /\ r[k] = s[k - 1] /\ r[k] # t
    <3>1. k - 1 \in 1..Len(s) /\ k \in 2..(Len(s) + 1)
      BY <1>2, <2>2
    <3> QED BY <1>2, <1>4, <3>1 DEF Elems
  <2>3. i - 1 = j - 1 => i = j
    OBVIOUS
  <2> QED BY <1>2, <1>4, <2>1, <2>2, <2>3 DEF NoDup
<1> QED BY <1>1, <1>2, <1>3, <1>4

(* A thread is put on a queue ...                                          *)
LEMMA InsertIs ==
    ASSUME NEW d \in DispT, NEW t \in Threads, NEW p \in Priorities, NEW front,
           NEW unbound
    PROVE  LET r == Insert(d, t, p, front, unbound) IN
           /\ r \in DispT
           /\ \A x \in Priorities : x # p => r.q[x] = d.q[x]
           /\ Elems(r.q[p]) = Elems(d.q[p]) \cup {t}
           /\ NoDup(d.q[p]) /\ t \notin Elems(d.q[p]) => NoDup(r.q[p])
           /\ r.maxrunpri = IF d.q[p] = <<>> /\ p > d.maxrunpri THEN p ELSE d.maxrunpri
           /\ r.max_unbound_pri = IF unbound /\ p > d.max_unbound_pri THEN p
                                  ELSE d.max_unbound_pri
<1>1. PICK s \in Seq(Threads) : s = d.q[p]
  BY DEF DispT
<1>2. PICK n \in Seq(Threads) :
        /\ n = IF front THEN <<t>> \o s ELSE Append(s, t)
        /\ Elems(n) = Elems(s) \cup {t}
        /\ NoDup(s) /\ t \notin Elems(s) => NoDup(n)
  BY AppendThread, PushThread
<1>3. PICK q \in [Priorities -> Seq(Threads)] : q = [d.q EXCEPT ![p] = n]
  BY DEF DispT
<1>4. PICK m \in Priorities \cup {-1} :
         m = IF d.q[p] = <<>> /\ p > d.maxrunpri THEN p ELSE d.maxrunpri
  BY DEF DispT
<1>5. PICK u \in Priorities \cup {-1} :
         u = IF unbound /\ p > d.max_unbound_pri THEN p ELSE d.max_unbound_pri
  BY DEF DispT
<1>6. Insert(d, t, p, front, unbound) = [q |-> q, maxrunpri |-> m, max_unbound_pri |-> u]
  BY <1>1, <1>2, <1>3, <1>4, <1>5 DEF Insert
<1>7. q[p] = n /\ \A x \in Priorities : x # p => q[x] = d.q[x]
  BY <1>3 DEF DispT
<1>8. PICK r \in DispT : r = Insert(d, t, p, front, unbound)
  BY <1>6 DEF DispT
<1>9. r.q = q /\ r.maxrunpri = m /\ r.max_unbound_pri = u
  BY <1>6, <1>8
<1> QED BY <1>1, <1>2, <1>4, <1>5, <1>7, <1>8, <1>9

LEMMA WithoutIs ==
    ASSUME NEW s \in Seq(Threads), NEW t \in Elems(s), NoDup(s)
    PROVE  /\ Without(s, t) \in Seq(Threads) /\ NoDup(Without(s, t))
           /\ Elems(Without(s, t)) = Elems(s) \ {t}
<1>1. Without(s, t) = sleepq_dequeue(s, t)
  BY DEF Without, sleepq_dequeue
<1> QED BY <1>1, DequeueQueue

(* ... or taken from it.                                                   *)
LEMMA DispdeqIs ==
    ASSUME NEW d \in DispT, NEW p \in Priorities, NEW t \in Elems(d.q[p]),
           NoDup(d.q[p]), d.maxrunpri = Top(d.q)
    PROVE  LET r == Dispdeq(d, t, p) IN
           /\ r \in DispT
           /\ \A x \in Priorities : x # p => r.q[x] = d.q[x]
           /\ Elems(r.q[p]) = Elems(d.q[p]) \ {t} /\ NoDup(r.q[p])
           /\ r.maxrunpri = Top(r.q) /\ r.maxrunpri <= d.maxrunpri
           /\ r.max_unbound_pri = d.max_unbound_pri \/ r.max_unbound_pri = r.maxrunpri
<1>1. PICK n \in Seq(Threads) :
        n = Without(d.q[p], t) /\ NoDup(n) /\ Elems(n) = Elems(d.q[p]) \ {t}
  BY WithoutIs DEF DispT
<1>2. PICK q \in [Priorities -> Seq(Threads)] : q = [d.q EXCEPT ![p] = n]
  BY DEF DispT
<1>3. q[p] = n /\ \A x \in Priorities : x # p => q[x] = d.q[x]
  BY <1>2 DEF DispT
<1>4. q = [d.q EXCEPT ![p] = Without(@, t)]
  BY <1>1, <1>2
<1>5. PICK top \in Priorities \cup {-1} :
        /\ top = Top(q)
        /\ \A x \in Priorities : Elems(q[x]) # {} => x <= top
        /\ top # -1 => Elems(q[top]) # {}
  BY TopIs
<1>6. PICK m \in Priorities \cup {-1} :
        /\ m = d.maxrunpri
        /\ \A x \in Priorities : Elems(d.q[x]) # {} => x <= m
        /\ m # -1 => Elems(d.q[m]) # {}
  BY TopIs DEF DispT
<1>7. top <= m /\ m # -1
  <2>1. p <= m
    BY <1>6
  <2>2. m # -1
    BY <2>1, PriNumbers
  <2>3. top # -1 => Elems(d.q[top]) # {}
    BY <1>1, <1>3, <1>5
  <2>4. top = -1 => top <= m
    BY <2>2, PriNumbers
  <2> QED BY <1>6, <2>2, <2>3, <2>4
<1>8. CASE top # -1 /\ (q[p] # <<>> \/ p # d.maxrunpri)
  <2>1. Dispdeq(d, t, p) = [d EXCEPT !.q = q]
    BY <1>4, <1>5, <1>8 DEF Dispdeq
  <2>2. PICK r \in DispT : r = [d EXCEPT !.q = q]
    BY DEF DispT
  <2>3. r.q = q /\ r.maxrunpri = d.maxrunpri /\ r.max_unbound_pri = d.max_unbound_pri
    BY <2>2 DEF DispT
  <2>4. Top(q) = m
    <3>1. \A x \in Priorities : Elems(q[x]) # {} => x <= m
      BY <1>1, <1>3, <1>6
    <3>2. Elems(q[m]) # {}
      <4>1. p = m => q[p] # <<>>
        BY <1>6, <1>8
      <4>2. p = m => Elems(q[m]) # {}
        BY <4>1, Emptiness
      <4> QED BY <1>3, <1>6, <1>7, <4>2
    <3> QED BY <3>1, <3>2, TopOnly
  <2>5. m <= m
    BY PriNumbers
  <2> QED BY <1>1, <1>3, <1>6, <2>1, <2>2, <2>3, <2>4, <2>5
<1>9. CASE ~(top # -1 /\ (q[p] # <<>> \/ p # d.maxrunpri))
  <2>1. PICK u \in Priorities \cup {-1} :
           u = IF top < d.max_unbound_pri THEN top ELSE d.max_unbound_pri
    BY DEF DispT
  <2>2. Dispdeq(d, t, p) = [q |-> q, maxrunpri |-> top, max_unbound_pri |-> u]
    BY <1>4, <1>5, <1>9, <2>1 DEF Dispdeq
  <2> QED BY <1>1, <1>3, <1>5, <1>6, <1>7, <2>1, <2>2 DEF DispT
<1> QED BY <1>8, <1>9

LEMMA FixIs ==
    ASSUME NEW d \in DispT, NEW p
    PROVE  LET r == disp_fix_unbound_pri(d, p) IN
           /\ r \in DispT /\ r.q = d.q /\ r.maxrunpri = d.maxrunpri
           /\ \A x \in Priorities : x < p /\ Unbound(d.q[x]) # {} => r.max_unbound_pri >= x
<1> DEFINE S == {x \in Priorities : x < p /\ Unbound(d.q[x]) # {}}
           U == {-1} \cup S
<1>1. S \in SUBSET Nat /\ IsFiniteSet(S) /\ S \subseteq Priorities
  <2>1. S \subseteq Priorities
    OBVIOUS
  <2> QED BY <2>1, PriNumbers, DispAssumption, FS_Subset
<1>2. \E x \in U : \A y \in U : x >= y
  <2>1. CASE S = {}
    BY <2>1
  <2>2. CASE S # {}
    <3>1. PICK x \in S : \A y \in S : y <= x
      BY <1>1, <2>2, MaxExists
    <3>2. x \in Nat /\ \A y \in S : y \in Nat
      BY <1>1
    <3> HIDE DEF S
    <3> QED BY <3>1, <3>2
  <2> QED BY <2>1, <2>2
<1>3. PICK m \in U : m = Max(U) /\ \A y \in U : m >= y
  BY <1>2 DEF Max
<1>4. m \in Priorities \cup {-1}
  BY <1>1, <1>3
<1>5. PICK r : r = [d EXCEPT !.max_unbound_pri = m]
  OBVIOUS
<1>6. r \in DispT /\ r.q = d.q /\ r.maxrunpri = d.maxrunpri /\ r.max_unbound_pri = m
  BY <1>4, <1>5 DEF DispT
<1>7. disp_fix_unbound_pri(d, p) = r
  BY <1>3, <1>5 DEF disp_fix_unbound_pri
<1> QED BY <1>3, <1>6, <1>7
-----------------------------------------------------------------------------
DispQs == [Queues -> DispT]

(* The queues d hold the threads S, each once and where dq and pri say.    *)
Sound(d, S, dq, pri) ==
    /\ \A t \in S : /\ dq[t] \in Queues /\ pri[t] \in Priorities
                    /\ t \in Elems(d[dq[t]].q[pri[t]])
    /\ \A x \in Queues, p \in Priorities :
          /\ NoDup(d[x].q[p])
          /\ \A t \in Elems(d[x].q[p]) : t \in S /\ dq[t] = x /\ pri[t] = p
    /\ \A x \in Queues : d[x].maxrunpri = Top(d[x].q)

LEMMA SoundRemoved ==
    ASSUME NEW d \in DispQs, NEW S, NEW dq, NEW pri, Sound(d, S, dq, pri),
           NEW t \in S
    PROVE  LET n == [d EXCEPT ![dq[t]] = Dispdeq(@, t, pri[t])] IN
           /\ n \in DispQs /\ Sound(n, S \ {t}, dq, pri)
           /\ \A x \in Queues : n[x].maxrunpri <= d[x].maxrunpri
<1>1. PICK x \in Queues : x = dq[t]
  BY DEF Sound
<1>2. PICK p \in Priorities : p = pri[t]
  BY DEF Sound
<1>3. /\ d[x] \in DispT /\ t \in Elems(d[x].q[p]) /\ NoDup(d[x].q[p])
      /\ d[x].maxrunpri = Top(d[x].q)
  BY <1>1, <1>2 DEF Sound, DispQs
<1>4. PICK r \in DispT :
        /\ r = Dispdeq(d[x], t, p)
        /\ \A y \in Priorities : y # p => r.q[y] = d[x].q[y]
        /\ Elems(r.q[p]) = Elems(d[x].q[p]) \ {t} /\ NoDup(r.q[p])
        /\ r.maxrunpri = Top(r.q) /\ r.maxrunpri <= d[x].maxrunpri
  BY <1>3, DispdeqIs
<1>5. PICK n \in DispQs : n = [d EXCEPT ![x] = r]
  BY DEF DispQs
<1>6. n = [d EXCEPT ![dq[t]] = Dispdeq(@, t, pri[t])]
  BY <1>1, <1>2, <1>4, <1>5
<1>7. n[x] = r /\ \A y \in Queues : y # x => n[y] = d[y]
  BY <1>5 DEF DispQs
<1>8. \A u \in S \ {t} : /\ dq[u] \in Queues /\ pri[u] \in Priorities
                         /\ u \in Elems(n[dq[u]].q[pri[u]])
  <2>1. SUFFICES ASSUME NEW u \in S, u # t
                 PROVE  /\ dq[u] \in Queues /\ pri[u] \in Priorities
                        /\ u \in Elems(n[dq[u]].q[pri[u]])
    OBVIOUS
  <2>2. dq[u] \in Queues /\ pri[u] \in Priorities /\ u \in Elems(d[dq[u]].q[pri[u]])
    BY DEF Sound
  <2>3. CASE dq[u] = x /\ pri[u] = p
    BY <1>4, <1>7, <2>1, <2>2, <2>3
  <2>4. CASE dq[u] = x /\ pri[u] # p
    BY <1>4, <1>7, <2>2, <2>4
  <2>5. CASE dq[u] # x
    BY <1>7, <2>2, <2>5
  <2> QED BY <2>3, <2>4, <2>5
<1>9. \A y \in Queues, z \in Priorities :
         /\ NoDup(n[y].q[z])
         /\ \A u \in Elems(n[y].q[z]) : u \in S \ {t} /\ dq[u] = y /\ pri[u] = z
  BY <1>1, <1>2, <1>4, <1>7 DEF Sound
<1>10. \A y \in Queues : n[y].maxrunpri = Top(n[y].q) /\ n[y].maxrunpri <= d[y].maxrunpri
  <2>1. \A y \in Queues : d[y].maxrunpri <= d[y].maxrunpri
    <3>1. ASSUME NEW m \in Priorities \cup {-1} PROVE m <= m
      BY PriNumbers
    <3>2. \A y \in Queues : d[y].maxrunpri \in Priorities \cup {-1}
      BY DEF DispQs, DispT
    <3> QED BY <3>1, <3>2
  <2> QED BY <1>4, <1>7, <2>1 DEF Sound
<1>11. Sound(n, S \ {t}, dq, pri)
  BY <1>8, <1>9, <1>10 DEF Sound
<1> QED BY <1>5, <1>6, <1>10, <1>11

Higher(p, m) == IF p > m THEN p ELSE m
Moved(S, f, g, t, y) == g[t] = y /\ \A u \in S : g[u] = f[u]
Raised(d, n, x, p, unbound) ==
    /\ \A y \in Queues : y # x => n[y] = d[y]
    /\ n[x].maxrunpri = Higher(p, d[x].maxrunpri)
    /\ n[x].max_unbound_pri = IF unbound THEN Higher(p, d[x].max_unbound_pri)
                              ELSE d[x].max_unbound_pri
Placed(d, n, x, t, p, front, unbound) ==
    n = [d EXCEPT ![x] = Insert(@, t, p, front, unbound)]

(* A thread t that is on no queue is put on x with priority p.             *)
LEMMA Inserted ==
    ASSUME NEW d \in DispQs, NEW S, NEW dq, NEW pri, Sound(d, S, dq, pri),
           NEW t \in Threads, t \notin S, NEW x \in Queues, NEW p \in Priorities,
           NEW front, NEW unbound,
           NEW dqn, Moved(S, dq, dqn, t, x), NEW prin, Moved(S, pri, prin, t, p),
           NEW n, Placed(d, n, x, t, p, front, unbound)
    PROVE  n \in DispQs /\ Sound(n, S \cup {t}, dqn, prin) /\ Raised(d, n, x, p, unbound)
<1>1. PICK e \in DispT : e = d[x]
  BY DEF DispQs
<1>2. PICK r : r = Insert(e, t, p, front, unbound)
  OBVIOUS
<1>3. /\ r \in DispT
      /\ \A y \in Priorities : y # p => r.q[y] = e.q[y]
      /\ Elems(r.q[p]) = Elems(e.q[p]) \cup {t}
      /\ NoDup(e.q[p]) /\ t \notin Elems(e.q[p]) => NoDup(r.q[p])
      /\ r.maxrunpri = IF e.q[p] = <<>> /\ p > e.maxrunpri THEN p ELSE e.maxrunpri
      /\ r.max_unbound_pri = IF unbound /\ p > e.max_unbound_pri THEN p
                             ELSE e.max_unbound_pri
  BY <1>2, InsertIs
<1>4. n = [d EXCEPT ![x] = r]
  BY <1>1, <1>2 DEF Placed
<1>5. /\ \A y \in Priorities : y # p => r.q[y] = d[x].q[y]
      /\ Elems(r.q[p]) = Elems(d[x].q[p]) \cup {t}
      /\ NoDup(d[x].q[p]) /\ t \notin Elems(d[x].q[p]) => NoDup(r.q[p])
      /\ r.maxrunpri = IF d[x].q[p] = <<>> /\ p > d[x].maxrunpri THEN p
                       ELSE d[x].maxrunpri
  BY <1>1, <1>3
<1>6. n \in DispQs
  BY <1>3, <1>4 DEF DispQs
<1>7. n[x] = r /\ \A y \in Queues : y # x => n[y] = d[y]
  BY <1>4 DEF DispQs
<1>8. \A y \in Queues, z \in Priorities : t \notin Elems(d[y].q[z])
  BY DEF Sound
<1>9. PICK m \in Priorities \cup {-1} :
        /\ m = d[x].maxrunpri
        /\ \A z \in Priorities : Elems(d[x].q[z]) # {} => z <= m
        /\ m # -1 => Elems(d[x].q[m]) # {}
  <2>1. PICK q \in [Priorities -> Seq(Threads)] : q = d[x].q
    BY DEF DispQs, DispT
  <2>2. d[x].maxrunpri = Top(q)
    BY <2>1 DEF Sound
  <2> QED BY <2>1, <2>2, TopIs
<1>10. p \in Nat /\ (m \in Nat \/ m = -1)
  BY PriNumbers
<1>11. p > m => d[x].q[p] = <<>>
  <2>1. p > m => ~(p <= m)
    BY <1>10
  <2>2. p > m => Elems(d[x].q[p]) = {}
    BY <1>9, <2>1
  <2>3. d[x].q[p] \in Seq(Threads)
    BY <1>1 DEF DispT
  <2> QED BY <2>2, <2>3, Emptiness
<1>12. r.maxrunpri = IF p > m THEN p ELSE m
  BY <1>5, <1>9, <1>11
<1>13. r.maxrunpri = Top(r.q)
  <2>1. PICK k \in Priorities \cup {-1} : k = r.maxrunpri
    BY <1>3 DEF DispT
  <2>2. \A z \in Priorities : Elems(r.q[z]) # {} => z <= k
    <3>1. ASSUME NEW z \in Priorities, Elems(r.q[z]) # {} PROVE z <= k
      <4>1. z \in Nat /\ (k = p \/ k = m) /\ p <= k /\ m <= k
        BY <1>10, <1>12, <2>1, PriNumbers
      <4>2. z # p => z <= m
        BY <1>5, <1>9, <3>1
      <4> QED BY <1>10, <4>1, <4>2
    <3> QED BY <3>1
  <2>3. k # -1 => Elems(r.q[k]) # {}
    <3>1. Elems(r.q[p]) # {}
      BY <1>3
    <3>2. k # p => k = m
      BY <1>12, <2>1
    <3> QED BY <1>5, <1>9, <3>1, <3>2
  <2> QED BY <1>3, <2>1, <2>2, <2>3, TopOnly DEF DispT
<1>14. \A u \in S \cup {t} : /\ dqn[u] \in Queues /\ prin[u] \in Priorities
                            /\ u \in Elems(n[dqn[u]].q[prin[u]])
  <2>1. ASSUME NEW u \in S
        PROVE  /\ dq[u] \in Queues /\ pri[u] \in Priorities /\ u \in Elems(n[dq[u]].q[pri[u]])
    <3>1. dq[u] \in Queues /\ pri[u] \in Priorities /\ u \in Elems(d[dq[u]].q[pri[u]])
      BY DEF Sound
    <3> QED BY <1>5, <1>7, <3>1
  <2> QED BY <1>5, <1>7, <2>1 DEF Moved
<1>15. \A y \in Queues, z \in Priorities :
          /\ NoDup(n[y].q[z])
          /\ \A u \in Elems(n[y].q[z]) : u \in S \cup {t} /\ dqn[u] = y /\ prin[u] = z
  BY <1>5, <1>7, <1>8 DEF Sound, Moved
<1>16. \A y \in Queues : n[y].maxrunpri = Top(n[y].q)
  BY <1>7, <1>13 DEF Sound
<1>17. Sound(n, S \cup {t}, dqn, prin)
  BY <1>14, <1>15, <1>16 DEF Sound
<1> QED BY <1>1, <1>3, <1>6, <1>7, <1>9, <1>12, <1>17 DEF Higher, Raised
-----------------------------------------------------------------------------
Runnable == {t \in Threads : t_state[t] = "RUN"}
States == {"RUN", "ONPROC", "SLEEP"}

(* A CPU at label l has chosen a thread.                                   *)
Chosen(l) == l \in {"run", "spin", "ratify", "ratify_work", "ratify_idle",
                    "check", "check_work", "check_idle"}

Labels == {"swtch", "getbest", "own", "getwork", "idle_getwork", "idle", "run", "spin",
           "ratify", "ratify_work", "ratify_idle", "check", "check_work", "check_idle"}

QueueTypes ==
    /\ disp_q \in DispQs /\ kp_inserted \in Priorities \cup {-1}
    /\ inserted \in [Cpus -> Priorities \cup {-1}]
    /\ t_state \in [Threads -> States]
    /\ t_disp_queue \in [Threads -> Queues \cup {NULL}]
ThreadTypes ==
    /\ t_pri \in [Threads -> Priorities] /\ \A t \in Threads : t_pri[t] \in PriOf[t]
    /\ t_bound_cpu \in [Threads -> Cpus \cup {NULL}]
    /\ \A t \in Threads : t_bound_cpu[t] \in Bindings[t]
FlagTypes == cpu_runrun \in [Cpus -> BOOLEAN] /\ cpu_kprunrun \in [Cpus -> BOOLEAN]
CpuTypes ==
    /\ cpu_thread \in [Cpus -> Threads \cup {NULL}]
    /\ cpu_dispthread \in [Cpus -> Threads \cup {NULL}]
    /\ pc \in [Cpus -> Labels]
DispTypes == QueueTypes /\ ThreadTypes /\ FlagTypes /\ CpuTypes

QueueInv == Sound(disp_q, Runnable, t_disp_queue, t_pri)

(* A CPU that has chosen a thread has it for itself.                       *)
CpuInv ==
    /\ \A c \in Cpus : Chosen(pc[c]) /\ cpu_dispthread[c] # NULL =>
          t_state[cpu_dispthread[c]] = "ONPROC" /\ t_disp_queue[cpu_dispthread[c]] = c
    /\ \A c \in Cpus : pc[c] = "run" => cpu_thread[c] = cpu_dispthread[c]
    /\ \A c \in Cpus : pc[c] \in {"idle_getwork", "ratify_idle", "check_idle"} =>
          cpu_thread[c] = NULL
    /\ \A c \in Cpus : pc[c] = "idle_getwork" => cpu_dispthread[c] = NULL
    /\ \A c, d \in Cpus : cpu_thread[c] = cpu_thread[d] => c = d \/ cpu_thread[c] = NULL

DispInv == DispTypes /\ QueueInv /\ CpuInv

LEMMA DispInit == ASSUME Init PROVE DispInv
<1>1. NoThreads \in DispT
  <2>1. <<>> \in Seq(Threads)
    OBVIOUS
  <2>2. [p \in Priorities |-> <<>>] \in [Priorities -> Seq(Threads)]
    BY <2>1
  <2> QED BY <2>2 DEF NoThreads, DispT
<1>2. DispTypes
  <2>1. QueueTypes
    BY <1>1 DEF Init, QueueTypes, DispQs, States
  <2>2. ThreadTypes
    BY DEF Init, ThreadTypes
  <2>3. FlagTypes
    BY DEF Init, FlagTypes
  <2>4. CpuTypes
    BY DEF Init, CpuTypes, Labels
  <2> QED BY <2>1, <2>2, <2>3, <2>4 DEF DispTypes
<1>3. CpuInv
  BY DEF Init, CpuInv
<1>4. Runnable = {}
  BY DEF Init, Runnable
<1>5. \A x \in Queues, p \in Priorities :
         disp_q[x].q[p] = <<>> /\ disp_q[x] = NoThreads
  BY DEF Init, NoThreads
<1>6. NoDup(<<>>) /\ Elems(<<>>) = {}
  BY DEF NoDup, Elems
<1>7. \A x \in Queues : disp_q[x].maxrunpri = Top(disp_q[x].q)
  <2>1. PICK q \in [Priorities -> Seq(Threads)] : q = NoThreads.q
    BY <1>1 DEF DispT
  <2>2. \A p \in Priorities : Elems(q[p]) = {}
    BY <1>6, <2>1 DEF NoThreads
  <2>3. Top(q) = -1
    BY <2>2, TopOnly
  <2>4. \A x \in Queues : disp_q[x] = NoThreads
    BY DEF Init
  <2>5. NoThreads.maxrunpri = -1
    BY DEF NoThreads
  <2> QED BY <2>1, <2>3, <2>4, <2>5
<1>8. QueueInv
  BY <1>4, <1>5, <1>6, <1>7 DEF QueueInv, Sound
<1> QED BY <1>2, <1>3, <1>8 DEF DispInv

(* Threads that are not on a queue may change.                             *)
LEMMA SoundSame ==
    ASSUME NEW d \in DispQs, NEW S, NEW dq, NEW pri, Sound(d, S, dq, pri),
           NEW n, \A x \in Queues : n[x].q = d[x].q /\ n[x].maxrunpri = d[x].maxrunpri,
           NEW dqn, NEW prin, \A u \in S : dqn[u] = dq[u] /\ prin[u] = pri[u]
    PROVE  Sound(n, S, dqn, prin)
<1>1. \A t \in S : /\ dqn[t] \in Queues /\ prin[t] \in Priorities
                   /\ t \in Elems(n[dqn[t]].q[prin[t]])
  BY DEF Sound
<1>2. \A x \in Queues, p \in Priorities :
         /\ NoDup(n[x].q[p])
         /\ \A t \in Elems(n[x].q[p]) : t \in S /\ dqn[t] = x /\ prin[t] = p
  BY DEF Sound
<1>3. \A x \in Queues : n[x].maxrunpri = Top(n[x].q)
  BY DEF Sound
<1> QED BY <1>1, <1>2, <1>3 DEF Sound
-----------------------------------------------------------------------------
(* CPU c is asked to give up its thread, as far as one on its own queue or *)
(* on the shared queue outranks it.                                        *)
Answered(c) ==
    /\ \/ t_pri'[cpu_dispthread'[c]] >= disp_q'[c].maxrunpri
       \/ /\ cpu_runrun'[c]
          /\ disp_q'[c].maxrunpri >= kpreemptpri => cpu_kprunrun'[c]
    /\ \/ t_pri'[cpu_dispthread'[c]] >= disp_q'[kpq].maxrunpri
       \/ c \in lowered'
       \/ disp_q'[kpq].maxrunpri >= kpreemptpri => cpu_kprunrun'[c]

(* What a step does to CPU c's request for another thread: it keeps what   *)
(* was asked for, unless the CPU is about to choose or has nothing to run, *)
(* or the queues were looked at anew.                                      *)
Quiet(c) ==
    \/ pc'[c] \notin {"run", "spin"} \/ cpu_dispthread'[c] = NULL
    \/ /\ Decided(c) /\ cpu_dispthread'[c] = cpu_dispthread[c]
       /\ t_pri'[cpu_dispthread[c]] = t_pri[cpu_dispthread[c]]
       /\ cpu_runrun[c] => cpu_runrun'[c]
       /\ cpu_kprunrun[c] => cpu_kprunrun'[c]
       /\ c \in lowered => c \in lowered'
    \/ Answered(c)

(* Only a thread whose lock is still held raises the first priority of c's *)
(* queue, and the lock is dropped when it has been announced.              *)
Told(c) ==
    \/ /\ inserted'[c] = inserted[c]
       /\ \/ disp_q'[c].maxrunpri = disp_q[c].maxrunpri
          \/ inserted[c] = -1 /\ disp_q'[c].maxrunpri <= disp_q[c].maxrunpri
    \/ inserted'[c] # -1 /\ inserted'[c] = disp_q'[c].maxrunpri
    \/ /\ disp_q'[c].maxrunpri = disp_q[c].maxrunpri
       /\ inserted[c] # -1 /\ inserted'[c] = -1
       /\ Outranked(c, inserted[c]) =>
             /\ cpu_runrun'[c]
             /\ inserted[c] >= kpreemptpri => cpu_kprunrun'[c]

(* Only a thread whose lock is still held raises that of the shared queue. *)
KpStep ==
    \/ /\ kp_inserted' = kp_inserted
       /\ \/ disp_q'[kpq].maxrunpri = disp_q[kpq].maxrunpri
          \/ kp_inserted = -1 /\ disp_q'[kpq].maxrunpri <= disp_q[kpq].maxrunpri
    \/ /\ kp_inserted = -1 /\ kp_inserted' \in Nat /\ kp_inserted' >= kpqpri
       /\ \/ disp_q'[kpq].maxrunpri = kp_inserted'
          \/ disp_q'[kpq].maxrunpri <= disp_q[kpq].maxrunpri

HighStep ==
    \A t \in Threads : t_state'[t] = "RUN" /\ t_disp_queue'[t] = kpq =>
        \/ t_state[t] = "RUN" /\ t_disp_queue[t] = kpq /\ t_pri'[t] = t_pri[t]
        \/ t_pri'[t] >= kpqpri

LEMMA PriOrder ==
    ASSUME NEW a \in Priorities \cup {-1}, NEW b \in Priorities \cup {-1},
           NEW c \in Priorities \cup {-1}
    PROVE  /\ a <= a /\ (a <= b /\ b <= c => a <= c) /\ (a <= b \/ b < a)
           /\ (a > b <=> ~(a <= b)) /\ (a >= b <=> b <= a) /\ (a < b <=> b > a)
<1>1. a \in Int /\ b \in Int /\ c \in Int
  BY PriNumbers
<1> QED BY <1>1

(* The queues d are those of disp_q, some of whose threads are taken out.  *)
Below(d) ==
    \A x \in Queues : /\ d[x].maxrunpri <= disp_q[x].maxrunpri
                      /\ d[x] = disp_q[x] \/ Unlocked(x)

(* What a step that puts t on a queue does.                                *)
Enqueued(t) ==
    /\ QueueTypes' /\ FlagTypes' /\ QueueInv'
    /\ \A c \in Cpus : /\ cpu_runrun[c] => cpu_runrun'[c]
                       /\ cpu_kprunrun[c] => cpu_kprunrun'[c]
                       /\ Told(c)
    /\ KpStep /\ HighStep
    /\ t_state' = [t_state EXCEPT ![t] = "RUN"]
    /\ \E x \in Queues : t_disp_queue' = [t_disp_queue EXCEPT ![t] = x]

LEMMA EnqueueIs ==
    ASSUME DispTypes, NEW t \in Threads, NEW d \in DispQs,
           Sound(d, Runnable \ {t}, t_disp_queue, t_pri),
           NEW p \in Priorities, NEW b, NEW front, Enqueue(d, t, p, b, front),
           t_pri' = [t_pri EXCEPT ![t] = p]
    PROVE  \E x \in Queues, u \in BOOLEAN :
              /\ disp_q' \in DispQs /\ Raised(d, disp_q', x, p, u)
              /\ Sound(disp_q', (Runnable \ {t}) \cup {t}, t_disp_queue', t_pri')
              /\ t_disp_queue' = [t_disp_queue EXCEPT ![t] = x]
              /\ Unlocked(x) /\ UNCHANGED flagVars
              /\ \/ /\ x \in Cpus /\ (u <=> b = NULL)
                    /\ inserted' = [inserted EXCEPT ![x] = IF Tells(d, x, p) THEN p ELSE -1]
                    /\ kp_inserted' = kp_inserted
                 \/ /\ x = kpq /\ b = NULL /\ (u <=> d[kpq].q[p] = <<>>)
                    /\ p >= kpqpri
                    /\ kp_inserted' = p /\ inserted' = inserted
<1> DEFINE S == Runnable \ {t}
<1>1. t_pri'[t] = p /\ \A v \in S : t_pri'[v] = t_pri[v]
  BY DEF Runnable, DispTypes, ThreadTypes
<1>2. PICK x \in Queues, u \in BOOLEAN :
        /\ disp_q' = [d EXCEPT ![x] = Insert(@, t, p, front, u)]
        /\ t_disp_queue' = [t_disp_queue EXCEPT ![t] = x]
        /\ Unlocked(x) /\ UNCHANGED flagVars
        /\ \/ /\ x \in Cpus /\ (u <=> b = NULL)
              /\ inserted' = [inserted EXCEPT ![x] = IF Tells(d, x, p) THEN p ELSE -1]
              /\ kp_inserted' = kp_inserted
           \/ /\ x = kpq /\ b = NULL /\ (u <=> d[kpq].q[p] = <<>>)
              /\ p >= kpqpri
              /\ kp_inserted' = p /\ inserted' = inserted
  <2>0. UNCHANGED flagVars
    BY DEF Enqueue
  <2>1. CASE \E c \in Cpus :
            /\ b = c \/ (b = NULL /\ p < kpqpri)
            /\ Unlocked(c)
            /\ disp_q' = [d EXCEPT ![c] = Insert(@, t, p, front, b = NULL)]
            /\ t_disp_queue' = [t_disp_queue EXCEPT ![t] = c]
            /\ inserted' = [inserted EXCEPT ![c] = IF Tells(d, c, p) THEN p ELSE -1]
            /\ UNCHANGED kp_inserted
    BY <2>0, <2>1, Zenon DEF Queues
  <2>2. CASE /\ b = NULL /\ p >= kpqpri
             /\ Unlocked(kpq)
             /\ disp_q' = [d EXCEPT ![kpq] = InsertKp(@, t, p, front)]
             /\ t_disp_queue' = [t_disp_queue EXCEPT ![t] = kpq]
             /\ kp_inserted' = p
             /\ UNCHANGED inserted
    BY <2>0, <2>2, Zenon DEF Queues, InsertKp
  <2> QED BY <2>1, <2>2 DEF Enqueue
<1>3. t_disp_queue'[t] = x /\ \A v \in S : t_disp_queue'[v] = t_disp_queue[v]
  BY <1>2 DEF Runnable, DispTypes, QueueTypes
<1>4. PICK dqn : dqn = t_disp_queue'
  OBVIOUS
<1>5. PICK prin : prin = t_pri'
  OBVIOUS
<1>6. PICK n : n = disp_q'
  OBVIOUS
<1>7. PICK R : R = S
  OBVIOUS
<1>8. /\ Sound(d, R, t_disp_queue, t_pri) /\ t \notin R
      /\ Moved(R, t_disp_queue, dqn, t, x) /\ Moved(R, t_pri, prin, t, p)
      /\ Placed(d, n, x, t, p, front, u)
  BY <1>1, <1>2, <1>3, <1>4, <1>5, <1>6, <1>7 DEF Moved, Placed
<1>9. n \in DispQs /\ Sound(n, R \cup {t}, dqn, prin) /\ Raised(d, n, x, p, u)
  BY <1>8, Inserted
<1>10. /\ disp_q' \in DispQs /\ Raised(d, disp_q', x, p, u)
       /\ Sound(disp_q', S \cup {t}, t_disp_queue', t_pri')
  BY <1>4, <1>5, <1>6, <1>7, <1>9
<1> QED BY <1>2, <1>10

LEMMA EnqueueStep ==
    ASSUME DispTypes, NEW t \in Threads, NEW d \in DispQs,
           Sound(d, Runnable \ {t}, t_disp_queue, t_pri),
           Below(d), NEW p \in Priorities, NEW b, NEW front, Enqueue(d, t, p, b, front),
           t_pri' = [t_pri EXCEPT ![t] = p]
    PROVE  Enqueued(t)
<1> DEFINE S == Runnable \ {t}
<1>1. t_state' = [t_state EXCEPT ![t] = "RUN"] /\ t_state' \in [Threads -> States]
  BY DEF Enqueue, DispTypes, QueueTypes, States
<1>2. Runnable' = S \cup {t}
  BY <1>1 DEF Runnable, DispTypes, QueueTypes
<1>3. t_pri'[t] = p /\ \A u \in S : t_pri'[u] = t_pri[u]
  BY DEF Runnable, DispTypes, ThreadTypes
<1>4. \A x \in Queues : /\ d[x] \in DispT /\ d[x].maxrunpri \in Priorities \cup {-1}
                        /\ disp_q[x].maxrunpri \in Priorities \cup {-1}
  BY DEF DispTypes, QueueTypes, DispQs, DispT
<1>5. PICK x \in Queues, w \in BOOLEAN :
        /\ disp_q' \in DispQs /\ Raised(d, disp_q', x, p, w)
        /\ Sound(disp_q', (Runnable \ {t}) \cup {t}, t_disp_queue', t_pri')
        /\ t_disp_queue' = [t_disp_queue EXCEPT ![t] = x]
        /\ Unlocked(x) /\ UNCHANGED flagVars
        /\ \/ /\ x \in Cpus /\ (w <=> b = NULL)
              /\ inserted' = [inserted EXCEPT ![x] = IF Tells(d, x, p) THEN p ELSE -1]
              /\ kp_inserted' = kp_inserted
           \/ /\ x = kpq /\ b = NULL /\ (w <=> d[kpq].q[p] = <<>>)
              /\ p >= kpqpri
              /\ kp_inserted' = p /\ inserted' = inserted
  BY EnqueueIs, Zenon
<1>6. t_disp_queue'[t] = x /\ \A v \in S : t_disp_queue'[v] = t_disp_queue[v]
  BY <1>5 DEF Runnable, DispTypes, QueueTypes
<1>7. PICK n \in DispQs :
        /\ n = disp_q' /\ Sound(n, S \cup {t}, t_disp_queue', t_pri')
        /\ \A y \in Queues : y # x => n[y] = d[y]
        /\ n[x].maxrunpri = Higher(p, d[x].maxrunpri)
  BY <1>5 DEF Raised
<1>8. QueueInv'
  BY <1>2, <1>7 DEF QueueInv
<1>9. QueueTypes'
  <2>1. kp_inserted' \in Priorities \cup {-1}
    BY <1>5 DEF DispTypes, QueueTypes
  <2>2. t_disp_queue' \in [Threads -> Queues \cup {NULL}]
    BY <1>5 DEF DispTypes, QueueTypes
  <2>3. inserted' \in [Cpus -> Priorities \cup {-1}]
    <3>1. PICK k \in Priorities \cup {-1} : k = IF Tells(d, x, p) THEN p ELSE -1
      OBVIOUS
    <3>2. inserted' = inserted \/ inserted' = [inserted EXCEPT ![x] = k]
      BY <1>5, <3>1
    <3> QED BY <3>2 DEF DispTypes, QueueTypes
  <2> QED BY <1>1, <1>7, <2>1, <2>2, <2>3 DEF QueueTypes
<1>10. FlagTypes' /\ \A c \in Cpus : /\ cpu_runrun[c] => cpu_runrun'[c]
                                     /\ cpu_kprunrun[c] => cpu_kprunrun'[c]
  BY <1>5 DEF flagVars, DispTypes, FlagTypes
<1>11. ASSUME NEW c \in Cpus PROVE Told(c)
  <2>1. c \in Queues /\ c # kpq
    BY DispAssumption DEF Queues
  <2>2. PICK k \in Priorities \cup {-1}, m \in Priorities \cup {-1} :
           k = d[c].maxrunpri /\ m = disp_q[c].maxrunpri /\ k <= m
    BY <1>4, <2>1 DEF Below
  <2>3. inserted \in [Cpus -> Priorities \cup {-1}]
    BY DEF DispTypes, QueueTypes
  <2>4. CASE x # c
    <3>1. disp_q'[c].maxrunpri = k
      BY <1>7, <2>1, <2>2, <2>4
    <3>2. inserted'[c] = inserted[c]
      BY <1>5, <2>3, <2>4
    <3>3. k = m \/ inserted[c] = -1
      BY <2>1, <2>2 DEF Unlocked, Below
    <3> QED BY <2>2, <3>1, <3>2, <3>3 DEF Told
  <2>5. CASE x = c
    <3>1. inserted[c] = -1 /\ inserted'[c] = IF Tells(d, c, p) THEN p ELSE -1
      BY <1>5, <2>1, <2>3, <2>5 DEF Unlocked
    <3>2. CASE ~(p > k)
      <4>1. disp_q'[c].maxrunpri = k
        BY <1>7, <2>2, <2>5, <3>2 DEF Higher
      <4>2. ~Tells(d, c, p)
        BY <2>2, <3>2 DEF Tells
      <4> QED BY <2>2, <3>1, <4>1, <4>2 DEF Told
    <3>3. CASE p > k
      <4>1. d[c].q[p] = <<>>
        <5>1. k = Top(d[c].q)
          BY <2>1, <2>2 DEF Sound
        <5>2. PICK q \in [Priorities -> Seq(Threads)] : q = d[c].q
          BY <1>4, <2>1 DEF DispT
        <5>3. Elems(q[p]) # {} => p <= k
          BY <5>1, <5>2, TopIs
        <5>4. ~(p <= k)
          BY <3>3, PriOrder
        <5>5. q[p] \in Seq(Threads) /\ Elems(q[p]) = {}
          BY <5>3, <5>4
        <5> QED BY <5>2, <5>5, Emptiness
      <4>2. inserted'[c] = p
        BY <2>2, <3>1, <3>3, <4>1 DEF Tells
      <4>3. disp_q'[c].maxrunpri = p
        BY <1>7, <2>2, <2>5, <3>3 DEF Higher
      <4> QED BY <4>2, <4>3, PriNumbers DEF Told
    <3> QED BY <3>2, <3>3
  <2> QED BY <2>4, <2>5
<1>12. KpStep
  <2>1. kpq \in Queues
    BY DEF Queues
  <2>2. PICK k \in Priorities \cup {-1}, m \in Priorities \cup {-1} :
           k = d[kpq].maxrunpri /\ m = disp_q[kpq].maxrunpri /\ k <= m
    BY <1>4, <2>1 DEF Below
  <2>3. CASE x \in Cpus
    <3>1. x # kpq
      BY <2>3, DispAssumption
    <3>2. disp_q'[kpq].maxrunpri = k
      BY <1>7, <2>1, <2>2, <3>1
    <3>3. kp_inserted' = kp_inserted
      BY <1>5, <3>1
    <3>4. k = m \/ kp_inserted = -1
      BY <2>1, <2>2 DEF Unlocked, Below
    <3> QED BY <2>2, <3>2, <3>3, <3>4 DEF KpStep
  <2>4. CASE x \notin Cpus
    <3>1. x = kpq /\ kp_inserted' = p /\ p >= kpqpri /\ kp_inserted = -1
      BY <1>5, <2>4 DEF Unlocked
    <3>2. disp_q'[kpq].maxrunpri = p \/ disp_q'[kpq].maxrunpri = k
      BY <1>7, <2>2, <3>1 DEF Higher
    <3> QED BY <2>2, <3>1, <3>2, PriNumbers DEF KpStep
  <2> QED BY <2>3, <2>4
<1>13. HighStep
  <2>1. SUFFICES ASSUME NEW u \in Threads, t_state'[u] = "RUN", t_disp_queue'[u] = kpq
                 PROVE  \/ t_state[u] = "RUN" /\ t_disp_queue[u] = kpq /\ t_pri'[u] = t_pri[u]
                        \/ t_pri'[u] >= kpqpri
    BY DEF HighStep
  <2>2. CASE u = t
    BY <1>3, <1>5, <1>6, <2>1, <2>2, DispAssumption
  <2>3. CASE u # t
    BY <1>2, <1>3, <1>6, <2>1, <2>3 DEF Runnable
  <2> QED BY <2>2, <2>3
<1> QED BY <1>1, <1>5, <1>8, <1>9, <1>10, <1>11, <1>12, <1>13 DEF Enqueued
-----------------------------------------------------------------------------
(* Threads that CPUs have chosen are not among those that change.          *)
ChosenKept(c) ==
    Chosen(pc[c]) /\ cpu_dispthread[c] # NULL =>
        /\ t_state'[cpu_dispthread[c]] = "ONPROC"
        /\ t_disp_queue'[cpu_dispthread[c]] = c

LEMMA OthersKept ==
    ASSUME DispInv, NEW t \in Threads, NEW s, NEW x,
           t_state' = [t_state EXCEPT ![t] = s],
           t_disp_queue' = [t_disp_queue EXCEPT ![t] = x],
           NEW c \in Cpus, t_state[t] # "ONPROC" \/ t_disp_queue[t] # c
    PROVE  ChosenKept(c)
<1>1. Chosen(pc[c]) /\ cpu_dispthread[c] # NULL =>
          t_state[cpu_dispthread[c]] = "ONPROC" /\ t_disp_queue[cpu_dispthread[c]] = c
  BY DEF DispInv, CpuInv
<1>2. t_state \in [Threads -> States] /\ t_disp_queue \in [Threads -> Queues \cup {NULL}]
      /\ cpu_dispthread[c] \in Threads \cup {NULL}
  BY DEF DispInv, DispTypes, QueueTypes, CpuTypes
<1> QED BY <1>1, <1>2 DEF ChosenKept

(* No CPU moves.                                                           *)
LEMMA CpusStay ==
    ASSUME DispInv, UNCHANGED <<pc, cpu_thread, cpu_dispthread>>,
           \A c \in Cpus : ChosenKept(c)
    PROVE  CpuInv' /\ CpuTypes'
<1>1. CpuTypes'
  BY DEF DispInv, DispTypes, CpuTypes
<1>2. CpuInv'
  BY DEF DispInv, CpuInv, ChosenKept
<1> QED BY <1>1, <1>2

(* CPU c goes to label l with the chosen thread e, and holds thread f.     *)
Moves(c, l, e, f) ==
    /\ pc' = [pc EXCEPT ![c] = l]
    /\ cpu_dispthread' = [cpu_dispthread EXCEPT ![c] = e]
    /\ cpu_thread' = [cpu_thread EXCEPT ![c] = f]

LEMMA CpuMoves ==
    ASSUME DispInv, NEW c \in Cpus, NEW l \in Labels, NEW e \in Threads \cup {NULL},
           NEW f \in Threads \cup {NULL}, Moves(c, l, e, f),
           \A d \in Cpus \ {c} : ChosenKept(d),
           Chosen(l) /\ e # NULL => t_state'[e] = "ONPROC" /\ t_disp_queue'[e] = c,
           l = "run" => f = e,
           l \in {"idle_getwork", "ratify_idle", "check_idle"} => f = NULL,
           l = "idle_getwork" => e = NULL,
           f = NULL \/ \A d \in Cpus \ {c} : cpu_thread[d] # f
    PROVE  CpuInv' /\ CpuTypes'
<1>1. /\ pc'[c] = l /\ cpu_dispthread'[c] = e /\ cpu_thread'[c] = f
      /\ \A d \in Cpus \ {c} : /\ pc'[d] = pc[d] /\ cpu_dispthread'[d] = cpu_dispthread[d]
                               /\ cpu_thread'[d] = cpu_thread[d]
  BY DEF Moves, DispInv, DispTypes, CpuTypes
<1>2. CpuTypes'
  BY DEF Moves, DispInv, DispTypes, CpuTypes
<1>3. \A d \in Cpus : Chosen(pc'[d]) /\ cpu_dispthread'[d] # NULL =>
         /\ t_state'[cpu_dispthread'[d]] = "ONPROC"
         /\ t_disp_queue'[cpu_dispthread'[d]] = d
  BY <1>1 DEF ChosenKept
<1>4. \A d \in Cpus : pc'[d] = "run" => cpu_thread'[d] = cpu_dispthread'[d]
  BY <1>1 DEF DispInv, CpuInv
<1>5. \A d \in Cpus : pc'[d] \in {"idle_getwork", "ratify_idle", "check_idle"} =>
         cpu_thread'[d] = NULL
  BY <1>1 DEF DispInv, CpuInv
<1>6. \A d \in Cpus : pc'[d] = "idle_getwork" => cpu_dispthread'[d] = NULL
  BY <1>1 DEF DispInv, CpuInv
<1>7. \A d, g \in Cpus : cpu_thread'[d] = cpu_thread'[g] => d = g \/ cpu_thread'[d] = NULL
  BY <1>1 DEF DispInv, CpuInv
<1> QED BY <1>2, <1>3, <1>4, <1>5, <1>6, <1>7 DEF CpuInv

LEMMA OtherQuiet ==
    ASSUME DispInv, NEW c \in Cpus, pc'[c] = pc[c], cpu_dispthread'[c] = cpu_dispthread[c],
           cpu_runrun[c] => cpu_runrun'[c], cpu_kprunrun[c] => cpu_kprunrun'[c],
           c \in lowered => c \in lowered', NEW t \in Threads,
           t_state[t] # "ONPROC" \/ t_pri'[t] = t_pri[t], NEW p,
           t_pri' = [t_pri EXCEPT ![t] = p]
    PROVE  Quiet(c)
<1>1. SUFFICES ASSUME Decided(c), cpu_dispthread[c] # NULL
               PROVE  t_pri'[cpu_dispthread[c]] = t_pri[cpu_dispthread[c]]
  BY DEF Quiet, Decided
<1>2. Chosen(pc[c])
  BY <1>1 DEF Decided, Chosen
<1>3. t_state[cpu_dispthread[c]] = "ONPROC" /\ cpu_dispthread[c] \in Threads
  BY <1>1, <1>2 DEF DispInv, CpuInv, DispTypes, CpuTypes
<1>4. t_pri \in [Threads -> Priorities]
  BY DEF DispInv, DispTypes, ThreadTypes
<1> QED BY <1>3, <1>4
-----------------------------------------------------------------------------
Calm == (\A c \in Cpus : Quiet(c) /\ Told(c)) /\ KpStep /\ HighStep

(* No thread is put on or taken from a queue.                              *)
QueuesKept ==
    /\ disp_q' \in DispQs
    /\ \A x \in Queues : /\ disp_q'[x].q = disp_q[x].q
                         /\ disp_q'[x].maxrunpri = disp_q[x].maxrunpri
    /\ kp_inserted' = kp_inserted /\ inserted' = inserted
    /\ t_state' \in [Threads -> States]
    /\ t_disp_queue' \in [Threads -> Queues \cup {NULL}]
    /\ Runnable' = Runnable
    /\ \A t \in Runnable : t_disp_queue'[t] = t_disp_queue[t] /\ t_pri'[t] = t_pri[t]

LEMMA QueuesStay ==
    ASSUME DispInv, QueuesKept
    PROVE  QueueTypes' /\ QueueInv' /\ (\A c \in Cpus : Told(c)) /\ KpStep /\ HighStep
<1>1. QueueTypes'
  BY DEF QueuesKept, QueueTypes, DispInv, DispTypes
<1>2. QueueInv'
  <2>1. PICK d, S, dq, pri :
           d \in DispQs /\ d = disp_q /\ S = Runnable /\ dq = t_disp_queue /\ pri = t_pri
    BY DEF DispInv, DispTypes, QueueTypes
  <2>2. PICK n, dqn, prin : n = disp_q' /\ dqn = t_disp_queue' /\ prin = t_pri'
    OBVIOUS
  <2>3. Sound(d, S, dq, pri)
    BY <2>1 DEF DispInv, QueueInv
  <2>4. /\ \A x \in Queues : n[x].q = d[x].q /\ n[x].maxrunpri = d[x].maxrunpri
        /\ \A u \in S : dqn[u] = dq[u] /\ prin[u] = pri[u]
    BY <2>1, <2>2 DEF QueuesKept
  <2>5. Sound(n, S, dqn, prin)
    BY <2>1, <2>3, <2>4, SoundSame
  <2>6. S = Runnable'
    BY <2>1 DEF QueuesKept
  <2> QED BY <2>2, <2>5, <2>6 DEF QueueInv
<1>3. ASSUME NEW c \in Cpus PROVE Told(c)
  <2>1. c \in Queues
    BY DEF Queues
  <2> QED BY <2>1 DEF QueuesKept, Told
<1>4. KpStep
  BY DEF QueuesKept, KpStep, Queues
<1>5. HighStep
  BY DEF QueuesKept, HighStep, Runnable
<1> QED BY <1>1, <1>2, <1>3, <1>4, <1>5

LEMMA KeptIfUnchanged ==
    ASSUME DispInv, UNCHANGED <<disp_q, inserted, kp_inserted, t_state, t_disp_queue>>,
           \A t \in Runnable : t_pri'[t] = t_pri[t]
    PROVE  QueuesKept
<1>1. disp_q \in DispQs
  BY DEF DispInv, DispTypes, QueueTypes
<1>2. t_state' \in [Threads -> States] /\ t_disp_queue' \in [Threads -> Queues \cup {NULL}]
  BY DEF DispInv, DispTypes, QueueTypes
<1>3. Runnable' = Runnable
  BY DEF Runnable
<1> QED BY <1>1, <1>2, <1>3 DEF QueuesKept

(* What the steps of CPU c leave alone.                                    *)
OnlyCpu(c) ==
    /\ UNCHANGED <<t_pri, t_bound_cpu>>
    /\ FlagTypes'
    /\ \A d \in Cpus \ {c} : /\ cpu_runrun'[d] = cpu_runrun[d]
                             /\ cpu_kprunrun'[d] = cpu_kprunrun[d]
                             /\ d \in lowered => d \in lowered'

LEMMA OtherCpusQuiet ==
    ASSUME DispInv, NEW c \in Cpus, NEW l, NEW e, NEW f, Moves(c, l, e, f), OnlyCpu(c)
    PROVE  \A d \in Cpus \ {c} : Quiet(d)
<1>1. SUFFICES ASSUME NEW d \in Cpus \ {c} PROVE Quiet(d)
  OBVIOUS
<1>2. pc'[d] = pc[d] /\ cpu_dispthread'[d] = cpu_dispthread[d]
  BY DEF Moves, DispInv, DispTypes, CpuTypes
<1>3. CASE ~Decided(d) \/ cpu_dispthread[d] = NULL
  BY <1>2, <1>3 DEF Quiet, Decided
<1>4. CASE Decided(d)
  BY <1>2, <1>4 DEF Quiet, OnlyCpu
<1> QED BY <1>3, <1>4

LEMMA CpuStepIs ==
    ASSUME DispInv, NEW c \in Cpus, NEW l \in Labels, NEW e \in Threads \cup {NULL},
           NEW f \in Threads \cup {NULL}, Moves(c, l, e, f), OnlyCpu(c), QueuesKept,
           \A d \in Cpus \ {c} : ChosenKept(d),
           Chosen(l) /\ e # NULL => t_state'[e] = "ONPROC" /\ t_disp_queue'[e] = c,
           l = "run" => f = e,
           l \in {"idle_getwork", "ratify_idle", "check_idle"} => f = NULL,
           l = "idle_getwork" => e = NULL,
           f = NULL \/ \A d \in Cpus \ {c} : cpu_thread[d] # f,
           Quiet(c)
    PROVE  DispInv' /\ Calm
<1>1. QueueTypes' /\ QueueInv' /\ (\A d \in Cpus : Told(d)) /\ KpStep /\ HighStep
  BY QueuesStay
<1>2. CpuInv' /\ CpuTypes'
  BY CpuMoves
<1>3. \A d \in Cpus : Quiet(d)
  BY OtherCpusQuiet
<1>4. FlagTypes' /\ ThreadTypes'
  BY DEF OnlyCpu, ThreadTypes, DispInv, DispTypes
<1> QED BY <1>1, <1>2, <1>3, <1>4 DEF DispInv, DispTypes, Calm
-----------------------------------------------------------------------------
(* A CPU goes on to look for a thread, or finds none.                      *)
LEMMA LooksOn ==
    ASSUME DispInv, NEW c \in Cpus, NEW l \in Labels, Goto(c, l), QueuesKept,
           UNCHANGED <<t_state, t_disp_queue, t_pri, t_bound_cpu, cpu_thread,
                       cpu_dispthread, flagVars, lowered>>,
           ~Chosen(l) \/ (l = "run" /\ cpu_dispthread[c] = NULL),
           l \in {"run", "idle_getwork"} => cpu_thread[c] = NULL /\ cpu_dispthread[c] = NULL
    PROVE  DispInv' /\ Calm
<1>1. PICK e \in Threads \cup {NULL} : e = cpu_dispthread[c]
  BY DEF DispInv, DispTypes, CpuTypes
<1>2. PICK f \in Threads \cup {NULL} : f = cpu_thread[c]
  BY DEF DispInv, DispTypes, CpuTypes
<1>3. Moves(c, l, e, f)
  BY <1>1, <1>2 DEF Moves, Goto, DispInv, DispTypes, CpuTypes
<1>4. OnlyCpu(c)
  BY DEF OnlyCpu, flagVars, FlagTypes, DispInv, DispTypes
<1>5. \A d \in Cpus \ {c} : ChosenKept(d)
  BY DEF ChosenKept, DispInv, CpuInv
<1>6. f = NULL \/ \A d \in Cpus \ {c} : cpu_thread[d] # f
  BY <1>2 DEF DispInv, CpuInv
<1>7. Quiet(c)
  <2>1. pc'[c] = l /\ cpu_dispthread'[c] = cpu_dispthread[c]
    BY DEF Goto, DispInv, DispTypes, CpuTypes
  <2>2. l \notin {"run", "spin"} \/ cpu_dispthread[c] = NULL
    BY DEF Chosen
  <2> QED BY <2>1, <2>2 DEF Quiet
<1>8. /\ Chosen(l) => e = NULL
      /\ l = "run" => f = e
      /\ l \in {"idle_getwork", "ratify_idle", "check_idle"} => f = NULL
      /\ l = "idle_getwork" => e = NULL
  BY <1>1, <1>2 DEF Chosen
<1> QED BY <1>3, <1>4, <1>5, <1>6, <1>7, <1>8, CpuStepIs

LEMMA SameQueues ==
    ASSUME DispInv, UNCHANGED <<queueVars, threadVars>>
    PROVE  QueuesKept
BY KeptIfUnchanged DEF queueVars, threadVars

LEMMA idleKeeps == ASSUME DispInv, NEW c \in Cpus, idle(c) PROVE DispInv' /\ Calm
<1>1. cpu_thread[c] = NULL /\ cpu_dispthread[c] = NULL
  BY DEF idle, Running, DispInv, CpuInv
<1>2. PICK l \in {"swtch", "idle_getwork"} : Goto(c, l)
  BY DEF idle
<1>3. UNCHANGED <<queueVars, threadVars, cpu_thread, cpu_dispthread, flagVars, lowered>>
  BY DEF idle
<1>4. QueuesKept
  BY <1>3, SameQueues
<1>5. l \in Labels /\ ~Chosen(l)
  BY DEF Labels, Chosen
<1> QED BY <1>1, <1>2, <1>3, <1>4, <1>5, LooksOn DEF threadVars

LEMMA LookKeeps == ASSUME DispInv, NEW c \in Cpus, LookAtKpq(c) PROVE DispInv' /\ Calm
<1>1. PICK l \in {"getbest", "own"} : Goto(c, l)
  BY DEF LookAtKpq
<1>2. UNCHANGED <<queueVars, threadVars, cpu_thread, cpu_dispthread, flagVars, lowered>>
  BY DEF LookAtKpq
<1>3. QueuesKept
  BY <1>2, SameQueues
<1>4. l \in Labels /\ ~Chosen(l) /\ l \notin {"run", "idle_getwork"}
  BY DEF Labels, Chosen
<1> QED BY <1>1, <1>2, <1>3, <1>4, LooksOn DEF threadVars

(* Where a CPU that was looking for work goes when it finds none.          *)
LEMMA NothingIs ==
    ASSUME DispInv, NEW c \in Cpus, Looking(c)
    PROVE  /\ Nothing(c) \in Labels
           /\ ~Chosen(Nothing(c)) \/ (Nothing(c) = "run" /\ cpu_dispthread[c] = NULL)
           /\ Nothing(c) \in {"run", "idle_getwork"} =>
                 cpu_thread[c] = NULL /\ cpu_dispthread[c] = NULL
<1>1. CASE pc[c] = "getwork"
  BY <1>1 DEF Nothing, Labels, Chosen
<1>2. CASE pc[c] = "idle_getwork"
  BY <1>2 DEF Nothing, Labels, Chosen, DispInv, CpuInv
<1> QED BY <1>1, <1>2 DEF Looking

LEMMA NoWorkKeeps == ASSUME DispInv, NEW c \in Cpus, NothingToSteal(c) PROVE DispInv' /\ Calm
<1>1. PICK l \in Labels :
        /\ l = Nothing(c)
        /\ ~Chosen(l) \/ (l = "run" /\ cpu_dispthread[c] = NULL)
        /\ l \in {"run", "idle_getwork"} => cpu_thread[c] = NULL /\ cpu_dispthread[c] = NULL
  BY NothingIs DEF NothingToSteal
<1>2. /\ Goto(c, l)
      /\ UNCHANGED <<queueVars, threadVars, cpu_thread, cpu_dispthread, flagVars, lowered>>
  BY <1>1 DEF NothingToSteal
<1>3. QueuesKept
  BY <1>2, SameQueues
<1> QED BY <1>1, <1>2, <1>3, LooksOn DEF threadVars

LEMMA ThreadsKept ==
    ASSUME DispInv, UNCHANGED <<t_state, t_disp_queue>>
    PROVE  \A d \in Cpus : ChosenKept(d)
BY DEF ChosenKept, DispInv, CpuInv

LEMMA ChooseIdleKeeps == ASSUME DispInv, NEW c \in Cpus, ChooseIdle(c) PROVE DispInv' /\ Calm
<1>1. QueuesKept
  BY SameQueues DEF ChooseIdle
<1>2. \A d \in Cpus \ {c} : ChosenKept(d)
  BY ThreadsKept DEF ChooseIdle, threadVars
<1>3. Moves(c, "run", NULL, NULL)
  BY DEF ChooseIdle, Moves, Goto
<1>4. OnlyCpu(c)
  <2>1. FlagTypes' /\ \A d \in Cpus \ {c} : /\ cpu_runrun'[d] = cpu_runrun[d]
                                            /\ cpu_kprunrun'[d] = cpu_kprunrun[d]
    BY DEF ChooseIdle, FlagTypes, DispInv, DispTypes
  <2> QED BY <2>1 DEF ChooseIdle, OnlyCpu, threadVars
<1>5. Quiet(c)
  BY <1>3 DEF Moves, Quiet, DispInv, DispTypes, CpuTypes
<1>6. "run" \in Labels
  BY DEF Labels
<1> QED BY <1>1, <1>2, <1>3, <1>4, <1>5, <1>6, CpuStepIs

LEMMA CommitKeeps == ASSUME DispInv, NEW c \in Cpus, Commit(c) PROVE DispInv' /\ Calm
<1>1. QueuesKept
  BY SameQueues DEF Commit
<1>2. \A d \in Cpus \ {c} : ChosenKept(d)
  BY ThreadsKept DEF Commit, threadVars
<1>3. PICK e \in Threads \cup {NULL} : e = cpu_dispthread[c]
  BY DEF DispInv, DispTypes, CpuTypes
<1>4. PICK f \in Threads \cup {NULL} : f = cpu_thread[c]
  BY DEF DispInv, DispTypes, CpuTypes
<1>5. PICK l \in {"check", "check_work", "check_idle"} :
         Goto(c, l) /\ (l = "check_idle" => pc[c] = "ratify_idle")
  <2>1. CASE pc[c] = "ratify"
    BY <2>1 DEF Commit
  <2>2. CASE pc[c] = "ratify_work"
    BY <2>2 DEF Commit
  <2>3. CASE pc[c] = "ratify_idle"
    BY <2>3 DEF Commit
  <2> QED BY <2>1, <2>2, <2>3 DEF Commit, Ratifying
<1>6. Moves(c, l, e, f)
  BY <1>3, <1>4, <1>5 DEF Commit, Moves, Goto, DispInv, DispTypes, CpuTypes
<1>7. OnlyCpu(c)
  <2>1. FlagTypes' /\ \A d \in Cpus \ {c} : /\ cpu_runrun'[d] = cpu_runrun[d]
                                            /\ cpu_kprunrun'[d] = cpu_kprunrun[d]
    BY DEF Commit, FlagTypes, DispInv, DispTypes
  <2> QED BY <2>1 DEF Commit, OnlyCpu, threadVars
<1>8. Quiet(c)
  BY <1>5 DEF Goto, Quiet, DispInv, DispTypes, CpuTypes
<1>9. l \in Labels /\ l # "run" /\ l # "idle_getwork"
  BY DEF Labels
<1>10. e # NULL => t_state'[e] = "ONPROC" /\ t_disp_queue'[e] = c
  <2>1. Chosen(pc[c])
    BY DEF Commit, Ratifying, Chosen
  <2> QED BY <1>3, <2>1 DEF Commit, DispInv, CpuInv, threadVars
<1>11. l \in {"idle_getwork", "ratify_idle", "check_idle"} => f = NULL
  BY <1>4, <1>5 DEF DispInv, CpuInv
<1>12. f = NULL \/ \A d \in Cpus \ {c} : cpu_thread[d] # f
  BY <1>4 DEF DispInv, CpuInv
<1> QED BY <1>1, <1>2, <1>6, <1>7, <1>8, <1>9, <1>10, <1>11, <1>12, CpuStepIs

LEMMA ResumeKeeps ==
    ASSUME DispInv, NEW c \in Cpus, NEW t \in Threads, resume_from_idle(c, t)
    PROVE  DispInv' /\ Calm
<1>1. QueuesKept
  BY KeptIfUnchanged DEF resume_from_idle, queueVars
<1>2. \A d \in Cpus \ {c} : ChosenKept(d)
  BY ThreadsKept DEF resume_from_idle
<1>3. Moves(c, "run", t, t)
  BY DEF resume_from_idle, Moves, Goto, DispInv, DispTypes, CpuTypes
<1>4. OnlyCpu(c)
  BY DEF resume_from_idle, OnlyCpu, flagVars, FlagTypes, DispInv, DispTypes
<1>5. Quiet(c)
  <2>1. Decided(c) /\ cpu_dispthread'[c] = cpu_dispthread[c]
    BY DEF resume_from_idle, Decided
  <2> QED BY <2>1 DEF resume_from_idle, Quiet, flagVars
<1>6. "run" \in Labels
  BY DEF Labels
<1>7. t_state'[t] = "ONPROC" /\ t_disp_queue'[t] = c
  <2>1. Chosen(pc[c]) /\ cpu_dispthread[c] = t /\ t # NULL
    BY DispAssumption DEF resume_from_idle, Chosen
  <2> QED BY <2>1 DEF resume_from_idle, DispInv, CpuInv
<1>8. \A d \in Cpus \ {c} : cpu_thread[d] # t
  BY DEF resume_from_idle, Left
<1> QED BY <1>1, <1>2, <1>3, <1>4, <1>5, <1>6, <1>7, <1>8, CpuStepIs

(* The thread a CPU runs is its own.                                       *)
LEMMA RunningIs ==
    ASSUME DispInv, NEW c \in Cpus, NEW t \in Threads, Running(c, t)
    PROVE  /\ cpu_thread[c] = t /\ cpu_dispthread[c] = t
           /\ t_state[t] = "ONPROC" /\ t_disp_queue[t] = c
           /\ \A d \in Cpus \ {c} : cpu_thread[d] # t
<1>1. cpu_thread[c] = t /\ cpu_dispthread[c] = t /\ t # NULL /\ Chosen(pc[c])
  BY DispAssumption DEF Running, DispInv, CpuInv, Chosen
<1> QED BY <1>1 DEF DispInv, CpuInv

LEMMA SleepKeeps ==
    ASSUME DispInv, NEW c \in Cpus, NEW t \in Threads, Sleep(c, t)
    PROVE  DispInv' /\ Calm
<1>1. /\ cpu_thread[c] = t /\ cpu_dispthread[c] = t
      /\ t_state[t] = "ONPROC" /\ t_disp_queue[t] = c
      /\ \A d \in Cpus \ {c} : cpu_thread[d] # t
  BY RunningIs DEF Sleep
<1>2. \A d \in Cpus \ {c} : ChosenKept(d)
  BY <1>1, OthersKept DEF Sleep
<1>3. QueuesKept
  <2>1. t_state' \in [Threads -> States] /\ t_disp_queue' \in [Threads -> Queues \cup {NULL}]
    BY DEF Sleep, DispInv, DispTypes, QueueTypes, States
  <2>2. Runnable' = Runnable
    BY <1>1 DEF Sleep, DispInv, DispTypes, QueueTypes, Runnable
  <2>3. \A u \in Runnable : t_disp_queue'[u] = t_disp_queue[u]
    BY <1>1 DEF Sleep, DispInv, DispTypes, QueueTypes, Runnable
  <2>4. UNCHANGED <<disp_q, inserted, kp_inserted, t_pri>>
    BY DEF Sleep, queueVars
  <2> QED BY <2>1, <2>2, <2>3, <2>4 DEF QueuesKept, DispInv, DispTypes, QueueTypes
<1>4. Moves(c, "swtch", t, t)
  BY <1>1 DEF Sleep, Moves, Goto, DispInv, DispTypes, CpuTypes
<1>5. OnlyCpu(c)
  BY DEF Sleep, OnlyCpu, flagVars, FlagTypes, DispInv, DispTypes
<1>6. Quiet(c)
  BY DEF Sleep, Goto, Quiet, DispInv, DispTypes, CpuTypes
<1>7. "swtch" \in Labels /\ ~Chosen("swtch")
  BY DEF Labels, Chosen
<1> QED BY <1>1, <1>2, <1>3, <1>4, <1>5, <1>6, <1>7, CpuStepIs
-----------------------------------------------------------------------------
LEMMA FreshlyEnqueued ==
    ASSUME DispInv, NEW t \in Threads, t_state[t] # "RUN", UNCHANGED t_pri,
           setbackdq(t) \/ setfrontdq(t)
    PROVE  Enqueued(t)
<1>1. PICK p \in Priorities : p = t_pri[t]
  BY DEF DispInv, DispTypes, ThreadTypes
<1>2. PICK b : b = t_bound_cpu[t]
  OBVIOUS
<1>3. PICK front \in BOOLEAN : Enqueue(disp_q, t, p, b, front)
  BY <1>1, <1>2 DEF setbackdq, setfrontdq
<1>4. t_pri' = [t_pri EXCEPT ![t] = p]
  BY <1>1 DEF DispInv, DispTypes, ThreadTypes
<1>5. disp_q \in DispQs /\ DispTypes
  BY DEF DispInv, DispTypes, QueueTypes
<1>6. Runnable \ {t} = Runnable
  BY DEF Runnable
<1>7. Sound(disp_q, Runnable \ {t}, t_disp_queue, t_pri)
  BY <1>6 DEF DispInv, QueueInv
<1>8. Below(disp_q)
  <2>1. \A x \in Queues : disp_q[x].maxrunpri \in Priorities \cup {-1}
    BY <1>5 DEF DispQs, DispT
  <2> QED BY <2>1, PriOrder DEF Below
<1> QED BY <1>3, <1>4, <1>5, <1>7, <1>8, EnqueueStep

(* A thread is put on a queue, and no CPU moves ...                        *)
LEMMA EnqueuedAlone ==
    ASSUME DispInv, NEW t \in Threads, t_state[t] # "ONPROC", Enqueued(t), ThreadTypes',
           NEW p, t_pri' = [t_pri EXCEPT ![t] = p],
           UNCHANGED <<pc, cpu_thread, cpu_dispthread, lowered>>
    PROVE  DispInv' /\ Calm
<1>1. PICK x \in Queues : t_disp_queue' = [t_disp_queue EXCEPT ![t] = x]
  BY DEF Enqueued
<1>2. \A c \in Cpus : ChosenKept(c)
  BY <1>1, OthersKept DEF Enqueued
<1>3. CpuInv' /\ CpuTypes'
  BY <1>2, CpusStay
<1>4. \A c \in Cpus : Quiet(c)
  BY OtherQuiet DEF Enqueued
<1> QED BY <1>3, <1>4 DEF Enqueued, Calm, DispInv, DispTypes

(* ... or a CPU gives it up.                                               *)
LEMMA EnqueuedFrom ==
    ASSUME DispInv, NEW t \in Threads, NEW c \in Cpus, NEW l \in Labels,
           NEW f \in Threads \cup {NULL}, f = cpu_thread[c], Moves(c, l, f, f),
           t_state[t] # "ONPROC" \/ t_disp_queue[t] = c,
           Enqueued(t), UNCHANGED <<t_pri, t_bound_cpu, lowered>>,
           ~Chosen(l) \/ (l = "run" /\ f = NULL), l # "idle_getwork"
    PROVE  DispInv' /\ Calm
<1>1. PICK x \in Queues : t_disp_queue' = [t_disp_queue EXCEPT ![t] = x]
  BY DEF Enqueued
<1>2. \A d \in Cpus \ {c} : ChosenKept(d)
  BY <1>1, OthersKept DEF Enqueued
<1>3. f = NULL \/ \A d \in Cpus \ {c} : cpu_thread[d] # f
  BY DEF DispInv, CpuInv
<1>4. /\ Chosen(l) => f = NULL
      /\ l \in {"idle_getwork", "ratify_idle", "check_idle"} => f = NULL
  BY DEF Chosen
<1>5. CpuInv' /\ CpuTypes'
  BY <1>2, <1>3, <1>4, CpuMoves
<1>6. pc'[c] = l /\ cpu_dispthread'[c] = f
  BY DEF Moves, DispInv, DispTypes, CpuTypes
<1>7. Quiet(c)
  BY <1>6 DEF Quiet, Chosen
<1>8. ASSUME NEW d \in Cpus \ {c} PROVE Quiet(d)
  <2>1. pc'[d] = pc[d] /\ cpu_dispthread'[d] = cpu_dispthread[d]
    BY DEF Moves, DispInv, DispTypes, CpuTypes
  <2>2. PICK p : p = t_pri[t] /\ t_pri' = [t_pri EXCEPT ![t] = p]
    BY DEF DispInv, DispTypes, ThreadTypes
  <2> QED BY <2>1, <2>2, OtherQuiet DEF Enqueued
<1>9. ThreadTypes'
  BY DEF DispInv, DispTypes, ThreadTypes
<1> QED BY <1>5, <1>7, <1>8, <1>9 DEF Enqueued, Calm, DispInv, DispTypes

LEMMA SetrunKeeps == ASSUME DispInv, NEW t \in Threads, setrun(t) PROVE DispInv' /\ Calm
<1>1. t_state[t] # "RUN" /\ t_state[t] # "ONPROC" /\ UNCHANGED t_pri
  BY DEF setrun
<1>2. Enqueued(t)
  BY <1>1, FreshlyEnqueued DEF setrun
<1>3. ThreadTypes'
  BY DEF setrun, ThreadTypes, DispInv, DispTypes
<1>4. PICK p : p = t_pri[t] /\ t_pri' = [t_pri EXCEPT ![t] = p]
  BY <1>1 DEF DispInv, DispTypes, ThreadTypes
<1> QED BY <1>1, <1>2, <1>3, <1>4, EnqueuedAlone DEF setrun

LEMMA PreemptKeeps ==
    ASSUME DispInv, NEW c \in Cpus, NEW t \in Threads, preempt(c, t)
    PROVE  DispInv' /\ Calm
<1>1. CASE Running(c, t) /\ (setbackdq(t) \/ setfrontdq(t)) /\ Goto(c, "swtch")
  <2>1. /\ cpu_thread[c] = t /\ cpu_dispthread[c] = t
        /\ t_state[t] = "ONPROC" /\ t_disp_queue[t] = c
    BY <1>1, RunningIs
  <2>2. UNCHANGED <<t_pri, t_bound_cpu, lowered, cpu_thread, cpu_dispthread>>
    BY DEF preempt
  <2>3. Enqueued(t)
    BY <1>1, <2>1, <2>2, FreshlyEnqueued
  <2>4. Moves(c, "swtch", t, t)
    BY <1>1, <2>1, <2>2 DEF Moves, Goto, DispInv, DispTypes, CpuTypes
  <2>5. "swtch" \in Labels /\ ~Chosen("swtch")
    BY DEF Labels, Chosen
  <2> QED BY <2>1, <2>2, <2>3, <2>4, <2>5, EnqueuedFrom
<1>2. CASE /\ pc[c] = "swtch" /\ cpu_thread[c] = t
           /\ cpu_kprunrun' = [cpu_kprunrun EXCEPT ![c] = FALSE]
           /\ UNCHANGED <<queueVars, t_state, t_disp_queue, cpu_runrun, pc>>
  <2>1. UNCHANGED <<t_pri, t_bound_cpu, lowered, cpu_thread, cpu_dispthread>>
    BY DEF preempt
  <2>2. QueuesKept
    BY <1>2, <2>1, KeptIfUnchanged DEF queueVars
  <2>3. \A d \in Cpus : ChosenKept(d)
    BY <1>2, ThreadsKept
  <2>4. PICK e \in Threads \cup {NULL} : e = cpu_dispthread[c]
    BY DEF DispInv, DispTypes, CpuTypes
  <2>5. Moves(c, "swtch", e, t)
    BY <1>2, <2>1, <2>4 DEF Moves, DispInv, DispTypes, CpuTypes
  <2>6. OnlyCpu(c)
    BY <1>2, <2>1 DEF OnlyCpu, FlagTypes, DispInv, DispTypes
  <2>7. Quiet(c)
    BY <1>2 DEF Quiet
  <2>8. "swtch" \in Labels /\ ~Chosen("swtch")
    BY DEF Labels, Chosen
  <2>9. t = NULL \/ \A d \in Cpus \ {c} : cpu_thread[d] # t
    BY <1>2 DEF DispInv, CpuInv
  <2> QED BY <2>2, <2>3, <2>4, <2>5, <2>6, <2>7, <2>8, <2>9, CpuStepIs
<1> QED BY <1>1, <1>2 DEF preempt

LEMMA RatifyKeeps ==
    ASSUME DispInv, NEW c \in Cpus, NEW t \in Threads, Ratify(c, t)
    PROVE  DispInv' /\ Calm
<1>1. /\ cpu_dispthread[c] = t /\ t # NULL /\ Chosen(pc[c])
      /\ t_state[t] = "ONPROC" /\ t_disp_queue[t] = c
  <2>1. cpu_dispthread[c] = t /\ t # NULL /\ Chosen(pc[c])
    BY DispAssumption DEF Ratify, Checking, Chosen
  <2> QED BY <2>1 DEF DispInv, CpuInv
<1>2. UNCHANGED <<t_pri, t_bound_cpu, lowered>>
  BY DEF Ratify
<1>3. PICK f \in Threads \cup {NULL} : f = cpu_thread[c]
  BY DEF DispInv, DispTypes, CpuTypes
<1>4. f = NULL \/ \A d \in Cpus \ {c} : cpu_thread[d] # f
  BY <1>3 DEF DispInv, CpuInv
<1>5. CASE Better(c, t_pri[t])
  <2>1. /\ cpu_dispthread' = [cpu_dispthread EXCEPT ![c] = f] /\ setfrontdq(t)
        /\ Goto(c, IF pc[c] = "check" THEN "swtch" ELSE Nothing(c))
        /\ UNCHANGED cpu_thread
    BY <1>3, <1>5 DEF Ratify
  <2>2. Enqueued(t)
    BY <1>1, <1>2, <2>1, FreshlyEnqueued
  <2>3. PICK l \in {"swtch", "idle", "run"} : Goto(c, l) /\ (l = "run" => pc[c] = "check_idle")
    <3>1. CASE pc[c] = "check"
      BY <2>1, <3>1
    <3>2. CASE pc[c] = "check_work"
      BY <2>1, <3>2 DEF Nothing
    <3>3. CASE pc[c] = "check_idle"
      BY <2>1, <3>3 DEF Nothing
    <3> QED BY <3>1, <3>2, <3>3 DEF Ratify, Checking
  <2>4. Moves(c, l, f, f)
    BY <1>3, <2>1, <2>3 DEF Moves, Goto, DispInv, DispTypes, CpuTypes
  <2>5. ~Chosen(l) \/ (l = "run" /\ f = NULL)
    BY <1>3, <2>3 DEF Chosen, DispInv, CpuInv
  <2>6. l \in Labels /\ l # "idle_getwork"
    BY DEF Labels
  <2> QED BY <1>1, <1>2, <1>3, <2>2, <2>4, <2>5, <2>6, EnqueuedFrom
<1>6. CASE ~Better(c, t_pri[t])
  <2>1. /\ Leave(c, t)
        /\ UNCHANGED <<queueVars, t_state, t_disp_queue, cpu_dispthread, flagVars>>
    BY <1>6 DEF Ratify
  <2>2. QueuesKept
    BY <1>2, <2>1, KeptIfUnchanged DEF queueVars
  <2>3. \A d \in Cpus : ChosenKept(d)
    BY <2>1, ThreadsKept
  <2>4. OnlyCpu(c)
    BY <1>2, <2>1 DEF OnlyCpu, flagVars, FlagTypes, DispInv, DispTypes
  <2>5. Quiet(c)
    <3>1. PICK p \in Priorities \cup {-1}, m \in Priorities \cup {-1}, k \in Priorities \cup {-1} :
             p = t_pri[t] /\ m = disp_q[c].maxrunpri /\ k = disp_q[kpq].maxrunpri
      BY DEF DispInv, DispTypes, QueueTypes, ThreadTypes, DispQs, DispT, Queues
    <3>2. ~(p < m) /\ ~(p < k)
      BY <1>6, <3>1 DEF Better
    <3>3. p >= m /\ p >= k
      BY <3>2, PriOrder
    <3> QED BY <1>1, <1>2, <2>1, <3>1, <3>3 DEF Quiet, Answered, queueVars
  <2>6. t_state'[t] = "ONPROC" /\ t_disp_queue'[t] = c
    BY <1>1, <2>1
  <2>7. CASE f = t
    <3>1. Moves(c, "run", t, t)
      BY <1>1, <1>3, <2>1, <2>7
      DEF Leave, Goto, Moves, DispInv, DispTypes, CpuTypes
    <3>2. "run" \in Labels
      BY DEF Labels
    <3> QED BY <1>4, <2>2, <2>3, <2>4, <2>5, <2>6, <2>7, <3>1, <3>2, CpuStepIs
  <2>8. CASE f # t
    <3>1. Moves(c, "spin", t, NULL)
      BY <1>1, <1>3, <2>1, <2>8
      DEF Leave, Goto, Moves, DispInv, DispTypes, CpuTypes
    <3>2. "spin" \in Labels
      BY DEF Labels
    <3> QED BY <2>2, <2>3, <2>4, <2>5, <2>6, <3>1, <3>2, CpuStepIs
  <2> QED BY <2>7, <2>8
<1> QED BY <1>5, <1>6

(* A CPU is told of a thread of priority p.                                *)
LEMMA TellKeeps ==
    ASSUME DispInv, NEW c \in Cpus, NEW p, SetFlags(c, p), QueueTypes',
           UNCHANGED <<disp_q, threadVars, cpu_thread, cpu_dispthread, pc, lowered>>
    PROVE  DispInv' /\ (\A d \in Cpus : Quiet(d)) /\ HighStep
<1>1. UNCHANGED <<disp_q, t_state, t_disp_queue, t_pri, t_bound_cpu, cpu_thread,
                  cpu_dispthread, pc, lowered>>
  BY DEF threadVars
<1>2. FlagTypes' /\ \A d \in Cpus : /\ cpu_runrun[d] => cpu_runrun'[d]
                                    /\ cpu_kprunrun[d] => cpu_kprunrun'[d]
  BY DEF SetFlags, DispInv, DispTypes, FlagTypes, Outranked
<1>3. CpuInv' /\ CpuTypes'
  BY <1>1, ThreadsKept, CpusStay
<1>4. ThreadTypes' /\ QueueInv'
  <2>1. Runnable' = Runnable
    BY <1>1 DEF Runnable
  <2> QED BY <1>1, <2>1 DEF ThreadTypes, QueueInv, DispInv, DispTypes
<1>5. ASSUME NEW d \in Cpus PROVE Quiet(d)
  <2>1. CASE Decided(d)
    BY <1>1, <1>2, <2>1 DEF Quiet
  <2>2. CASE ~Decided(d)
    BY <1>1, <2>2 DEF Quiet, Decided
  <2> QED BY <2>1, <2>2
<1>6. HighStep
  BY <1>1 DEF HighStep
<1> QED BY <1>2, <1>3, <1>4, <1>5, <1>6 DEF DispInv, DispTypes

LEMMA TellCpuKeeps ==
    ASSUME DispInv, NEW c \in Cpus, TellCpu(c)
    PROVE  DispInv' /\ (\A d \in Cpus : Quiet(d) /\ Told(d)) /\ HighStep
<1>1. QueueTypes'
  BY DEF TellCpu, threadVars, QueueTypes, DispInv, DispTypes
<1>2. \A d \in Cpus : Told(d)
  BY DEF TellCpu, Told
<1>3. DispInv' /\ (\A d \in Cpus : Quiet(d)) /\ HighStep
  BY <1>1, TellKeeps DEF TellCpu
<1> QED BY <1>2, <1>3

LEMMA TellOwnKeeps == ASSUME DispInv, NEW c \in Cpus, TellOwn(c) PROVE DispInv' /\ Calm
<1>1. inserted \in [Cpus -> Priorities \cup {-1}]
  BY DEF DispInv, DispTypes, QueueTypes
<1>2. QueueTypes'
  BY <1>1 DEF TellOwn, threadVars, QueueTypes, DispInv, DispTypes
<1>3. ASSUME NEW d \in Cpus PROVE Told(d)
  <2>1. CASE d = c
    <3>1. Outranked(c, inserted[c]) =>
             cpu_runrun'[c] /\ (inserted[c] >= kpreemptpri => cpu_kprunrun'[c])
      BY DEF TellOwn, SetFlags, DispInv, DispTypes, FlagTypes
    <3>2. inserted[c] # -1 /\ inserted'[c] = -1 /\ disp_q' = disp_q
      BY <1>1 DEF TellOwn
    <3> QED BY <2>1, <3>1, <3>2 DEF Told
  <2>2. CASE d # c
    BY <1>1, <2>2 DEF TellOwn, Told
  <2> QED BY <2>1, <2>2
<1>4. KpStep
  BY DEF TellOwn, KpStep
<1>5. DispInv' /\ (\A d \in Cpus : Quiet(d)) /\ HighStep
  BY <1>2, TellKeeps DEF TellOwn
<1> QED BY <1>3, <1>4, <1>5 DEF Calm
-----------------------------------------------------------------------------
LEMMA TakeKeeps ==
    ASSUME DispInv, NEW c \in Cpus, NEW x \in Queues, NEW t \in Runnable,
           t_disp_queue[t] = x, Unlocked(x),
           NEW l \in {"ratify", "ratify_work", "ratify_idle"}, Take(c, x, t, l),
           l = "ratify_idle" => cpu_thread[c] = NULL
    PROVE  DispInv' /\ Calm
<1>1. /\ t \in Threads /\ t_state[t] = "RUN"
      /\ t_state' = [t_state EXCEPT ![t] = "ONPROC"]
      /\ t_disp_queue' = [t_disp_queue EXCEPT ![t] = c]
      /\ UNCHANGED <<inserted, kp_inserted, t_pri, t_bound_cpu, cpu_thread, flagVars>>
  BY DEF Take, Runnable
<1>2. \A d \in Cpus : ChosenKept(d)
  BY <1>1, OthersKept
<1>3. t_state'[t] = "ONPROC" /\ t_disp_queue'[t] = c
  BY <1>1 DEF DispInv, DispTypes, QueueTypes
<1>4. PICK f \in Threads \cup {NULL} : f = cpu_thread[c]
  BY DEF DispInv, DispTypes, CpuTypes
<1>5. Moves(c, l, t, f)
  BY <1>1, <1>4 DEF Take, Goto, Moves, DispInv, DispTypes, CpuTypes
<1>6. l \in Labels /\ l # "run" /\ l # "idle_getwork" /\ l # "spin" /\ l # "check_idle"
  BY DEF Labels
<1>7. f = NULL \/ \A d \in Cpus \ {c} : cpu_thread[d] # f
  BY <1>4 DEF DispInv, CpuInv
<1>8. CpuInv' /\ CpuTypes'
  BY <1>1, <1>2, <1>3, <1>4, <1>5, <1>6, <1>7, CpuMoves
<1>9. OnlyCpu(c)
  BY <1>1 DEF Take, OnlyCpu, flagVars, FlagTypes, DispInv, DispTypes
<1>10. \A d \in Cpus : Quiet(d)
  <2>1. \A d \in Cpus \ {c} : Quiet(d)
    BY <1>5, <1>9, OtherCpusQuiet
  <2>2. Quiet(c)
    BY <1>5, <1>6 DEF Moves, Quiet, DispInv, DispTypes, CpuTypes
  <2> QED BY <2>1, <2>2
<1>11. PICK n : /\ n = disp_q'
                /\ n \in DispQs /\ Sound(n, Runnable \ {t}, t_disp_queue, t_pri)
                /\ \A y \in Queues : n[y].maxrunpri <= disp_q[y].maxrunpri
                /\ \A y \in Queues : y # x => n[y] = disp_q[y]
  <2>1. PICK d \in DispQs : d = disp_q
    BY DEF DispInv, DispTypes, QueueTypes
  <2>2. PICK S, dq, pri : S = Runnable /\ dq = t_disp_queue /\ pri = t_pri
    OBVIOUS
  <2>3. Sound(d, S, dq, pri) /\ t \in S
    BY <2>1, <2>2 DEF DispInv, QueueInv
  <2>4. PICK n : n = [d EXCEPT ![dq[t]] = Dispdeq(@, t, pri[t])]
    OBVIOUS
  <2>5. /\ n \in DispQs /\ Sound(n, S \ {t}, dq, pri)
        /\ \A y \in Queues : n[y].maxrunpri <= d[y].maxrunpri
    BY <2>3, <2>4, SoundRemoved
  <2>6. n = disp_q'
    BY <2>1, <2>2, <2>4 DEF Take
  <2>7. \A y \in Queues : y # x => n[y] = d[y]
    BY <2>2, <2>4 DEF DispQs
  <2> QED BY <2>1, <2>2, <2>5, <2>6, <2>7
<1>12. Runnable' = Runnable \ {t}
  BY <1>1 DEF Runnable, DispInv, DispTypes, QueueTypes
<1>13. \A u \in Runnable \ {t} : t_disp_queue'[u] = t_disp_queue[u]
  BY <1>1 DEF Runnable, DispInv, DispTypes, QueueTypes
<1>14. QueueInv'
  <2>1. PICK S, dq, pri : S = Runnable \ {t} /\ dq = t_disp_queue /\ pri = t_pri
    OBVIOUS
  <2>2. PICK dqn : dqn = t_disp_queue'
    OBVIOUS
  <2>3. n \in DispQs /\ Sound(n, S, dq, pri)
    BY <1>11, <2>1
  <2>4. \A u \in S : dqn[u] = dq[u] /\ pri[u] = pri[u]
    BY <1>13, <2>1, <2>2
  <2>5. Sound(n, S, dqn, pri)
    BY <2>3, <2>4, SoundSame
  <2>6. pri = t_pri'
    BY <1>1, <2>1
  <2> QED BY <1>11, <1>12, <2>1, <2>2, <2>5, <2>6 DEF QueueInv
<1>15. QueueTypes' /\ FlagTypes' /\ ThreadTypes'
  <2>1. t_state' \in [Threads -> States] /\ t_disp_queue' \in [Threads -> Queues \cup {NULL}]
    BY <1>1 DEF DispInv, DispTypes, QueueTypes, States, Queues
  <2>2. /\ disp_q' \in DispQs /\ kp_inserted' \in Priorities \cup {-1}
        /\ inserted' \in [Cpus -> Priorities \cup {-1}]
    BY <1>1, <1>11 DEF DispInv, DispTypes, QueueTypes
  <2>3. ThreadTypes'
    BY <1>1 DEF DispInv, DispTypes, ThreadTypes
  <2> QED BY <1>9, <2>1, <2>2, <2>3 DEF QueueTypes, OnlyCpu
<1>16. ASSUME NEW d \in Cpus PROVE Told(d)
  <2>1. d \in Queues /\ d # kpq
    BY DispAssumption DEF Queues
  <2>2. CASE x = d
    BY <1>1, <1>11, <2>1, <2>2 DEF Told, Unlocked
  <2>3. CASE x # d
    BY <1>1, <1>11, <2>1, <2>3 DEF Told
  <2> QED BY <2>2, <2>3
<1>17. KpStep
  <2>1. CASE x = kpq
    BY <1>1, <1>11, <2>1 DEF KpStep, Unlocked
  <2>2. CASE x # kpq
    BY <1>1, <1>11, <2>2 DEF KpStep, Queues
  <2> QED BY <2>1, <2>2
<1>18. HighStep
  BY <1>1, <1>12, <1>13 DEF HighStep, Runnable
<1> QED BY <1>8, <1>10, <1>14, <1>15, <1>16, <1>17, <1>18
  DEF Calm, DispInv, DispTypes

(* The threads of a queue.                                                 *)
LEMMA OnQueue ==
    ASSUME DispInv, NEW x \in Queues, NEW p \in Priorities,
           NEW i \in DOMAIN disp_q[x].q[p]
    PROVE  LET t == disp_q[x].q[p][i] IN
           t \in Runnable /\ t_disp_queue[t] = x /\ t_pri[t] = p
<1>1. PICK t : t = disp_q[x].q[p][i]
  OBVIOUS
<1>2. t \in Elems(disp_q[x].q[p])
  BY <1>1 DEF Elems
<1> QED BY <1>1, <1>2 DEF DispInv, QueueInv, Sound

(* disp_getbest takes a thread of the queue, or puts its idea of the best  *)
(* unbound thread right.                                                   *)
LEMMA GetBestIs ==
    ASSUME DispInv, NEW c \in Cpus, NEW x \in Queues, NEW found, NEW none,
           disp_getbest(c, x, found, none)
    PROVE  \/ \E t \in Runnable :
                 t_disp_queue[t] = x /\ Unlocked(x) /\ Take(c, x, t, found)
           \/ /\ \/ disp_q' = disp_q
                 \/ \E p \in Priorities :
                       /\ p = disp_q[x].max_unbound_pri /\ Unbound(disp_q[x].q[p]) = {}
                       /\ disp_q' = [disp_q EXCEPT ![x] = disp_fix_unbound_pri(@, p)]
              /\ Goto(c, none)
              /\ UNCHANGED <<inserted, kp_inserted, threadVars, cpu_thread,
                             cpu_dispthread, flagVars, lowered>>
<1>1. PICK p \in Priorities \cup {-1} : p = disp_q[x].max_unbound_pri
  BY DEF DispInv, DispTypes, QueueTypes, DispQs, DispT
<1>2. PICK s : s = IF p = -1 THEN <<>> ELSE disp_q[x].q[p]
  OBVIOUS
<1>3. /\ Unlocked(x)
      /\ IF Unbound(s) # {} THEN Take(c, x, s[Min(Unbound(s))], found)
         ELSE /\ disp_q' = IF p = -1 THEN disp_q
                           ELSE [disp_q EXCEPT ![x] = disp_fix_unbound_pri(@, p)]
              /\ Goto(c, none)
              /\ UNCHANGED <<inserted, kp_inserted, threadVars, cpu_thread,
                             cpu_dispthread, flagVars, lowered>>
  BY <1>1, <1>2 DEF disp_getbest
<1>4. CASE Unbound(s) # {}
  <2>1. p # -1
    <3>1. DOMAIN <<>> = {}
      OBVIOUS
    <3> QED BY <1>2, <1>4, <3>1 DEF Unbound
  <2>2. s = disp_q[x].q[p] /\ p \in Priorities
    BY <1>2, <2>1
  <2>3. s \in Seq(Threads)
    BY <2>2 DEF DispInv, DispTypes, QueueTypes, DispQs, DispT
  <2>4. Unbound(s) \subseteq DOMAIN s /\ DOMAIN s \subseteq Nat
    BY <2>3, LenProperties DEF Unbound
  <2>5. PICK U \in SUBSET Nat : U = Unbound(s)
    BY <2>4
  <2>6. \E m \in U : \A n \in U : m <= n
    BY <1>4, <2>5, MinExists
  <2>7. Min(U) \in U
    <3>1. \E m \in U : \A n \in U : m <= n
      BY <2>6
    <3> QED BY <3>1 DEF Min
  <2>8. PICK i \in DOMAIN s : i = Min(Unbound(s))
    BY <2>4, <2>5, <2>7
  <2>9. s[i] \in Runnable /\ t_disp_queue[s[i]] = x
    BY <2>2, <2>8, OnQueue
  <2> QED BY <1>3, <1>4, <2>8, <2>9
<1>5. CASE Unbound(s) = {}
  <2>1. CASE p = -1
    BY <1>3, <1>5, <2>1
  <2>2. CASE p # -1
    <3>1. p \in Priorities /\ Unbound(disp_q[x].q[p]) = {}
      BY <1>2, <1>5, <2>2
    <3> QED BY <1>1, <1>3, <1>5, <2>2, <3>1
  <2> QED BY <2>1, <2>2
<1> QED BY <1>4, <1>5

LEMMA GetBestKeeps ==
    ASSUME DispInv, NEW c \in Cpus, NEW x \in Queues,
           NEW found \in {"ratify", "ratify_work", "ratify_idle"},
           found = "ratify_idle" => cpu_thread[c] = NULL,
           NEW none \in Labels,
           ~Chosen(none) \/ (none = "run" /\ cpu_dispthread[c] = NULL),
           none \in {"run", "idle_getwork"} =>
               cpu_thread[c] = NULL /\ cpu_dispthread[c] = NULL,
           disp_getbest(c, x, found, none)
    PROVE  DispInv' /\ Calm
<1>1. CASE \E t \in Runnable : t_disp_queue[t] = x /\ Unlocked(x) /\ Take(c, x, t, found)
  BY <1>1, TakeKeeps
<1>2. CASE /\ \/ disp_q' = disp_q
              \/ \E p \in Priorities :
                    /\ p = disp_q[x].max_unbound_pri /\ Unbound(disp_q[x].q[p]) = {}
                    /\ disp_q' = [disp_q EXCEPT ![x] = disp_fix_unbound_pri(@, p)]
           /\ Goto(c, none)
           /\ UNCHANGED <<inserted, kp_inserted, threadVars, cpu_thread,
                          cpu_dispthread, flagVars, lowered>>
  <2>1. /\ disp_q' \in DispQs
        /\ \A y \in Queues : /\ disp_q'[y].q = disp_q[y].q
                             /\ disp_q'[y].maxrunpri = disp_q[y].maxrunpri
    <3>1. disp_q \in DispQs
      BY DEF DispInv, DispTypes, QueueTypes
    <3>2. CASE disp_q' = disp_q
      BY <3>1, <3>2
    <3>3. CASE \E p \in Priorities :
                  /\ p = disp_q[x].max_unbound_pri /\ Unbound(disp_q[x].q[p]) = {}
                  /\ disp_q' = [disp_q EXCEPT ![x] = disp_fix_unbound_pri(@, p)]
      <4>1. PICK p \in Priorities :
               disp_q' = [disp_q EXCEPT ![x] = disp_fix_unbound_pri(@, p)]
        BY <3>3
      <4>2. PICK e \in DispT : e = disp_q[x]
        BY <3>1 DEF DispQs
      <4>3. PICK r : r = disp_fix_unbound_pri(e, p)
        OBVIOUS
      <4>4. r \in DispT /\ r.q = e.q /\ r.maxrunpri = e.maxrunpri
        BY <4>3, FixIs
      <4>5. disp_q' = [disp_q EXCEPT ![x] = r]
        BY <4>1, <4>2, <4>3
      <4> QED BY <3>1, <4>2, <4>4, <4>5 DEF DispQs
    <3> QED BY <1>2, <3>2, <3>3
  <2>2. UNCHANGED <<inserted, kp_inserted, t_state, t_disp_queue, t_pri, t_bound_cpu>>
    BY <1>2 DEF threadVars
  <2>3. Runnable' = Runnable
    BY <2>2 DEF Runnable
  <2>4. QueuesKept
    BY <2>1, <2>2, <2>3 DEF QueuesKept, DispInv, DispTypes, QueueTypes
  <2> QED BY <1>2, <2>2, <2>4, LooksOn
<1> QED BY <1>1, <1>2, GetBestIs

LEMMA GetBestKpKeeps == ASSUME DispInv, NEW c \in Cpus, GetBestKp(c) PROVE DispInv' /\ Calm
<1>1. "own" \in Labels /\ ~Chosen("own") /\ kpq \in Queues
  BY DEF Labels, Chosen, Queues
<1> QED BY <1>1, GetBestKeeps DEF GetBestKp

LEMMA FoundIs ==
    ASSUME DispInv, NEW c \in Cpus, Looking(c)
    PROVE  /\ Found(c) \in {"ratify", "ratify_work", "ratify_idle"}
           /\ Found(c) = "ratify_idle" => cpu_thread[c] = NULL
<1>1. CASE pc[c] = "getwork"
  BY <1>1 DEF Found
<1>2. CASE pc[c] = "idle_getwork"
  BY <1>2 DEF Found, DispInv, CpuInv
<1> QED BY <1>1, <1>2 DEF Looking

LEMMA GetWorkKpKeeps == ASSUME DispInv, NEW c \in Cpus, GetWorkKp(c) PROVE DispInv' /\ Calm
<1>1. Looking(c) /\ disp_getbest(c, kpq, Found(c), pc[c])
  BY DEF GetWorkKp
<1>2. PICK none \in Labels : none = pc[c]
  BY DEF DispInv, DispTypes, CpuTypes
<1>3. ~Chosen(none) /\ none # "run"
  BY <1>1, <1>2 DEF Looking, Chosen
<1>4. none = "idle_getwork" => cpu_thread[c] = NULL /\ cpu_dispthread[c] = NULL
  BY <1>2 DEF DispInv, CpuInv
<1>5. PICK found \in {"ratify", "ratify_work", "ratify_idle"} :
         found = Found(c) /\ (found = "ratify_idle" => cpu_thread[c] = NULL)
  BY <1>1, FoundIs
<1>6. kpq \in Queues
  BY DEF Queues
<1> QED BY <1>1, <1>2, <1>3, <1>4, <1>5, <1>6, GetBestKeeps

LEMMA StealKeeps ==
    ASSUME DispInv, NEW c \in Cpus, NEW d \in Cpus, Steal(c, d) PROVE DispInv' /\ Calm
<1>1. Looking(c) /\ disp_getbest(c, d, Found(c), Nothing(c))
  BY DEF Steal
<1>2. PICK none \in Labels :
        /\ none = Nothing(c)
        /\ ~Chosen(none) \/ (none = "run" /\ cpu_dispthread[c] = NULL)
        /\ none \in {"run", "idle_getwork"} =>
              cpu_thread[c] = NULL /\ cpu_dispthread[c] = NULL
  BY <1>1, NothingIs
<1>3. PICK found \in {"ratify", "ratify_work", "ratify_idle"} :
         found = Found(c) /\ (found = "ratify_idle" => cpu_thread[c] = NULL)
  BY <1>1, FoundIs
<1>4. d \in Queues
  BY DEF Queues
<1> QED BY <1>1, <1>2, <1>3, <1>4, GetBestKeeps

LEMMA TakeOwnIs ==
    ASSUME DispInv, NEW c \in Cpus, TakeOwn(c)
    PROVE  \/ \E t \in Runnable :
                 t_disp_queue[t] = c /\ Unlocked(c) /\ Take(c, c, t, "ratify")
           \/ /\ Goto(c, "getwork")
              /\ UNCHANGED <<queueVars, threadVars, cpu_thread, cpu_dispthread, flagVars,
                             lowered>>
<1>1. c \in Queues
  BY DEF Queues
<1>2. PICK p \in Priorities \cup {-1} : p = disp_q[c].maxrunpri
  BY <1>1 DEF DispInv, DispTypes, QueueTypes, DispQs, DispT
<1>3. CASE p # -1
  <2>1. PICK s \in Seq(Threads) : s = disp_q[c].q[p]
    BY <1>1, <1>3 DEF DispInv, DispTypes, QueueTypes, DispQs, DispT
  <2>2. Elems(s) # {}
    <3>1. PICK q \in [Priorities -> Seq(Threads)] : q = disp_q[c].q
      BY <1>1 DEF DispInv, DispTypes, QueueTypes, DispQs, DispT
    <3>2. p = Top(q)
      BY <1>1, <1>2, <3>1 DEF DispInv, QueueInv, Sound
    <3> QED BY <1>3, <2>1, <3>1, <3>2, TopIs
  <2>3. s # <<>> /\ Len(s) \in Nat /\ DOMAIN s = 1..Len(s)
    BY <2>2, Emptiness, LenProperties
  <2>4. 1 \in DOMAIN s /\ Head(s) = s[1]
    BY <2>3, EmptySeq
  <2>5. PICK t : t = Head(s)
    OBVIOUS
  <2>6. t \in Runnable /\ t_disp_queue[t] = c
    BY <1>1, <1>3, <2>1, <2>4, <2>5, OnQueue
  <2>7. Take(c, c, t, "ratify")
    BY <1>2, <1>3, <2>1, <2>5 DEF TakeOwn
  <2>8. Unlocked(c)
    BY DEF TakeOwn
  <2> QED BY <1>1, <2>6, <2>7, <2>8
<1>4. CASE p = -1
  BY <1>2, <1>4 DEF TakeOwn
<1> QED BY <1>3, <1>4

LEMMA TakeOwnKeeps == ASSUME DispInv, NEW c \in Cpus, TakeOwn(c) PROVE DispInv' /\ Calm
<1>1. CASE \E t \in Runnable :
              t_disp_queue[t] = c /\ Unlocked(c) /\ Take(c, c, t, "ratify")
  BY <1>1, TakeKeeps DEF Queues
<1>2. CASE /\ Goto(c, "getwork")
           /\ UNCHANGED <<queueVars, threadVars, cpu_thread, cpu_dispthread, flagVars,
                          lowered>>
  <2>1. QueuesKept
    BY <1>2, SameQueues
  <2>2. "getwork" \in Labels /\ ~Chosen("getwork")
    BY DEF Labels, Chosen
  <2> QED BY <1>2, <2>1, <2>2, LooksOn DEF threadVars
<1> QED BY <1>1, <1>2, TakeOwnIs
-----------------------------------------------------------------------------
(* A thread's priority changes where it is, or requests are added.         *)
LEMMA StaysWhereItIs ==
    ASSUME DispInv, NEW t \in Threads, NEW p, t_pri' = [t_pri EXCEPT ![t] = p], ThreadTypes',
           UNCHANGED <<queueVars, t_state, t_disp_queue, pc, cpu_thread, cpu_dispthread>>,
           FlagTypes',
           \A c \in Cpus : /\ cpu_runrun[c] => cpu_runrun'[c]
                           /\ cpu_kprunrun[c] => cpu_kprunrun'[c]
                           /\ c \in lowered => c \in lowered',
           t_state[t] # "RUN" \/ p = t_pri[t],
           \A c \in Cpus : \/ t_state[t] = "ONPROC" /\ t_disp_queue[t] = c
                              /\ cpu_dispthread[c] = t => Answered(c)
                           \/ p = t_pri[t]
    PROVE  DispInv' /\ Calm
<1>1. \A u \in Threads : u # t => t_pri'[u] = t_pri[u]
  BY DEF DispInv, DispTypes, ThreadTypes
<1>2. t_pri'[t] = p
  BY DEF DispInv, DispTypes, ThreadTypes
<1>3. \A u \in Runnable : t_pri'[u] = t_pri[u]
  BY <1>1, <1>2 DEF Runnable
<1>4. QueuesKept
  BY <1>3, KeptIfUnchanged DEF queueVars
<1>5. QueueTypes' /\ QueueInv' /\ (\A c \in Cpus : Told(c)) /\ KpStep /\ HighStep
  BY <1>4, QueuesStay
<1>6. CpuInv' /\ CpuTypes'
  BY ThreadsKept, CpusStay
<1>7. ASSUME NEW c \in Cpus PROVE Quiet(c)
  <2>1. SUFFICES ASSUME Decided(c), cpu_dispthread[c] # NULL, ~Answered(c)
                 PROVE  t_pri'[cpu_dispthread[c]] = t_pri[cpu_dispthread[c]]
    BY DEF Quiet, Decided
  <2>2. Chosen(pc[c])
    BY <2>1 DEF Decided, Chosen
  <2>3. cpu_dispthread[c] \in Threads /\ t_state[cpu_dispthread[c]] = "ONPROC"
        /\ t_disp_queue[cpu_dispthread[c]] = c
    BY <2>1, <2>2 DEF DispInv, CpuInv, DispTypes, CpuTypes
  <2> QED BY <1>1, <1>2, <2>1, <2>3
<1> QED BY <1>5, <1>6, <1>7 DEF Calm, DispInv, DispTypes

LEMMA SurrenderIs ==
    ASSUME DispInv, NEW t \in Threads, cpu_surrender(t)
    PROVE  /\ FlagTypes'
           /\ \A c \in Cpus : /\ cpu_runrun[c] => cpu_runrun'[c]
                              /\ cpu_kprunrun[c] => cpu_kprunrun'[c]
           /\ \A c \in Cpus : t_disp_queue[t] = c =>
                 /\ cpu_runrun'[c]
                 /\ disp_q[c].maxrunpri >= kpreemptpri => cpu_kprunrun'[c]
                 /\ disp_q[kpq].maxrunpri >= kpreemptpri => cpu_kprunrun'[c]
<1>1. PICK x : x = t_disp_queue[t]
  OBVIOUS
<1>2. PICK k \in BOOLEAN :
        k = (\/ cpu_kprunrun[x]
             \/ disp_q[x].maxrunpri >= kpreemptpri
             \/ disp_q[kpq].maxrunpri >= kpreemptpri)
  OBVIOUS
<1>3. cpu_runrun' = [cpu_runrun EXCEPT ![x] = TRUE]
  BY <1>1 DEF cpu_surrender
<1>4. cpu_kprunrun' = [cpu_kprunrun EXCEPT ![x] = k]
  BY <1>1, <1>2 DEF cpu_surrender
<1>5. cpu_runrun \in [Cpus -> BOOLEAN] /\ cpu_kprunrun \in [Cpus -> BOOLEAN]
  BY DEF DispInv, DispTypes, FlagTypes
<1>6. FlagTypes'
  BY <1>3, <1>4, <1>5 DEF FlagTypes
<1> QED BY <1>1, <1>2, <1>3, <1>4, <1>5, <1>6

LEMMA RequeueIs ==
    ASSUME DispInv, NEW t \in Runnable, NEW p \in Priorities, NEW b, NEW front,
           Requeue(t, p, b, front), t_pri' = [t_pri EXCEPT ![t] = p]
    PROVE  Enqueued(t)
<1>1. PICK d : d = [disp_q EXCEPT ![t_disp_queue[t]] = Dispdeq(@, t, t_pri[t])]
  OBVIOUS
<1>2. Unlocked(t_disp_queue[t]) /\ Enqueue(d, t, p, b, front)
  BY <1>1 DEF Requeue
<1>3. PICK o, S, dq, pri : /\ o \in DispQs /\ o = disp_q /\ S = Runnable
                           /\ dq = t_disp_queue /\ pri = t_pri
  BY DEF DispInv, DispTypes, QueueTypes
<1>4. Sound(o, S, dq, pri) /\ t \in S
  BY <1>3 DEF DispInv, QueueInv
<1>5. d = [o EXCEPT ![dq[t]] = Dispdeq(@, t, pri[t])]
  BY <1>1, <1>3
<1>6. /\ d \in DispQs /\ Sound(d, S \ {t}, dq, pri)
      /\ \A x \in Queues : d[x].maxrunpri <= o[x].maxrunpri
  BY <1>3, <1>4, <1>5, SoundRemoved
<1>7. \A x \in Queues : x # dq[t] => d[x] = o[x]
  BY <1>3, <1>5 DEF DispQs
<1>8. Below(d)
  BY <1>2, <1>3, <1>6, <1>7 DEF Below
<1>9. t \in Threads /\ DispTypes
  BY DEF Runnable, DispInv
<1>10. Sound(d, Runnable \ {t}, t_disp_queue, t_pri)
  BY <1>3, <1>6
<1> QED BY <1>2, <1>6, <1>8, <1>9, <1>10, EnqueueStep

LEMMA ChangePriKeeps ==
    ASSUME DispInv, NEW t \in Threads, NEW p \in PriOf[t], thread_change_pri(t, p)
    PROVE  DispInv' /\ Calm
<1>1. p \in Priorities
  BY DEF Priorities
<1>2. /\ t_pri' = [t_pri EXCEPT ![t] = p]
      /\ UNCHANGED <<t_bound_cpu, cpu_thread, cpu_dispthread, pc>>
  BY DEF thread_change_pri
<1>3. ThreadTypes'
  BY <1>1, <1>2 DEF DispInv, DispTypes, ThreadTypes
<1>4. CASE t_state[t] = "SLEEP" /\ UNCHANGED <<queueVars, t_state, t_disp_queue, flagVars, lowered>>
  <2>1. FlagTypes'
    BY <1>4 DEF flagVars, DispInv, DispTypes, FlagTypes
  <2> QED BY <1>2, <1>3, <1>4, <2>1, StaysWhereItIs DEF flagVars
<1>5. CASE /\ t_state[t] = "RUN"
           /\ \E front \in BOOLEAN : Requeue(t, p, t_bound_cpu[t], front)
           /\ UNCHANGED lowered
  <2>1. t \in Runnable
    BY <1>5 DEF Runnable
  <2>2. Enqueued(t)
    BY <1>1, <1>2, <1>5, <2>1, RequeueIs
  <2> QED BY <1>2, <1>3, <1>5, <2>2, EnqueuedAlone
<1>6. CASE /\ t_state[t] = "ONPROC"
           /\ \/ MaySurrender(t, p) /\ cpu_surrender(t) /\ UNCHANGED lowered
              \/ /\ ~MustSurrender(t, p) /\ UNCHANGED flagVars
                 /\ lowered' = IF p < disp_q[kpq].maxrunpri
                               THEN lowered \cup {t_disp_queue[t]} ELSE lowered
           /\ UNCHANGED <<queueVars, t_state, t_disp_queue>>
  <2>1. t_pri'[t] = p /\ disp_q' = disp_q
    BY <1>2, <1>6 DEF DispInv, DispTypes, ThreadTypes, queueVars
  <2>2. CASE cpu_surrender(t) /\ UNCHANGED lowered
    <3>1. /\ FlagTypes'
          /\ \A c \in Cpus : /\ cpu_runrun[c] => cpu_runrun'[c]
                             /\ cpu_kprunrun[c] => cpu_kprunrun'[c]
          /\ \A c \in Cpus : t_disp_queue[t] = c =>
                /\ cpu_runrun'[c]
                /\ disp_q[c].maxrunpri >= kpreemptpri => cpu_kprunrun'[c]
                /\ disp_q[kpq].maxrunpri >= kpreemptpri => cpu_kprunrun'[c]
      BY <2>2, SurrenderIs
    <3>2. \A c \in Cpus : t_disp_queue[t] = c => Answered(c)
      BY <2>1, <3>1 DEF Answered
    <3> QED BY <1>2, <1>3, <1>6, <2>2, <3>1, <3>2, StaysWhereItIs
  <2>3. CASE /\ ~MustSurrender(t, p) /\ UNCHANGED flagVars
             /\ lowered' = IF p < disp_q[kpq].maxrunpri
                           THEN lowered \cup {t_disp_queue[t]} ELSE lowered
    <3>1. FlagTypes' /\ UNCHANGED <<cpu_runrun, cpu_kprunrun>>
      BY <2>3 DEF flagVars, DispInv, DispTypes, FlagTypes
    <3>2. \A c \in Cpus : c \in lowered => c \in lowered'
      BY <2>3
    <3>3. ASSUME NEW c \in Cpus, t_disp_queue[t] = c, cpu_dispthread[c] = t PROVE Answered(c)
      <4>1. PICK m \in Priorities \cup {-1}, k \in Priorities \cup {-1} :
               m = disp_q[c].maxrunpri /\ k = disp_q[kpq].maxrunpri
        BY DEF DispInv, DispTypes, QueueTypes, DispQs, DispT, Queues
      <4>2. p >= m
        <5>1. ~(p < m)
          BY <2>3, <3>3, <4>1 DEF MustSurrender
        <5> QED BY <1>1, <5>1, PriOrder
      <4>3. p >= k \/ c \in lowered'
        <5>1. p < k => c \in lowered'
          BY <2>3, <3>3, <4>1
        <5> QED BY <1>1, <5>1, PriOrder
      <4>4. cpu_dispthread'[c] = t
        BY <1>2, <3>3
      <4> QED BY <2>1, <4>1, <4>2, <4>3, <4>4 DEF Answered
    <3> QED BY <1>2, <1>3, <1>6, <3>1, <3>2, <3>3, StaysWhereItIs
  <2> QED BY <1>6, <2>2, <2>3
<1> QED BY <1>4, <1>5, <1>6 DEF thread_change_pri

LEMMA BindKeeps ==
    ASSUME DispInv, NEW t \in Threads, NEW b \in Bindings[t], cpu_bind_thread(t, b)
    PROVE  DispInv' /\ Calm
<1>1. /\ t_bound_cpu' = [t_bound_cpu EXCEPT ![t] = b]
      /\ UNCHANGED <<t_pri, cpu_thread, cpu_dispthread, pc, lowered>>
  BY DEF cpu_bind_thread
<1>2. PICK p \in Priorities : p = t_pri[t] /\ t_pri' = [t_pri EXCEPT ![t] = p]
  BY <1>1 DEF DispInv, DispTypes, ThreadTypes
<1>3. ThreadTypes'
  <2>1. b \in Cpus \cup {NULL}
    BY DispAssumption
  <2> QED BY <1>1, <2>1 DEF DispInv, DispTypes, ThreadTypes
<1> DEFINE move == b = NULL \/ b # t_cpu[t]
<1>4. CASE t_state[t] = "RUN" /\ move
  <2>1. Requeue(t, p, b, FALSE)
    BY <1>2, <1>4 DEF cpu_bind_thread
  <2>2. t \in Runnable
    BY <1>4 DEF Runnable
  <2>3. Enqueued(t)
    BY <1>2, <2>1, <2>2, RequeueIs
  <2> QED BY <1>1, <1>2, <1>3, <1>4, <2>3, EnqueuedAlone
<1>5. CASE t_state[t] = "ONPROC" /\ b # NULL /\ move
  <2>1. cpu_surrender(t) /\ UNCHANGED <<queueVars, t_state, t_disp_queue>>
    BY <1>5 DEF cpu_bind_thread
  <2>2. /\ FlagTypes'
        /\ \A c \in Cpus : /\ cpu_runrun[c] => cpu_runrun'[c]
                           /\ cpu_kprunrun[c] => cpu_kprunrun'[c]
    BY <2>1, SurrenderIs
  <2> QED BY <1>1, <1>2, <1>3, <1>5, <2>1, <2>2, StaysWhereItIs
<1>6. CASE ~(t_state[t] = "RUN" /\ move) /\ ~(t_state[t] = "ONPROC" /\ b # NULL /\ move)
  <2>1. UNCHANGED <<queueVars, t_state, t_disp_queue, flagVars>>
    BY <1>6 DEF cpu_bind_thread
  <2>2. FlagTypes'
    BY <2>1 DEF flagVars, DispInv, DispTypes, FlagTypes
  <2> QED BY <1>1, <1>2, <1>3, <2>1, <2>2, StaysWhereItIs DEF flagVars
<1> QED BY <1>4, <1>5, <1>6
-----------------------------------------------------------------------------
LEMMA StutterKeeps == ASSUME DispInv, UNCHANGED vars PROVE DispInv' /\ Calm
<1>1. UNCHANGED <<queueVars, threadVars, cpu_thread, cpu_dispthread, flagVars, pc, lowered>>
  BY DEF vars, cpuVars
<1>2. QueueTypes' /\ QueueInv' /\ (\A c \in Cpus : Told(c)) /\ KpStep /\ HighStep
  BY <1>1, SameQueues, QueuesStay
<1>3. CpuInv' /\ CpuTypes'
  BY <1>1, ThreadsKept, CpusStay DEF threadVars
<1>4. FlagTypes' /\ ThreadTypes'
  BY <1>1 DEF threadVars, flagVars, FlagTypes, ThreadTypes, DispInv, DispTypes
<1>5. \A c \in Cpus : Quiet(c)
  <2>1. ASSUME NEW c \in Cpus, Decided(c) PROVE Quiet(c)
    BY <1>1, <2>1 DEF Quiet, threadVars, flagVars
  <2>2. ASSUME NEW c \in Cpus, ~Decided(c) PROVE Quiet(c)
    BY <1>1, <2>2 DEF Quiet, Decided
  <2> QED BY <2>1, <2>2
<1> QED BY <1>2, <1>3, <1>4, <1>5 DEF Calm, DispInv, DispTypes

LEMMA DispStep ==
    ASSUME DispInv, [Next]_vars
    PROVE  /\ DispInv' /\ (\A c \in Cpus : Quiet(c) /\ Told(c)) /\ HighStep
           /\ KpStep \/ \E c \in Cpus : TellCpu(c)
<1>1. CASE \E c \in Cpus : TellCpu(c)
  BY <1>1, TellCpuKeeps
<1>2. ASSUME NEW c \in Cpus, CpuStep(c) PROVE DispInv' /\ Calm
  <2>1. CASE \E d \in Cpus : Steal(c, d)
    BY <2>1, StealKeeps
  <2>2. CASE \E t \in Threads : Ratify(c, t) \/ resume_from_idle(c, t)
    BY <2>2, RatifyKeeps, ResumeKeeps
  <2> QED BY <1>2, <2>1, <2>2, idleKeeps, LookKeeps, GetBestKpKeeps, TakeOwnKeeps,
             GetWorkKpKeeps, NoWorkKeeps, ChooseIdleKeeps, CommitKeeps DEF CpuStep
<1>3. ASSUME NEW c \in Cpus, NEW t \in Threads, Sleep(c, t) \/ preempt(c, t)
      PROVE  DispInv' /\ Calm
  BY <1>3, SleepKeeps, PreemptKeeps
<1>4. ASSUME NEW t \in Threads,
             \/ setrun(t)
             \/ \E p \in PriOf[t] : thread_change_pri(t, p)
             \/ \E b \in Bindings[t] : cpu_bind_thread(t, b)
      PROVE  DispInv' /\ Calm
  BY <1>4, SetrunKeeps, ChangePriKeeps, BindKeeps
<1>5. ASSUME NEW c \in Cpus, TellOwn(c) PROVE DispInv' /\ Calm
  BY <1>5, TellOwnKeeps
<1>6. CASE UNCHANGED vars
  BY <1>6, StutterKeeps DEF Calm
<1>7. CASE Next
  BY <1>1, <1>2, <1>3, <1>4, <1>5, <1>7 DEF Next, Calm
<1> QED BY <1>6, <1>7

LEMMA DispInvariant == Spec => []DispInv
<1>1. Init => DispInv
  BY DispInit
<1>2. DispInv /\ [Next]_vars => DispInv'
  BY DispStep
<1> QED BY <1>1, <1>2, PTL DEF Spec

LEMMA OnceIfSound == ASSUME DispInv PROVE DispatchedOnce
<1>1. \A x \in Queues, p \in Priorities :
         /\ disp_q[x].q[p] \in Seq(Threads)
         /\ On(x, p) = Elems(disp_q[x].q[p])
  BY DEF DispInv, DispTypes, QueueTypes, DispQs, DispT, On, Elems
<1>2. /\ \A t \in Runnable : /\ t_disp_queue[t] \in Queues /\ t_pri[t] \in Priorities
                             /\ t \in Elems(disp_q[t_disp_queue[t]].q[t_pri[t]])
      /\ \A x \in Queues, p \in Priorities :
            /\ NoDup(disp_q[x].q[p])
            /\ \A t \in Elems(disp_q[x].q[p]) :
                  t \in Runnable /\ t_disp_queue[t] = x /\ t_pri[t] = p
      /\ \A x \in Queues : disp_q[x].maxrunpri = Top(disp_q[x].q)
  BY DEF DispInv, QueueInv, Sound
<1>3. \A t \in Threads : t_state[t] = "RUN" => t \in On(t_disp_queue[t], t_pri[t])
  BY <1>1, <1>2 DEF Runnable
<1>4. \A x \in Queues, p \in Priorities :
        /\ \A t \in On(x, p) : t_state[t] = "RUN" /\ t_disp_queue[t] = x /\ t_pri[t] = p
        /\ Cardinality(On(x, p)) = Len(disp_q[x].q[p])
  BY <1>1, <1>2, QueueCardinality DEF Runnable
<1>5. ASSUME NEW c \in Cpus, Decided(c) \/ Ratifying(c) \/ Checking(c),
             cpu_dispthread[c] # NULL
      PROVE  /\ t_state[cpu_dispthread[c]] = "ONPROC"
             /\ t_disp_queue[cpu_dispthread[c]] = c
  <2>1. Chosen(pc[c])
    BY <1>5 DEF Decided, Ratifying, Checking, Chosen
  <2> QED BY <1>5, <2>1 DEF DispInv, CpuInv
<1>6. /\ \A c \in Cpus : pc[c] = "run" => cpu_thread[c] = cpu_dispthread[c]
      /\ \A c, d \in Cpus : cpu_thread[c] = cpu_thread[d] => c = d \/ cpu_thread[c] = NULL
  BY DEF DispInv, CpuInv
<1> QED BY <1>2, <1>3, <1>4, <1>5, <1>6 DEF DispatchedOnce

(* Whatever wakes, preempts, steals, reprices or binds threads: a runnable *)
(* thread is on one queue, once, a dispatched one with one CPU, no thread  *)
(* runs on two CPUs, and disp_maxrunpri is exact.                          *)
THEOREM DispOnce == Spec => []DispatchedOnce
<1>1. DispInv => DispatchedOnce
  BY OnceIfSound
<1> QED BY <1>1, DispInvariant, PTL
-----------------------------------------------------------------------------
(* While the lock of c's queue is held, what was put on it is first there. *)
FirstPending ==
    \A c \in Cpus : inserted[c] # -1 => inserted[c] = disp_q[c].maxrunpri

LEMMA FirstPendingStep ==
    ASSUME FirstPending, \A c \in Cpus : Told(c) PROVE FirstPending'
BY DEF FirstPending, Told

LEMMA NoMissedStep ==
    ASSUME DispInv, DispInv', FirstPending, NoMissedPreemption,
           \A c \in Cpus : Quiet(c) /\ Told(c)
    PROVE  NoMissedPreemption'
<1>1. SUFFICES ASSUME NEW c \in Cpus, Decided(c)', inserted'[c] = -1,
                      cpu_dispthread'[c] # NULL,
                      disp_q'[c].maxrunpri > DISP_PRIO(cpu_dispthread[c])'
               PROVE  /\ cpu_runrun'[c]
                      /\ disp_q'[c].maxrunpri >= kpreemptpri => cpu_kprunrun'[c]
  BY DispAssumption DEF NoMissedPreemption, Unlocked
<1>2. PICK n \in Priorities \cup {-1}, m \in Priorities \cup {-1} :
         n = disp_q'[c].maxrunpri /\ m = disp_q[c].maxrunpri
  <2>1. c \in Queues
    BY DEF Queues
  <2>2. disp_q \in DispQs /\ disp_q' \in DispQs
    BY DEF DispInv, DispTypes, QueueTypes
  <2> QED BY <2>1, <2>2 DEF DispQs, DispT
<1>3. PICK e \in Threads : e = cpu_dispthread'[c]
  BY <1>1 DEF DispInv, DispTypes, CpuTypes
<1>4. PICK p \in Priorities : p = t_pri'[e]
  BY DEF DispInv, DispTypes, ThreadTypes
<1>5. n > p
  BY <1>1, <1>2, <1>3, <1>4, DispAssumption DEF DISP_PRIO
<1>6. /\ n \in Int /\ m \in Int /\ p \in Int /\ kpreemptpri \in Int
  BY PriNumbers, DispAssumption
<1>7. CASE Answered(c)
  <2>1. ~(p >= n)
    BY <1>5, <1>6
  <2> QED BY <1>2, <1>3, <1>4, <1>7, <2>1 DEF Answered
<1>8. CASE ~Answered(c)
  <2>1. /\ Decided(c) /\ cpu_dispthread[c] = e /\ t_pri[e] = p
        /\ cpu_runrun[c] => cpu_runrun'[c]
        /\ cpu_kprunrun[c] => cpu_kprunrun'[c]
    BY <1>1, <1>3, <1>4, <1>8 DEF Quiet, Decided
  <2>2. e # NULL /\ DISP_PRIO(cpu_dispthread[c]) = p
    BY <2>1, DispAssumption DEF DISP_PRIO
  <2>3. CASE inserted[c] = -1
    <3>1. n <= m
      BY <1>1, <1>2, <1>6, <2>3 DEF Told
    <3>2. m > p /\ (n >= kpreemptpri => m >= kpreemptpri)
      BY <1>5, <1>6, <3>1
    <3>3. Unlocked(c)
      BY <2>3, DispAssumption DEF Unlocked
    <3>4. cpu_runrun[c] /\ (m >= kpreemptpri => cpu_kprunrun[c])
      BY <1>2, <2>1, <2>2, <3>2, <3>3 DEF NoMissedPreemption
    <3> QED BY <1>2, <2>1, <3>2, <3>4
  <2>4. CASE inserted[c] # -1
    <3>1. inserted[c] = m /\ n = m
      BY <1>1, <1>2, <2>4 DEF FirstPending, Told
    <3>2. Outranked(c, m)
      BY <1>5, <1>6, <2>1, <2>2, <3>1 DEF Outranked
    <3>3. cpu_runrun'[c] /\ (m >= kpreemptpri => cpu_kprunrun'[c])
      BY <1>1, <2>4, <3>1, <3>2 DEF Told
    <3> QED BY <1>2, <3>1, <3>3
  <2> QED BY <2>3, <2>4
<1> QED BY <1>7, <1>8

(* Whatever is put on a CPU's own queue, at whatever moment of its choice: *)
(* once the queue's lock is dropped, the CPU does not go on with a thread  *)
(* that is outranked without being told, and preempts the kernel if that   *)
(* is what the priority asks for.  This is a theorem about sequentially    *)
(* consistent memory: setbackdq and setfrontdq store disp_maxrunpri and    *)
(* load cpu_dispthread with no barrier between, so a machine with store    *)
(* buffers is not covered.                                                 *)
THEOREM DispPreempts == Spec => []NoMissedPreemption
<1>1. Init => FirstPending /\ NoMissedPreemption
  BY DEF Init, FirstPending, NoMissedPreemption
<1>2. DispInv /\ FirstPending /\ NoMissedPreemption /\ [Next]_vars
        => FirstPending' /\ NoMissedPreemption'
  BY DispStep, FirstPendingStep, NoMissedStep
<1> QED BY <1>1, <1>2, DispInvariant, PTL DEF Spec
-----------------------------------------------------------------------------
(* Only threads of priority kpqpri and above are on the shared queue.      *)
KpHigh ==
    /\ kp_inserted = -1 \/ kp_inserted >= kpqpri
    /\ \A t \in Runnable : t_disp_queue[t] = kpq => t_pri[t] >= kpqpri

(* CPU c waits for the first thread of the shared queue, of priority m.    *)
Waits(c, m) ==
    \/ ~Decided(c) \/ cpu_dispthread[c] = NULL
    \/ cpu_kprunrun[c]
    \/ t_pri[cpu_dispthread[c]] >= m
    \/ c \in lowered

(* Some CPU does, unless it is about to be told.                           *)
KpWaited ==
    disp_q[kpq].maxrunpri # -1 /\ kp_inserted # disp_q[kpq].maxrunpri =>
        \E c \in Cpus : Waits(c, disp_q[kpq].maxrunpri)

LEMMA KpHighStep ==
    ASSUME DispInv, DispInv', KpHigh, HighStep, KpStep \/ \E c \in Cpus : TellCpu(c)
    PROVE  KpHigh'
<1>1. kp_inserted' = -1 \/ kp_inserted' >= kpqpri
  BY DEF KpStep, TellCpu, KpHigh
<1>2. ASSUME NEW t \in Runnable', t_disp_queue'[t] = kpq PROVE t_pri'[t] >= kpqpri
  <2>1. t \in Threads /\ t_state'[t] = "RUN"
    BY DEF Runnable
  <2>2. CASE t_state[t] = "RUN" /\ t_disp_queue[t] = kpq /\ t_pri'[t] = t_pri[t]
    BY <2>1, <2>2 DEF KpHigh, Runnable
  <2> QED BY <1>2, <2>1, <2>2 DEF HighStep
<1> QED BY <1>1, <1>2 DEF KpHigh

KpTop == disp_q[kpq].maxrunpri # -1 => disp_q[kpq].maxrunpri >= kpqpri

LEMMA KpTopHigh == DispInv /\ KpHigh => KpTop
<1> SUFFICES ASSUME DispInv, KpHigh, disp_q[kpq].maxrunpri # -1
             PROVE  disp_q[kpq].maxrunpri >= kpqpri
  BY DEF KpTop
<1>1. kpq \in Queues
  BY DEF Queues
<1>2. PICK q \in [Priorities -> Seq(Threads)] : q = disp_q[kpq].q
  BY <1>1 DEF DispInv, DispTypes, QueueTypes, DispQs, DispT
<1>3. PICK m : m = disp_q[kpq].maxrunpri
  OBVIOUS
<1>4. m = Top(q)
  BY <1>1, <1>2, <1>3 DEF DispInv, QueueInv, Sound
<1>5. m \in Priorities /\ Elems(q[m]) # {}
  BY <1>3, <1>4, TopIs
<1>6. PICK t : t \in Elems(disp_q[kpq].q[m])
  BY <1>2, <1>5
<1>7. t \in Runnable /\ t_disp_queue[t] = kpq /\ t_pri[t] = m
  BY <1>1, <1>5, <1>6 DEF DispInv, QueueInv, Sound
<1> QED BY <1>3, <1>7 DEF KpHigh

LEMMA KpWaitedStep ==
    ASSUME kpreemptpri <= kpqpri, DispInv, DispInv', KpHigh, KpHigh', KpWaited,
           \A c \in Cpus : Quiet(c), KpStep \/ \E c \in Cpus : TellCpu(c)
    PROVE  KpWaited'
<1>1. PICK n \in Priorities \cup {-1}, m \in Priorities \cup {-1} :
         n = disp_q'[kpq].maxrunpri /\ m = disp_q[kpq].maxrunpri
  <2>1. kpq \in Queues
    BY DEF Queues
  <2>2. disp_q \in DispQs /\ disp_q' \in DispQs
    BY DEF DispInv, DispTypes, QueueTypes
  <2> QED BY <2>1, <2>2 DEF DispQs, DispT
<1>2. SUFFICES ASSUME n # -1, kp_inserted' # n PROVE \E c \in Cpus : Waits(c, n)'
  BY <1>1 DEF KpWaited
<1>3. n \in Nat /\ m \in Int /\ kpqpri \in Nat /\ kpreemptpri \in Nat
  BY <1>2, PriNumbers, DispAssumption
<1>4. n >= kpreemptpri
  <2>1. (DispInv /\ KpHigh => KpTop)'
    BY KpTopHigh, PTL
  <2>2. n >= kpqpri
    BY <1>1, <1>2, <2>1 DEF KpTop
  <2> QED BY <1>3, <2>2
<1>5. ASSUME NEW c \in Cpus, Waits(c, m), n <= m PROVE Waits(c, n)'
  <2>1. CASE pc'[c] \notin {"run", "spin"} \/ cpu_dispthread'[c] = NULL
    BY <2>1 DEF Waits, Decided
  <2>2. CASE Answered(c)
    BY <1>1, <1>4, <2>2 DEF Answered, Waits
  <2>3. CASE /\ Decided(c) /\ cpu_dispthread'[c] = cpu_dispthread[c]
             /\ t_pri'[cpu_dispthread[c]] = t_pri[cpu_dispthread[c]]
             /\ cpu_kprunrun[c] => cpu_kprunrun'[c]
             /\ c \in lowered => c \in lowered'
    <3>1. SUFFICES ASSUME cpu_dispthread[c] # NULL PROVE Waits(c, n)'
      BY <2>3 DEF Waits
    <3>2. PICK p \in Priorities : p = t_pri[cpu_dispthread[c]]
      BY <3>1 DEF DispInv, DispTypes, CpuTypes, ThreadTypes
    <3>3. p \in Nat
      BY PriNumbers
    <3>4. p >= m => p >= n
      BY <1>3, <1>5, <3>3
    <3> QED BY <1>5, <2>3, <3>1, <3>2, <3>4 DEF Waits
  <2> QED BY <2>1, <2>2, <2>3 DEF Quiet
<1>6. ASSUME m # -1, kp_inserted # m, n <= m PROVE \E c \in Cpus : Waits(c, n)'
  BY <1>1, <1>5, <1>6 DEF KpWaited
<1>7. CASE KpStep
  <2>1. n <= m /\ (n = m \/ kp_inserted = -1)
    <3>1. n = m => n <= m
      BY <1>3
    <3> QED BY <1>1, <1>2, <1>7, <3>1 DEF KpStep
  <2>2. m # -1
    BY <1>3, <2>1
  <2>3. kp_inserted # m
    <3>1. CASE kp_inserted = -1
      BY <2>2, <3>1
    <3>2. CASE kp_inserted # -1
      BY <1>1, <1>2, <1>7, <3>2 DEF KpStep
    <3> QED BY <3>1, <3>2
  <2> QED BY <1>6, <2>1, <2>2, <2>3
<1>8. CASE \E c \in Cpus : TellCpu(c)
  <2>1. PICK c \in Cpus : TellCpu(c)
    BY <1>8
  <2>2. n = m /\ n <= m
    BY <1>1, <1>3, <2>1 DEF TellCpu
  <2>3. CASE kp_inserted # m
    BY <1>2, <1>6, <2>2, <2>3
  <2>4. CASE kp_inserted = m
    <3>1. SUFFICES ASSUME cpu_dispthread[c] # NULL PROVE Waits(c, n)'
      BY <2>1 DEF TellCpu, Waits
    <3>2. PICK p \in Priorities : p = t_pri[cpu_dispthread[c]]
      BY <3>1 DEF DispInv, DispTypes, CpuTypes, ThreadTypes
    <3>3. p >= n \/ p < n
      BY <1>3, PriNumbers
    <3>4. p >= n => Waits(c, n)'
      BY <2>1, <3>2 DEF TellCpu, threadVars, Waits
    <3>5. p < n => Outranked(c, n)
      BY <3>1, <3>2 DEF Outranked, DISP_PRIO
    <3>6. SetFlags(c, n)
      BY <2>1, <2>2, <2>4 DEF TellCpu
    <3>7. Outranked(c, n) => cpu_kprunrun'[c]
      BY <1>4, <3>6 DEF SetFlags, DispInv, DispTypes, FlagTypes
    <3> QED BY <3>3, <3>4, <3>5, <3>7 DEF Waits
  <2> QED BY <2>3, <2>4
<1> QED BY <1>7, <1>8

(* The first thread of the shared queue is always waited for by some CPU,  *)
(* however its announcement interleaves with what the CPUs do; kpreemptpri *)
(* is not above kpqpri unless the administrator sets kpqpri.               *)
THEOREM DispKpNoticed == ASSUME kpreemptpri <= kpqpri PROVE Spec => []KpNoticed
<1>1. Init => KpHigh /\ KpWaited
  <2>1. ASSUME Init PROVE kp_inserted = -1 /\ Runnable = {} /\ disp_q[kpq].maxrunpri = -1
    BY <2>1 DEF Init, Runnable, NoThreads, Queues
  <2> QED BY <2>1 DEF KpHigh, KpWaited
<1>2. DispInv /\ KpHigh /\ KpWaited /\ [Next]_vars => KpHigh' /\ KpWaited'
  BY DispStep, KpHighStep, KpWaitedStep
<1>3. DispInv /\ KpWaited => KpNoticed
  <2>1. SUFFICES ASSUME DispInv, KpWaited, disp_q[kpq].maxrunpri # -1, Unlocked(kpq)
                 PROVE  \E c \in Cpus :
                          \/ ~Decided(c) \/ cpu_dispthread[c] = NULL
                          \/ cpu_kprunrun[c]
                          \/ DISP_PRIO(cpu_dispthread[c]) >= disp_q[kpq].maxrunpri
                          \/ c \in lowered
    BY DEF KpNoticed
  <2>2. PICK c \in Cpus : Waits(c, disp_q[kpq].maxrunpri)
    BY <2>1 DEF KpWaited, Unlocked
  <2> QED BY <2>2 DEF Waits, DISP_PRIO
<1> QED BY <1>1, <1>2, <1>3, DispInvariant, PTL DEF Spec
-----------------------------------------------------------------------------
(* The unbound threads U are not hidden on the queues d.                   *)
Visible(d, U, dq, pri) == \A u \in U : d[dq[u]].max_unbound_pri >= pri[u]

LEMMA RemovedVisible ==
    ASSUME NEW d \in DispQs, NEW S, NEW dq, NEW pri, Sound(d, S, dq, pri), NEW t \in S,
           NEW n, n = [d EXCEPT ![dq[t]] = Dispdeq(@, t, pri[t])],
           NEW U \in SUBSET S, Visible(d, U, dq, pri)
    PROVE  Visible(n, U \ {t}, dq, pri)
<1>1. PICK x \in Queues : x = dq[t]
  BY DEF Sound
<1>2. PICK p \in Priorities : p = pri[t]
  BY DEF Sound
<1>3. PICK e \in DispT : e = d[x]
  BY DEF DispQs
<1>4. t \in Elems(e.q[p]) /\ NoDup(e.q[p]) /\ e.maxrunpri = Top(e.q)
  BY <1>1, <1>2, <1>3 DEF Sound
<1>5. PICK r : r = Dispdeq(e, t, p)
  OBVIOUS
<1>6. r.max_unbound_pri = e.max_unbound_pri \/ r.max_unbound_pri = r.maxrunpri
  BY <1>4, <1>5, DispdeqIs
<1>7. n[x] = r /\ \A y \in Queues : y # x => n[y] = d[y]
  BY <1>1, <1>2, <1>3, <1>5 DEF DispQs
<1>8. n \in DispQs /\ Sound(n, S \ {t}, dq, pri)
  BY SoundRemoved
<1>9. SUFFICES ASSUME NEW u \in U, u # t PROVE n[dq[u]].max_unbound_pri >= pri[u]
  BY DEF Visible
<1>10. /\ dq[u] \in Queues /\ pri[u] \in Priorities
       /\ u \in Elems(n[dq[u]].q[pri[u]]) /\ n[dq[u]].maxrunpri = Top(n[dq[u]].q)
  BY <1>8, <1>9 DEF Sound
<1>11. n[dq[u]].maxrunpri >= pri[u]
  <2>1. PICK q \in [Priorities -> Seq(Threads)] : q = n[dq[u]].q
    BY <1>8, <1>10 DEF DispQs, DispT
  <2>2. PICK m \in Priorities \cup {-1} : m = Top(q) /\ pri[u] <= m
    BY <1>10, <2>1, TopIs
  <2>3. m >= pri[u]
    BY <1>10, <2>2, PriOrder
  <2> QED BY <1>10, <2>1, <2>2, <2>3
<1>12. d[dq[u]].max_unbound_pri >= pri[u]
  BY DEF Visible
<1> QED BY <1>3, <1>6, <1>7, <1>10, <1>11, <1>12

LEMMA RaisedVisible ==
    ASSUME NEW d \in DispQs, NEW n \in DispQs, NEW x \in Queues, NEW p \in Priorities,
           NEW w \in BOOLEAN, Raised(d, n, x, p, w),
           NEW U, NEW dq, NEW pri, Visible(d, U, dq, pri),
           \A u \in U : dq[u] \in Queues /\ pri[u] \in Priorities
    PROVE  /\ Visible(n, U, dq, pri)
           /\ w \/ d[x].max_unbound_pri >= p => n[x].max_unbound_pri >= p
<1>1. PICK m \in Priorities \cup {-1}, k \in Priorities \cup {-1} :
        m = d[x].max_unbound_pri /\ k = n[x].max_unbound_pri
  BY DEF DispQs, DispT
<1>2. p \in Int /\ m \in Int /\ k \in Int
  BY PriNumbers
<1>3. k = IF w THEN Higher(p, m) ELSE m
  BY <1>1 DEF Raised
<1>4. k >= m /\ (w \/ m >= p => k >= p)
  BY <1>2, <1>3 DEF Higher
<1>5. ASSUME NEW u \in U PROVE n[dq[u]].max_unbound_pri >= pri[u]
  <2>1. dq[u] \in Queues /\ d[dq[u]].max_unbound_pri >= pri[u]
    BY DEF Visible
  <2>2. CASE dq[u] = x
    <3>1. PICK j \in Priorities : j = pri[u]
      OBVIOUS
    <3>2. j \in Int /\ m >= j
      BY <1>1, <2>1, <2>2, <3>1, PriNumbers
    <3>3. k >= j
      BY <1>2, <1>4, <3>2
    <3> QED BY <1>1, <2>2, <3>1, <3>3
  <2>3. CASE dq[u] # x
    BY <2>1, <2>3 DEF Raised
  <2> QED BY <2>2, <2>3
<1> QED BY <1>1, <1>4, <1>5 DEF Visible

Free == {t \in Runnable : t_bound_cpu[t] = NULL}
KpqFree == \A t \in Runnable : t_disp_queue[t] = kpq => t_bound_cpu[t] = NULL
FreeInv == Visible(disp_q, Free, t_disp_queue, t_pri) /\ KpqFree

LEMMA EnqueueVisible ==
    ASSUME DispTypes, KpqFree, NEW t \in Threads, NEW d \in DispQs,
           Sound(d, Runnable \ {t}, t_disp_queue, t_pri),
           Visible(d, Free \ {t}, t_disp_queue, t_pri),
           NEW p \in Priorities, NEW b, NEW front, Enqueue(d, t, p, b, front),
           t_pri' = [t_pri EXCEPT ![t] = p], t_bound_cpu' = [t_bound_cpu EXCEPT ![t] = b]
    PROVE  FreeInv'
<1>1. PICK x \in Queues, w \in BOOLEAN :
        /\ disp_q' \in DispQs /\ Raised(d, disp_q', x, p, w)
        /\ Sound(disp_q', (Runnable \ {t}) \cup {t}, t_disp_queue', t_pri')
        /\ t_disp_queue' = [t_disp_queue EXCEPT ![t] = x]
        /\ Unlocked(x) /\ UNCHANGED flagVars
        /\ \/ /\ x \in Cpus /\ (w <=> b = NULL)
              /\ inserted' = [inserted EXCEPT ![x] = IF Tells(d, x, p) THEN p ELSE -1]
              /\ kp_inserted' = kp_inserted
           \/ /\ x = kpq /\ b = NULL /\ (w <=> d[kpq].q[p] = <<>>)
              /\ p >= kpqpri
              /\ kp_inserted' = p /\ inserted' = inserted
  BY EnqueueIs, Zenon
<1>2. t_state' = [t_state EXCEPT ![t] = "RUN"]
  BY DEF Enqueue
<1>3. Runnable' = (Runnable \ {t}) \cup {t}
  BY <1>2 DEF Runnable, DispTypes, QueueTypes
<1>4. /\ t_disp_queue'[t] = x /\ t_pri'[t] = p /\ t_bound_cpu'[t] = b
      /\ \A u \in Threads \ {t} : /\ t_disp_queue'[u] = t_disp_queue[u]
                                  /\ t_pri'[u] = t_pri[u]
                                  /\ t_bound_cpu'[u] = t_bound_cpu[u]
  BY <1>1 DEF DispTypes, QueueTypes, ThreadTypes
<1>5. KpqFree'
  <2>1. ASSUME NEW u \in Runnable \ {t}, t_disp_queue'[u] = kpq PROVE t_bound_cpu'[u] = NULL
    BY <1>4, <2>1 DEF KpqFree, Runnable
  <2>2. x = kpq => t_bound_cpu'[t] = NULL
    BY <1>1, <1>4, DispAssumption
  <2> QED BY <1>3, <1>4, <2>1, <2>2 DEF KpqFree
<1>6. PICK n : n = disp_q' /\ n \in DispQs /\ Raised(d, n, x, p, w)
  BY <1>1
<1>7. PICK U, dq, pri : U = Free \ {t} /\ dq = t_disp_queue /\ pri = t_pri
  OBVIOUS
<1>8. Visible(d, U, dq, pri) /\ \A u \in U : dq[u] \in Queues /\ pri[u] \in Priorities
  BY <1>7 DEF Free, Sound
<1>9. /\ Visible(n, U, dq, pri)
      /\ w \/ d[x].max_unbound_pri >= p => n[x].max_unbound_pri >= p
  BY <1>6, <1>8, RaisedVisible
<1>10. b = NULL => w \/ d[x].max_unbound_pri >= p
  <2>1. SUFFICES ASSUME b = NULL, ~w PROVE d[x].max_unbound_pri >= p
    OBVIOUS
  <2>2. x = kpq /\ d[kpq].q[p] # <<>>
    BY <1>1, <2>1
  <2>3. d[kpq].q[p] \in Seq(Threads)
    BY <2>2 DEF DispQs, DispT
  <2>4. PICK u : u \in Elems(d[kpq].q[p])
    BY <2>2, <2>3, Emptiness
  <2>5. u \in Runnable \ {t} /\ t_disp_queue[u] = kpq /\ t_pri[u] = p
    BY <2>2, <2>4 DEF Sound
  <2>6. u \in Free \ {t}
    BY <2>5 DEF KpqFree, Free
  <2> QED BY <2>2, <2>5, <2>6 DEF Visible
<1>11. \A u \in Free' : disp_q'[t_disp_queue'[u]].max_unbound_pri >= t_pri'[u]
  <2>1. SUFFICES ASSUME NEW u \in Free'
                 PROVE  disp_q'[t_disp_queue'[u]].max_unbound_pri >= t_pri'[u]
    OBVIOUS
  <2>2. u \in Runnable' /\ t_bound_cpu'[u] = NULL
    BY DEF Free
  <2>3. CASE u = t
    BY <1>4, <1>6, <1>9, <1>10, <2>2, <2>3
  <2>4. CASE u # t
    <3>1. u \in Runnable /\ u \in Threads
      BY <1>3, <2>2, <2>4 DEF Runnable
    <3>2. u \in U
      BY <1>4, <1>7, <2>2, <2>4, <3>1 DEF Free
    <3>3. n[dq[u]].max_unbound_pri >= pri[u]
      BY <1>9, <3>2 DEF Visible
    <3> QED BY <1>4, <1>6, <1>7, <2>4, <3>1, <3>3
  <2> QED BY <2>3, <2>4
<1> QED BY <1>5, <1>11 DEF FreeInv, Visible

(* Threads leave the queues, or are bound where they are not on the shared *)
(* queue.                                                                  *)
LEMMA FreeSame ==
    ASSUME DispInv, FreeInv,
           \A x \in Queues : disp_q'[x].max_unbound_pri = disp_q[x].max_unbound_pri,
           \A t \in Runnable' :
               /\ t \in Runnable /\ t_disp_queue'[t] = t_disp_queue[t] /\ t_pri'[t] = t_pri[t]
               /\ \/ t_bound_cpu'[t] = t_bound_cpu[t]
                  \/ t_bound_cpu'[t] # NULL /\ t_disp_queue[t] # kpq
    PROVE  FreeInv'
<1>1. KpqFree'
  BY DEF FreeInv, KpqFree
<1>2. ASSUME NEW u \in Free' PROVE disp_q'[t_disp_queue'[u]].max_unbound_pri >= t_pri'[u]
  <2>1. /\ u \in Runnable /\ t_bound_cpu[u] = NULL
        /\ t_disp_queue'[u] = t_disp_queue[u] /\ t_pri'[u] = t_pri[u]
    BY DEF Free
  <2>2. disp_q[t_disp_queue[u]].max_unbound_pri >= t_pri[u]
    BY <2>1 DEF FreeInv, Visible, Free
  <2>3. t_disp_queue[u] \in Queues
    BY <2>1 DEF DispInv, QueueInv, Sound
  <2> QED BY <2>1, <2>2, <2>3
<1> QED BY <1>1, <1>2 DEF FreeInv, Visible

LEMMA FreeUnchanged ==
    ASSUME DispInv, FreeInv, UNCHANGED <<disp_q, t_bound_cpu>>,
           \A t \in Runnable' :
               t \in Runnable /\ t_disp_queue'[t] = t_disp_queue[t] /\ t_pri'[t] = t_pri[t]
    PROVE  FreeInv'
BY FreeSame

LEMMA FreshVisible ==
    ASSUME DispInv, FreeInv, NEW t \in Threads, t_state[t] # "RUN",
           UNCHANGED <<t_pri, t_bound_cpu>>, setbackdq(t) \/ setfrontdq(t)
    PROVE  FreeInv'
<1>1. PICK p \in Priorities : p = t_pri[t]
  BY DEF DispInv, DispTypes, ThreadTypes
<1>2. PICK b : b = t_bound_cpu[t]
  OBVIOUS
<1>3. PICK front \in BOOLEAN : Enqueue(disp_q, t, p, b, front)
  BY <1>1, <1>2 DEF setbackdq, setfrontdq
<1>4. /\ t_pri' = [t_pri EXCEPT ![t] = p]
      /\ t_bound_cpu' = [t_bound_cpu EXCEPT ![t] = b]
  BY <1>1, <1>2 DEF DispInv, DispTypes, ThreadTypes
<1>5. disp_q \in DispQs /\ DispTypes
  BY DEF DispInv, DispTypes, QueueTypes
<1>6. Runnable \ {t} = Runnable /\ Free \ {t} = Free
  BY DEF Runnable, Free
<1>7. /\ Sound(disp_q, Runnable \ {t}, t_disp_queue, t_pri)
      /\ Visible(disp_q, Free \ {t}, t_disp_queue, t_pri) /\ KpqFree
  BY <1>6 DEF DispInv, QueueInv, FreeInv
<1> QED BY <1>3, <1>4, <1>5, <1>7, EnqueueVisible

LEMMA RequeueVisible ==
    ASSUME DispInv, FreeInv, NEW t \in Runnable, NEW p \in Priorities, NEW b, NEW front,
           Requeue(t, p, b, front), t_pri' = [t_pri EXCEPT ![t] = p],
           t_bound_cpu' = [t_bound_cpu EXCEPT ![t] = b]
    PROVE  FreeInv'
<1>1. PICK d : d = [disp_q EXCEPT ![t_disp_queue[t]] = Dispdeq(@, t, t_pri[t])]
  OBVIOUS
<1>2. Enqueue(d, t, p, b, front)
  BY <1>1 DEF Requeue
<1>3. PICK o, S, dq, pri, U : /\ o \in DispQs /\ o = disp_q /\ S = Runnable
                              /\ dq = t_disp_queue /\ pri = t_pri /\ U = Free
  BY DEF DispInv, DispTypes, QueueTypes
<1>4. Sound(o, S, dq, pri) /\ t \in S /\ U \in SUBSET S /\ Visible(o, U, dq, pri)
  BY <1>3 DEF DispInv, QueueInv, FreeInv, Free
<1>5. d = [o EXCEPT ![dq[t]] = Dispdeq(@, t, pri[t])]
  BY <1>1, <1>3
<1>6. d \in DispQs /\ Sound(d, S \ {t}, dq, pri)
  BY <1>3, <1>4, <1>5, SoundRemoved
<1>7. Visible(d, U \ {t}, dq, pri)
  BY <1>3, <1>4, <1>5, RemovedVisible
<1>8. t \in Threads /\ DispTypes /\ KpqFree
  BY DEF Runnable, DispInv, FreeInv
<1>9. /\ Sound(d, Runnable \ {t}, t_disp_queue, t_pri)
      /\ Visible(d, Free \ {t}, t_disp_queue, t_pri)
  BY <1>3, <1>6, <1>7
<1> QED BY <1>2, <1>6, <1>8, <1>9, EnqueueVisible

LEMMA TakeVisible ==
    ASSUME DispInv, FreeInv, NEW c \in Cpus, NEW x, NEW l, NEW t \in Runnable,
           t_disp_queue[t] = x, Take(c, x, t, l)
    PROVE  FreeInv'
<1>1. /\ t \in Threads
      /\ t_state' = [t_state EXCEPT ![t] = "ONPROC"]
      /\ t_disp_queue' = [t_disp_queue EXCEPT ![t] = c]
      /\ UNCHANGED <<t_pri, t_bound_cpu>>
  BY DEF Take, Runnable
<1>2. Runnable' = Runnable \ {t}
  BY <1>1 DEF Runnable, DispInv, DispTypes, QueueTypes
<1>3. \A u \in Runnable \ {t} : t_disp_queue'[u] = t_disp_queue[u]
  BY <1>1 DEF Runnable, DispInv, DispTypes, QueueTypes
<1>4. KpqFree'
  BY <1>1, <1>2, <1>3 DEF FreeInv, KpqFree
<1>5. PICK o, S, dq, pri, U : /\ o \in DispQs /\ o = disp_q /\ S = Runnable
                              /\ dq = t_disp_queue /\ pri = t_pri /\ U = Free
  BY DEF DispInv, DispTypes, QueueTypes
<1>6. Sound(o, S, dq, pri) /\ t \in S /\ U \in SUBSET S /\ Visible(o, U, dq, pri)
  BY <1>5 DEF DispInv, QueueInv, FreeInv, Free
<1>7. PICK n : n = [o EXCEPT ![dq[t]] = Dispdeq(@, t, pri[t])]
  OBVIOUS
<1>8. n = disp_q'
  BY <1>5, <1>7 DEF Take
<1>9. Visible(n, U \ {t}, dq, pri)
  BY <1>5, <1>6, <1>7, RemovedVisible
<1>10. ASSUME NEW u \in Free' PROVE disp_q'[t_disp_queue'[u]].max_unbound_pri >= t_pri'[u]
  <2>1. u \in Runnable \ {t} /\ t_bound_cpu[u] = NULL
    BY <1>1, <1>2 DEF Free
  <2>2. u \in U \ {t}
    BY <1>5, <2>1 DEF Free
  <2>3. n[dq[u]].max_unbound_pri >= pri[u]
    BY <1>9, <2>2 DEF Visible
  <2> QED BY <1>1, <1>3, <1>5, <1>8, <2>1, <2>3
<1> QED BY <1>4, <1>10 DEF FreeInv, Visible

LEMMA GetBestVisible ==
    ASSUME DispInv, FreeInv, NEW c \in Cpus, NEW x \in Queues, NEW found, NEW none,
           disp_getbest(c, x, found, none)
    PROVE  FreeInv'
<1>1. CASE \E t \in Runnable : t_disp_queue[t] = x /\ Unlocked(x) /\ Take(c, x, t, found)
  BY <1>1, TakeVisible
<1>2. ASSUME UNCHANGED threadVars, disp_q' = disp_q PROVE FreeInv'
  <2>1. Runnable' = Runnable
    BY <1>2 DEF threadVars, Runnable
  <2> QED BY <1>2, <2>1, FreeUnchanged DEF threadVars
<1>3. ASSUME UNCHANGED threadVars, NEW p \in Priorities, p = disp_q[x].max_unbound_pri,
             Unbound(disp_q[x].q[p]) = {},
             disp_q' = [disp_q EXCEPT ![x] = disp_fix_unbound_pri(@, p)]
      PROVE  FreeInv'
  <2>1. Runnable' = Runnable /\ Free' = Free
        /\ UNCHANGED <<t_disp_queue, t_pri, t_bound_cpu>>
    BY <1>3 DEF threadVars, Runnable, Free
  <2>2. KpqFree'
    BY <2>1 DEF FreeInv, KpqFree
  <2>3. disp_q \in DispQs
    BY DEF DispInv, DispTypes, QueueTypes
  <2>4. PICK e \in DispT : e = disp_q[x]
    BY <2>3 DEF DispQs
  <2>5. PICK r : r = disp_fix_unbound_pri(e, p)
    OBVIOUS
  <2>6. \A y \in Priorities : y < p /\ Unbound(e.q[y]) # {} => r.max_unbound_pri >= y
    BY <2>5, FixIs
  <2>7. disp_q'[x] = r /\ \A y \in Queues : y # x => disp_q'[y] = disp_q[y]
    BY <1>3, <2>3, <2>4, <2>5 DEF DispQs
  <2>8. ASSUME NEW u \in Free PROVE disp_q'[t_disp_queue[u]].max_unbound_pri >= t_pri[u]
    <3>1. u \in Runnable /\ t_bound_cpu[u] = NULL
      BY DEF Free
    <3>2. /\ t_disp_queue[u] \in Queues /\ t_pri[u] \in Priorities
          /\ u \in Elems(disp_q[t_disp_queue[u]].q[t_pri[u]])
      BY <3>1 DEF DispInv, QueueInv, Sound
    <3>3. disp_q[t_disp_queue[u]].max_unbound_pri >= t_pri[u]
      BY DEF FreeInv, Visible
    <3>4. CASE t_disp_queue[u] # x
      BY <2>7, <3>2, <3>3, <3>4
    <3>5. CASE t_disp_queue[u] = x
      <4>1. PICK y \in Priorities : y = t_pri[u]
        BY <3>2
      <4>2. Unbound(e.q[y]) # {}
        BY <2>4, <3>1, <3>2, <3>5, <4>1 DEF Elems, Unbound
      <4>3. y # p
        BY <1>3, <2>4, <4>2
      <4>4. p >= y
        BY <1>3, <3>3, <3>5, <4>1
      <4>5. y < p
        BY <4>3, <4>4, PriNumbers
      <4> QED BY <2>6, <2>7, <3>5, <4>1, <4>2, <4>5
    <3> QED BY <3>4, <3>5
  <2>9. \A u \in Free' : disp_q'[t_disp_queue'[u]].max_unbound_pri >= t_pri'[u]
    BY <2>1, <2>8
  <2> QED BY <2>2, <2>9 DEF FreeInv, Visible
<1> QED BY <1>1, <1>2, <1>3, GetBestIs

LEMMA FreeQuiet ==
    ASSUME DispInv, FreeInv, UNCHANGED <<disp_q, t_state, t_disp_queue, t_pri, t_bound_cpu>>
    PROVE  FreeInv'
<1>1. Runnable' = Runnable
  BY DEF Runnable
<1> QED BY <1>1, FreeUnchanged

LEMMA CpuStepVisible ==
    ASSUME DispInv, FreeInv, NEW c \in Cpus, CpuStep(c) PROVE FreeInv'
<1>1. CASE idle(c) \/ LookAtKpq(c) \/ NothingToSteal(c) \/ ChooseIdle(c) \/ Commit(c)
  <2>1. UNCHANGED <<queueVars, threadVars>>
    BY <1>1 DEF idle, LookAtKpq, NothingToSteal, ChooseIdle, Commit
  <2> QED BY <2>1, FreeQuiet DEF queueVars, threadVars
<1>2. CASE GetBestKp(c) \/ GetWorkKp(c)
  BY <1>2, GetBestVisible DEF GetBestKp, GetWorkKp, Queues
<1>3. CASE \E d \in Cpus : Steal(c, d)
  BY <1>3, GetBestVisible DEF Steal, Queues
<1>4. CASE TakeOwn(c)
  <2>1. CASE UNCHANGED <<queueVars, threadVars>>
    BY <2>1, FreeQuiet DEF queueVars, threadVars
  <2> QED BY <1>4, <2>1, TakeOwnIs, TakeVisible
<1>5. ASSUME NEW t \in Threads, resume_from_idle(c, t) PROVE FreeInv'
  BY <1>5, FreeQuiet DEF resume_from_idle, queueVars
<1>6. ASSUME NEW t \in Threads, Ratify(c, t) PROVE FreeInv'
  <2>1. UNCHANGED <<t_pri, t_bound_cpu>>
    BY <1>6 DEF Ratify
  <2>2. CASE Better(c, t_pri[t])
    <3>1. setfrontdq(t)
      BY <1>6, <2>2 DEF Ratify
    <3>2. Chosen(pc[c]) /\ cpu_dispthread[c] = t /\ t # NULL
      BY <1>6, DispAssumption DEF Ratify, Checking, Chosen
    <3>3. t_state[t] # "RUN"
      BY <3>2 DEF DispInv, CpuInv
    <3> QED BY <2>1, <3>1, <3>3, FreshVisible
  <2>3. CASE ~Better(c, t_pri[t])
    BY <1>6, <2>1, <2>3, FreeQuiet DEF Ratify, queueVars
  <2> QED BY <2>2, <2>3
<1> QED BY <1>1, <1>2, <1>3, <1>4, <1>5, <1>6 DEF CpuStep

LEMMA ThreadStepVisible ==
    ASSUME DispInv, FreeInv, NEW c \in Cpus, NEW t \in Threads, Sleep(c, t) \/ preempt(c, t)
    PROVE  FreeInv'
<1>1. CASE Sleep(c, t)
  <2>1. Runnable' = Runnable \ {t} /\ UNCHANGED <<disp_q, t_pri, t_bound_cpu>>
    BY <1>1 DEF Sleep, queueVars, Runnable, DispInv, DispTypes, QueueTypes
  <2>2. \A u \in Threads \ {t} : t_disp_queue'[u] = t_disp_queue[u]
    BY <1>1 DEF Sleep, DispInv, DispTypes, QueueTypes
  <2>3. \A u \in Runnable' : u \in Runnable /\ t_disp_queue'[u] = t_disp_queue[u]
    BY <2>1, <2>2 DEF Runnable
  <2> QED BY <2>1, <2>3, FreeUnchanged
<1>2. CASE preempt(c, t)
  <2>1. UNCHANGED <<t_pri, t_bound_cpu>>
    BY <1>2 DEF preempt
  <2>2. CASE Running(c, t) /\ (setbackdq(t) \/ setfrontdq(t))
    <3>1. t_state[t] # "RUN"
      BY <2>2, RunningIs
    <3> QED BY <2>1, <2>2, <3>1, FreshVisible
  <2>3. CASE UNCHANGED <<queueVars, t_state, t_disp_queue, cpu_runrun, pc>>
    BY <2>1, <2>3, FreeQuiet DEF queueVars
  <2> QED BY <1>2, <2>2, <2>3 DEF preempt
<1> QED BY <1>1, <1>2

LEMMA SetrunVisible ==
    ASSUME DispInv, FreeInv, NEW t \in Threads, setrun(t) PROVE FreeInv'
BY FreshVisible DEF setrun

LEMMA ChangePriVisible ==
    ASSUME DispInv, FreeInv, NEW t \in Threads, NEW p \in PriOf[t], thread_change_pri(t, p)
    PROVE  FreeInv'
<1>1. p \in Priorities
  BY DEF Priorities
<1>2. t_pri' = [t_pri EXCEPT ![t] = p] /\ UNCHANGED t_bound_cpu
  BY DEF thread_change_pri
<1>3. CASE t_state[t] = "RUN"
  <2>1. PICK b : b = t_bound_cpu[t] /\ t_bound_cpu' = [t_bound_cpu EXCEPT ![t] = b]
    BY <1>2 DEF DispInv, DispTypes, ThreadTypes
  <2>2. PICK front \in BOOLEAN : Requeue(t, p, b, front)
    BY <1>3, <2>1 DEF thread_change_pri
  <2>3. t \in Runnable
    BY <1>3 DEF Runnable
  <2> QED BY <1>1, <1>2, <2>1, <2>2, <2>3, RequeueVisible
<1>4. CASE t_state[t] # "RUN"
  <2>1. UNCHANGED <<queueVars, t_state, t_disp_queue>>
    BY <1>4 DEF thread_change_pri
  <2>2. Runnable' = Runnable
    BY <2>1 DEF Runnable
  <2>3. \A u \in Runnable : t_pri'[u] = t_pri[u]
    BY <1>2, <1>4 DEF Runnable, DispInv, DispTypes, ThreadTypes
  <2> QED BY <1>2, <2>1, <2>2, <2>3, FreeUnchanged DEF queueVars
<1> QED BY <1>3, <1>4

(* No thread that can be on the shared queue changes its binding.          *)
BoundForGood ==
    \A t \in Threads : (\E p \in PriOf[t] : p >= kpqpri) => \A a, b \in Bindings[t] : a = b

LEMMA BindVisible ==
    ASSUME BoundForGood, DispInv, KpHigh, FreeInv, NEW t \in Threads, NEW b \in Bindings[t],
           cpu_bind_thread(t, b)
    PROVE  FreeInv'
<1>1. /\ t_bound_cpu' = [t_bound_cpu EXCEPT ![t] = b] /\ b # t_bound_cpu[t]
      /\ UNCHANGED t_pri
  BY DEF cpu_bind_thread
<1>2. PICK p \in Priorities : p = t_pri[t] /\ t_pri' = [t_pri EXCEPT ![t] = p]
  BY <1>1 DEF DispInv, DispTypes, ThreadTypes
<1>3. CASE t_state[t] = "RUN" /\ (b = NULL \/ b # t_cpu[t])
  <2>1. Requeue(t, p, b, FALSE)
    BY <1>2, <1>3 DEF cpu_bind_thread
  <2>2. t \in Runnable
    BY <1>3 DEF Runnable
  <2> QED BY <1>1, <1>2, <2>1, <2>2, RequeueVisible
<1>4. CASE ~(t_state[t] = "RUN" /\ (b = NULL \/ b # t_cpu[t]))
  <2>1. UNCHANGED <<queueVars, t_state, t_disp_queue>>
    BY <1>4 DEF cpu_bind_thread
  <2>2. Runnable' = Runnable
    BY <2>1 DEF Runnable
  <2>3. \A u \in Threads \ {t} : t_bound_cpu'[u] = t_bound_cpu[u]
    BY <1>1 DEF DispInv, DispTypes, ThreadTypes
  <2>4. t_bound_cpu'[t] = b
    BY <1>1 DEF DispInv, DispTypes, ThreadTypes
  <2>5. t \in Runnable => b # NULL /\ t_disp_queue[t] # kpq
    <3>1. ASSUME t \in Runnable, t_disp_queue[t] = kpq PROVE FALSE
      <4>1. t_pri[t] >= kpqpri /\ t_pri[t] \in PriOf[t] /\ t_bound_cpu[t] \in Bindings[t]
        BY <3>1 DEF KpHigh, DispInv, DispTypes, ThreadTypes
      <4> QED BY <1>1, <4>1 DEF BoundForGood
    <3> QED BY <1>4, <3>1 DEF Runnable
  <2>6. \A u \in Runnable' :
           /\ u \in Runnable /\ t_disp_queue'[u] = t_disp_queue[u] /\ t_pri'[u] = t_pri[u]
           /\ \/ t_bound_cpu'[u] = t_bound_cpu[u]
              \/ t_bound_cpu'[u] # NULL /\ t_disp_queue[u] # kpq
    BY <1>1, <2>1, <2>2, <2>3, <2>4, <2>5 DEF Runnable
  <2> QED BY <2>1, <2>6, FreeSame DEF queueVars
<1> QED BY <1>3, <1>4

LEMMA FreeStep ==
    ASSUME BoundForGood, DispInv, KpHigh, FreeInv, [Next]_vars PROVE FreeInv'
<1>1. CASE UNCHANGED vars
  BY <1>1, FreeQuiet DEF vars, queueVars, threadVars
<1>2. CASE \E c \in Cpus : CpuStep(c)
  BY <1>2, CpuStepVisible
<1>3. CASE \E c \in Cpus, t \in Threads : Sleep(c, t) \/ preempt(c, t)
  BY <1>3, ThreadStepVisible
<1>4. CASE \E c \in Cpus : TellOwn(c) \/ TellCpu(c)
  BY <1>4, FreeQuiet DEF TellOwn, TellCpu, threadVars
<1>5. CASE \E t \in Threads : setrun(t)
  BY <1>5, SetrunVisible
<1>6. CASE \E t \in Threads : \E p \in PriOf[t] : thread_change_pri(t, p)
  BY <1>6, ChangePriVisible
<1>7. CASE \E t \in Threads : \E b \in Bindings[t] : cpu_bind_thread(t, b)
  BY <1>7, BindVisible
<1> QED BY <1>1, <1>2, <1>3, <1>4, <1>5, <1>6, <1>7 DEF Next

(* An unbound runnable thread is never hidden from the CPUs that look for  *)
(* work, provided that no thread that can be on the shared queue changes   *)
(* its binding: the run that binds a realtime thread shows what happens    *)
(* when one does.                                                          *)
THEOREM DispVisible == ASSUME BoundForGood PROVE Spec => [](UnboundVisible /\ KpqUnbound)
<1>1. Init => KpHigh /\ FreeInv
  <2>1. ASSUME Init PROVE kp_inserted = -1 /\ Runnable = {}
    BY <2>1 DEF Init, Runnable
  <2> QED BY <2>1 DEF KpHigh, FreeInv, KpqFree, Visible, Free
<1>2. DispInv /\ KpHigh /\ FreeInv /\ [Next]_vars => KpHigh' /\ FreeInv'
  BY DispStep, KpHighStep, FreeStep
<1>3. DispInv /\ FreeInv => UnboundVisible /\ KpqUnbound
  <2>1. SUFFICES ASSUME DispInv, FreeInv PROVE UnboundVisible /\ KpqUnbound
    OBVIOUS
  <2>2. UnboundVisible
    BY <2>1 DEF FreeInv, Visible, Free, Runnable, UnboundVisible
  <2>3. ASSUME NEW p \in Priorities, NEW t \in On(kpq, p) PROVE t_bound_cpu[t] = NULL
    <3>1. PICK i \in DOMAIN disp_q[kpq].q[p] : t = disp_q[kpq].q[p][i]
      BY DEF On
    <3>2. t \in Runnable /\ t_disp_queue[t] = kpq
      BY <2>1, <3>1, OnQueue DEF Queues
    <3> QED BY <2>1, <3>2 DEF FreeInv, KpqFree
  <2> QED BY <2>2, <2>3 DEF KpqUnbound
<1> QED BY <1>1, <1>2, <1>3, DispInvariant, PTL DEF Spec
=============================================================================
