--------------------------- MODULE SleepQProofs ---------------------------
(***************************************************************************)
(* What the sleep queue operations preserve, whatever the priorities are,  *)
(* and the two facts about priorities that the turnstiles rest on.         *)
(***************************************************************************)
EXTENDS SleepQ, TLAPS, FiniteSetTheorems, SequenceTheorems,
        WellFoundedInduction

(* The loops of sleepq_insert and rw_readers_to_wake stay in the queue ... *)
LEMMA PrefixLenType ==
    ASSUME NEW T, NEW q \in Seq(T), NEW pri, NEW p
    PROVE  PrefixLen(q, pri, p) \in 0..Len(q)
<1> DEFINE S == {i \in DOMAIN q : \A j \in 1..i : pri[q[j]] >= p}
<1>1. Len(q) \in Nat /\ DOMAIN q = 1..Len(q)
  BY LenProperties
<1>2. IsFiniteSet(1..Len(q)) /\ Cardinality(1..Len(q)) = Len(q)
  BY <1>1, FS_Interval
<1>3. S \in SUBSET (1..Len(q))
  BY <1>1
<1>4. IsFiniteSet(S) /\ Cardinality(S) <= Len(q)
  BY <1>2, <1>3, FS_Subset
<1>5. Cardinality(S) \in Nat
  BY <1>4, FS_CardinalityType
<1> QED
  BY <1>1, <1>4, <1>5 DEF PrefixLen

(* ... and pass over all of it when every thread in it satisfies pri >= p. *)
LEMMA PrefixLenAll ==
    ASSUME NEW T, NEW q \in Seq(T), NEW pri, NEW p,
           \A i \in DOMAIN q : pri[q[i]] >= p
    PROVE  PrefixLen(q, pri, p) = Len(q)
<1> DEFINE S == {i \in DOMAIN q : \A j \in 1..i : pri[q[j]] >= p}
<1>1. Len(q) \in Nat /\ DOMAIN q = 1..Len(q)
  BY LenProperties
<1>2. S = 1..Len(q)
  BY <1>1
<1>3. Cardinality(1..Len(q)) = Len(q)
  <2>1. Cardinality(1..Len(q)) = IF 1 > Len(q) THEN 0 ELSE Len(q) - 1 + 1
    <3> HIDE DEF S
    <3> QED BY <1>1, FS_Interval
  <2> QED BY <2>1, <1>1
<1> QED
  BY <1>2, <1>3 DEF PrefixLen

(* sleepq_insert adds the thread, once, and moves no other one.            *)
LEMMA InsertQueue ==
    ASSUME NEW T, NEW q \in Seq(T), NEW c \in T, NEW pri
    PROVE  LET s == sleepq_insert(q, c, pri) IN
           /\ s \in Seq(T) /\ Len(s) = Len(q) + 1
           /\ Elems(s) = Elems(q) \cup {c}
           /\ NoDup(q) /\ c \notin Elems(q) => NoDup(s)
<1> DEFINE k == PrefixLen(q, pri, pri[c])
           s == sleepq_insert(q, c, pri)
<1>1. Len(q) \in Nat /\ DOMAIN q = 1..Len(q) /\ \A i \in 1..Len(q) : q[i] \in T
  BY LenProperties
<1>2. k \in 0..Len(q)
  BY PrefixLenType
<1>3. s = [i \in 1..(Len(q) + 1) |-> IF i <= k THEN q[i]
                                   ELSE IF i = k + 1 THEN c ELSE q[i - 1]]
  BY DEF sleepq_insert
<1> HIDE DEF k, s
<1>4. s \in Seq(T) /\ Len(s) = Len(q) + 1 /\ DOMAIN s = 1..(Len(q) + 1)
  BY <1>1, <1>2, <1>3
<1>5. Elems(s) = Elems(q) \cup {c}
  <2>1. ASSUME NEW x \in Elems(s) PROVE x \in Elems(q) \cup {c}
    BY <1>1, <1>2, <1>3, <1>4 DEF Elems
  <2>2. c \in Elems(s)
    <3>1. s[k + 1] = c /\ k + 1 \in DOMAIN s
      BY <1>1, <1>2, <1>3, <1>4
    <3> QED BY <3>1 DEF Elems
  <2>3. ASSUME NEW i \in 1..Len(q) PROVE q[i] \in Elems(s)
    <3>1. CASE i <= k
      <4>1. s[i] = q[i] /\ i \in DOMAIN s
        BY <3>1, <1>1, <1>2, <1>3, <1>4
      <4> QED BY <4>1 DEF Elems
    <3>2. CASE i > k
      <4>1. s[i + 1] = q[i] /\ i + 1 \in DOMAIN s
        BY <3>2, <1>1, <1>2, <1>3, <1>4
      <4> QED BY <4>1 DEF Elems
    <3> QED BY <3>1, <3>2, <1>1, <1>2
  <2> QED BY <2>1, <2>2, <2>3, <1>1 DEF Elems
<1>6. ASSUME NoDup(q), c \notin Elems(q) PROVE NoDup(s)
  BY <1>6, <1>1, <1>2, <1>3, <1>4 DEF NoDup, Elems
<1> QED BY <1>4, <1>5, <1>6 DEF s

(* sleepq_dequeue removes the thread and no other one.                     *)
LEMMA DequeueQueue ==
    ASSUME NEW T, NEW q \in Seq(T), NEW t \in Elems(q), NoDup(q)
    PROVE  LET s == sleepq_dequeue(q, t) IN
           /\ s \in Seq(T) /\ Len(s) = Len(q) - 1
           /\ Elems(s) = Elems(q) \ {t}
           /\ NoDup(s)
<1> DEFINE k == CHOOSE i \in DOMAIN q : q[i] = t
           s == sleepq_dequeue(q, t)
<1>1. Len(q) \in Nat /\ DOMAIN q = 1..Len(q) /\ \A i \in 1..Len(q) : q[i] \in T
  BY LenProperties
<1>2. k \in 1..Len(q) /\ q[k] = t
  BY <1>1 DEF Elems
<1>3. s = [i \in 1..(Len(q) - 1) |-> IF i < k THEN q[i] ELSE q[i + 1]]
  BY DEF sleepq_dequeue
<1> HIDE DEF k, s
<1>4. s \in Seq(T) /\ Len(s) = Len(q) - 1 /\ DOMAIN s = 1..(Len(q) - 1)
  BY <1>1, <1>2, <1>3
<1>5. Elems(s) = Elems(q) \ {t}
  <2>1. ASSUME NEW x \in Elems(s) PROVE x \in Elems(q) \ {t}
    <3>1. PICK i \in 1..(Len(q) - 1) : x = s[i]
      BY <1>4 DEF Elems
    <3>2. CASE i < k
      BY <3>1, <3>2, <1>1, <1>2, <1>3 DEF Elems, NoDup
    <3>3. CASE i >= k
      BY <3>1, <3>3, <1>1, <1>2, <1>3 DEF Elems, NoDup
    <3> QED BY <3>2, <3>3, <1>2
  <2>2. ASSUME NEW i \in 1..Len(q), q[i] # t PROVE q[i] \in Elems(s)
    <3>1. CASE i < k
      <4>1. s[i] = q[i] /\ i \in DOMAIN s
        BY <3>1, <1>1, <1>2, <1>3, <1>4
      <4> QED BY <4>1 DEF Elems
    <3>2. CASE i > k
      <4>1. s[i - 1] = q[i] /\ i - 1 \in DOMAIN s
        BY <3>2, <1>1, <1>2, <1>3, <1>4
      <4> QED BY <4>1 DEF Elems
    <3> QED BY <3>1, <3>2, <2>2, <1>1, <1>2
  <2> QED BY <2>1, <2>2, <1>1 DEF Elems
<1>6. NoDup(s)
  <2>1. SUFFICES ASSUME NEW i \in DOMAIN s, NEW j \in DOMAIN s, s[i] = s[j]
                 PROVE  i = j
    BY DEF NoDup
  <2> DEFINE at(n) == IF n < k THEN n ELSE n + 1
  <2>2. /\ at(i) \in 1..Len(q) /\ at(j) \in 1..Len(q)
        /\ s[i] = q[at(i)] /\ s[j] = q[at(j)]
    BY <1>1, <1>2, <1>3, <1>4
  <2>3. at(i) = at(j)
    BY <2>1, <2>2, <1>1 DEF NoDup
  <2> QED BY <2>3, <1>1, <1>2, <1>4
<1> QED BY <1>4, <1>5, <1>6 DEF s

(* The head of a queue is in it, and its tail is the rest.                 *)
LEMMA TailQueue ==
    ASSUME NEW T, NEW q \in Seq(T), Len(q) > 0, NoDup(q)
    PROVE  /\ Head(q) \in T /\ Head(q) \in Elems(q) /\ q[1] = Head(q)
           /\ Tail(q) \in Seq(T) /\ Len(Tail(q)) = Len(q) - 1
           /\ Elems(Tail(q)) = Elems(q) \ {Head(q)}
           /\ NoDup(Tail(q))
<1>1. Len(q) \in Nat /\ DOMAIN q = 1..Len(q) /\ \A i \in 1..Len(q) : q[i] \in T
  BY LenProperties
<1>2. q # <<>> /\ q[1] = Head(q)
  BY <1>1
<1>3. /\ Head(q) \in T
      /\ Tail(q) \in Seq(T)
      /\ Len(Tail(q)) = Len(q) - 1
      /\ \A i \in 1..(Len(q) - 1) : Tail(q)[i] = q[i + 1]
  BY <1>2, HeadTailProperties
<1>4. DOMAIN Tail(q) = 1..(Len(q) - 1)
  BY <1>3, LenProperties
<1>5. Elems(Tail(q)) = Elems(q) \ {Head(q)}
  <2>1. ASSUME NEW i \in 1..(Len(q) - 1)
        PROVE  Tail(q)[i] \in Elems(q) \ {Head(q)}
    BY <1>1, <1>2, <1>3 DEF Elems, NoDup
  <2>2. ASSUME NEW i \in 1..Len(q), q[i] # Head(q) PROVE q[i] \in Elems(Tail(q))
    <3>1. i - 1 \in 1..(Len(q) - 1) /\ Tail(q)[i - 1] = q[i]
      BY <2>2, <1>1, <1>2, <1>3
    <3> QED BY <3>1, <1>4 DEF Elems
  <2> QED BY <2>1, <2>2, <1>1, <1>4 DEF Elems
<1>6. NoDup(Tail(q))
  BY <1>1, <1>3, <1>4 DEF NoDup
<1>7. Head(q) \in Elems(q)
  BY <1>1, <1>2 DEF Elems
<1> QED BY <1>2, <1>3, <1>5, <1>6, <1>7

(* A nonempty finite set of naturals has a greatest element: the one with  *)
(* the fewest above it.                                                    *)
LEMMA MaxExists ==
    ASSUME NEW S \in SUBSET Nat, S # {}, IsFiniteSet(S)
    PROVE  \E x \in S : \A y \in S : y <= x
<1> DEFINE Above(x) == {y \in S : y > x}
           N == {Cardinality(Above(x)) : x \in S}
           R == OpToRel(<, Nat)
<1>1. \A x \in S : IsFiniteSet(Above(x)) /\ Cardinality(Above(x)) \in Nat
  BY FS_Subset, FS_CardinalityType
<1>2. N \subseteq Nat /\ N # {}
  BY <1>1
<1>3. PICK m \in N : \A n \in N : ~(<<n, m>> \in R)
  <2> HIDE DEF N, R
  <2>1. IsWellFoundedOn(R, Nat)
    BY NatLessThanWellFounded DEF R
  <2> QED BY <2>1, <1>2, WFMin
<1>4. \A n \in N : ~(n < m)
  BY <1>2, <1>3 DEF OpToRel
<1>5. PICK x \in S : m = Cardinality(Above(x))
  OBVIOUS
<1>6. ASSUME NEW y \in S, y > x PROVE FALSE
  <2> S \subseteq Nat /\ x \in Nat /\ y \in Nat
    OBVIOUS
  <2>1. Above(y) \in SUBSET Above(x) /\ y \in Above(x) /\ y \notin Above(y)
    <3>1. \A z \in S : z > y => z > x
      BY <1>6
    <3>2. y > x /\ ~(y > y)
      BY <1>6
    <3> HIDE DEF N, R
    <3> QED BY <3>1, <3>2
  <2>2. Cardinality(Above(y)) < Cardinality(Above(x))
    <3> HIDE DEF Above
    <3> QED BY <2>1, <1>1, FS_Subset
  <2> QED BY <2>2, <1>4, <1>5
<1> QED BY <1>6

(* A set of numbers has a smallest one.                                    *)
LEMMA MinExists ==
    ASSUME NEW U \in SUBSET Nat, U # {} PROVE \E m \in U : \A n \in U : m <= n
<1> DEFINE R == OpToRel(<, Nat)
<1>1. PICK m \in U : \A n \in U : ~(<<n, m>> \in R)
  <2> HIDE DEF R
  <2>1. IsWellFoundedOn(R, Nat)
    BY NatLessThanWellFounded DEF R
  <2> QED BY <2>1, WFMin
<1>2. \A n \in U : ~(n < m)
  BY <1>1 DEF OpToRel
<1>3. m \in Nat /\ \A n \in U : n \in Nat
  OBVIOUS
<1> QED BY <1>2, <1>3

(* A queue that holds each thread once is as long as the set of its        *)
(* threads is large.                                                       *)
LEMMA QueueCardinality ==
    ASSUME NEW T, NEW q \in Seq(T), NoDup(q)
    PROVE  IsFiniteSet(Elems(q)) /\ Cardinality(Elems(q)) = Len(q)
<1>1. Len(q) \in Nat /\ DOMAIN q = 1..Len(q) /\ q \in [1..Len(q) -> T]
  BY LenProperties
<1>2. IsFiniteSet(1..Len(q)) /\ Cardinality(1..Len(q)) = Len(q)
  BY <1>1, FS_Interval
<1>3. q \in Bijection(1..Len(q), Elems(q))
  BY <1>1 DEF Bijection, Injection, Surjection, IsInjective, Elems, NoDup
<1>4. ExistsBijection(1..Len(q), Elems(q))
  BY <1>3 DEF ExistsBijection
<1> QED BY <1>2, <1>4, FS_Bijection

-----------------------------------------------------------------------------
(* How the size of a finite set changes: more elements, at least one more, *)
(* all but one kept, or one replaced.                                      *)
LEMMA SetGrows ==
    ASSUME NEW S, NEW T, IsFiniteSet(T), S \subseteq T
    PROVE  Cardinality(S) <= Cardinality(T)
BY FS_Subset

LEMMA SetPlus ==
    ASSUME NEW S, NEW T, IsFiniteSet(T), S \subseteq T, NEW t \in T, t \notin S
    PROVE  Cardinality(S) + 1 <= Cardinality(T)
<1>1. IsFiniteSet(S)
  BY FS_Subset
<1>2. Cardinality(S \cup {t}) = Cardinality(S) + 1
  BY <1>1, FS_AddElement
<1>3. S \cup {t} \subseteq T
  OBVIOUS
<1>4. Cardinality(S \cup {t}) <= Cardinality(T)
  BY <1>3, FS_Subset
<1> QED BY <1>2, <1>4

LEMMA SetMinus ==
    ASSUME NEW S, NEW T, IsFiniteSet(S), IsFiniteSet(T), NEW t \in S,
           S \ {t} \subseteq T
    PROVE  Cardinality(S) <= Cardinality(T) + 1
<1>1. Cardinality(S \ {t}) = Cardinality(S) - 1
  BY FS_RemoveElement
<1>2. Cardinality(S \ {t}) <= Cardinality(T)
  BY FS_Subset
<1>3. Cardinality(S) \in Nat /\ Cardinality(T) \in Nat
  BY FS_CardinalityType
<1> QED BY <1>1, <1>2, <1>3

LEMMA SetSwap ==
    ASSUME NEW S, NEW T, IsFiniteSet(S), IsFiniteSet(T), NEW t \in S,
           NEW h \in T, h \notin S, S \ {t} \subseteq T
    PROVE  Cardinality(S) <= Cardinality(T)
<1>1. IsFiniteSet(S \ {t}) /\ Cardinality(S \ {t}) = Cardinality(S) - 1
  BY FS_RemoveElement
<1>2. Cardinality(S \ {t}) + 1 <= Cardinality(T)
  BY SetPlus
<1>3. Cardinality(S) \in Nat /\ Cardinality(T) \in Nat
  BY FS_CardinalityType
<1> QED BY <1>1, <1>2, <1>3

-----------------------------------------------------------------------------
(* The order of a queue.  sleepq_insert stops at the first thread of lower *)
(* priority: PrefixLen counts the threads before it.                       *)
LEMMA PrefixLenStops ==
    ASSUME NEW T, NEW q \in Seq(T), NEW pri, NEW p
    PROVE  LET k == PrefixLen(q, pri, p) IN
           /\ \A i \in 1..k : pri[q[i]] >= p
           /\ k < Len(q) => ~(pri[q[k + 1]] >= p)
<1> DEFINE S == {i \in DOMAIN q : \A j \in 1..i : pri[q[j]] >= p}
           k == PrefixLen(q, pri, p)
<1>1. Len(q) \in Nat /\ DOMAIN q = 1..Len(q)
  BY LenProperties
<1>2. k \in 0..Len(q) /\ k = Cardinality(S)
  BY PrefixLenType DEF PrefixLen
<1>3. IsFiniteSet(S) /\ S \in SUBSET Nat /\ S \subseteq 1..Len(q)
  <2>1. S \subseteq 1..Len(q) /\ S \in SUBSET Nat
    BY <1>1
  <2>2. IsFiniteSet(1..Len(q))
    BY <1>1, FS_Interval
  <2> QED BY <2>1, <2>2, FS_Subset
<1>4. S = 1..k
  <2>1. CASE S = {}
    BY <2>1, <1>2, FS_EmptySet
  <2>2. CASE S # {}
    <3>1. PICK m \in S : \A y \in S : y <= m
      BY <2>2, <1>3, MaxExists
    <3>2. m \in 1..Len(q) /\ \A j \in 1..m : pri[q[j]] >= p
      BY <1>1
    <3>3. ASSUME NEW i \in 1..m PROVE i \in S
      <4>1. i \in DOMAIN q /\ \A j \in 1..i : j \in 1..m
        BY <1>1, <3>2
      <4> QED BY <4>1, <3>2
    <3>4. S = 1..m
      BY <3>1, <3>3, <1>1
    <3>5. Cardinality(1..m) = m
      BY <3>2, <1>1, FS_Interval
    <3> QED BY <3>4, <3>5, <1>2
  <2> QED BY <2>1, <2>2
<1>5. ASSUME NEW i \in 1..k PROVE pri[q[i]] >= p
  <2>1. i \in S
    BY <1>4
  <2>2. i \in 1..i
    BY <1>1, <1>2
  <2> QED BY <2>1, <2>2
<1>6. ASSUME k < Len(q) PROVE ~(pri[q[k + 1]] >= p)
  <2>1. k + 1 \in DOMAIN q /\ k + 1 \notin 1..k
    BY <1>1, <1>2, <1>6
  <2>2. k + 1 \notin S
    BY <2>1, <1>4
  <2>3. PICK j \in 1..(k + 1) : ~(pri[q[j]] >= p)
    BY <2>1, <2>2
  <2>4. j = k + 1
    BY <2>3, <1>2, <1>5
  <2> QED BY <2>3, <2>4
<1> QED BY <1>5, <1>6

(* sleepq_insert keeps the order.                                          *)
LEMMA InsertSorted ==
    ASSUME NEW T, NEW q \in Seq(T), NEW c \in T, NEW pri,
           \A x \in T : pri[x] \in Nat, Sorted(q, pri)
    PROVE  Sorted(sleepq_insert(q, c, pri), pri)
<1> DEFINE k == PrefixLen(q, pri, pri[c])
           s == sleepq_insert(q, c, pri)
<1>1. Len(q) \in Nat /\ DOMAIN q = 1..Len(q) /\ \A i \in 1..Len(q) : q[i] \in T
  BY LenProperties
<1>2. /\ k \in 0..Len(q) /\ \A i \in 1..k : pri[q[i]] >= pri[c]
      /\ k < Len(q) => ~(pri[q[k + 1]] >= pri[c])
  BY PrefixLenType, PrefixLenStops
<1>3. s = [i \in 1..(Len(q) + 1) |-> IF i <= k THEN q[i]
                                   ELSE IF i = k + 1 THEN c ELSE q[i - 1]]
  BY DEF sleepq_insert
<1> HIDE DEF k, s
<1>4. DOMAIN s = 1..(Len(q) + 1)
  BY <1>3
<1>5. ASSUME NEW i \in (k + 1)..Len(q) PROVE pri[c] >= pri[q[i]]
  <2>1. k + 1 \in 1..Len(q) /\ i \in 1..Len(q) /\ k < Len(q)
    BY <1>1, <1>2
  <2>2. pri[q[k + 1]] \in Nat /\ pri[q[i]] \in Nat /\ pri[c] \in Nat
    BY <2>1, <1>1
  <2>3. pri[q[k + 1]] >= pri[q[i]]
    <3>1. CASE i = k + 1
      BY <3>1, <2>2
    <3>2. CASE i # k + 1
      BY <3>2, <2>1, <1>1, <1>2 DEF Sorted
    <3> QED BY <3>1, <3>2
  <2> QED BY <2>1, <2>2, <2>3, <1>2
<1>6. ASSUME NEW i \in DOMAIN s, NEW j \in DOMAIN s, i < j
      PROVE  pri[s[i]] >= pri[s[j]]
  <2>0. i \in Nat /\ j \in Nat /\ i >= 1 /\ j >= 1 /\ i <= Len(q) + 1 /\ j <= Len(q) + 1
    BY <1>1, <1>4
  <2>1. CASE j <= k
    <3>1. s[i] = q[i] /\ s[j] = q[j] /\ i \in DOMAIN q /\ j \in DOMAIN q
      BY <1>1, <1>2, <1>3, <1>4, <1>6, <2>0, <2>1
    <3> QED BY <3>1, <1>6 DEF Sorted
  <2>2. CASE i <= k /\ j = k + 1
    BY <1>1, <1>2, <1>3, <1>4, <2>0, <2>2
  <2>3. CASE i <= k /\ j > k + 1
    <3>1. s[i] = q[i] /\ s[j] = q[j - 1] /\ i \in DOMAIN q /\ j - 1 \in DOMAIN q
      BY <1>1, <1>2, <1>3, <1>4, <2>0, <2>3
    <3>2. i < j - 1
      BY <1>2, <2>0, <2>3
    <3> QED BY <3>1, <3>2 DEF Sorted
  <2>4. CASE i = k + 1
    <3>1. s[i] = c /\ s[j] = q[j - 1] /\ j - 1 \in (k + 1)..Len(q)
      BY <1>1, <1>2, <1>3, <1>4, <1>6, <2>0, <2>4
    <3> QED BY <3>1, <1>5
  <2>5. CASE i > k + 1
    <3>1. s[i] = q[i - 1] /\ s[j] = q[j - 1] /\ i - 1 \in DOMAIN q /\ j - 1 \in DOMAIN q
      BY <1>1, <1>2, <1>3, <1>4, <1>6, <2>0, <2>5
    <3>2. i - 1 < j - 1
      BY <1>6, <2>0
    <3> QED BY <3>1, <3>2 DEF Sorted
  <2> QED BY <2>0, <2>1, <2>2, <2>3, <2>4, <2>5, <1>2, <1>6
<1> QED BY <1>6 DEF Sorted, s

(* So do sleepq_dequeue, the removal of the head, and a change of the      *)
(* priorities of threads that are not queued.                              *)
LEMMA DequeueSorted ==
    ASSUME NEW T, NEW q \in Seq(T), NEW t \in Elems(q), NEW pri, Sorted(q, pri)
    PROVE  Sorted(sleepq_dequeue(q, t), pri)
<1> DEFINE k == CHOOSE i \in DOMAIN q : q[i] = t
           s == sleepq_dequeue(q, t)
<1>1. Len(q) \in Nat /\ DOMAIN q = 1..Len(q)
  BY LenProperties
<1>2. k \in 1..Len(q)
  BY <1>1 DEF Elems
<1>3. s = [i \in 1..(Len(q) - 1) |-> IF i < k THEN q[i] ELSE q[i + 1]]
  BY DEF sleepq_dequeue
<1> HIDE DEF k, s
<1>4. ASSUME NEW i \in DOMAIN s, NEW j \in DOMAIN s, i < j
      PROVE  pri[s[i]] >= pri[s[j]]
  <2> DEFINE at(n) == IF n < k THEN n ELSE n + 1
  <2>1. /\ at(i) \in DOMAIN q /\ at(j) \in DOMAIN q /\ at(i) < at(j)
        /\ s[i] = q[at(i)] /\ s[j] = q[at(j)]
    BY <1>1, <1>2, <1>3, <1>4
  <2> HIDE DEF at
  <2> QED BY <2>1 DEF Sorted
<1> QED BY <1>4 DEF Sorted, s

LEMMA TailSorted ==
    ASSUME NEW T, NEW q \in Seq(T), Len(q) > 0, NEW pri, Sorted(q, pri)
    PROVE  Sorted(Tail(q), pri)
<1>1. Len(q) \in Nat /\ DOMAIN q = 1..Len(q) /\ q # <<>>
  BY LenProperties
<1>2. /\ Tail(q) \in Seq(T) /\ Len(Tail(q)) = Len(q) - 1
      /\ \A i \in 1..(Len(q) - 1) : Tail(q)[i] = q[i + 1]
  BY <1>1, HeadTailProperties
<1>3. DOMAIN Tail(q) = 1..(Len(q) - 1)
  BY <1>2, LenProperties
<1>4. ASSUME NEW i \in DOMAIN Tail(q), NEW j \in DOMAIN Tail(q), i < j
      PROVE  pri[Tail(q)[i]] >= pri[Tail(q)[j]]
  <2>1. /\ i + 1 \in DOMAIN q /\ j + 1 \in DOMAIN q /\ i + 1 < j + 1
        /\ Tail(q)[i] = q[i + 1] /\ Tail(q)[j] = q[j + 1]
    BY <1>1, <1>2, <1>3, <1>4
  <2> QED BY <2>1 DEF Sorted
<1> QED BY <1>4 DEF Sorted

LEMMA SortedSame ==
    ASSUME NEW q, NEW pri, NEW new, Sorted(q, pri),
           \A x \in Elems(q) : new[x] = pri[x]
    PROVE  Sorted(q, new)
BY DEF Sorted, Elems

(* sleepq_wakeone_chan finds a thread that waits for the channel if there  *)
(* is one.                                                                 *)
LEMMA FirstOnChanFinds ==
    ASSUME NEW T, NEW q \in Seq(T), NEW wchan, NEW chan
    PROVE  LET k == FirstOnChan(q, wchan, chan) IN
           \/ k = 0 /\ \A x \in Elems(q) : wchan[x] # chan
           \/ /\ k \in DOMAIN q /\ k # 0 /\ q[k] \in Elems(q) /\ q[k] \in T
              /\ wchan[q[k]] = chan
<1> DEFINE on == {i \in DOMAIN q : wchan[q[i]] = chan}
           R == OpToRel(<, Nat)
<1>1. Len(q) \in Nat /\ DOMAIN q = 1..Len(q) /\ \A i \in 1..Len(q) : q[i] \in T
  BY LenProperties
<1>2. CASE on = {}
  BY <1>2 DEF FirstOnChan, Elems
<1>3. CASE on # {}
  <2>1. on \subseteq Nat
    BY <1>1
  <2>2. PICK m \in on : \A n \in on : ~(<<n, m>> \in R)
    <3> HIDE DEF on, R
    <3>1. IsWellFoundedOn(R, Nat)
      BY NatLessThanWellFounded DEF R
    <3> QED BY <3>1, <2>1, <1>3, WFMin
  <2>3. \A n \in on : m <= n
    <3>1. \A n \in on : n \in Nat /\ ~(n < m)
      BY <2>1, <2>2 DEF OpToRel
    <3> HIDE DEF on, R
    <3> QED BY <3>1
  <2>4. FirstOnChan(q, wchan, chan) \in on
    BY <1>3, <2>3 DEF FirstOnChan
  <2> QED BY <2>4, <1>1 DEF Elems
<1> QED BY <1>2, <1>3

(* sleepq_wakeall_chan takes the threads that wait for the channel off the *)
(* queue, and keeps the others once each and in order: the rank of a place *)
(* that is kept grows with the place, so every rank belongs to one place.  *)
LEMMA WakeAllQueue ==
    ASSUME NEW T, NEW q \in Seq(T), NEW wchan, NEW chan, NoDup(q)
    PROVE  LET s == sleepq_wakeall_chan(q, wchan, chan) IN
           /\ s \in Seq(T)
           /\ Elems(s) = {x \in Elems(q) : wchan[x] # chan}
           /\ NoDup(s)
           /\ \A pri : Sorted(q, pri) => Sorted(s, pri)
<1> DEFINE kept == {i \in DOMAIN q : wchan[q[i]] # chan}
           upto(i) == {j \in kept : j <= i}
           rank(i) == Cardinality(upto(i))
           f == [i \in kept |-> rank(i)]
           N == Cardinality(kept)
           at(n) == CHOOSE i \in kept : rank(i) = n
           s == sleepq_wakeall_chan(q, wchan, chan)
<1>1. Len(q) \in Nat /\ DOMAIN q = 1..Len(q) /\ \A i \in 1..Len(q) : q[i] \in T
  BY LenProperties
<1>2. kept \in SUBSET (1..Len(q)) /\ IsFiniteSet(kept) /\ N \in Nat
  <2>1. kept \in SUBSET (1..Len(q))
    BY <1>1
  <2>2. IsFiniteSet(1..Len(q))
    BY <1>1, FS_Interval
  <2> QED BY <2>1, <2>2, FS_Subset, FS_CardinalityType
<1>3. s = [n \in 1..N |-> q[at(n)]]
  BY DEF sleepq_wakeall_chan
<1>4. \A i \in kept : i \in DOMAIN q /\ i \in Nat /\ wchan[q[i]] # chan
  BY <1>1
<1>5. \A i \in DOMAIN q : wchan[q[i]] # chan => i \in kept
  OBVIOUS
<1> HIDE DEF kept, s
<1>6. ASSUME NEW i \in kept
      PROVE  IsFiniteSet(upto(i)) /\ rank(i) \in 1..N
  <2>1. upto(i) \subseteq kept /\ i \in upto(i)
    BY <1>4
  <2>2. IsFiniteSet(upto(i)) /\ rank(i) \in Nat /\ rank(i) <= N
    <3> HIDE DEF upto
    <3> QED BY <2>1, <1>2, FS_Subset, FS_CardinalityType
  <2>3. Cardinality({}) + 1 <= rank(i)
    <3> HIDE DEF upto
    <3> QED BY <2>1, <2>2, SetPlus
  <2>4. Cardinality({}) = 0
    BY FS_EmptySet
  <2> HIDE DEF rank, upto, N
  <2> QED BY <2>2, <2>3, <2>4, <1>2
<1>7. ASSUME NEW i \in kept, NEW j \in kept, i < j
      PROVE  rank(i) < rank(j)
  <2>1. upto(i) \subseteq upto(j) /\ j \in upto(j) /\ j \notin upto(i)
    BY <1>4, <1>7
  <2>2. rank(i) + 1 <= rank(j)
    <3>1. IsFiniteSet(upto(j))
      BY <1>6
    <3> HIDE DEF upto
    <3> QED BY <2>1, <3>1, SetPlus
  <2>3. rank(i) \in Nat /\ rank(j) \in Nat
    <3> HIDE DEF rank, upto, N
    <3> QED BY <1>2, <1>6
  <2> HIDE DEF rank
  <2> QED BY <2>2, <2>3
<1> HIDE DEF rank, upto, N
<1>8. \A i, j \in kept : rank(i) = rank(j) => i = j
  BY <1>4, <1>6, <1>7, <1>2
<1>9. f \in Surjection(kept, 1..N)
  <2>1. f \in Injection(kept, 1..N)
    BY <1>6, <1>8 DEF Injection, IsInjective
  <2>2. IsFiniteSet(1..N) /\ Cardinality(1..N) = N
    BY <1>2, FS_Interval
  <2> HIDE DEF f
  <2> QED BY <2>1, <2>2, FS_Injection DEF N
<1>10. ASSUME NEW n \in 1..N PROVE at(n) \in kept /\ rank(at(n)) = n
  <2>1. PICK i \in kept : f[i] = n
    BY <1>9 DEF Surjection
  <2> QED BY <2>1
<1>11. ASSUME NEW i \in kept PROVE rank(i) \in 1..N /\ at(rank(i)) = i
  BY <1>6, <1>8, <1>10
<1> HIDE DEF at, f
<1>12. s \in Seq(T) /\ DOMAIN s = 1..N
  <2>1. \A n \in 1..N : q[at(n)] \in T
    BY <1>1, <1>4, <1>10
  <2> QED BY <2>1, <1>2, <1>3
<1>13. Elems(s) = {x \in Elems(q) : wchan[x] # chan}
  <2>1. ASSUME NEW n \in 1..N PROVE s[n] \in Elems(q) /\ wchan[s[n]] # chan
    BY <1>3, <1>4, <1>10 DEF Elems
  <2>2. ASSUME NEW i \in DOMAIN q, wchan[q[i]] # chan PROVE q[i] \in Elems(s)
    <3>1. i \in kept
      BY <2>2, <1>5
    <3>2. s[rank(i)] = q[i]
      BY <3>1, <1>3, <1>11
    <3> QED BY <3>1, <3>2, <1>11, <1>12 DEF Elems
  <2> QED BY <2>1, <2>2, <1>12 DEF Elems
<1>14. NoDup(s)
  <2>1. ASSUME NEW m \in 1..N, NEW n \in 1..N, s[m] = s[n] PROVE m = n
    <3>1. at(m) = at(n)
      BY <2>1, <1>3, <1>4, <1>10 DEF NoDup
    <3> QED BY <3>1, <1>10
  <2> QED BY <2>1, <1>12 DEF NoDup
<1>15. ASSUME NEW pri, Sorted(q, pri) PROVE Sorted(s, pri)
  <2>1. ASSUME NEW m \in 1..N, NEW n \in 1..N, m < n
        PROVE  pri[s[m]] >= pri[s[n]]
    <3>1. at(m) \in DOMAIN q /\ at(n) \in DOMAIN q /\ at(m) \in Nat /\ at(n) \in Nat
      BY <1>4, <1>10
    <3>2. at(m) < at(n)
      <4>1. m \in Nat /\ n \in Nat
        BY <1>2
      <4>2. at(m) # at(n)
        BY <1>10, <2>1, <4>1
      <4>3. ~(at(n) < at(m))
        <5>1. at(n) < at(m) => rank(at(n)) < rank(at(m))
          BY <1>7, <1>10
        <5> QED BY <5>1, <1>10, <2>1, <4>1
      <4> QED BY <3>1, <4>2, <4>3
    <3> QED BY <3>1, <3>2, <1>3, <1>15 DEF Sorted
  <2> QED BY <2>1, <1>12 DEF Sorted
<1> QED BY <1>12, <1>13, <1>14, <1>15 DEF s
=============================================================================
