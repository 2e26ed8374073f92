-------------------------- MODULE SemaphoreProofs --------------------------
(***************************************************************************)
(* The safety properties of Semaphore hold for any set of threads, any     *)
(* count and any bound on it.                                              *)
(***************************************************************************)
EXTENDS Semaphore, SleepQProofs

Labels == {"run", "p", "look", "swtch", "intr"}

SemTypeOK ==
    /\ s_count \in Nat
    /\ s_slpq \in Seq(Threads)
    /\ pc \in [Threads -> Labels]
    /\ sig \in [Threads -> BOOLEAN]
    /\ posted \in SUBSET Threads
    /\ t_pri \in [Threads -> Priorities]

(* The queue holds each thread once, and only threads between SEMA_BLOCK   *)
(* and the return from swtch().                                            *)
SlpqInv ==
    /\ NoDup(s_slpq)
    /\ \A t \in Threads : Asleep(t) => pc[t] \in {"look", "swtch"}

SemInv == SemTypeOK /\ SlpqInv /\ NoLostV /\ SignalWakes

(* The threads on their way to the count, before and after a step, as two  *)
(* finite sets, and what NoLostV says of them.                             *)
FlightFacts(S, T) ==
    /\ S = InFlight /\ T = InFlight'
    /\ IsFiniteSet(S) /\ Cardinality(S) \in Nat
    /\ IsFiniteSet(T) /\ Cardinality(T) \in Nat
    /\ s_slpq # <<>> => s_count <= Cardinality(S)
    /\ NoLostV' <=> (s_slpq' # <<>> => s_count' <= Cardinality(T))

LEMMA Flights ==
    ASSUME SemInv
    PROVE  \E S, T : FlightFacts(S, T)
<1>1. PICK S : S = InFlight
  OBVIOUS
<1>2. PICK T : T = InFlight'
  OBVIOUS
<1>3. IsFiniteSet(S) /\ Cardinality(S) \in Nat
  BY <1>1, SemaphoreAssumption, FS_Subset, FS_CardinalityType DEF InFlight
<1>4. IsFiniteSet(T) /\ Cardinality(T) \in Nat
  BY <1>2, SemaphoreAssumption, FS_Subset, FS_CardinalityType DEF InFlight
<1>5. s_slpq # <<>> => s_count <= Cardinality(S)
  BY <1>1 DEF SemInv, NoLostV
<1>6. NoLostV' <=> (s_slpq' # <<>> => s_count' <= Cardinality(T))
  BY <1>2 DEF NoLostV
<1> QED BY <1>1, <1>2, <1>3, <1>4, <1>5, <1>6 DEF FlightFacts

(* NoLostV is kept by a step that adds to the threads on their way, takes  *)
(* nothing off the count, and queues nobody.                               *)
LEMMA FlightKept ==
    ASSUME SemInv, InFlight \subseteq InFlight', s_count' = s_count,
           Elems(s_slpq') \subseteq Elems(s_slpq), s_slpq' \in Seq(Threads)
    PROVE  NoLostV'
<1>1. PICK S, T : FlightFacts(S, T)
  BY Flights
<1>2. Cardinality(S) <= Cardinality(T)
  BY <1>1, SetGrows DEF FlightFacts
<1>3. s_count \in Nat
  BY DEF SemInv, SemTypeOK
<1>4. ASSUME s_slpq = <<>> PROVE s_slpq' = <<>>
  <2>1. Elems(s_slpq') = {}
    BY <1>4 DEF Elems
  <2>2. PICK q \in Seq(Threads) : q = s_slpq'
    OBVIOUS
  <2>3. Len(q) \in Nat /\ DOMAIN q = 1..Len(q)
    BY LenProperties
  <2>4. DOMAIN q = {}
    BY <2>1, <2>2 DEF Elems
  <2>5. ~(Len(q) >= 1)
    BY <2>3, <2>4
  <2>6. Len(q) = 0
    BY <2>3, <2>5
  <2> QED BY <2>2, <2>6
<1> QED BY <1>1, <1>2, <1>3, <1>4 DEF FlightFacts

-----------------------------------------------------------------------------
(* A step that leaves the queue alone, or takes threads off it.            *)
LEMMA SlpqShrinks ==
    ASSUME SemInv, Elems(s_slpq') \subseteq Elems(s_slpq), NoDup(s_slpq'),
           \A t \in Threads : pc'[t] # pc[t] =>
               \/ t \notin Elems(s_slpq')
               \/ pc'[t] \in {"look", "swtch"}
    PROVE  SlpqInv'
BY DEF SemInv, SlpqInv, Asleep

LEMMA Unslept ==
    ASSUME SemInv, NEW t \in Threads
    PROVE  LET q == sema_unsleep(t) IN
           /\ q \in Seq(Threads) /\ NoDup(q) /\ Elems(q) = Elems(s_slpq) \ {t}
<1>1. CASE Asleep(t)
  BY <1>1, DequeueQueue DEF Asleep, sema_unsleep, SemInv, SemTypeOK, SlpqInv
<1>2. CASE ~Asleep(t)
  BY <1>2 DEF Asleep, sema_unsleep, SemInv, SemTypeOK, SlpqInv
<1> QED BY <1>1, <1>2

LEMMA HeadWoken ==
    ASSUME SemInv, s_slpq # <<>>
    PROVE  /\ Head(s_slpq) \in Threads /\ Asleep(Head(s_slpq))
           /\ Tail(s_slpq) \in Seq(Threads) /\ NoDup(Tail(s_slpq))
           /\ Elems(Tail(s_slpq)) = Elems(s_slpq) \ {Head(s_slpq)}
<1>1. s_slpq \in Seq(Threads) /\ NoDup(s_slpq)
  BY DEF SemInv, SemTypeOK, SlpqInv
<1>2. Len(s_slpq) > 0
  BY <1>1
<1> QED BY <1>1, <1>2, TailQueue DEF Asleep

LEMMA sema_pInv == ASSUME SemInv, NEW t \in Threads, sema_p(t) PROVE SemInv'
<1> USE DEF sema_p, Goto
<1>1. SemTypeOK'
  BY DEF SemInv, SemTypeOK, Labels
<1>2. pc'[t] = "p" /\ \A u \in Threads : u # t => pc'[u] = pc[u]
  BY DEF SemInv, SemTypeOK
<1>3. ~Asleep(t)
  BY DEF SemInv, SlpqInv
<1>4. SlpqInv'
  BY <1>2, <1>3 DEF SemInv, SlpqInv, Asleep
<1>5. NoLostV'
  <2>1. InFlight \subseteq InFlight'
    BY <1>2 DEF InFlight, Asleep
  <2> QED BY <2>1, <1>1, FlightKept DEF SemTypeOK
<1>6. SignalWakes'
  BY <1>2, <1>3, SemaphoreAssumption DEF SemInv, SignalWakes, Asleep
<1> QED BY <1>1, <1>4, <1>5, <1>6 DEF SemInv

LEMMA PTakeInv == ASSUME SemInv, NEW t \in Threads, PTake(t) PROVE SemInv'
<1> USE DEF PTake, Goto
<1>1. SemTypeOK'
  BY DEF SemInv, SemTypeOK, Labels
<1>2. pc'[t] = "run" /\ \A u \in Threads : u # t => pc'[u] = pc[u]
  BY DEF SemInv, SemTypeOK
<1>3. ~Asleep(t)
  BY DEF SemInv, SlpqInv
<1>4. SlpqInv'
  BY <1>2, <1>3 DEF SemInv, SlpqInv, Asleep
<1>5. NoLostV'
  <2>1. PICK S, T : FlightFacts(S, T)
    BY Flights
  <2>2. t \in S /\ S \ {t} \subseteq T
    BY <1>2, <1>3, <2>1 DEF FlightFacts, InFlight, Asleep
  <2>3. Cardinality(S) <= Cardinality(T) + 1
    BY <2>1, <2>2, SetMinus DEF FlightFacts
  <2>4. s_count \in Nat
    BY DEF SemInv, SemTypeOK
  <2> QED BY <2>1, <2>3, <2>4 DEF FlightFacts
<1>6. SignalWakes'
  BY <1>2, <1>3, SemaphoreAssumption DEF SemInv, SignalWakes, Asleep
<1> QED BY <1>1, <1>4, <1>5, <1>6 DEF SemInv

(* The count is 0 when a thread goes to sleep.                             *)
LEMMA BlockInv == ASSUME SemInv, NEW t \in Threads, SEMA_BLOCK(t) PROVE SemInv'
<1> USE DEF SEMA_BLOCK, Goto
<1>1. ~Asleep(t) /\ s_slpq \in Seq(Threads) /\ NoDup(s_slpq)
  BY DEF SemInv, SemTypeOK, SlpqInv
<1>2. /\ s_slpq' \in Seq(Threads) /\ NoDup(s_slpq')
      /\ Elems(s_slpq') = Elems(s_slpq) \cup {t}
  BY <1>1, InsertQueue DEF Asleep
<1>3. SemTypeOK'
  BY <1>2 DEF SemInv, SemTypeOK, Labels
<1>4. /\ pc'[t] = IF t \in Interruptible THEN "look" ELSE "swtch"
      /\ \A u \in Threads : u # t => pc'[u] = pc[u]
  BY DEF SemInv, SemTypeOK
<1>5. SlpqInv'
  BY <1>2, <1>4 DEF SemInv, SlpqInv, Asleep
<1>6. NoLostV'
  <2>1. PICK S, T : FlightFacts(S, T)
    BY Flights
  <2> QED BY <2>1 DEF FlightFacts
<1>7. SignalWakes'
  BY <1>2, <1>4, SemaphoreAssumption DEF SemInv, SignalWakes, Asleep
<1> QED BY <1>3, <1>5, <1>6, <1>7 DEF SemInv

(* The thread that finds a signal is awake; everybody else stays.           *)
LEMMA LookForSignalInv ==
    ASSUME SemInv, NEW t \in Threads, LookForSignal(t) PROVE SemInv'
<1> USE DEF LookForSignal, Goto
<1>1. PICK q \in Seq(Threads) : /\ q = sema_unsleep(t) /\ NoDup(q)
                               /\ Elems(q) = Elems(s_slpq) \ {t}
  BY Unslept
<1>2. /\ s_slpq' \in Seq(Threads) /\ NoDup(s_slpq')
      /\ Elems(s_slpq') \subseteq Elems(s_slpq)
      /\ sig[t] => t \notin Elems(s_slpq')
  <2>1. CASE sig[t]
    BY <1>1, <2>1
  <2>2. CASE ~sig[t]
    BY <2>2 DEF SemInv, SemTypeOK, SlpqInv
  <2> QED BY <2>1, <2>2
<1>3. SemTypeOK'
  BY <1>2 DEF SemInv, SemTypeOK, Labels
<1>4. pc'[t] = "swtch" /\ \A u \in Threads : u # t => pc'[u] = pc[u]
  BY DEF SemInv, SemTypeOK
<1>5. SlpqInv'
  BY <1>2, <1>4, SlpqShrinks
<1>6. NoLostV'
  <2>1. InFlight \subseteq InFlight'
    BY <1>2, <1>4 DEF InFlight, Asleep
  <2> QED BY <2>1, <1>2, FlightKept
<1>7. SignalWakes'
  BY <1>2, <1>4, SemaphoreAssumption DEF SemInv, SignalWakes, Asleep
<1> QED BY <1>3, <1>5, <1>6, <1>7 DEF SemInv

LEMMA ResumeInv == ASSUME SemInv, NEW t \in Threads, Resume(t) PROVE SemInv'
<1> USE DEF Resume, Goto
<1>1. SemTypeOK'
  BY DEF SemInv, SemTypeOK, Labels
<1>2. pc'[t] \in {"p", "intr"} /\ \A u \in Threads : u # t => pc'[u] = pc[u]
  BY DEF SemInv, SemTypeOK
<1>3. \A u \in Threads : u # t => sig'[u] = sig[u]
  BY DEF SemInv, SemTypeOK
<1>4. SlpqInv'
  BY <1>2 DEF SemInv, SlpqInv, Asleep
<1>5. NoLostV'
  <2>1. InFlight \subseteq InFlight'
    BY <1>2 DEF InFlight, Asleep
  <2> QED BY <2>1, <1>1, FlightKept DEF SemTypeOK
<1>6. SignalWakes'
  BY <1>2, <1>3, SemaphoreAssumption DEF SemInv, SignalWakes, Asleep
<1> QED BY <1>1, <1>4, <1>5, <1>6 DEF SemInv

(* An interrupted thread passes a unit on: the head of the queue takes its *)
(* place among the threads on their way.                                   *)
LEMMA InterruptedInv ==
    ASSUME SemInv, NEW t \in Threads, Interrupted(t) PROVE SemInv'
<1> USE DEF Interrupted, Goto
<1>1. pc'[t] = "run" /\ \A u \in Threads : u # t => pc'[u] = pc[u]
  BY DEF SemInv, SemTypeOK
<1>2. ~Asleep(t)
  BY DEF SemInv, SlpqInv
<1>3. /\ s_slpq' \in Seq(Threads) /\ NoDup(s_slpq')
      /\ Elems(s_slpq') \subseteq Elems(s_slpq)
  <2>1. CASE s_slpq # <<>> /\ s_count > 0
    BY <2>1, HeadWoken DEF PassOn, WakeHead
  <2>2. CASE ~(s_slpq # <<>> /\ s_count > 0)
    BY <2>2 DEF PassOn, SemInv, SemTypeOK, SlpqInv
  <2> QED BY <2>1, <2>2
<1>4. SemTypeOK'
  BY <1>3 DEF SemInv, SemTypeOK, Labels
<1>5. SlpqInv'
  BY <1>1, <1>2, <1>3, SlpqShrinks DEF Asleep
<1>6. NoLostV'
  <2>1. PICK S, T : FlightFacts(S, T)
    BY Flights
  <2>2. CASE s_slpq # <<>> /\ s_count > 0
    <3>1. PICK h \in Threads : h = Head(s_slpq) /\ Asleep(h)
      BY <2>2, HeadWoken
    <3>2. Elems(s_slpq') = Elems(s_slpq) \ {h}
      BY <2>2, <3>1, HeadWoken DEF PassOn, WakeHead
    <3>3. h \in T /\ h \notin S
      BY <1>1, <1>2, <2>1, <3>1, <3>2 DEF FlightFacts, InFlight, Asleep, SemInv, SlpqInv
    <3>4. t \in S /\ S \ {t} \subseteq T
      BY <1>1, <1>2, <1>3, <2>1 DEF FlightFacts, InFlight, Asleep
    <3>5. Cardinality(S) <= Cardinality(T)
      BY <2>1, <3>3, <3>4, SetSwap DEF FlightFacts
    <3>6. s_count \in Nat
      BY DEF SemInv, SemTypeOK
    <3> QED BY <2>1, <2>2, <3>5, <3>6 DEF FlightFacts
  <2>3. CASE s_slpq = <<>>
    BY <2>1, <2>3 DEF FlightFacts, PassOn
  <2>4. CASE ~(s_count > 0)
    <3>1. s_count' = 0
      BY <2>4 DEF SemInv, SemTypeOK
    <3> QED BY <2>1, <3>1 DEF FlightFacts
  <2> QED BY <2>2, <2>3, <2>4
<1>7. SignalWakes'
  BY <1>1, <1>2, <1>3, SemaphoreAssumption DEF SemInv, SignalWakes, Asleep
<1> QED BY <1>4, <1>5, <1>6, <1>7 DEF SemInv

(* The unit sema_v adds has the thread it wakes.                           *)
LEMMA sema_vInv == ASSUME SemInv, sema_v PROVE SemInv'
<1> USE DEF sema_v
<1>1. /\ s_slpq' \in Seq(Threads) /\ NoDup(s_slpq')
      /\ Elems(s_slpq') \subseteq Elems(s_slpq)
  <2>1. CASE s_slpq # <<>>
    BY <2>1, HeadWoken DEF WakeHead
  <2>2. CASE s_slpq = <<>>
    BY <2>2 DEF SemInv, SemTypeOK, SlpqInv
  <2> QED BY <2>1, <2>2
<1>2. SemTypeOK'
  BY <1>1 DEF SemInv, SemTypeOK
<1>3. SlpqInv'
  BY <1>1, SlpqShrinks
<1>4. NoLostV'
  <2>1. PICK S, T : FlightFacts(S, T)
    BY Flights
  <2>2. CASE s_slpq # <<>>
    <3>1. PICK h \in Threads : h = Head(s_slpq) /\ Asleep(h)
      BY <2>2, HeadWoken
    <3>2. Elems(s_slpq') = Elems(s_slpq) \ {h}
      BY <2>2, <3>1, HeadWoken DEF WakeHead
    <3>3. h \in T /\ h \notin S
      BY <2>1, <3>1, <3>2 DEF FlightFacts, InFlight, Asleep, SemInv, SlpqInv
    <3>4. S \subseteq T
      BY <1>1, <2>1 DEF FlightFacts, InFlight, Asleep
    <3>5. Cardinality(S) + 1 <= Cardinality(T)
      BY <2>1, <3>3, <3>4, SetPlus DEF FlightFacts
    <3>6. s_count \in Nat
      BY DEF SemInv, SemTypeOK
    <3> QED BY <2>1, <2>2, <3>5, <3>6 DEF FlightFacts
  <2>3. CASE s_slpq = <<>>
    BY <2>1, <2>3 DEF FlightFacts
  <2> QED BY <2>2, <2>3
<1>5. SignalWakes'
  BY <1>1, SemaphoreAssumption DEF SemInv, SignalWakes, Asleep
<1> QED BY <1>2, <1>3, <1>4, <1>5 DEF SemInv

LEMMA sema_trypInv == ASSUME SemInv, NEW t \in Threads, sema_tryp(t) PROVE SemInv'
<1> USE DEF sema_tryp
<1>1. SemTypeOK'
  BY DEF SemInv, SemTypeOK
<1>2. SlpqInv' /\ SignalWakes'
  BY DEF SemInv, SlpqInv, SignalWakes, Asleep
<1>3. NoLostV'
  <2>1. PICK S, T : FlightFacts(S, T)
    BY Flights
  <2>2. S = T
    BY <2>1 DEF FlightFacts, InFlight, Asleep
  <2>3. s_count \in Nat
    BY DEF SemInv, SemTypeOK
  <2> QED BY <2>1, <2>2, <2>3 DEF FlightFacts
<1> QED BY <1>1, <1>2, <1>3 DEF SemInv

(* A change of priority moves a sleeper within the queue.                  *)
LEMMA ChangePriInv ==
    ASSUME SemInv, NEW t \in Threads, NEW p \in Priorities, ChangePri(t, p)
    PROVE  SemInv'
<1> USE DEF ChangePri
<1>1. s_slpq \in Seq(Threads) /\ NoDup(s_slpq)
  BY DEF SemInv, SemTypeOK, SlpqInv
<1>2. /\ s_slpq' \in Seq(Threads) /\ NoDup(s_slpq')
      /\ Elems(s_slpq') = Elems(s_slpq)
  <2>1. CASE Asleep(t)
    <3>1. PICK q \in Seq(Threads) : /\ q = sleepq_dequeue(s_slpq, t) /\ NoDup(q)
                                   /\ Elems(q) = Elems(s_slpq) \ {t}
      BY <1>1, <2>1, DequeueQueue DEF Asleep
    <3>2. s_slpq' = sleepq_insert(q, t, t_pri')
      BY <2>1, <3>1 DEF sema_change_pri
    <3>3. PICK pri : pri = t_pri'
      OBVIOUS
    <3>4. LET r == sleepq_insert(q, t, pri) IN
          r \in Seq(Threads) /\ NoDup(r) /\ Elems(r) = Elems(q) \cup {t}
      BY <3>1, InsertQueue
    <3> QED BY <2>1, <3>1, <3>2, <3>3, <3>4 DEF Asleep
  <2>2. CASE ~Asleep(t)
    BY <1>1, <2>2 DEF sema_change_pri
  <2> QED BY <2>1, <2>2
<1>3. SemTypeOK'
  BY <1>2 DEF SemInv, SemTypeOK
<1>4. SlpqInv' /\ SignalWakes'
  BY <1>2 DEF SemInv, SlpqInv, SignalWakes, Asleep
<1>5. NoLostV'
  <2>1. InFlight \subseteq InFlight'
    BY <1>2 DEF InFlight, Asleep
  <2> QED BY <2>1, <1>2, FlightKept
<1> QED BY <1>3, <1>4, <1>5 DEF SemInv

(* A signal is posted: setrun is due.                                      *)
LEMMA SigPostInv == ASSUME SemInv, NEW t \in Threads, SigPost(t) PROVE SemInv'
<1> USE DEF SigPost
<1>1. SemTypeOK'
  BY DEF SemInv, SemTypeOK
<1>2. \A u \in Threads : u # t => sig'[u] = sig[u]
  BY DEF SemInv, SemTypeOK
<1>3. SlpqInv'
  BY DEF SemInv, SlpqInv, Asleep
<1>4. SignalWakes'
  BY <1>2, SemaphoreAssumption DEF SemInv, SignalWakes, Asleep
<1>5. NoLostV'
  <2>1. InFlight \subseteq InFlight'
    BY DEF InFlight, Asleep
  <2> QED BY <2>1, <1>1, FlightKept DEF SemTypeOK
<1> QED BY <1>1, <1>3, <1>4, <1>5 DEF SemInv

(* setrun: the thread is awake, on its way to the count.                   *)
LEMMA setrunInv == ASSUME SemInv, NEW t \in Threads, setrun(t) PROVE SemInv'
<1> USE DEF setrun
<1>1. /\ s_slpq' \in Seq(Threads) /\ NoDup(s_slpq')
      /\ Elems(s_slpq') = Elems(s_slpq) \ {t}
  BY Unslept
<1>2. SemTypeOK'
  BY <1>1 DEF SemInv, SemTypeOK
<1>3. SlpqInv'
  BY <1>1, SlpqShrinks
<1>4. SignalWakes'
  BY <1>1, SemaphoreAssumption DEF SemInv, SignalWakes, Asleep
<1>5. NoLostV'
  <2>1. InFlight \subseteq InFlight'
    BY <1>1 DEF InFlight, Asleep
  <2> QED BY <2>1, <1>1, FlightKept
<1> QED BY <1>2, <1>3, <1>4, <1>5 DEF SemInv

LEMMA SigHandledInv == ASSUME SemInv, NEW t \in Threads, SigHandled(t) PROVE SemInv'
<1> USE DEF SigHandled
<1>1. SemTypeOK'
  BY DEF SemInv, SemTypeOK
<1>2. \A u \in Threads : sig'[u] => sig[u]
  BY DEF SemInv, SemTypeOK
<1>3. SlpqInv'
  BY DEF SemInv, SlpqInv, Asleep
<1>4. SignalWakes'
  BY <1>2, SemaphoreAssumption DEF SemInv, SignalWakes, Asleep
<1>5. NoLostV'
  <2>1. InFlight \subseteq InFlight'
    BY DEF InFlight, Asleep
  <2> QED BY <2>1, <1>1, FlightKept DEF SemTypeOK
<1> QED BY <1>1, <1>3, <1>4, <1>5 DEF SemInv

-----------------------------------------------------------------------------
LEMMA SemInitInv == Init => SemInv
<1> SUFFICES ASSUME Init PROVE SemInv
  OBVIOUS
<1> USE DEF Init
<1>1. Elems(s_slpq) = {} /\ s_slpq = <<>> /\ s_slpq \in Seq(Threads)
  BY DEF Elems
<1>2. SemTypeOK
  BY <1>1, SemaphoreAssumption DEF SemTypeOK, Labels
<1>3. SlpqInv
  BY <1>1 DEF SlpqInv, NoDup, Asleep
<1>4. NoLostV /\ SignalWakes
  BY <1>1 DEF NoLostV, SignalWakes, Asleep
<1> QED BY <1>2, <1>3, <1>4 DEF SemInv

LEMMA SemNextInv == SemInv /\ [Next]_vars => SemInv'
<1> SUFFICES ASSUME SemInv, [Next]_vars PROVE SemInv'
  OBVIOUS
<1>1. ASSUME NEW t \in Threads, Continue(t) \/ sema_p(t) \/ sema_tryp(t)
      PROVE  SemInv'
  BY <1>1, PTakeInv, BlockInv, LookForSignalInv, ResumeInv, InterruptedInv,
     sema_pInv, sema_trypInv DEF Continue
<1>2. CASE sema_v
  BY <1>2, sema_vInv
<1>3. ASSUME NEW t \in Interruptible, SigPost(t) \/ setrun(t) \/ SigHandled(t)
      PROVE  SemInv'
  BY <1>3, SemaphoreAssumption, SigPostInv, setrunInv, SigHandledInv
<1>4. ASSUME NEW t \in Threads, NEW p \in Priorities, ChangePri(t, p)
      PROVE  SemInv'
  BY <1>4, ChangePriInv
<1>5. CASE UNCHANGED vars
  BY <1>5 DEF vars, SemInv, SemTypeOK, SlpqInv, NoLostV, SignalWakes, InFlight, Asleep
<1> QED BY <1>1, <1>2, <1>3, <1>4, <1>5 DEF Next

(* The inductive invariant of the semaphore.                               *)
THEOREM SemaphoreInvariant == Spec => []SemInv
BY SemInitInv, SemNextInv, PTL DEF Spec

(* No sema_v is lost, whatever signals, priority changes and competing     *)
(* sema_p and sema_tryp calls come between the wakeup and the count.       *)
THEOREM UnitsServed == Spec => []NoLostV
<1>1. SemInv => NoLostV
  BY DEF SemInv
<1> QED BY <1>1, SemaphoreInvariant, PTL

(* No signal is lost by a thread that blocks in sema_p_sig, although it is *)
(* posted and looked for under different locks.                            *)
THEOREM SignalsSeen == Spec => []SignalWakes
<1>1. SemInv => SignalWakes
  BY DEF SemInv
<1> QED BY <1>1, SemaphoreInvariant, PTL
=============================================================================
