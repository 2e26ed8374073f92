------------------------------ MODULE SleepQ ------------------------------
(***************************************************************************)
(* Sleep queues, uts/common/os/sleepq.c.                                   *)
(*                                                                         *)
(* A sleepq_t is a singly linked list (sq_first, t_link) of threads kept   *)
(* in decreasing order of dispatch priority and, among equals, in order of *)
(* arrival.  Here a queue is the sequence of its threads; the priorities   *)
(* are passed as a function because DISP_PRIO of a thread may change while *)
(* it is queued.                                                           *)
(***************************************************************************)
EXTENDS Integers, Sequences, FiniteSets

(* The elements of a queue.                                                *)
Elems(q) == {q[i] : i \in DOMAIN q}

(* A queue holds a thread at most once: t_link is a single field.          *)
NoDup(q) == \A i, j \in DOMAIN q : q[i] = q[j] => i = j

(* The order sleepq_insert maintains.                                      *)
Sorted(q, pri) == \A i, j \in DOMAIN q : i < j => pri[q[i]] >= pri[q[j]]

(* The length of the longest prefix of q all of whose threads satisfy      *)
(* pri >= p: where the loops of sleepq_insert and rw_readers_to_wake stop. *)
PrefixLen(q, pri, p) ==
    Cardinality({i \in DOMAIN q : \A j \in 1..i : pri[q[j]] >= p})

(* sleepq_insert: skip the threads whose priority is not below c's.        *)
sleepq_insert(q, c, pri) ==
    LET k == PrefixLen(q, pri, pri[c])
    IN  [i \in 1..(Len(q) + 1) |-> IF i <= k THEN q[i]
                                   ELSE IF i = k + 1 THEN c ELSE q[i - 1]]

(* sleepq_dequeue: unlink t, wherever it is (t must be queued).            *)
sleepq_dequeue(q, t) ==
    LET k == CHOOSE i \in DOMAIN q : q[i] = t
    IN  [i \in 1..(Len(q) - 1) |-> IF i < k THEN q[i] ELSE q[i + 1]]

(* sleepq_wakeone_chan: the place of the first thread that waits for chan  *)
(* (0: none); sleepq_wakeall_chan leaves those that wait for another one.  *)
FirstOnChan(q, wchan, chan) ==
    LET on == {i \in DOMAIN q : wchan[q[i]] = chan}
    IN  IF on = {} THEN 0 ELSE CHOOSE i \in on : \A j \in on : i <= j

sleepq_wakeall_chan(q, wchan, chan) ==
    LET kept == {i \in DOMAIN q : wchan[q[i]] # chan}
        rank(i) == Cardinality({j \in kept : j <= i})
    IN  [n \in 1..Cardinality(kept) |-> q[CHOOSE i \in kept : rank(i) = n]]
=============================================================================
