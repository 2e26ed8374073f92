--------------------------- MODULE AbstractRWLock ---------------------------
(***************************************************************************)
(* What a readers/writer lock promises its callers, without lock word,     *)
(* turnstile or chain lock: who holds each lock, who waits for it, and the *)
(* comment of rwlock.c that waiters receive the lock by direct handoff     *)
(* from the previous owner, so that a lock with waiters is never free.     *)
(***************************************************************************)
CONSTANTS Threads, Locks

VARIABLES
    holds,   \* [Threads][Locks]: "none", "R" or "W"
    wants    \* [Threads][Locks]: the mode the thread waits for, or "none"

avars == <<holds, wants>>

Nobody == [t \in Threads |-> [l \in Locks |-> "none"]]
Holders(l) == {t \in Threads : holds[t][l] # "none"}
Wanting(l, m) == {t \in Threads : wants[t][l] = m}

(* hold of t on l becomes m, and the threads of S leave the queue with g.  *)
Move(t, l, m, S, g) ==
    /\ holds' = [u \in Threads |->
          [holds[u] EXCEPT ![l] = IF u \in S THEN g ELSE IF u = t THEN m ELSE @]]
    /\ wants' = [u \in Threads |->
          [wants[u] EXCEPT ![l] = IF u \in S THEN "none" ELSE @]]

AInit == holds = Nobody /\ wants = Nobody

(* A reader joins readers if no writer waits; a writer needs a free lock.  *)
Acquire(t, l, m) ==
    /\ holds[t][l] = "none" /\ wants[t][l] = "none"
    /\ \A u \in Holders(l) : m = "R" /\ holds[u][l] = "R"
    /\ Wanting(l, "W") = {}
    /\ Move(t, l, m, {}, "none")

(* Only a lock that somebody holds is waited for.                          *)
Wait(t, l, m) ==
    /\ holds[t][l] = "none" /\ wants[t][l] = "none"
    /\ Holders(l) # {}
    /\ wants' = [wants EXCEPT ![t][l] = m]
    /\ UNCHANGED holds

(* A release that leaves the lock free finds nobody waiting; ...           *)
Release(t, l) ==
    /\ holds[t][l] # "none"
    /\ Holders(l) = {t} => Wanting(l, "R") \cup Wanting(l, "W") = {}
    /\ Move(t, l, "none", {}, "none")

(* ... otherwise the last holder passes the lock on, a reader always to a  *)
(* writer, a writer to one writer or to some of the readers.               *)
HandOver(t, l, S, m) ==
    /\ Holders(l) = {t}
    /\ S # {} /\ S \subseteq Wanting(l, m)
    /\ IF m = "W" THEN \A u, v \in S : u = v ELSE holds[t][l] = "W"
    /\ Move(t, l, "none", S, m)

(* A writer becomes a reader, and may then let waiting readers in.         *)
Downgrade(t, l) == holds[t][l] = "W" /\ Move(t, l, "R", {}, "none")
Share(t, l, S) ==
    /\ holds[t][l] = "R" /\ S \subseteq Wanting(l, "R")
    /\ Move(t, l, "R", S, "R")

(* The only reader becomes the writer if nobody waits to write.            *)
Upgrade(t, l) ==
    /\ Holders(l) = {t} /\ holds[t][l] = "R" /\ Wanting(l, "W") = {}
    /\ Move(t, l, "W", {}, "none")

ANext ==
    \E t \in Threads, l \in Locks :
        \/ \E m \in {"R", "W"} :
              \/ Acquire(t, l, m) \/ Wait(t, l, m)
              \/ \E S \in SUBSET Threads : HandOver(t, l, S, m)
        \/ Release(t, l) \/ Downgrade(t, l) \/ Upgrade(t, l)
        \/ \E S \in SUBSET Threads : Share(t, l, S)

ASpec == AInit /\ [][ANext]_avars
=============================================================================
