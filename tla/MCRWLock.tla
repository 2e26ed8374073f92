------------------------------ MODULE MCRWLock ------------------------------
(* Small instances of RWLock for TLC.                                      *)
EXTENDS RWLockInv, TLC

(* Every thread uses every lock in every way.                              *)
Everyone == [l \in Locks |-> Threads]

(* Turnstiles are interchangeable, and so are the threads.                 *)
Symmetry == Permutations(Turnstiles) \cup Permutations(Threads)
=============================================================================
