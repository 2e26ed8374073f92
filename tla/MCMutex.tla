------------------------------ MODULE MCMutex ------------------------------
(* Small instances of Mutex for TLC.                                       *)
EXTENDS Mutex, TLC

(* CPUs, threads and turnstiles are interchangeable.                       *)
Symmetry ==
    Permutations(Turnstiles) \cup Permutations(Threads) \cup Permutations(CPUs)
=============================================================================
