----------------------------- MODULE MCCallout -----------------------------
(* Small instances of Callout for TLC.                                     *)
EXTENDS Callout, TLC

(* Clients, structures and executors are interchangeable.                  *)
Symmetry ==
    Permutations(Clients) \cup Permutations(Structs)
        \cup Permutations(Threads) \cup Permutations(CPUs)
=============================================================================
