------------------------------ MODULE MCDisp ------------------------------
(* A time-sharing thread, a realtime thread, and one bound to a CPU that   *)
(* changes between the two.                                                *)
EXTENDS Disp, TLC

CONSTANTS c1, c2, t1, t2, t3

MCPriOf == t1 :> {1} @@ t2 :> {3} @@ t3 :> {1, 3}

(* The time-sharing thread is bound and unbound ...                        *)
MCBindings == t1 :> {NULL, c1} @@ t2 :> {NULL} @@ t3 :> {c1}

(* ... or the realtime thread is.                                          *)
MCBindRealtime == t1 :> {NULL} @@ t2 :> {NULL, c1} @@ t3 :> {c1}
=============================================================================
