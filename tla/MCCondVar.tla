----------------------------- MODULE MCCondVar -----------------------------
(* A small instance of CondVar for TLC.                                    *)
EXTENDS CondVar

CONSTANTS t1, t2, c1, c2

(* One thread with an lwp and one kernel thread; both wait for c1, and may *)
(* be on the same queue for c2.                                            *)
MCCalls ==
    [t \in Threads |->
        IF t = t1 THEN [op : {"timedwait_sig"}, cv : {c1}]
                        \cup [op : {"wait_sig"}, cv : {c1, c2}]
        ELSE [op : {"wait", "timedwait"}, cv : {c1}]
                        \cup [op : {"wait_stop"}, cv : {c2}]]
=============================================================================
