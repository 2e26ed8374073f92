------------------------------- MODULE Callb -------------------------------
(***************************************************************************)
(* The callback table, uts/common/os/callb.c and sys/callb.h, with its     *)
(* user, the stopping of the kernel threads for a checkpoint               *)
(* (cpr_stop_kernel_threads in uts/common/cpr/cpr_uthr.c, and the end of   *)
(* cpr_resume in cpr_main.c).                                              *)
(*                                                                         *)
(* Kernel daemons register a callback, mark the regions in which they may  *)
(* be checkpointed, and delete the callback when they exit.  A checkpoint  *)
(* walks the list of callbacks; the table's lock is dropped while one      *)
(* runs, and daemons register, exit and enter or leave safe regions in     *)
(* between.  What happens under ct_lock or cc_lockp is one step.  Waiting  *)
(* for a condition variable is a guard on the condition (CondVar shows     *)
(* that no wakeup is lost).                                                *)
(***************************************************************************)
EXTENDS Integers, FiniteSets

CONSTANTS
    Daemons,      \* kernel threads (each may live, exit and be created again)
    Callbs,       \* bound: the callb structures that can be allocated
    NULL

ASSUME CallbAssumption ==
    IsFiniteSet(Daemons) /\ IsFiniteSet(Callbs) /\ NULL \notin Daemons \cup Callbs

VARIABLES
    ct_busy,      \* additions are prevented
    ct_first_cb,  \* head of the list of class CB_CL_CPR_DAEMON
    cb_freelist,  \* head of the list of free structures
    c_next,       \* [Callbs]: next in the class or on the free list
    c_flag,       \* [Callbs]: subset of {"TAKEN", "EXECUTING"}
    c_arg,        \* [Callbs]: the daemon whose callb_cpr_t is c_arg
    allocated,    \* structures obtained from kmem_zalloc so far
    cc_events,    \* [Daemons]: subset of {"START", "SAFE"}
    cc_id,        \* [Daemons]: the structure that callb_add returned
    d_pc,         \* [Daemons]: where the daemon is
    cpr,          \* where the checkpointing thread is
    cp,           \* its place in the list
    code,         \* "CHKPT" or "RESUME"
    failed,       \* the callback that failed, or NULL
    unchecked     \* threads that callb_is_stopped has yet to look at

table == <<ct_busy, ct_first_cb, cb_freelist, c_next, c_flag, c_arg, allocated>>
daemons == <<cc_events, cc_id, d_pc>>
walker == <<cpr, cp, code, failed, unchecked>>
callb_vars == <<table, daemons, walker>>

GoTo(t, label) == d_pc' = [d_pc EXCEPT ![t] = label]

CallbInit ==
    /\ ct_busy = FALSE
    /\ ct_first_cb = NULL /\ cb_freelist = NULL
    /\ c_next = [s \in Callbs |-> NULL]
    /\ c_flag = [s \in Callbs |-> {}]
    /\ c_arg = [s \in Callbs |-> NULL]
    /\ allocated = {}
    /\ cc_events = [t \in Daemons |-> {}]
    /\ cc_id = [t \in Daemons |-> NULL]
    /\ d_pc = [t \in Daemons |-> "none"]
    /\ cpr = "run" /\ cp = NULL /\ code = "RESUME" /\ failed = NULL
    /\ unchecked = {}
-----------------------------------------------------------------------------
(* The structures from s on, following c_next: the least set of them that  *)
(* holds s and is closed under c_next.                                     *)
Closed(C) == \A x \in C : c_next[x] \in C \cup {NULL}
From(s) == {x \in Callbs : \A C \in SUBSET Callbs :
                              s \in C \cup {NULL} /\ Closed(C) => x \in C}

(* Threads are created by processes, which are stopped before the daemons, *)
(* and by daemons at work; thread_create takes pidlock, which is held      *)
(* while the threads are looked at.                                        *)
thread_create(t) ==
    /\ d_pc[t] = "none"
    /\ cpr = "run" \/ \E d \in Daemons : d_pc[d] = "work"
    /\ cpr # "check"
    /\ GoTo(t, "new")
    /\ UNCHANGED <<table, cc_events, cc_id, walker>>

(* Faulty variant: an addition does not wait while the table is busy.      *)
AlwaysOpen == TRUE

Open == ~ct_busy

(* CALLB_CPR_INIT: clear the callb_cpr_t and callb_add it.                 *)
callb_add(t) ==
    /\ d_pc[t] = "new"
    /\ Open
    /\ \E s \in Callbs :
        /\ IF cb_freelist = NULL THEN s \notin allocated ELSE s = cb_freelist
        /\ allocated' = allocated \cup {s}
        /\ cb_freelist' = IF cb_freelist = NULL THEN NULL ELSE c_next[s]
        /\ c_flag' = [c_flag EXCEPT ![s] = @ \cup {"TAKEN"}]
        /\ c_arg' = [c_arg EXCEPT ![s] = t]
        /\ c_next' = [c_next EXCEPT ![s] = ct_first_cb]
        /\ ct_first_cb' = s
        /\ cc_id' = [cc_id EXCEPT ![t] = s]
    /\ cc_events' = [cc_events EXCEPT ![t] = {}]
    /\ GoTo(t, "work")
    /\ UNCHANGED <<ct_busy, walker>>

(* CALLB_CPR_SAFE_BEGIN and CALLB_CPR_SAFE_END.                            *)
SAFE_BEGIN(t) ==
    /\ d_pc[t] = "work"
    /\ cc_events' = [cc_events EXCEPT ![t] = @ \cup {"SAFE"}]
    /\ GoTo(t, "safe")
    /\ UNCHANGED <<table, cc_id, walker>>

NotStarted(t) == "START" \notin cc_events[t]

SAFE_END(t) ==
    /\ d_pc[t] = "safe"
    /\ NotStarted(t)
    /\ cc_events' = [cc_events EXCEPT ![t] = @ \ {"SAFE"}]
    /\ GoTo(t, "work")
    /\ UNCHANGED <<table, cc_id, walker>>

(* CALLB_CPR_EXIT and the wait of callb_delete for a callback that runs.   *)
EXIT(t) ==
    /\ d_pc[t] = "work"
    /\ cc_events' = [cc_events EXCEPT ![t] = @ \cup {"SAFE"}]
    /\ GoTo(t, "delete")
    /\ UNCHANGED <<table, cc_id, walker>>

(* Faulty variant: an executing callback is deleted.                       *)
DeleteAtOnce(s) == TRUE

MayDelete(s) == "EXECUTING" \notin c_flag[s]

(* Faulty variant: only the head of the list is relinked.                  *)
KeepLinks(me) == c_next

Relinked(me) ==
    [s \in Callbs |-> IF c_next[s] = me /\ s \in From(ct_first_cb)
                       THEN c_next[me] ELSE c_next[s]]

(* The daemon is gone afterwards, with the callb_cpr_t on its stack.       *)
callb_delete(t) ==
    /\ d_pc[t] = "delete"
    /\ MayDelete(cc_id[t])
    /\ LET me == cc_id[t]
       IN  /\ ct_first_cb' = IF ct_first_cb = me THEN c_next[me] ELSE ct_first_cb
           /\ c_flag' = [c_flag EXCEPT ![me] = {}]
           /\ c_next' = [Relinked(me) EXCEPT ![me] = cb_freelist]
           /\ cb_freelist' = me
    /\ GoTo(t, "none")
    /\ cc_events' = [cc_events EXCEPT ![t] = {}]
    /\ cc_id' = [cc_id EXCEPT ![t] = NULL]
    /\ UNCHANGED <<ct_busy, c_arg, allocated, walker>>
-----------------------------------------------------------------------------
(* The checkpointing thread.                                               *)
callb_lock_table ==
    /\ cpr = "run"
    /\ ct_busy' = TRUE
    /\ cpr' = "begin" /\ code' = "CHKPT"
    /\ UNCHANGED <<ct_first_cb, cb_freelist, c_next, c_flag, c_arg, allocated,
                   daemons, cp, failed, unchecked>>

(* Go on with callback s, without giving up ct_lock since it was looked up *)
(* in the list.  It is not executing: the class has no other executor.     *)
GoOn(flag, s) ==
    /\ cp' = s
    /\ IF s = NULL \/ failed' # NULL
       THEN cpr' = "end" /\ c_flag' = flag
       ELSE cpr' = "func" /\ c_flag' = [flag EXCEPT ![s] = @ \cup {"EXECUTING"}]

(* callb_execute_class, from the first callback ...                        *)
callb_execute_class ==
    /\ cpr = "begin"
    /\ failed' = NULL
    /\ GoOn(c_flag, ct_first_cb)
    /\ UNCHANGED <<ct_busy, ct_first_cb, cb_freelist, c_next, c_arg, allocated,
                   daemons, code, unchecked>>

(* callb_generic_cpr(c_arg, code).                                         *)
Func ==
    /\ cpr = "func"
    /\ cc_events' = [cc_events EXCEPT ![c_arg[cp]] =
                       IF code = "CHKPT" THEN @ \cup {"START"} ELSE @ \ {"START"}]
    /\ cpr' = IF code = "CHKPT" THEN "wait" ELSE "done"
    /\ UNCHANGED <<table, cc_id, d_pc, cp, code, failed, unchecked>>

Stopped ==
    /\ cpr = "wait"
    /\ "SAFE" \in cc_events[c_arg[cp]]
    /\ cpr' = "done"
    /\ UNCHANGED <<table, daemons, cp, code, failed, unchecked>>

(* Faulty variant: the wait has no time limit.                             *)
NoTimeout == FALSE

(* cv_timedwait returned -1: give up, also if the daemon is safe by now.   *)
TimedOut == cpr = "wait"

GiveUp ==
    /\ TimedOut
    /\ failed' = cp
    /\ cpr' = "done"
    /\ UNCHANGED <<table, daemons, cp, code, unchecked>>

(* ... to the next one, with the lock taken again after the function.      *)
ExecuteNext ==
    /\ cpr = "done"
    /\ UNCHANGED failed
    /\ GoOn([c_flag EXCEPT ![cp] = @ \ {"EXECUTING"}], c_next[cp])
    /\ UNCHANGED <<ct_busy, ct_first_cb, cb_freelist, c_next, c_arg, allocated,
                   daemons, code, unchecked>>

(* The end of the walk.  A failed checkpoint is followed by a resume; a    *)
(* successful one by a look at every kernel thread.                        *)
ExecuteEnd ==
    /\ cpr = "end"
    /\ cp' = NULL
    /\ \/ /\ code = "CHKPT" /\ failed = NULL
          /\ cpr' = "check"
          /\ unchecked' = {t \in Daemons : d_pc[t] # "none"}
          /\ UNCHANGED <<ct_busy, code>>
       \/ /\ code = "CHKPT" /\ failed # NULL
          /\ cpr' = "begin" /\ code' = "RESUME"
          /\ UNCHANGED <<ct_busy, unchecked>>
       \/ /\ code = "RESUME"                     \* callb_unlock_table
          /\ ct_busy' = FALSE
          /\ cpr' = "run"
          /\ UNCHANGED <<code, unchecked>>
    /\ failed' = NULL
    /\ UNCHANGED <<ct_first_cb, cb_freelist, c_next, c_flag, c_arg, allocated,
                   daemons>>

(* callb_is_stopped: in the table and marked safe.                         *)
FoundSafe(t) ==
    /\ \E s \in From(ct_first_cb) : c_arg[s] = t
    /\ "SAFE" \in cc_events[t]

(* It is also seen asleep within three tries, or it is not.                *)
callb_is_stopped(t) ==
    /\ cpr = "check" /\ t \in unchecked
    /\ \/ FoundSafe(t) /\ unchecked' = unchecked \ {t} /\ UNCHANGED <<cpr, code>>
       \/ unchecked' = {} /\ cpr' = "begin" /\ code' = "RESUME"
    /\ UNCHANGED <<table, daemons, cp, failed>>

CheckEnd ==
    /\ cpr = "check" /\ unchecked = {}
    /\ cpr' = "frozen"
    /\ UNCHANGED <<table, daemons, cp, code, failed, unchecked>>

(* The system was saved, or failed to be; the daemons are started again.   *)
cpr_resume ==
    /\ cpr = "frozen"
    /\ cpr' = "begin" /\ code' = "RESUME"
    /\ UNCHANGED <<table, daemons, cp, failed, unchecked>>
-----------------------------------------------------------------------------
Checkpoint ==
    \/ callb_execute_class \/ Func \/ Stopped \/ GiveUp \/ ExecuteNext
    \/ ExecuteEnd \/ CheckEnd \/ cpr_resume
    \/ \E t \in Daemons : callb_is_stopped(t)

CallbNext ==
    \/ callb_lock_table
    \/ Checkpoint
    \/ \E t \in Daemons :
        \/ thread_create(t) \/ callb_add(t) \/ SAFE_BEGIN(t) \/ SAFE_END(t)
        \/ EXIT(t) \/ callb_delete(t)

CallbSpec == CallbInit /\ [][CallbNext]_callb_vars

(* The checkpointing thread runs; nothing is assumed of the daemons.       *)
FairCallbSpec == CallbSpec /\ WF_callb_vars(Checkpoint)
-----------------------------------------------------------------------------
(* A callback runs only for a daemon that is alive: its callb_cpr_t is on  *)
(* the daemon's stack.                                                     *)
CallbackValid ==
    cpr \in {"func", "wait", "done"} =>
        /\ c_flag[cp] = {"TAKEN", "EXECUTING"}
        /\ d_pc[c_arg[cp]] \in {"work", "safe", "delete"}
        /\ cc_id[c_arg[cp]] = cp

(* Once the threads have been stopped and looked at, no daemon works until *)
(* it is resumed; one that exits may still be on its way out.              *)
FrozenStopped ==
    cpr = "frozen" => \A t \in Daemons : d_pc[t] \in {"none", "safe", "delete"}

(* Nobody is forgotten by the resume, also after a checkpoint that was     *)
(* given up halfway: a daemon with START set would stop for ever.          *)
AllResumed ==
    cpr = "run" => \A t \in Daemons :
        d_pc[t] \in {"work", "safe"} => "START" \notin cc_events[t]

(* A checkpoint ends, although the daemons need not cooperate.             *)
CheckpointEnds == cpr = "wait" ~> cpr = "run"
=============================================================================
