------------------------------ MODULE Callout ------------------------------
(***************************************************************************)
(* Timeouts: one callout table of uts/common/os/callout.c (callo.h), its   *)
(* clients, the clock and the threads that execute callouts.               *)
(*                                                                         *)
(* Every critical section of ct_lock is one step; the handler, the waits   *)
(* and softcall() lie between the steps.  A table is NORMAL, executed by   *)
(* callout threads that sleep on ct_threadpool, or REALTIME, executed by   *)
(* softint() (module Softint).                                             *)
(*                                                                         *)
(* The code only compares times and takes differences of them, so that a   *)
(* time is kept as its difference from lbolt: lbolt is 0, and a tick makes *)
(* every other time one less.  The hash chains are one chain, new callouts *)
(* first: what the code finds in a bucket it compares in full.             *)
(***************************************************************************)
EXTENDS Softint, FiniteSetsExt

CONSTANTS
    ct_type,        \* "NORMAL" or "REALTIME"
    Clients,        \* callers of timeout() and untimeout(), one callout each
    Threads,        \* the callout threads of a NORMAL table
    callout_execute,\* the function softcall() gets for a REALTIME table
    Structs,        \* callout_t structures (bound on callout_alloc)
    Deltas,         \* arguments of timeout()
    CprCodes,       \* the codes CPR may pass: TRUE to stop, FALSE to resume
    MaxLag,         \* bound: execution is at most that many ticks behind
    LONGTERM_TICKS,
    COUNTER_LOW,    \* an id is table + COUNTER_LOW * counter + COUNTER_HIGH
    COUNTER_HIGH    \* (+ LONGTERM) (+ EXECUTING)

lbolt == 0
LONGTERM == 2 * COUNTER_HIGH
EXECUTING == 4 * COUNTER_HIGH
Table == IF ct_type = "NORMAL" THEN 1 ELSE 0
Executors == IF ct_type = "NORMAL" THEN Threads ELSE CPUs
NoCallout == "none"
TimeLeft == 0         \* any result of untimeout() that is not negative

ASSUME CalloutAssumption ==
    /\ ct_type \in {"NORMAL", "REALTIME"}
    /\ Cardinality(Clients) <= Cardinality(Structs)
    /\ Clients \cap (Threads \cup CPUs) = {}
    /\ MaxLag \in Nat /\ Deltas \subseteq Int
    /\ COUNTER_LOW \in Nat /\ COUNTER_LOW > 1
    /\ COUNTER_HIGH \in Nat /\ COUNTER_HIGH > 0 /\ COUNTER_HIGH % COUNTER_LOW = 0
    /\ callout_execute \in Funcs
    /\ CprCodes \subseteq BOOLEAN

VARIABLES
    clk,              \* the clock: "idle", "sched" or "softcall"
    cpr_stop_callout, \* a checkpoint stopped the callouts
    ct_curtime, ct_runtime, ct_short_id, ct_long_id,
    ct_freelist,      \* free structures, last freed first
    ct_hash,          \* the hashed callouts: structure, time and client
    c_xid,            \* [Structs]: the extended id
    ex,               \* [Executors]: where callout_execute is
    un,               \* [callers]: a caller inside untimeout()
    id,               \* [Clients]: the id timeout() returned, 0 if none
    alloc,            \* the clients inside callout_alloc()
    ran, ret          \* history: times the client's callout ran since
                      \* timeout(), and what untimeout() returned

ct_vars == <<ct_curtime, ct_runtime, ct_short_id, ct_long_id, ct_freelist,
             ct_hash, c_xid>>
vars == <<clk, cpr_stop_callout, ct_vars, ex, un, id, alloc, ran, ret,
          soft_vars>>

ExAt(label) == [pc |-> label, cp |-> NoCallout, runtime |-> 0]
NotIn == [pc |-> "no", cp |-> NoCallout, xid |-> 0]
Hashed == {ct_hash[i].cp : i \in DOMAIN ct_hash}
Fresh == Structs \ (Hashed \cup Range(ct_freelist))
Executing(cp) == c_xid[cp] >= EXECUTING

(* callout_init: callout threads begin to run.                             *)
Init ==
    /\ SoftInit
    /\ clk = "idle" /\ cpr_stop_callout = FALSE
    /\ ct_curtime = lbolt /\ ct_runtime = lbolt
    /\ ct_short_id = Table + COUNTER_HIGH
    /\ ct_long_id = Table + COUNTER_HIGH + LONGTERM
    /\ ct_freelist = <<>> /\ ct_hash = <<>>
    /\ c_xid = [cp \in Structs |-> 0]
    /\ ex = [e \in Executors |-> ExAt("idle")]
    /\ un = [t \in Clients \cup Executors |-> NotIn]
    /\ id = [c \in Clients |-> 0]
    /\ alloc = {}
    /\ ran = [c \in Clients |-> 0]
    /\ ret = [c \in Clients |-> TimeLeft]
-----------------------------------------------------------------------------
(* The place of structure cp, which is hashed, and the chain without it:   *)
(* CALLOUT_HASH_UPDATE(DELETE).                                            *)
Place(cp) == CHOOSE i \in DOMAIN ct_hash : ct_hash[i].cp = cp
Without(cp) ==
    [i \in 1..(Len(ct_hash) - 1) |-> ct_hash[IF i < Place(cp) THEN i ELSE i + 1]]

(* Faulty variant: the structure is freed without being unhashed.          *)
FreeOnly(cp) == UNCHANGED ct_hash /\ ct_freelist' = <<cp>> \o ct_freelist

(* The structure returns to the freelist.                                  *)
Free(cp) ==
    /\ ct_hash' = Without(cp)
    /\ ct_freelist' = <<cp>> \o ct_freelist

(* The next id: one less in the counter, whose highest bit stays set.      *)
NextId(last) ==
    LET less == last - COUNTER_LOW
    IN  IF (less \div COUNTER_HIGH) % 2 = 1 THEN less ELSE less + COUNTER_HIGH

AtLeastOne(delta) == IF delta <= 0 THEN 1 ELSE delta

(* The part of timeout_common after a structure was found.  callo.h        *)
(* assumes that an id is not issued again while it is in use.              *)
Arm(c, cp, delta) ==
    LET d == AtLeastOne(delta)
        new == NextId(IF d > LONGTERM_TICKS THEN ct_long_id ELSE ct_short_id)
    IN  /\ \A k \in Clients : id[k] # new
        /\ IF d > LONGTERM_TICKS
           THEN ct_long_id' = new /\ UNCHANGED ct_short_id
           ELSE ct_short_id' = new /\ UNCHANGED ct_long_id
        /\ c_xid' = [c_xid EXCEPT ![cp] = new]
        /\ ct_hash' = <<[cp |-> cp, runtime |-> lbolt + d, arg |-> c]>>
                        \o ct_hash
        /\ id' = [id EXCEPT ![c] = new]
        /\ ran' = [ran EXCEPT ![c] = 0]
        /\ ret' = [ret EXCEPT ![c] = TimeLeft]
        /\ UNCHANGED <<clk, cpr_stop_callout, ct_curtime, ct_runtime,
                       ex, un, soft_vars>>

timeout(c, delta) ==
    /\ id[c] = 0 /\ c \notin alloc
    /\ ct_freelist # <<>>
    /\ Arm(c, Head(ct_freelist), delta)
    /\ ct_freelist' = Tail(ct_freelist)
    /\ UNCHANGED alloc

(* callout_alloc drops ct_lock to allocate.                                *)
callout_alloc(c) ==
    /\ id[c] = 0 /\ c \notin alloc
    /\ ct_freelist = <<>>
    /\ alloc' = alloc \cup {c}
    /\ UNCHANGED <<clk, cpr_stop_callout, ct_vars, ex, un, id, ran, ret,
                   soft_vars>>

timeout_fresh(c, delta) ==
    /\ c \in alloc
    /\ \E cp \in Fresh : Arm(c, cp, delta)
    /\ alloc' = alloc \ {c}
    /\ UNCHANGED ct_freelist
-----------------------------------------------------------------------------
(* untimeout returns r to t.  A client forgets its id; a handler that      *)
(* cancels itself goes on.                                                 *)
Return(t, r) ==
    /\ un' = [un EXCEPT ![t] = NotIn]
    /\ IF t \in Clients
       THEN id' = [id EXCEPT ![t] = 0] /\ ret' = [ret EXCEPT ![t] = r]
       ELSE UNCHANGED <<id, ret>>

(* c_executor, set with EXECUTING and read only while that is set: the     *)
(* thread that is inside the handler.                                      *)
c_executor(cp) == CHOOSE e \in Executors : ex[e].pc = "call" /\ ex[e].cp = cp

(* Faulty variants: the caller does not wait for the handler, or waits     *)
(* even inside it.                                                         *)
NeverWait(t, cp) == FALSE
WaitForSelf(t, cp) == TRUE

(* Whether untimeout has to wait for the executing callout.                *)
MustWait(t, cp) == c_executor(cp) # t

(* untimeout: a pending callout is removed, an executing one waited for.   *)
(* The result is the time left, at least 0, or -1 when the callout was not *)
(* found or is executing.                                                  *)
untimeout(t, xid) ==
    /\ \/ \E n \in Range(ct_hash) :
             /\ c_xid[n.cp] = xid
             /\ Free(n.cp)
             /\ Return(t, TimeLeft)
       \/ \E cp \in Hashed :
             /\ c_xid[cp] = xid + EXECUTING
             /\ IF MustWait(t, cp)
                THEN /\ un' = [un EXCEPT ![t] = [pc |-> "sleep", cp |-> cp,
                                                 xid |-> xid + EXECUTING]]
                     /\ UNCHANGED <<id, ret>>
                ELSE Return(t, -1)
             /\ UNCHANGED <<ct_hash, ct_freelist>>
       \/ /\ \A cp \in Hashed : c_xid[cp] \notin {xid, xid + EXECUTING}
          /\ Return(t, -1)
          /\ UNCHANGED <<ct_hash, ct_freelist>>
    /\ UNCHANGED <<clk, cpr_stop_callout, ct_curtime, ct_runtime,
                   ct_short_id, ct_long_id, c_xid, ex, alloc, ran, soft_vars>>

ClientUntimeout(c) ==
    /\ id[c] # 0 /\ un[c].pc = "no"
    /\ untimeout(c, id[c])

(* A handler calls untimeout() on itself: "Stupid, but legal."             *)
SelfUntimeout(e) ==
    /\ ex[e].pc = "call" /\ un[e].pc = "no"
    /\ untimeout(e, c_xid[ex[e].cp] - EXECUTING)

(* The wait goes on until the id changes.                                  *)
UntimeoutRecheck(t) ==
    /\ un[t].pc = "recheck"
    /\ IF c_xid[un[t].cp] = un[t].xid
       THEN un' = [un EXCEPT ![t].pc = "sleep"] /\ UNCHANGED <<id, ret>>
       ELSE Return(t, -1)
    /\ UNCHANGED <<clk, cpr_stop_callout, ct_vars, ex, alloc, ran,
                   soft_vars>>
-----------------------------------------------------------------------------
(* The places of the callouts of a chain that are to run at time r.        *)
DueAt(chain, r) ==
    {i \in DOMAIN chain : chain[i].runtime = r /\ ~Executing(chain[i].cp)}

(* The times from r to now with a callout to run, and the first of them.   *)
DueTimes(chain, r, now) ==
    {s \in r..now : DueAt(chain, s) # {}}
FirstDue(chain, r, now) == Min(DueTimes(chain, r, now))

(* Where a search that finds nothing leaves ct_runtime.                    *)
Past(r, now) == IF r <= now THEN now + 1 ELSE r

(* Faulty variant: the callout is not marked as executing.                 *)
StartUnmarked(e, n, xids) ==
    /\ ex' = [ex EXCEPT ![e] = [pc |-> "call", cp |-> n.cp, runtime |-> n.runtime]]
    /\ c_xid' = xids
    /\ ran' = [ran EXCEPT ![n.arg] = @ + 1]

(* What callout_execute does before it unlocks ct_lock, xids being the     *)
(* ids it leaves: call the handler of n, now marked, or come to the end.   *)
Start(e, n, xids) ==
    /\ ex' = [ex EXCEPT ![e] = [pc |-> "call", cp |-> n.cp, runtime |-> n.runtime]]
    /\ c_xid' = [xids EXCEPT ![n.cp] = @ + EXECUTING]
    /\ ran' = [ran EXCEPT ![n.arg] = @ + 1]

Stop(e, xids) ==
    /\ ex' = [ex EXCEPT ![e] = ExAt("idle")]
    /\ c_xid' = xids
    /\ UNCHANGED ran

(* The while loop of callout_execute, entered with ct_runtime = r.         *)
Run(e, chain, xids, r) ==
    IF DueTimes(chain, r, ct_curtime) = {}
    THEN ct_runtime' = Past(r, ct_curtime) /\ Stop(e, xids)
    ELSE LET first == FirstDue(chain, r, ct_curtime)
         IN ct_runtime' = first /\ Start(e, chain[Min(DueAt(chain, first))], xids)

ExecuteTop(e) ==
    /\ ex[e].pc = "top"
    /\ Run(e, ct_hash, c_xid, ct_runtime)
    /\ UNCHANGED <<clk, cpr_stop_callout, ct_curtime, ct_short_id,
                   ct_long_id, ct_freelist, ct_hash, un, id, alloc, ret,
                   soft_vars>>

(* Faulty variant: ct_runtime is advanced without looking at it.           *)
AdvanceAnyway(r) == ct_runtime + 1

(* The global run time advances unless another executor has done so.       *)
Advance(r) == IF ct_runtime = r THEN r + 1 ELSE ct_runtime

(* cv_broadcast(&cp->c_done).                                              *)
Broadcast(cp) ==
    [t \in DOMAIN un |->
        IF un[t].pc = "sleep" /\ un[t].cp = cp
        THEN [un[t] EXCEPT !.pc = "recheck"] ELSE un[t]]

(* The handler returned: the callout is freed, its waiters woken, and the  *)
(* scan goes on behind it in the chain.                                    *)
ExecuteDone(e) ==
    LET cp == ex[e].cp
        r == ex[e].runtime
        behind == {i \in DueAt(ct_hash, r) : i > Place(cp)}
        xids == [c_xid EXCEPT ![cp] = 0]
    IN  /\ ex[e].pc = "call" /\ un[e].pc = "no"
        /\ Free(cp)
        /\ un' = Broadcast(cp)
        /\ IF behind # {}
           THEN Start(e, ct_hash[Min(behind)], xids) /\ UNCHANGED ct_runtime
           ELSE Run(e, Without(cp), xids, Advance(r))
        /\ UNCHANGED <<clk, cpr_stop_callout, ct_curtime, ct_short_id,
                       ct_long_id, id, alloc, ret, soft_vars>>

(* callout_thread: outside callout_execute it waits for ct_threadpool.     *)
callout_thread(e) ==
    /\ ct_type = "NORMAL" /\ ex[e].pc = "idle"
    /\ ex' = [ex EXCEPT ![e] = ExAt("cv")]
    /\ UNCHANGED <<clk, cpr_stop_callout, ct_vars, un, id, alloc, ran,
                   ret, soft_vars>>

(* softint calls callout_execute, or another function, and gets control    *)
(* back.                                                                   *)
SoftExecute(c) ==
    /\ softint_take(c)
    /\ ex' = IF sint'[c] = callout_execute THEN [ex EXCEPT ![c] = ExAt("top")]
             ELSE ex
    /\ UNCHANGED <<clk, cpr_stop_callout, ct_vars, un, id, alloc, ran, ret>>

SoftOther(c) ==
    /\ \/ siron(c) \/ softlevel1(c) \/ softint_end(c)
       \/ ex[c].pc = "idle" /\ softint_return(c)
    /\ UNCHANGED <<clk, cpr_stop_callout, ct_vars, ex, un, id, alloc,
                   ran, ret>>

(* Other parts of the kernel use softcall() for their functions.           *)
OtherSoftcall(c, f) ==
    /\ ct_type = "REALTIME" /\ f # callout_execute
    /\ softcall(c, f)
    /\ UNCHANGED <<clk, cpr_stop_callout, ct_vars, ex, un, id, alloc, ran, ret,
                   sir, sint>>
-----------------------------------------------------------------------------
Lagging ==
    \E t \in {ct_curtime, ct_runtime} \cup {n.runtime : n \in Range(ct_hash)} :
        lbolt - t >= MaxLag

(* lbolt++: every time is one more tick ago.                               *)
Age ==
    /\ ct_curtime' = ct_curtime - 1
    /\ ct_runtime' = ct_runtime - 1
    /\ ct_hash' = [i \in DOMAIN ct_hash |-> [ct_hash[i] EXCEPT !.runtime = @ - 1]]
    /\ ex' = [e \in Executors |-> IF ex[e].pc = "call"
                                  THEN [ex[e] EXCEPT !.runtime = @ - 1] ELSE ex[e]]

(* A clock tick, up to the test of callout_schedule.  At the bound the     *)
(* time stands still.                                                      *)
Tick ==
    /\ clk = "idle"
    /\ IF Lagging THEN UNCHANGED <<ct_curtime, ct_runtime, ct_hash, ex>> ELSE Age
    /\ clk' = IF cpr_stop_callout THEN "idle" ELSE "sched"
    /\ UNCHANGED <<cpr_stop_callout, ct_short_id, ct_long_id, ct_freelist, c_xid,
                   un, id, alloc, ran, ret, soft_vars>>

cv_signal ==
    LET waiting == {e \in Executors : ex[e].pc = "cv"}
    IN  IF waiting = {} THEN UNCHANGED ex
        ELSE \E e \in waiting : ex' = [ex EXCEPT ![e] = ExAt("top")]

(* Faulty variant: the time is not looked at again.                        *)
ScheduleOnce ==
    /\ ct_runtime' = Past(ct_runtime, lbolt)
    /\ IF DueTimes(ct_hash, ct_runtime, lbolt) = {} THEN UNCHANGED ex ELSE cv_signal
    /\ clk' = "idle"

(* The loop of callout_schedule_1: it stops at the first callout that is   *)
(* due and leaves it to an executor; softcall() comes after the unlock.    *)
FindDue ==
    IF DueTimes(ct_hash, ct_runtime, lbolt) = {}
    THEN ct_runtime' = Past(ct_runtime, lbolt) /\ clk' = "idle" /\ UNCHANGED ex
    ELSE /\ ct_runtime' = FirstDue(ct_hash, ct_runtime, lbolt)
         /\ IF ct_type = "REALTIME" THEN clk' = "softcall" /\ UNCHANGED ex
            ELSE clk' = "idle" /\ cv_signal

callout_schedule_1 ==
    /\ clk = "sched"
    /\ ct_curtime' = lbolt
    /\ FindDue
    /\ UNCHANGED <<cpr_stop_callout, ct_short_id, ct_long_id,
                   ct_freelist, ct_hash, c_xid, un, id, alloc, ran, ret,
                   soft_vars>>

ScheduleSoftcall ==
    /\ clk = "softcall"
    /\ \E c \in CPUs : softcall(c, callout_execute)
    /\ clk' = "idle"
    /\ UNCHANGED <<cpr_stop_callout, ct_vars, ex, un, id, alloc, ran, ret,
                   sir, sint>>

callout_cpr_callb(stop) ==
    /\ cpr_stop_callout' = stop
    /\ cpr_stop_callout # stop
    /\ UNCHANGED <<clk, ct_vars, ex, un, id, alloc, ran, ret, soft_vars>>
-----------------------------------------------------------------------------
Execute(e) ==
    \/ ExecuteTop(e) \/ ExecuteDone(e) \/ callout_thread(e)
    \/ ct_type = "REALTIME" /\ (SoftExecute(e) \/ SoftOther(e))

Clock == Tick \/ callout_schedule_1 \/ ScheduleSoftcall

Next ==
    \/ \E c \in Clients, d \in Deltas : timeout(c, d) \/ timeout_fresh(c, d)
    \/ \E c \in Clients : callout_alloc(c) \/ ClientUntimeout(c)
    \/ \E t \in Clients \cup Executors : UntimeoutRecheck(t)
    \/ \E e \in Executors : Execute(e) \/ SelfUntimeout(e)
    \/ \E c \in CPUs, f \in Funcs : OtherSoftcall(c, f)
    \/ Clock
    \/ \E stop \in CprCodes : callout_cpr_callb(stop)

Spec == Init /\ [][Next]_vars

(* The clock ticks, executors run, handlers return, and a thread woken in  *)
(* untimeout() runs again.                                                 *)
FairSpec ==
    /\ Spec
    /\ WF_vars(Clock)
    /\ \A e \in Executors : WF_vars(Execute(e))
    /\ \A t \in Clients \cup Executors : WF_vars(UntimeoutRecheck(t))
-----------------------------------------------------------------------------
Ids == 0..(2 * EXECUTING - 1)

(* Type invariant.  An id names its table, is never 0 nor one that         *)
(* untimeout() takes for impossible, and the short-term ids never reach    *)
(* the long-term ones when the counters wrap.                              *)
TypeOK ==
    /\ SoftTypeOK
    /\ ct_short_id \div COUNTER_HIGH = 1 /\ ct_long_id \div COUNTER_HIGH = 3
    /\ {ct_short_id % COUNTER_LOW, ct_long_id % COUNTER_LOW} = {Table}
    /\ ct_curtime \in Int /\ ct_runtime \in Int
    /\ clk \in {"idle", "sched", "softcall"}
    /\ cpr_stop_callout \in BOOLEAN
    /\ ct_short_id \in Ids /\ ct_long_id \in Ids
    /\ ct_freelist \in Seq(Structs)
    /\ ct_hash \in Seq([cp : Structs, runtime : Int, arg : Clients])
    /\ c_xid \in [Structs -> Ids]
    /\ ex \in [Executors -> [pc : {"idle", "cv", "top", "call"},
                             cp : Structs \cup {NoCallout}, runtime : Int]]
    /\ un \in [Clients \cup Executors ->
                 [pc : {"no", "sleep", "recheck"},
                  cp : Structs \cup {NoCallout}, xid : Ids]]
    /\ id \in [Clients -> Ids] /\ alloc \in SUBSET Clients
    /\ ran \in [Clients -> 0..1]
    /\ ret \in [Clients -> {TimeLeft, -1}]

(* Once untimeout() has returned to a client, its callout is not pending   *)
(* and no executor is inside its handler: the client may free what the     *)
(* handler uses.                                                           *)
UntimeoutFinal ==
    \A c \in Clients : id[c] = 0 => \A n \in Range(ct_hash) : n.arg # c

(* untimeout() tells whether the callout ran: a time left means that its   *)
(* handler was never called and -1 that it was, exactly once.              *)
UntimeoutTruthful ==
    \A c \in Clients : /\ ran[c] <= 1
                       /\ id[c] = 0 => (ret[c] = -1 <=> ran[c] = 1)

(* No pending callout is left behind ct_runtime, where no search will find *)
(* it, although executors and the clock advance ct_runtime side by side    *)
(* and timeout() reads a time that is ahead of ct_curtime.                 *)
NoneSkipped ==
    \A n \in Range(ct_hash) :
        ~Executing(n.cp) => n.runtime >= ct_runtime

(* Each structure is free, hashed or not yet allocated, and the callouts   *)
(* marked executing are the ones inside a handler, one executor each.      *)
StructsConserved ==
    /\ IsInjective(ct_freelist)
    /\ Range(ct_freelist) \cap Hashed = {}
    /\ Cardinality(Hashed) = Len(ct_hash)
    /\ \A cp \in Structs :
          Executing(cp) <=> \E e \in Executors : ex[e].pc = "call" /\ ex[e].cp = cp
    /\ \A cp \in Structs : Executing(cp) => cp \in Hashed
    /\ \A e, f \in Executors :
          ex[e].pc = "call" /\ ex[f].pc = "call" /\ e # f => ex[e].cp # ex[f].cp

Due(cp) == \E n \in Range(ct_hash) : /\ n.cp = cp /\ ~Executing(cp)
                                     /\ n.runtime <= lbolt

(* A callout that is due runs or is cancelled, unless a checkpoint stops   *)
(* the callouts, although cv_signal may find nobody waiting.               *)
DueRuns == \A cp \in Structs : Due(cp) ~> (~Due(cp) \/ cpr_stop_callout)

(* untimeout() returns once the handler does.                              *)
UntimeoutReturns ==
    \A t \in Clients \cup Executors :
        un[t].pc = "sleep" ~> un[t].pc = "no"
=============================================================================
