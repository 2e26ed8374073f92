------------------------------ MODULE Softint ------------------------------
(***************************************************************************)
(* Software interrupts: uts/common/os/softint.c.  softcall() queues a      *)
(* function to be called at software interrupt level by softint().  The    *)
(* lists are protected by softcall_lock, but siron() comes after the       *)
(* unlock and softint() runs the function without the lock, on any CPU     *)
(* whose level-1 soft interrupt is pending.                                *)
(*                                                                         *)
(* A function with its argument is one element of Funcs.                   *)
(***************************************************************************)
EXTENDS Integers, Sequences, FiniteSets

Idle == "idle"
Loop == "loop"

CONSTANTS
    CPUs,
    Funcs,        \* the (func, arg) pairs passed to softcall
    NSOFTCALLS    \* softcall structures

(* That there are structures for all of them is up to the callers: the     *)
(* panic of softcall is assumed away as far as different pairs go.  What   *)
(* remains to be shown is that equal ones share a structure.               *)
ASSUME SoftintAssumption ==
    /\ IsFiniteSet(CPUs) /\ IsFiniteSet(Funcs)
    /\ Funcs \cap {Idle, Loop} = {}
    /\ NSOFTCALLS \in Nat
    /\ Cardinality(Funcs) <= NSOFTCALLS

VARIABLES
    softhead,     \* the queued calls; the other structures are on softfree
    kick,         \* the CPUs on which softcall() is about to call siron()
    sir,          \* the CPUs with a level-1 soft interrupt pending
    sint          \* [CPUs]: softint(): Idle, Loop or the function it calls

soft_vars == <<softhead, kick, sir, sint>>

Queued(f) == \E i \in 1..Len(softhead) : softhead[i] = f

SoftInit ==
    /\ softhead = <<>>
    /\ kick = {}
    /\ sir = {}
    /\ sint = [c \in CPUs |-> Idle]

(* Faulty variant: identical calls are not coalesced.                      *)
QueueAgain(c, f) ==
    /\ softhead' = Append(softhead, f)
    /\ kick' = IF softhead = <<>> THEN kick \cup {c} ELSE kick

(* softcall, up to the unlock: only the first call on the list makes its   *)
(* caller request an interrupt.  Running out of structures is the panic    *)
(* "too many softcalls".                                                   *)
softcall(c, f) ==
    IF Queued(f) THEN UNCHANGED <<softhead, kick>>
    ELSE /\ softhead' = Append(softhead, f)
         /\ kick' = IF softhead = <<>> THEN kick \cup {c} ELSE kick

siron(c) ==
    /\ c \in kick
    /\ kick' = kick \ {c}
    /\ sir' = sir \cup {c}
    /\ UNCHANGED <<softhead, sint>>

(* The soft interrupt is taken: softlevel1 calls softint.                  *)
softlevel1(c) ==
    /\ c \in sir /\ sint[c] = Idle
    /\ sir' = sir \ {c}
    /\ sint' = [sint EXCEPT ![c] = Loop]
    /\ UNCHANGED <<softhead, kick>>

(* Faulty variant: one function is called per interrupt.                   *)
ReturnAtOnce(c) == sint' = [sint EXCEPT ![c] = Idle]

(* The function returns and softint goes around.                           *)
softint_again(c) == sint' = [sint EXCEPT ![c] = Loop]

softint_take(c) ==
    /\ sint[c] = Loop /\ softhead # <<>>
    /\ sint' = [sint EXCEPT ![c] = Head(softhead)]
    /\ softhead' = Tail(softhead)
    /\ UNCHANGED <<kick, sir>>

softint_end(c) ==
    /\ sint[c] = Loop /\ softhead = <<>>
    /\ sint' = [sint EXCEPT ![c] = Idle]
    /\ UNCHANGED <<softhead, kick, sir>>

softint_return(c) ==
    /\ sint[c] \in Funcs
    /\ softint_again(c)
    /\ UNCHANGED <<softhead, kick, sir>>
-----------------------------------------------------------------------------
(* Type invariant.  The structures never run out ("too many softcalls").   *)
SoftTypeOK ==
    /\ softhead \in Seq(Funcs) /\ Len(softhead) <= NSOFTCALLS
    /\ kick \in SUBSET CPUs
    /\ sir \in SUBSET CPUs
    /\ sint \in [CPUs -> {Idle, Loop} \cup Funcs]

(* A non-empty list has somebody who will look at it, although only the    *)
(* first softcall() requests an interrupt and softint() may be finishing   *)
(* on another CPU.                                                         *)
NoLostSoftcall ==
    softhead # <<>> => kick # {} \/ sir # {} \/ \E c \in CPUs : sint[c] # Idle
=============================================================================
