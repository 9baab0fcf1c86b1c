----------------------------- MODULE AtomicKey -----------------------------
(***************************************************************************)
(* What the KeyState trait of src/algo/mod.rs promises the store: acquire  *)
(* and reset each take effect at one instant, though callers share the     *)
(* state without a lock and carry clock readings that grow old.  A check   *)
(* is judged by the state as it is when it takes effect, as of an instant  *)
(* between the reading it carries and the present.                         *)
(*                                                                         *)
(* The algorithms that work without a lock implement this specification    *)
(* and supply the operators.  The ones behind a mutex take their steps as  *)
(* here by construction.                                                   *)
(***************************************************************************)
EXTENDS Integers

CONSTANTS
    Thread,             \* the threads that share one key
    Admits(_, _, _),    \* whether a state admits so many units as of an instant
    Charged(_, _, _),   \* the state after it has
    ResetOf(_)          \* the state with its whole allowance

VARIABLES
    clock,      \* the time
    state,      \* the key's state
    call,       \* the check each thread is in the middle of
    excused     \* the threads whose check overlaps a reset, and may be judged as of before it

vars == <<clock, state, call, excused>>

NoCall == [n |-> 0, now |-> -1]

Calling(t) == call[t] # NoCall

\* The instants as of which a thread's check may be judged.
Instants(t) == call[t].now..clock

Init ==
    /\ call = [t \in Thread |-> NoCall]
    /\ excused = {}

\* Time passes.
Tick ==
    /\ clock' > clock
    /\ UNCHANGED <<state, call, excused>>

Call(t) ==
    /\ ~Calling(t)
    /\ \E n \in {call'[t].n} : call' = [call EXCEPT ![t] = [n |-> n, now |-> clock]]
    /\ UNCHANGED <<clock, state, excused>>

Return(t) ==
    /\ call' = [call EXCEPT ![t] = NoCall]
    /\ excused' = excused \ {t}

\* acquire takes effect: all of the units are admitted, or none.
Admit(t) ==
    /\ Calling(t)
    /\ \E ns \in Instants(t) :
        /\ Admits(state, call[t].n, ns)
        /\ state' = Charged(state, call[t].n, ns)
    /\ Return(t)
    /\ UNCHANGED clock

Deny(t) ==
    /\ Calling(t)
    /\ t \in excused \/ \E ns \in Instants(t) : ~Admits(state, call[t].n, ns)
    /\ Return(t)
    /\ UNCHANGED <<clock, state>>

\* A check that has begun again since the reset is no longer excused.
Unexcuse(t) ==
    /\ t \in excused
    /\ excused' = excused \ {t}
    /\ UNCHANGED <<clock, state, call>>

Reset ==
    /\ state' = ResetOf(state)
    /\ excused' \in SUBSET {t \in Thread : Calling(t)}
    /\ UNCHANGED <<clock, call>>

Next ==
    \/ Tick
    \/ Reset
    \/ \E t \in Thread : Call(t) \/ Admit(t) \/ Deny(t) \/ Unexcuse(t)

Spec == Init /\ [][Next]_vars
=============================================================================
