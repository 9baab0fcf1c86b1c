------------------------------- MODULE MCWait -------------------------------
(* Model values for Wait. *)
EXTENDS Wait

\* A call that does not wait at all, and one that gives up after some ticks.
SomeBudgets == {0, 3}
=============================================================================
