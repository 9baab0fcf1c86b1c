------------------------------- MODULE MCGcra -------------------------------
(* Model values for Gcra: quotas whose rate divides the clock's unit evenly, *)
(* unevenly, and not at all (clamped, closed).                               *)
EXTENDS Gcra

Quota(l, p, b) == [limit |-> l, period |-> p, burst |-> b]

SomeQuotas == {Quota(2, 3, 2), Quota(5, 3, 1), Quota(0, 3, 2)}
=============================================================================
