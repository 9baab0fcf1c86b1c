---------------------------- MODULE MCFixedWindow ----------------------------
(* Model values for FixedWindow. *)
EXTENDS FixedWindow

Quota(l, p) == [limit |-> l, period |-> p]

SomeQuotas == {Quota(1, 1), Quota(2, 2), Quota(0, 2), Quota(2, 0)}
=============================================================================
