--------------------------- MODULE MCDirectLimiter ---------------------------
(* Model values for DirectLimiter: quotas whose rate is even and uneven, and the *)
(* two that admit nothing.                                                    *)
EXTENDS DirectLimiter, TLC

Quota(l, p) == [limit |-> l, period |-> p]

SomeQuotas == {Quota(2, 2), Quota(1, 1), Quota(2, 3), Quota(0, 2), Quota(2, 0)}

Symmetric == Permutations(Thread)
=============================================================================
