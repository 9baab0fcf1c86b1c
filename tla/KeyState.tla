------------------------------ MODULE KeyState ------------------------------
(***************************************************************************)
(* The KeyState trait of src/algo/mod.rs, as the store sees it: one value  *)
(* per key, on which each operation is one step (the modules of the        *)
(* algorithms take those steps apart).  Three of its implementations stand *)
(* for the kinds of restore: the token bucket, rebuilt as it was one full  *)
(* refill before the debt ends; the leaky bucket, whose word is raised to  *)
(* that end; and the fixed window, which like the other windows charges    *)
(* the whole debt anew.  Times are in ticks.                               *)
(***************************************************************************)
EXTENDS Integers

CONSTANTS
    Algorithm,      \* "token", "bucket" or "window"
    Limit,          \* the capacity of the buckets, the limit of a window
    Period,         \* the refill period, the emission interval, the period of a window
    Refill          \* the tokens a token bucket gains in a period

Max2(a, b) == IF a < b THEN b ELSE a

Min2(a, b) == IF a < b THEN a ELSE b

SatMinus(a, b) == Max2(a - b, 0)

CeilDiv(a, b) == (a + b - 1) \div b

\* An instant in whole periods.
PeriodOf(now) == now \div Period

\* better_bucket's BucketCore: [at] is when the bucket is whole, in parts of a
\* tick of which Refill make one, so that a token takes Period of them.
TokenCore(initial, anchor) == [at |-> anchor * Refill + (Limit - initial) * Period, count |-> 0]

TokenUsed(s, now) == CeilDiv(SatMinus(s.at, now * Refill), Period)

TokenAcquired(s, n, now) == [s EXCEPT !.at = Max2(@, now * Refill) + n * Period]

TokenWholeAt(s) == CeilDiv(s.at, Refill)

\* A bucket that was empty one full refill before `until', or if that is before
\* time began, the k tokens it had by the first later instant that is a token's.
TokenRestored(until) ==
    LET full  == (Limit * Period) \div Refill
        short == SatMinus(full, until)
        k     == CeilDiv(short * Refill, Period)
    IN  TokenCore(Min2(k, Limit), SatMinus(until + CeilDiv(k * Period, Refill), full))

\* A leaky bucket is the interval at which it is whole again (Gcra's word); a
\* window is the newest window opened and its count.
Fresh(now) ==
    CASE Algorithm = "token"  -> TokenCore(Limit, now)
      [] Algorithm = "bucket" -> [at |-> 0, count |-> 0]
      [] Algorithm = "window" -> [at |-> PeriodOf(now), count |-> 0]

\* The units in use at `now`.
Used(s, now) ==
    CASE Algorithm = "token"  -> TokenUsed(s, now)
      [] Algorithm = "bucket" -> SatMinus(s.at, PeriodOf(now))
      [] Algorithm = "window" -> IF PeriodOf(now) > s.at THEN 0 ELSE s.count

Acquires(s, n, now) == n = 0 \/ Used(s, now) + n =< Limit

\* The state after n units were admitted.
Acquired(s, n, now) ==
    CASE Algorithm = "token"  -> TokenAcquired(s, n, now)
      [] Algorithm = "bucket" -> [s EXCEPT !.at = Max2(@, PeriodOf(now)) + n]
      [] Algorithm = "window" -> [at |-> Max2(s.at, PeriodOf(now)), count |-> Used(s, now) + n]

\* The state after a check for n units, admitted or not.
AfterCheck(s, n, now) == IF n > 0 /\ Acquires(s, n, now) THEN Acquired(s, n, now) ELSE s

ResetState(s, now) == IF Algorithm = "window" THEN [s EXCEPT !.count = 0] ELSE Fresh(now)

\* The instant at which the whole allowance is back, for a state in use.
WholeAt(s, now) ==
    CASE Algorithm = "token"  -> TokenWholeAt(s)
      [] Algorithm = "bucket" -> s.at * Period
      [] Algorithm = "window" -> (Max2(s.at, PeriodOf(now)) + 1) * Period

IsFull(s, now) == Used(s, now) = 0

\* debt, with 0 units standing for None.
DebtOf(s, now) ==
    IF IsFull(s, now)
    THEN [spent |-> 0, until |-> 0]
    ELSE [spent |-> Min2(Used(s, now), Limit), until |-> WholeAt(s, now)]

\* A fresh state made no more permissive than a key that owed a debt.
Restored(debt, now) ==
    IF debt.until =< now
    THEN Fresh(now)
    ELSE CASE Algorithm = "token"  -> TokenRestored(debt.until)
           [] Algorithm = "bucket" -> [Fresh(now) EXCEPT !.at = CeilDiv(debt.until, Period)]
           [] Algorithm = "window" -> Acquired(Fresh(now), Min2(debt.spent, Limit), now)
=============================================================================
