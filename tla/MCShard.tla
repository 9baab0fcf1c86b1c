------------------------------- MODULE MCShard -------------------------------
(* A shard whose recovery table has two buckets of one record, which every   *)
(* key may use, and a sketch whose two cells every key shares.               *)
EXTENDS Shard, TLC

NumberedTag == [k \in Key |-> k]

SpreadHome == [k \in Key |-> k % 2]

FlipPair(b, tag) == 1 - b

TwoCells(tag, low) == {0, 1}

\* Threads differ in nothing.
AnyThread == Permutations(Thread)

\* Two slots and two ticks in a millisecond: hints and second chances.
Leaky ==
    [algorithm |-> "bucket", limit |-> 2, period |-> 2, refill |-> 1, cap |-> 2, idleTtl |-> 0, ticksPerMs |-> 2,
     keys |-> 1..3, costs |-> {1}, maxTime |-> 4, callers |-> 1, lag |-> 1, maxAdmin |-> 0]

\* One slot and callers late across the end of a window.
LateWindow ==
    [algorithm |-> "window", limit |-> 1, period |-> 1, refill |-> 1, cap |-> 1, idleTtl |-> 0, ticksPerMs |-> 1,
     keys |-> 1..3, costs |-> {1}, maxTime |-> 1, callers |-> 2, lag |-> 1, maxAdmin |-> 0]

LongWindow ==
    [LateWindow EXCEPT !.period = 2, !.keys = 1..2, !.maxTime = 3, !.lag = 2]

\* More debts than the exact table holds: the sketch and refusals.
FullWindow ==
    [LateWindow EXCEPT !.period = 2, !.keys = 1..4, !.lag = 0]

\* An idle TTL, and calls that give allowances back or sweep.
Administered ==
    [algorithm |-> "token", limit |-> 3, period |-> 3, refill |-> 2, cap |-> 2, idleTtl |-> 2, ticksPerMs |-> 1,
     keys |-> 1..2, costs |-> {1}, maxTime |-> 3, callers |-> 2, lag |-> 1, maxAdmin |-> 1]

\* A leaky bucket with one slot, and a reset.
OneReset ==
    {[Leaky EXCEPT !.limit = 1, !.cap = 1, !.ticksPerMs = 1, !.keys = 1..2, !.maxTime = 1, !.callers = 2, !.maxAdmin = 1]}

OneLateWindow == {LateWindow}

AllSetups == {Leaky, LateWindow, LongWindow, FullWindow, Administered}
=============================================================================
