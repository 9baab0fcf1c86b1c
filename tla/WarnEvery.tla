------------------------------ MODULE WarnEvery ------------------------------
(***************************************************************************)
(* One kind of rate-limited warning, WarnEvery of src/store.rs: the slow   *)
(* paths of every shard note their events on two shared atomics, pending   *)
(* and last_ms, without a lock.  Each call of note does an addition, a     *)
(* load, a compare-and-swap and a subtraction, and others run in between.  *)
(* Warnings has one for refusals, which come one by one, and one each for  *)
(* the debts spilled and dropped in an eviction or a sweep, which come in  *)
(* any number; they share nothing.                                         *)
(*                                                                         *)
(* Times are whole milliseconds.  A call uses the now_ms its check read,   *)
(* and finishes at most Lag after that reading.                            *)
(***************************************************************************)
EXTENDS Integers, Functions

CONSTANTS
    Thread,     \* the threads on a slow path
    Counts,     \* how many debts an eviction or a sweep spills or drops
    Interval,   \* WARN_INTERVAL_MS
    Lag,        \* the longest a call takes
    MaxTime,    \* bound: the last instant
    MaxNoted    \* bound: the most events

\* Warnings: newcomers refused, debts spilled, debts dropped.
Kinds == {"refused", "overflowed", "forgotten"}

\* last_ms before the first warning (u64::MAX).
Never == -1

VARIABLES
    kind,       \* what is warned of
    time,       \* the current millisecond
    pending,    \* pending: events not yet reported
    lastMs,     \* last_ms: when the last warning was
    pc,         \* where each thread is inside note
    now,        \* its now_ms
    sum,        \* the pending count its addition returned
    last,       \* the last_ms it loaded
    noted       \* events noted so far (the model's own)

vars == <<kind, time, pending, lastMs, pc, now, sum, last, noted>>

Times == 0..MaxTime

TypeOK ==
    /\ kind \in Kinds
    /\ time \in Times
    /\ pending \in 0..MaxNoted
    /\ lastMs \in Times \cup {Never}
    /\ pc \in [Thread -> {"idle", "load", "cas", "take"}]
    /\ now \in [Thread -> Times]
    /\ sum \in [Thread -> 0..MaxNoted]
    /\ last \in [Thread -> Times \cup {Never}]
    /\ noted \in 0..MaxNoted

Init ==
    /\ kind \in Kinds
    /\ time = 0
    /\ pending = 0
    /\ lastMs = Never
    /\ pc = [t \in Thread |-> "idle"]
    /\ now = [t \in Thread |-> 0]
    /\ sum = [t \in Thread |-> 0]
    /\ last = [t \in Thread |-> Never]
    /\ noted = 0

Elapse ==
    /\ time < MaxTime
    /\ \A t \in Thread : pc[t] # "idle" => time - now[t] < Lag
    /\ time' = time + 1
    /\ UNCHANGED <<kind, pending, lastMs, pc, now, sum, last, noted>>

\* The check read the clock some time ago and now adds its events.
Note(t, count, at) ==
    /\ pc[t] = "idle"
    /\ at =< time /\ time - at =< Lag
    /\ noted + count =< MaxNoted
    /\ noted' = noted + count
    /\ pending' = pending + count
    /\ sum' = [sum EXCEPT ![t] = pending + count]
    /\ now' = [now EXCEPT ![t] = at]
    /\ pc' = [pc EXCEPT ![t] = "load"]
    /\ UNCHANGED <<kind, time, lastMs, last>>

\* Warnings::refused: one newcomer.
Refused(t, at) == kind = "refused" /\ Note(t, 1, at)

\* Warnings::reclaimed: the debts of one eviction or sweep, if there are any.
Reclaimed(t, count, at) == kind # "refused" /\ count > 0 /\ Note(t, count, at)

\* The subtraction wraps around: a mutant of Due.
DueWrapping(l, ms) == l = Never \/ ms < l \/ ms - l >= Interval

\* saturating_sub keeps a reading older than the last warning from being due.
Due(l, ms) == l = Never \/ (ms >= l /\ ms - l >= Interval)

\* The call is over and its locals are gone.
Forget(t) ==
    /\ now' = [now EXCEPT ![t] = 0]
    /\ sum' = [sum EXCEPT ![t] = 0]
    /\ last' = [last EXCEPT ![t] = Never]

LoadDue(t) ==
    /\ pc[t] = "load"
    /\ Due(lastMs, now[t])
    /\ last' = [last EXCEPT ![t] = lastMs]
    /\ pc' = [pc EXCEPT ![t] = "cas"]
    /\ UNCHANGED <<kind, time, pending, lastMs, now, sum, noted>>

LoadEarly(t) ==
    /\ pc[t] = "load"
    /\ ~Due(lastMs, now[t])
    /\ Forget(t)
    /\ pc' = [pc EXCEPT ![t] = "idle"]
    /\ UNCHANGED <<kind, time, pending, lastMs, noted>>

\* last_ms is stored rather than swapped: a mutant of Claim.
ClaimBlindly(t) ==
    /\ pc[t] = "cas"
    /\ lastMs' = now[t]
    /\ pc' = [pc EXCEPT ![t] = "take"]
    /\ UNCHANGED <<kind, time, pending, now, sum, last, noted>>

Claim(t) ==
    /\ pc[t] = "cas"
    /\ lastMs = last[t]
    /\ lastMs' = now[t]
    /\ pc' = [pc EXCEPT ![t] = "take"]
    /\ UNCHANGED <<kind, time, pending, now, sum, last, noted>>

\* Another thread warned first; the events stay pending for the next warning.
ClaimLost(t) ==
    /\ pc[t] = "cas"
    /\ lastMs # last[t]
    /\ Forget(t)
    /\ pc' = [pc EXCEPT ![t] = "idle"]
    /\ UNCHANGED <<kind, time, pending, lastMs, noted>>

\* The reported events leave the pending count.
Take(t) ==
    /\ pc[t] = "take"
    /\ pending' = pending - sum[t]
    /\ Forget(t)
    /\ pc' = [pc EXCEPT ![t] = "idle"]
    /\ UNCHANGED <<kind, time, lastMs, noted>>

Next ==
    \/ Elapse
    \/ \E t \in Thread :
        \/ \E at \in Times : Refused(t, at)
        \/ \E count \in Counts, at \in Times : Reclaimed(t, count, at)
        \/ LoadDue(t)
        \/ LoadEarly(t)
        \/ Claim(t)
        \/ ClaimLost(t)
        \/ Take(t)

Spec == Init /\ [][Next]_vars

-----------------------------------------------------------------------------
\* What each warning under way is about to report.
Reporting == [t \in Thread |-> IF pc[t] = "take" THEN sum[t] ELSE 0]

\* No event is reported by two warnings: what the warnings under way report is
\* still pending, so their subtractions (note) never take pending below zero.
ReportedOnce == SumFunction(Reporting) =< pending

\* Two warnings are at least WARN_INTERVAL_MS apart, by the readings of the
\* calls that issue them, in whatever order late calls arrive (note).
Spaced == [][ lastMs # Never => lastMs' = lastMs \/ lastMs' - lastMs >= Interval ]_lastMs

\* The readings of the calls under way are at most Lag old, and no warning is
\* from the future.
ReadingsFresh ==
    /\ lastMs =< time
    /\ pending =< noted
    /\ \A t \in Thread : pc[t] # "idle" => now[t] =< time /\ time - now[t] =< Lag

\* A call that has found a warning due found it due by its own reading.
LoadedDue == \A t \in Thread : pc[t] = "cas" => Due(last[t], now[t])

\* The one warning that is under way is the last, and reports what is pending.
OneWarning ==
    \A t \in Thread : pc[t] = "take" =>
        /\ lastMs = now[t]
        /\ sum[t] =< pending
        /\ \A u \in Thread : pc[u] = "take" => u = t

\* A call whose events another warning has reported comes too late to warn.
LateCallsLose ==
    \A t \in Thread : pc[t] \in {"load", "cas"} /\ sum[t] > pending =>
        /\ lastMs # Never
        /\ now[t] - lastMs < Interval
        /\ pc[t] = "cas" => last[t] # lastMs

\* The inductive invariant of a warning.
IInv == TypeOK /\ ReadingsFresh /\ LoadedDue /\ OneWarning /\ LateCallsLose
=============================================================================
