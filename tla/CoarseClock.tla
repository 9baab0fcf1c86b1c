----------------------------- MODULE CoarseClock -----------------------------
(***************************************************************************)
(* The coarse clock of src/coarse_clock.rs.  Readings come from an offset  *)
(* that moves only when some thread ticks the clock: the ticker thread, a  *)
(* caller of tick, or, once in READS_PER_REFRESH reads, a reader that      *)
(* finds the clock a whole interval behind.  A tick claims the span since  *)
(* the last claim by compare-and-swap, and only then applies it.           *)
(*                                                                         *)
(* A spawned clock refreshes itself and has a ticker, a thread that holds  *)
(* no clone of the clock and ends when it wakes to find every clone gone.  *)
(*                                                                         *)
(* Times are nanoseconds since the origin.  The offset belongs to          *)
(* clock_lib::ManualClock, whose advance is one atomic addition.           *)
(***************************************************************************)
EXTENDS Integers, Functions

CONSTANTS
    Thread,             \* the threads that hold clones, tick and read the clock
    Ticker,             \* the ticker thread
    RefreshAfters,      \* the intervals a clock is made with
    ReadsPerRefresh,    \* READS_PER_REFRESH
    MaxTime,            \* bound: the last instant of real time
    MaxSpurious         \* bound: how often a weak compare-and-swap fails for nothing

Times == 0..MaxTime

Running == Thread \cup {Ticker}

VARIABLES
    alive,      \* whether some clone of the clock is left
    refreshAfter, \* refresh_after_ns: 0 for a clock that never moves by itself
    real,       \* the real time
    offset,     \* what readings carry
    appliedNs,  \* applied_ns: what ticks have claimed
    pc,         \* where each thread is
    reading,    \* whether its tick is part of a read
    target,     \* the real time its tick read
    claim,      \* the applied_ns it loaded, then the span it owns
    reads,      \* READS: its reads since the last staleness check
    spurious    \* compare-and-swaps that failed for nothing so far

vars == <<alive, refreshAfter, real, offset, appliedNs, pc, reading, target, claim, reads, spurious>>

TypeOK ==
    /\ alive \in BOOLEAN
    /\ refreshAfter \in RefreshAfters
    /\ real \in Times
    /\ offset \in Times
    /\ appliedNs \in Times
    /\ pc \in [Running -> {"idle", "check", "load", "cas", "advance", "read", "asleep", "ended"}]
    /\ reading \in [Running -> BOOLEAN]
    /\ target \in [Running -> Times]
    /\ claim \in [Running -> Times]
    /\ reads \in [Thread -> 0..ReadsPerRefresh - 1]
    /\ spurious \in 0..MaxSpurious

\* new, which makes a clock without a ticker, and spawn.
Init ==
    /\ alive = TRUE
    /\ refreshAfter \in RefreshAfters
    /\ real = 0
    /\ offset = 0
    /\ appliedNs = 0
    /\ pc = [t \in Running |-> CASE t \in Thread                       -> "idle"
                              [] t = Ticker /\ refreshAfter # 0 -> "asleep"
                              [] OTHER                          -> "ended"]
    /\ reading = [t \in Running |-> FALSE]
    /\ target = [t \in Running |-> 0]
    /\ claim = [t \in Running |-> 0]
    /\ reads = [t \in Thread |-> 0]
    /\ spurious = 0

Elapse ==
    /\ real < MaxTime
    /\ real' = real + 1
    /\ UNCHANGED <<alive, refreshAfter, offset, appliedNs, pc, reading, target, claim, reads, spurious>>

\* The last clone is dropped, by a thread that is inside no call.
Drop ==
    /\ alive
    /\ \A t \in Thread : pc[t] = "idle"
    /\ alive' = FALSE
    /\ UNCHANGED <<refreshAfter, real, offset, appliedNs, pc, reading, target, claim, reads, spurious>>

\* The ticker's sleep is over: it ticks, or ends if the clock is gone.
Wake ==
    /\ pc[Ticker] = "asleep"
    /\ pc' = [pc EXCEPT ![Ticker] = IF alive THEN "load" ELSE "ended"]
    /\ target' = [target EXCEPT ![Ticker] = IF alive THEN real ELSE 0]
    /\ UNCHANGED <<alive, refreshAfter, real, offset, appliedNs, reading, claim, reads, spurious>>

\* tick, by a caller: the real time is read.
Tick(t) ==
    /\ alive /\ pc[t] = "idle"
    /\ pc' = [pc EXCEPT ![t] = "load"]
    /\ target' = [target EXCEPT ![t] = real]
    /\ UNCHANGED <<alive, refreshAfter, real, offset, appliedNs, reading, claim, reads, spurious>>

\* now: a read that is not due for a staleness check goes straight to the offset.
Read(t) ==
    /\ alive /\ pc[t] = "idle"
    /\ refreshAfter = 0 \/ (reads[t] + 1) % ReadsPerRefresh # 0
    /\ reads' = [reads EXCEPT ![t] = IF refreshAfter = 0 THEN @ ELSE @ + 1]
    /\ reading' = [reading EXCEPT ![t] = TRUE]
    /\ pc' = [pc EXCEPT ![t] = "read"]
    /\ UNCHANGED <<alive, refreshAfter, real, offset, appliedNs, target, claim, spurious>>

\* now: every READS_PER_REFRESH-th read calls tick_if_stale, which reads the
\* real time.
ReadDue(t) ==
    /\ alive /\ pc[t] = "idle"
    /\ refreshAfter # 0
    /\ (reads[t] + 1) % ReadsPerRefresh = 0
    /\ reads' = [reads EXCEPT ![t] = 0]
    /\ reading' = [reading EXCEPT ![t] = TRUE]
    /\ target' = [target EXCEPT ![t] = real]
    /\ pc' = [pc EXCEPT ![t] = "check"]
    /\ UNCHANGED <<alive, refreshAfter, real, offset, appliedNs, claim, spurious>>

IsStale(t) == target[t] - appliedNs >= refreshAfter

\* tick_if_stale goes on to advance_to, or leaves the clock alone.
CheckStale(t) ==
    /\ pc[t] = "check"
    /\ pc' = [pc EXCEPT ![t] = IF IsStale(t) THEN "load" ELSE "read"]
    /\ UNCHANGED <<alive, refreshAfter, real, offset, appliedNs, reading, target, claim, reads, spurious>>

\* Where advance_to returns to.
After(t) == CASE reading[t] -> "read" [] t = Ticker -> "asleep" [] OTHER -> "idle"

\* advance_to: nothing to do for a target that is not ahead.
Load(t) ==
    /\ pc[t] = "load"
    /\ claim' = [claim EXCEPT ![t] = IF target[t] > appliedNs THEN appliedNs ELSE 0]
    /\ pc' = [pc EXCEPT ![t] = IF target[t] > appliedNs THEN "cas" ELSE After(t)]
    /\ UNCHANGED <<alive, refreshAfter, real, offset, appliedNs, reading, target, reads, spurious>>

\* The tick owns the span from what was applied to its target.
Claim(t) ==
    /\ pc[t] = "cas"
    /\ appliedNs = claim[t]
    /\ appliedNs' = target[t]
    /\ claim' = [claim EXCEPT ![t] = target[t] - @]
    /\ pc' = [pc EXCEPT ![t] = "advance"]
    /\ UNCHANGED <<alive, refreshAfter, real, offset, reading, target, reads, spurious>>

\* The observed value is dropped and the old one tried again: a mutant of
\* ClaimLost.
ClaimLostSpins(t) ==
    /\ pc[t] = "cas"
    /\ appliedNs # claim[t]
    /\ UNCHANGED vars

\* Another tick was first; the loop goes on with what it observed.
ClaimLost(t) ==
    /\ pc[t] = "cas"
    /\ \/ appliedNs # claim[t] /\ UNCHANGED spurious
       \/ appliedNs = claim[t] /\ spurious < MaxSpurious /\ spurious' = spurious + 1
    /\ pc' = [pc EXCEPT ![t] = "load"]
    /\ claim' = [claim EXCEPT ![t] = 0]
    /\ UNCHANGED <<alive, refreshAfter, real, offset, appliedNs, reading, target, reads>>

\* The clock is set, not advanced: a mutant of Advance.
AdvanceTo(t) ==
    /\ pc[t] = "advance"
    /\ offset' = target[t]
    /\ claim' = [claim EXCEPT ![t] = 0]
    /\ pc' = [pc EXCEPT ![t] = After(t)]
    /\ UNCHANGED <<alive, refreshAfter, real, appliedNs, reading, target, reads, spurious>>

Advance(t) ==
    /\ pc[t] = "advance"
    /\ offset' = offset + claim[t]
    /\ claim' = [claim EXCEPT ![t] = 0]
    /\ pc' = [pc EXCEPT ![t] = After(t)]
    /\ UNCHANGED <<alive, refreshAfter, real, appliedNs, reading, target, reads, spurious>>

\* The reading: the offset as it is now.
ReadOffset(t) ==
    /\ pc[t] = "read"
    /\ pc' = [pc EXCEPT ![t] = "idle"]
    /\ reading' = [reading EXCEPT ![t] = FALSE]
    /\ target' = [target EXCEPT ![t] = 0]
    /\ UNCHANGED <<alive, refreshAfter, real, offset, appliedNs, claim, reads, spurious>>

\* The steps of a thread inside tick or now.
Step(t) ==
    \/ CheckStale(t)
    \/ Load(t)
    \/ Claim(t)
    \/ ClaimLost(t)
    \/ Advance(t)
    \/ ReadOffset(t)

Next ==
    \/ Elapse \/ Drop \/ Wake
    \/ \E t \in Thread : Tick(t) \/ Read(t) \/ ReadDue(t)
    \/ \E t \in Running : Step(t)

Spec == Init /\ [][Next]_vars

\* A thread inside tick or now keeps running, and a sleep ends.
FairSpec == Spec /\ WF_vars(Wake) /\ \A t \in Running : WF_vars(Step(t))

-----------------------------------------------------------------------------
\* The span each thread has claimed and not yet applied.
Owned == [t \in Running |-> IF pc[t] = "advance" THEN claim[t] ELSE 0]

Unapplied == SumFunction(Owned)

\* Concurrent ticks apply no span twice and lose none, and none claims time
\* that has not passed, so a reading is never ahead of real time.
SpansClaimedOnce == offset + Unapplied = appliedNs /\ appliedNs =< real

\* A tick that has read the real time is not ahead of it, and one that has
\* loaded a value to claim from is ahead of that.
TargetsPassed ==
    \A t \in Running : target[t] =< real /\ (pc[t] = "cas" => claim[t] < target[t])

\* The inductive invariant of the clock.
IInv == TypeOK /\ TargetsPassed /\ SpansClaimedOnce

\* "If the clock read then has fallen a whole interval behind it ticks it": as a due
\* read comes to the offset, that is less than the interval behind the real time
\* the read has found, so that a thread that reads steadily lags by no more than
\* an interval and the time from one due read to the next (tick_if_stale).
RefreshedWhenDue ==
    refreshAfter # 0 =>
        \A t \in Thread : pc[t] = "read" /\ reads[t] = 0 => target[t] - offset < refreshAfter

\* Every tick and every read returns, however the ticks of others interfere, and
\* the ticker of a clock whose clones are all gone ends (advance_to, spawn).
EveryCallReturns ==
    /\ \A t \in Thread : pc[t] # "idle" ~> pc[t] = "idle"
    /\ ~alive ~> pc[Ticker] = "ended"
=============================================================================
