------------------------------ MODULE LockFree -------------------------------
(***************************************************************************)
(* The four places where threads share state that no lock protects as a    *)
(* whole, and no algorithm's compare-and-swap of its own: the coarse       *)
(* clock, a rate-limited warning, the idle stamp of a slot, and the calls  *)
(* that go through the shards one lock at a time.  None reads a word of    *)
(* another, so a behaviour is one of them at work while the others stay as *)
(* they began.                                                             *)
(***************************************************************************)
EXTENDS Integers, FiniteSets

CONSTANTS
    Thread,                                         \* the threads
    Ticker, RefreshAfters, ReadsPerRefresh, MaxSpurious,    \* of CoarseClock
    Counts, Interval, NoteLag, MaxNoted,            \* of WarnEvery
    Ttls, Lags, TicksPerMs,                         \* of IdleStamp
    Sweeper, Key, ShardOf, MaxInserts,              \* of Sweeps
    ClockTime, WarnTime, StampTime, SweepTime       \* bounds: the last instant of each

ASSUME ThreadAssumption == IsFiniteSet(Thread)

ASSUME ClockAssumption ==
    /\ Ticker \notin Thread
    /\ RefreshAfters \subseteq Nat
    /\ ReadsPerRefresh \in Nat \ {0}
    /\ {MaxSpurious, ClockTime} \subseteq Nat

\* A call of note takes less than the interval between warnings, a minute.
ASSUME WarnAssumption ==
    /\ Counts \subseteq Nat
    /\ {Interval, NoteLag, WarnTime, MaxNoted} \subseteq Nat
    /\ NoteLag < Interval

ASSUME StampAssumption ==
    /\ Ttls \cup Lags \cup {StampTime} \subseteq Nat
    /\ TicksPerMs \in Nat \ {0}

ASSUME SweepAssumption ==
    /\ ShardOf \in [Key -> Nat]
    /\ {MaxInserts, SweepTime} \subseteq Nat

VARIABLES
    part,                                                       \* the one at work
    alive, refreshAfter, real, offset, appliedNs, reading, target, claim, reads, spurious, clockPc,
    kind, time, pending, lastMs, now, sum, last, noted, notePc,
    ttl, lag, ticks, lastSeenMs, at, read, used,
    clock, slots, owed, counts, sweep, watch

Clock == INSTANCE CoarseClock WITH MaxTime <- ClockTime, pc <- clockPc

Warn == INSTANCE WarnEvery WITH MaxTime <- WarnTime, Lag <- NoteLag, pc <- notePc

Stamp == INSTANCE IdleStamp WITH MaxTime <- StampTime

Store == INSTANCE Sweeps WITH Thread <- Sweeper, MaxTime <- SweepTime

clockVars == <<alive, refreshAfter, real, offset, appliedNs, reading, target, claim, reads, spurious, clockPc>>

warnVars == <<kind, time, pending, lastMs, now, sum, last, noted, notePc>>

stampVars == <<ttl, lag, ticks, lastSeenMs, at, read, used>>

sweepVars == <<clock, slots, owed, counts, sweep, watch>>

vars == <<part, clockVars, warnVars, stampVars, sweepVars>>

TypeOK == Clock!TypeOK /\ Warn!TypeOK /\ Stamp!TypeOK

Init ==
    /\ part \in {"clock", "warning", "stamp", "sweeps"}
    /\ Clock!Init
    /\ Warn!Init
    /\ Stamp!Init
    /\ Store!Init
    /\ part # "clock" => refreshAfter = CHOOSE r \in RefreshAfters : TRUE
    /\ part # "warning" => kind = "refused"
    /\ part # "stamp" => ttl = (CHOOSE i \in Ttls : TRUE) /\ lag = CHOOSE l \in Lags : TRUE

ClockStep ==
    /\ part = "clock"
    /\ Clock!Next
    /\ UNCHANGED <<part, warnVars, stampVars, sweepVars>>

WarnStep ==
    /\ part = "warning"
    /\ Warn!Next
    /\ UNCHANGED <<part, clockVars, stampVars, sweepVars>>

StampStep ==
    /\ part = "stamp"
    /\ Stamp!Next
    /\ UNCHANGED <<part, clockVars, warnVars, sweepVars>>

SweepStep ==
    /\ part = "sweeps"
    /\ Store!Next
    /\ UNCHANGED <<part, clockVars, warnVars, stampVars>>

Next == ClockStep \/ WarnStep \/ StampStep \/ SweepStep

Spec == Init /\ [][Next]_vars

\* The steps of ClockStep that are fair.
ClockWake == part = "clock" /\ Clock!Wake /\ UNCHANGED <<part, warnVars, stampVars, sweepVars>>

ClockRuns(t) == part = "clock" /\ Clock!Step(t) /\ UNCHANGED <<part, warnVars, stampVars, sweepVars>>

\* A thread inside tick or now keeps running, and the ticker's sleep ends.
FairSpec ==
    /\ Spec
    /\ WF_vars(ClockWake)
    /\ \A t \in Thread \cup {Ticker} : WF_vars(ClockRuns(t))

-----------------------------------------------------------------------------
\* Ticks of the coarse clock apply no span twice and lose none, and claim no
\* time that has not passed (advance_to).
SpansClaimedOnce == Clock!SpansClaimedOnce

\* A due read of the coarse clock is less than an interval behind the real time it
\* has found (tick_if_stale).
RefreshedWhenDue == Clock!RefreshedWhenDue

\* Every tick and every read of the coarse clock returns, and the ticker ends once
\* every clone is gone (advance_to's loop, spawn).
EveryCallReturns == Clock!EveryCallReturns

\* No event is reported by two warnings (WarnEvery::note).
ReportedOnce == Warn!ReportedOnce

\* Warnings of one kind are an interval apart (WarnEvery::note).
Spaced == Warn!Spaced

\* A slot found expired was idle for the TTL, less the slowest check (touch_idle).
IdleForTtl == Stamp!IdleForTtl

\* The calls that go through every shard miss no key that stays, and their
\* readings lie between what was there throughout and what ever was (clear,
\* retain_recent, len, metrics, recovery_load).
SweepsReachAll == Store!SweepsReachAll
=============================================================================
