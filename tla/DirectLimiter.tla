---------------------------- MODULE DirectLimiter ----------------------------
(***************************************************************************)
(* The limiter without keys of src/direct.rs: one state of one algorithm,  *)
(* AlgoState of src/algo/mod.rs, shared by its callers, and a clock whose  *)
(* reading at construction counts as zero.  The sliding windows are        *)
(* composed here; Gcra and FixedWindow take the steps of the algorithms    *)
(* without a lock apart, and have runs of their own.                       *)
(*                                                                         *)
(* A quota that admits nothing is AlgoState::Closed, which answers without *)
(* a state: the early returns of the algorithms.                           *)
(***************************************************************************)
EXTENDS Integers, Sequences

CONSTANTS
    Thread,         \* the threads that share the limiter
    Quotas,         \* the quotas it may be built from
    MaxTime,        \* bound: the last instant of the clock
    MaxCost,        \* bound: the most units a call asks for
    MaxResets       \* bound: how often the limiter is reset

ASSUME BoundsAssumption == {MaxTime, MaxCost, MaxResets} \subseteq Nat

ASSUME QuotasAssumption == Quotas \subseteq [limit : Nat, period : Nat]

VARIABLES
    algorithm,      \* the variant of AlgoState
    log,            \* the state of a sliding log
    state,          \* the state of a sliding counter
    quota, clock, call, need, now, spent, horizon, lapsed, resets  \* as in SlidingLog and SlidingCounter

shared == <<quota, clock, call, need, now, spent, resets>>

vars == <<algorithm, log, state, horizon, lapsed, shared>>

Log == INSTANCE SlidingLog

Counter == INSTANCE SlidingCounter

TypeOK == IF algorithm = "log" THEN Log!TypeOK ELSE Counter!TypeOK

\* What is not of the variant in use.
NoLog == log = Log!EmptyLog(0) /\ horizon = 0 /\ lapsed = FALSE

NoCounter == state = [window |-> 0, prev |-> 0, curr |-> 0]

\* AlgoState::new: at zero for a limiter of its own, at any time for a key of the store.
Init ==
    \/ algorithm = "log" /\ Log!Init /\ NoCounter
    \/ algorithm = "counter" /\ Counter!Init /\ NoLog

\* acquire, peek and reset run the variant's own.
LogStep ==
    /\ algorithm = "log"
    /\ Log!Next
    /\ UNCHANGED <<algorithm, state>>

CounterStep ==
    /\ algorithm = "counter"
    /\ Counter!Next
    /\ UNCHANGED <<algorithm, log, horizon, lapsed>>

\* A fresh state of an algorithm, at time zero.
Renew(a) ==
    /\ algorithm' = a
    /\ log' = Log!EmptyLog(0)
    /\ horizon' = 0
    /\ lapsed' = FALSE
    /\ state' = Counter!Fresh(quota, 0)

\* with_clock and with_algorithm consume the limiter, so nobody is using it, and
\* build another with the same quota.
Rebuild ==
    /\ \A t \in Thread : call[t] = "idle"
    /\ \E a \in {"log", "counter"} : Renew(a)
    /\ clock' = 0
    /\ spent' = [w \in DOMAIN spent |-> 0]
    /\ UNCHANGED <<quota, call, need, now, resets>>

Dispatch == LogStep \/ CounterStep

Next == Dispatch \/ Rebuild

Spec == Init /\ [][Next]_vars

-----------------------------------------------------------------------------
\* A quota with a period, and what the callers spent in each span of time.
Open == [limit : Nat, period : Nat \ {0}]

Ledgers == [Counter!Spans -> Nat]

\* The inductive invariant of the proofs.
IInv ==
    /\ \/ algorithm = "log" /\ Log!IInv
       \/ algorithm = "counter" /\ Counter!IInv
    /\ \A t \in Thread : call[t] = "idle" => now[t] = 0

\* However its callers interleave and however late they are, a rolling window of
\* the log admits at most the limit, while no caller is so late that it is judged
\* before an instant to which the log was already expired; one of the counter at
\* most the limit plus the part of it that has faded by the window's end
\* (SlidingLog::acquire, SlidingCounter::acquire).
RollingBound == IF algorithm = "log" THEN Log!RollingBound ELSE Counter!RollingBound

\* However late its callers, the log is in order, one record to an instant, and
\* holds no more units, so no more records, than the limit: what its running
\* totals, the binary search and the bound on its memory rely on (Log::record).
LogOrdered == algorithm = "log" => Log!LogOrdered

\* In every state, for a late caller too, the retry_after of a denial is honest
\* and tight: after the wait the same request is admitted if nobody else comes,
\* not before; and peek agrees with check_n (the acquire and peek of both).
AnswersExact == IF algorithm = "log" THEN Log!AnswersExact ELSE Counter!AnswersExact

\* The upkeep of a peek or a denial, expiring records or rolling windows, changes
\* no decision of a caller that is not behind it (Log::expire, SlidingCounter::roll).
UpkeepInvisible ==
    [][ /\ algorithm = "log" /\ algorithm' = "log" => Log!ExpiryInvisible
        /\ algorithm = "counter" /\ algorithm' = "counter" => Counter!RollInvisible ]_vars
=============================================================================
