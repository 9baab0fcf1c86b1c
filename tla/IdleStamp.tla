------------------------------ MODULE IdleStamp ------------------------------
(***************************************************************************)
(* The idle stamp of one slot of src/store.rs.  Checks of a stored key     *)
(* share the read lock, so two of them may be inside touch_idle at once,   *)
(* each a clock reading, a load and a store of last_seen_ms.  Whether the  *)
(* slot has expired is judged under the write lock, which no reader shares.*)
(*                                                                         *)
(* Times are ticks; stamps are whole milliseconds.  A check stores its     *)
(* stamp at most `lag' ticks after it read the clock.                      *)
(***************************************************************************)
EXTENDS Integers

CONSTANTS
    Thread,         \* the threads that check the key
    Ttls,           \* the idle times a store is made with, in ticks
    Lags,           \* how long the checks of a store take at most
    TicksPerMs,     \* clock ticks in a millisecond
    MaxTime         \* bound: the last tick of the clock

Millis(now) == now \div TicksPerMs

CeilMillis(now) == (now + TicksPerMs - 1) \div TicksPerMs

VARIABLES
    ttl,            \* the configured idle time
    lag,            \* the longest check
    ticks,          \* the time
    lastSeenMs,     \* last_seen_ms
    at,             \* where each thread is
    read,           \* the clock reading of its check
    used            \* ledger: the latest reading of a check

vars == <<ttl, lag, ticks, lastSeenMs, at, read, used>>

TypeOK ==
    /\ ttl \in Ttls /\ lag \in Lags
    /\ ticks \in 0..MaxTime
    /\ lastSeenMs \in 0..Millis(ticks)
    /\ at \in [Thread -> {"idle", "load", "store"}]
    /\ read \in [Thread -> 0..MaxTime]
    /\ used \in 0..ticks

\* The key was stored at time 0.
Init ==
    /\ ttl \in Ttls /\ lag \in Lags
    /\ ticks = 0
    /\ lastSeenMs = 0
    /\ at = [t \in Thread |-> "idle"]
    /\ read = [t \in Thread |-> 0]
    /\ used = 0

Elapse ==
    /\ ticks < MaxTime
    /\ \A t \in Thread : at[t] # "idle" => ticks - read[t] < lag
    /\ ticks' = ticks + 1
    /\ UNCHANGED <<ttl, lag, lastSeenMs, at, read, used>>

\* A check under the read lock reads the clock.
ReadClock(t) ==
    /\ at[t] = "idle"
    /\ at' = [at EXCEPT ![t] = "load"]
    /\ read' = [read EXCEPT ![t] = ticks]
    /\ used' = ticks
    /\ UNCHANGED <<ttl, lag, ticks, lastSeenMs>>

Return(t) ==
    /\ at' = [at EXCEPT ![t] = "idle"]
    /\ read' = [read EXCEPT ![t] = 0]

\* touch_idle moves the stamp only forward, as far as its load can tell.
IsLater(t) == lastSeenMs < Millis(read[t])

Load(t) ==
    /\ at[t] = "load"
    /\ IF IsLater(t)
       THEN at' = [at EXCEPT ![t] = "store"] /\ UNCHANGED read
       ELSE Return(t)
    /\ UNCHANGED <<ttl, lag, ticks, lastSeenMs, used>>

Store(t) ==
    /\ at[t] = "store"
    /\ lastSeenMs' = Millis(read[t])
    /\ Return(t)
    /\ UNCHANGED <<ttl, lag, ticks, used>>

Next ==
    \/ Elapse
    \/ \E t \in Thread : ReadClock(t) \/ Load(t) \/ Store(t)

Spec == Init /\ [][Next]_vars

-----------------------------------------------------------------------------
\* The TTL rounded up to milliseconds, and no more: a mutant of IdleTtlMs.
IdleTtlMsRounded == CeilMillis(ttl)

\* Store::new: idle_ttl_ms.
IdleTtlMs == CeilMillis(ttl) + 1

IsExpired(now) == Millis(now) - lastSeenMs >= IdleTtlMs

\* The readings of the checks under way are at most `lag' old.
ReadingsFresh ==
    \A t \in Thread : at[t] # "idle" => read[t] =< used /\ ticks - read[t] =< lag

\* The latest check is either still under way or has left a stamp that is at
\* most `lag' and one millisecond behind it, whatever slower check stored last.
StampFollows ==
    \/ \E t \in Thread : at[t] # "idle" /\ read[t] = used
    \/ (lastSeenMs + 1) * TicksPerMs > used - lag

\* The inductive invariant of the stamp.
IInv == TypeOK /\ ReadingsFresh /\ StampFollows

\* "A key is only ever reclaimed once it has truly been idle for the whole TTL"
\* (Store::new), though the stamps are floored and readers race: a slot that a
\* holder of the write lock finds expired was last checked at least the TTL
\* ago, less the time the slowest check spends between its reading and its
\* store.
IdleForTtl ==
    (\A t \in Thread : at[t] = "idle") /\ IsExpired(ticks) => ticks - used >= ttl - lag
=============================================================================
