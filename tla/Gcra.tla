-------------------------------- MODULE Gcra --------------------------------
(***************************************************************************)
(* The leaky bucket of src/gcra.rs: one atomic word, the theoretical       *)
(* arrival time (TAT) counted in emission intervals, advanced by a         *)
(* compare-and-swap loop.  Threads read the clock, stall, and land on a    *)
(* word that others have advanced since: a check is therefore a clock      *)
(* read, a load and a compare-and-swap, each a step of its own.            *)
(*                                                                         *)
(* Time is in the unit of the code's nanoseconds.  WordMax stands for      *)
(* u64::MAX and Scale for the 2^64 of the fixed-point reciprocal.          *)
(***************************************************************************)
EXTENDS Integers

CONSTANTS
    Thread,         \* the threads that share one bucket
    Quotas,         \* the quotas a bucket may be built from
    MaxTime,        \* bound: the last instant of the clock
    MaxCost,        \* bound: the most units a call asks for
    MaxResets,      \* bound: how often the bucket is reset
    MaxSpurious,    \* bound: how often a weak compare-and-swap fails for nothing
    WordMax,        \* the largest value of the word
    Scale           \* the denominator of per_ns

ASSUME BoundsAssumption ==
    /\ MaxTime \in Nat
    /\ MaxCost \in Nat
    /\ MaxResets \in Nat
    /\ MaxSpurious \in Nat

ASSUME QuotasAssumption ==
    /\ Quotas \subseteq [limit : Nat, period : Nat, burst : Nat]

\* A clock reading fits the word, and those of the time modelled leave room for
\* two bursts above them: with u64 nanoseconds, the first 584 years.
ASSUME WordAssumption ==
    /\ WordMax \in Nat
    /\ Scale \in Nat
    /\ Scale =< WordMax + 1
    /\ MaxTime < Scale
    /\ \A q \in Quotas : MaxTime + 2 * q.burst =< WordMax

Times == 0..MaxTime

\* Every clock reading the word can hold.
Readings == 0..Scale - 1

\* The intervals of time, by first and last instant, that the ledger counts.
Spans == {w \in Times \X Times : w[1] =< w[2]}

-----------------------------------------------------------------------------
\* Machine arithmetic.

SatAdd(a, b) == IF a + b > WordMax THEN WordMax ELSE a + b

SatSub(a, b) == IF a < b THEN 0 ELSE a - b

Later(a, b) == IF a < b THEN b ELSE a

-----------------------------------------------------------------------------
\* GcraParams: the quota precomputed.

\* A rate finer than one unit per nanosecond is clamped to one per nanosecond.
LimitOf(q) == IF q.limit < q.period THEN q.limit ELSE q.period

Tolerance(q) == SatSub(q.burst, 1)

PerNs(q) ==
    IF LimitOf(q) = 0 \/ q.burst = 0 THEN 0 ELSE (LimitOf(q) * Scale) \div q.period

Closed(q) == PerNs(q) = 0

\* The correction left out: a mutant of IntervalsAt.
EstimateOnly(q, ns) == (ns * PerNs(q)) \div Scale

\* A reciprocal estimate that is low by at most one, and its correction.
IntervalsAt(q, ns) ==
    LET estimate == (ns * PerNs(q)) \div Scale
    IN  IF (estimate + 1) * q.period =< ns * LimitOf(q) THEN estimate + 1 ELSE estimate

DivCeil(a, b) == (a + (b - 1)) \div b

\* Rounded down instead of up: a mutant of NanosAt.
NanosAtRoundedDown(q, iv) == (iv * q.period) \div LimitOf(q)

\* The first nanosecond at which an interval has begun.
NanosAt(q, iv) ==
    LET ns == DivCeil(iv * q.period, LimitOf(q)) IN IF ns > WordMax THEN WordMax ELSE ns

\* Requests that no state of the bucket admits.
Impossible(q, n) == Closed(q) \/ n - 1 > Tolerance(q)

Effective(q, word, ns) == Later(word, IntervalsAt(q, ns))

Conforms(q, word, n, ns) ==
    SatAdd(Effective(q, word, ns), n - 1) =< SatAdd(IntervalsAt(q, ns), Tolerance(q))

NewTat(q, word, n, ns) == SatAdd(Effective(q, word, ns), n)

\* The retry_after of a denial.
RetryAfter(q, word, n, ns) ==
    LET ready == SatAdd(Effective(q, word, ns), n - 1) - Tolerance(q)
    IN  Later(SatSub(NanosAt(q, ready), ns), 1)

\* peek: what is left of the burst, and the wait until all of it is back.
Remaining(q, word, ns) ==
    LET left == SatSub(SatAdd(IntervalsAt(q, ns), Tolerance(q) + 1), Effective(q, word, ns))
    IN  IF left > Tolerance(q) + 1 THEN Tolerance(q) + 1 ELSE left

ResetAfter(q, word, ns) ==
    IF Effective(q, word, ns) = IntervalsAt(q, ns)
    THEN 0
    ELSE SatSub(NanosAt(q, Effective(q, word, ns)), ns)

IsFull(q, word, ns) == Closed(q) \/ word =< IntervalsAt(q, ns)

\* The interval to which a bucket that is whole again at `until` is raised.
RestoreInterval(q, until) ==
    LET floor == IntervalsAt(q, until)
    IN  IF NanosAt(q, floor) >= until THEN floor ELSE SatAdd(floor, 1)

RestoreUntil(q, word, until) ==
    IF Closed(q) THEN word ELSE Later(word, RestoreInterval(q, until))

-----------------------------------------------------------------------------
VARIABLES
    quota,      \* what the bucket was built from
    clock,      \* the time
    tat,        \* the word
    pc,         \* where each thread is in check_n
    need,       \* the units it asks for
    now,        \* the clock reading it carries
    seen,       \* the word it loaded
    spent,      \* ledger: the units admitted with a reading in each span, since the last reset
    resets,     \* resets so far
    spurious    \* compare-and-swaps that failed for nothing so far

vars == <<quota, clock, tat, pc, need, now, seen, spent, resets, spurious>>

TypeOK ==
    /\ quota \in Quotas
    /\ clock \in Times
    /\ tat \in 0..WordMax
    /\ pc \in [Thread -> {"idle", "enter", "load", "cas"}]
    /\ need \in [Thread -> 0..MaxCost]
    /\ now \in [Thread -> Times]
    /\ seen \in [Thread -> 0..WordMax]
    /\ spent \in [Spans -> Nat]
    /\ resets \in 0..MaxResets
    /\ spurious \in 0..MaxSpurious

NothingSpent == [w \in Spans |-> 0]

\* A new bucket, or one restored from the debt of an evicted key.
Init ==
    /\ quota \in Quotas
    /\ clock = 0
    /\ \/ tat = 0
       \/ \E until \in Times : tat = RestoreUntil(quota, 0, until)
    /\ pc = [t \in Thread |-> "idle"]
    /\ need = [t \in Thread |-> 0]
    /\ now = [t \in Thread |-> 0]
    /\ seen = [t \in Thread |-> 0]
    /\ spent = NothingSpent
    /\ resets = 0
    /\ spurious = 0

Tick ==
    /\ clock < MaxTime
    /\ clock' = clock + 1
    /\ UNCHANGED <<quota, tat, pc, need, now, seen, spent, resets, spurious>>

\* The caller reads the clock and calls check_n.
Call(t, n) ==
    /\ pc[t] = "idle"
    /\ pc' = [pc EXCEPT ![t] = "enter"]
    /\ need' = [need EXCEPT ![t] = n]
    /\ now' = [now EXCEPT ![t] = clock]
    /\ UNCHANGED <<quota, clock, tat, seen, spent, resets, spurious>>

\* check_n returns, and its locals are gone.
Return(t) ==
    /\ pc' = [pc EXCEPT ![t] = "idle"]
    /\ need' = [need EXCEPT ![t] = 0]
    /\ now' = [now EXCEPT ![t] = 0]
    /\ seen' = [seen EXCEPT ![t] = 0]

\* Zero units always succeed and cost nothing; a request wider than the burst
\* never succeeds.  Neither looks at the word.
ReturnEarly(t) ==
    /\ pc[t] = "enter"
    /\ need[t] = 0 \/ Impossible(quota, need[t])
    /\ Return(t)
    /\ UNCHANGED <<quota, clock, tat, spent, resets, spurious>>

Enter(t) ==
    /\ pc[t] = "enter"
    /\ need[t] # 0
    /\ ~Impossible(quota, need[t])
    /\ pc' = [pc EXCEPT ![t] = "load"]
    /\ UNCHANGED <<quota, clock, tat, need, now, seen, spent, resets, spurious>>

\* Load the word.  A request that does not conform is denied here.
LoadConforming(t) ==
    /\ pc[t] = "load"
    /\ Conforms(quota, tat, need[t], now[t])
    /\ seen' = [seen EXCEPT ![t] = tat]
    /\ pc' = [pc EXCEPT ![t] = "cas"]
    /\ UNCHANGED <<quota, clock, tat, need, now, spent, resets, spurious>>

LoadDenied(t) ==
    /\ pc[t] = "load"
    /\ ~Conforms(quota, tat, need[t], now[t])
    /\ Return(t)
    /\ UNCHANGED <<quota, clock, tat, spent, resets, spurious>>

Charge(ledger, ns, n) ==
    [w \in Spans |-> IF w[1] =< ns /\ ns =< w[2] THEN ledger[w] + n ELSE ledger[w]]

\* The word is stored without comparing it: a mutant of CasAdmit.
BlindStore(t) ==
    /\ pc[t] = "cas"
    /\ tat' = NewTat(quota, seen[t], need[t], now[t])
    /\ spent' = Charge(spent, now[t], need[t])
    /\ Return(t)
    /\ UNCHANGED <<quota, clock, resets, spurious>>

CasAdmit(t) ==
    /\ pc[t] = "cas"
    /\ tat = seen[t]
    /\ tat' = NewTat(quota, seen[t], need[t], now[t])
    /\ spent' = Charge(spent, now[t], need[t])
    /\ Return(t)
    /\ UNCHANGED <<quota, clock, resets, spurious>>

\* The loop spins on the word it loaded: a mutant of CasFail.
CasFailSpins(t) ==
    /\ pc[t] = "cas"
    /\ tat # seen[t]
    /\ UNCHANGED vars

\* Another thread moved the word first: load again.
CasFail(t) ==
    /\ pc[t] = "cas"
    /\ tat # seen[t]
    /\ pc' = [pc EXCEPT ![t] = "load"]
    /\ UNCHANGED <<quota, clock, tat, need, now, seen, spent, resets, spurious>>

\* compare_exchange_weak may fail although the word is the one expected.
CasFailSpuriously(t) ==
    /\ pc[t] = "cas"
    /\ tat = seen[t]
    /\ spurious < MaxSpurious
    /\ spurious' = spurious + 1
    /\ pc' = [pc EXCEPT ![t] = "load"]
    /\ UNCHANGED <<quota, clock, tat, need, now, seen, spent, resets>>

\* reset stores 0: the whole burst is back, and the ledger starts again.
Reset ==
    /\ resets < MaxResets
    /\ resets' = resets + 1
    /\ tat' = 0
    /\ spent' = NothingSpent
    /\ UNCHANGED <<quota, clock, pc, need, now, seen, spurious>>

\* A step of check_n that its thread takes by itself.
Step(t) ==
    \/ ReturnEarly(t)
    \/ Enter(t)
    \/ LoadConforming(t)
    \/ LoadDenied(t)
    \/ CasAdmit(t)
    \/ CasFail(t)

Next ==
    \/ Tick
    \/ Reset
    \/ \E t \in Thread :
        \/ \E n \in 0..MaxCost : Call(t, n)
        \/ Step(t)
        \/ CasFailSpuriously(t)

Spec == Init /\ [][Next]_vars

\* A thread inside check_n keeps running; nobody is obliged to call it.
FairSpec == Spec /\ \A t \in Thread : WF_vars(Step(t))

-----------------------------------------------------------------------------
\* The calls whose clock reading lies in any span of time, however their steps
\* interleave and however stale their readings are, are admitted at most the
\* burst plus the emission intervals that elapse in the span: the bound of a
\* leaky bucket (check_n, the comment on late threads in its loop).
NoOverAdmit ==
    \A w \in Spans :
        spent[w] =< IF Closed(quota)
                    THEN 0
                    ELSE quota.burst + IntervalsAt(quota, w[2]) - IntervalsAt(quota, w[1])

\* Every unit admitted since the beginning of a span is an interval by which the
\* word lies past that beginning: no admission of any thread is overwritten or
\* forgotten by another's compare-and-swap (check_n's advance of the word).
LedgerBacked ==
    \A w \in Spans : spent[w] = 0 \/ spent[w] =< tat - IntervalsAt(quota, w[1])

\* A thread past the early returns asks for something possible, and the word it
\* loaded admitted its request.
CallsJudged ==
    \A t \in Thread :
        /\ pc[t] \in {"load", "cas"} => need[t] # 0 /\ ~Impossible(quota, need[t])
        /\ pc[t] = "cas" => Conforms(quota, seen[t], need[t], now[t])

\* The inductive invariant of the proof of NoOverAdmit.
IInv ==
    /\ TypeOK
    /\ CallsJudged
    /\ LedgerBacked
    /\ NoOverAdmit

\* The word is never more than a burst ahead of time, and no caller's reading is.
WordNear ==
    /\ ~Closed(quota) => tat =< IntervalsAt(quota, MaxTime) + quota.burst
    /\ \A t \in Thread : now[t] =< clock

\* A whole burst is back within the readings of the clock, so that no wait is cut
\* off at the largest number (nanos_at).
RefillsInTime ==
    \A q \in Quotas :
        ~Closed(q) => DivCeil((IntervalsAt(q, MaxTime) + q.burst) * q.period, LimitOf(q)) < Scale

\* The fixed-point reciprocal of intervals_at, corrected once, is the exact
\* quotient for every clock reading.
IntervalsExact ==
    ~Closed(quota) =>
        \A ns \in Readings : IntervalsAt(quota, ns) = (ns * LimitOf(quota)) \div quota.period

\* With no other traffic a denied request conforms after the wait, and not one
\* nanosecond before it.
RetryExact(ns) ==
    \A n \in 1..MaxCost :
        ~Impossible(quota, n) /\ ~Conforms(quota, tat, n, ns) =>
            LET wait == RetryAfter(quota, tat, n, ns)
            IN  /\ Conforms(quota, tat, n, ns + wait)
                /\ \A early \in 1..wait - 1 : ~Conforms(quota, tat, n, ns + early)

\* What is called remaining is what a check admits, and reset_after ends when
\* is_full begins to hold.
SnapshotExact(ns) ==
    LET wait == ResetAfter(quota, tat, ns)
    IN  /\ \A n \in 1..quota.burst :
            Conforms(quota, tat, n, ns) <=> n =< Remaining(quota, tat, ns)
        /\ IsFull(quota, tat, ns + wait)
        /\ \A early \in 0..wait - 1 : ~IsFull(quota, tat, ns + early)

\* A bucket restored from a recorded deadline is not whole before the deadline,
\* and no interval below the one it is raised to would do.
RestoreExact(until) ==
    LET word == RestoreUntil(quota, 0, until)
    IN  /\ \A ns \in 0..until - 1 : ~IsFull(quota, word, ns)
        /\ \A lower \in 0..word - 1 : NanosAt(quota, lower) < until

\* In every state the loop leaves the word in, and for a late caller too, the
\* retry_after of a denial is honest and tight, peek agrees with check_n and with
\* is_full, and an evicted key that comes back gains nothing by its eviction and
\* loses less than one emission interval (check_n_in, peek_in, is_full_in,
\* restore_until).
AnswersExact ==
    ~Closed(quota) =>
        /\ \A ns \in Times : RetryExact(ns) /\ SnapshotExact(ns)
        /\ \A until \in Readings : RestoreExact(until)

\* The bucket as the store sees it: one state, on which a check is one step.
AtomicAdmits(s, n, ns) == n = 0 \/ (~Impossible(s.quota, n) /\ Conforms(s.quota, s.tat, n, ns))

AtomicCharged(s, n, ns) == IF n = 0 THEN s ELSE [s EXCEPT !.tat = NewTat(s.quota, @, n, ns)]

AtomicReset(s) == [s EXCEPT !.tat = 0]

AtomicState == [quota |-> quota, tat |-> tat]

\* The check each thread is in the middle of.
AtomicCall ==
    [t \in Thread |-> IF pc[t] = "idle" THEN [n |-> 0, now |-> -1] ELSE [n |-> need[t], now |-> now[t]]]

Atomic ==
    INSTANCE AtomicKey WITH
        state     <- AtomicState,
        call      <- AtomicCall,
        excused   <- {},
        Admits    <- AtomicAdmits,
        Charged   <- AtomicCharged,
        ResetOf   <- AtomicReset

\* However its loop is interleaved, check_n is one step of an atomic bucket: its
\* denial is right for the word as it is then, and its admission charges the
\* word as it is then, once (KeyState::acquire for Gcra).
ImplementsAtomic == Atomic!Spec

\* Every call of check_n returns: a compare-and-swap that fails means the word
\* moved forward, which only so many times leaves the request conforming.
EveryCheckReturns == \A t \in Thread : pc[t] # "idle" ~> pc[t] = "idle"
=============================================================================
