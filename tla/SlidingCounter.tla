--------------------------- MODULE SlidingCounter ---------------------------
(***************************************************************************)
(* The sliding-window counter of src/algo/sliding_counter.rs: the count of *)
(* the current fixed window and, fading linearly across it, that of the    *)
(* previous one.  A check or a peek reads the clock, waits for the key's   *)
(* mutex, rolls the windows forward and works on the counts as one step.   *)
(***************************************************************************)
EXTENDS Integers

CONSTANTS
    Thread,         \* the threads that share one key
    Quotas,         \* the quotas a counter may be built from
    MaxTime,        \* bound: the last instant of the clock
    MaxCost,        \* bound: the most units a call asks for
    MaxResets       \* bound: how often the key is reset

Times == 0..MaxTime

\* The intervals of time, by first and last instant, that the ledger counts.
Spans == {w \in Times \X Times : w[1] =< w[2]}

-----------------------------------------------------------------------------
SatSub(a, b) == IF a < b THEN 0 ELSE a - b

Later(a, b) == IF a < b THEN b ELSE a

Lesser(a, b) == IF a < b THEN a ELSE b

\* A state: the window that curr counts, the count before it, and its own.
Fresh(q, ns) == [window |-> IF q.period = 0 THEN 0 ELSE ns \div q.period, prev |-> 0, curr |-> 0]

\* A late thread is taken to arrive at the start of the current window.
Arrival(q, s, ns) == Later(ns, s.window * q.period)

Roll(q, s, ns) ==
    LET number == Arrival(q, s, ns) \div q.period
    IN  IF number > s.window
        THEN [window |-> number,
              prev   |-> IF number = s.window + 1 THEN s.curr ELSE 0,
              curr   |-> 0]
        ELSE s

Offset(q, s, ns) == Arrival(q, s, ns) % q.period

\* The weighted count, scaled by the period.
Weighted(q, s, offset) == s.prev * (q.period - offset) + s.curr * q.period

Fits(q, s, offset, n) == Weighted(q, s, offset) + n * q.period =< q.limit * q.period

\* One instant early: a mutant of EarliestFit.
EarliestFitTruncated(q, s, offset, n) ==
    IF s.curr + n =< q.limit /\ s.prev > 0
    THEN LET slack == ((q.limit - n - s.curr) * q.period + s.prev - 1) \div s.prev
         IN  Later(SatSub(q.period - Lesser(slack, q.period), offset), 1)
    ELSE LET slack == IF s.curr = 0 THEN q.period ELSE ((q.limit - n) * q.period) \div s.curr
         IN  (q.period - offset) + (q.period - Lesser(slack, q.period))

\* The wait from `offset` until n units first fit: later in this window, as the
\* previous count fades, or in the next, as this window's does.
EarliestFit(q, s, offset, n) ==
    IF s.curr + n =< q.limit /\ s.prev > 0
    THEN LET slack == ((q.limit - n - s.curr) * q.period) \div s.prev
         IN  Later(SatSub(q.period - Lesser(slack, q.period), offset), 1)
    ELSE LET slack == IF s.curr = 0 THEN q.period ELSE ((q.limit - n) * q.period) \div s.curr
         IN  (q.period - offset) + (q.period - Lesser(slack, q.period))

DenyAll(q) == q.limit = 0 \/ q.period = 0

Impossible(q, n) == DenyAll(q) \/ n > q.limit

\* The retry_after of a denial, from the caller's own instant.
RetryAfter(q, s, n, ns) ==
    Later(EarliestFit(q, s, Offset(q, s, ns), n) + (Arrival(q, s, ns) - ns), 1)

\* peek's snapshot, by the rolled state.
Remaining(q, s, ns) ==
    SatSub(q.limit * q.period, Weighted(q, s, Offset(q, s, ns))) \div q.period

FullIn(q, s, offset) ==
    CASE s.curr > 0                -> (q.period - offset) + q.period
      [] s.curr = 0 /\ s.prev > 0  -> q.period - offset
      [] OTHER                     -> 0

ResetAfter(q, s, ns) ==
    LET wait == FullIn(q, s, Offset(q, s, ns))
    IN  IF wait = 0 THEN 0 ELSE wait + (Arrival(q, s, ns) - ns)

-----------------------------------------------------------------------------
VARIABLES
    quota,      \* what the counter was built from
    clock,      \* the time
    state,      \* the counts, behind their mutex
    call,       \* what each thread is waiting for the mutex for, or "idle"
    need,       \* the units it asks for
    now,        \* the clock reading it carries
    spent,      \* ledger: the units admitted as of an instant of each span, since the last reset
    resets      \* resets so far

vars == <<quota, clock, state, call, need, now, spent, resets>>

TypeOK ==
    /\ quota \in Quotas
    /\ clock \in Times
    /\ state \in [window : Times, prev : 0..quota.limit, curr : 0..quota.limit]
    /\ call \in [Thread -> {"idle", "acquire", "peek"}]
    /\ need \in [Thread -> 0..MaxCost]
    /\ now \in [Thread -> Times]
    /\ spent \in [Spans -> Nat]
    /\ resets \in 0..MaxResets

NothingSpent == [w \in Spans |-> 0]

\* SlidingCounter::new, at any time.
Init ==
    /\ quota \in Quotas
    /\ clock \in Times
    /\ state = Fresh(quota, clock)
    /\ call = [t \in Thread |-> "idle"]
    /\ need = [t \in Thread |-> 0]
    /\ now = [t \in Thread |-> 0]
    /\ spent = NothingSpent
    /\ resets = 0

Tick ==
    /\ clock < MaxTime
    /\ clock' = clock + 1
    /\ UNCHANGED <<quota, state, call, need, now, spent, resets>>

\* The caller reads the clock and goes for the mutex.
Call(t, what, n) ==
    /\ call[t] = "idle"
    /\ call' = [call EXCEPT ![t] = what]
    /\ need' = [need EXCEPT ![t] = n]
    /\ now' = [now EXCEPT ![t] = clock]
    /\ UNCHANGED <<quota, clock, state, spent, resets>>

Return(t) ==
    /\ call' = [call EXCEPT ![t] = "idle"]
    /\ need' = [need EXCEPT ![t] = 0]
    /\ now' = [now EXCEPT ![t] = 0]

\* Nothing to judge: the state is not locked.
ReturnEarly(t) ==
    /\ \/ call[t] = "acquire" /\ (need[t] = 0 \/ Impossible(quota, need[t]))
       \/ call[t] = "peek" /\ DenyAll(quota)
    /\ Return(t)
    /\ UNCHANGED <<quota, clock, state, spent, resets>>

Charge(ledger, ns, n) ==
    [w \in Spans |-> IF w[1] =< ns /\ ns =< w[2] THEN ledger[w] + n ELSE ledger[w]]

Admit(t) ==
    LET rolled == Roll(quota, state, now[t])
        offset == Offset(quota, state, now[t])
    IN  /\ call[t] = "acquire"
        /\ need[t] # 0 /\ ~Impossible(quota, need[t])
        /\ Fits(quota, rolled, offset, need[t])
        /\ state' = [rolled EXCEPT !.curr = @ + need[t]]
        /\ spent' = Charge(spent, Arrival(quota, state, now[t]), need[t])
        /\ Return(t)
        /\ UNCHANGED <<quota, clock, resets>>

\* A denial leaves the windows rolled.
Deny(t) ==
    LET rolled == Roll(quota, state, now[t])
        offset == Offset(quota, state, now[t])
    IN  /\ call[t] = "acquire"
        /\ need[t] # 0 /\ ~Impossible(quota, need[t])
        /\ ~Fits(quota, rolled, offset, need[t])
        /\ state' = rolled
        /\ Return(t)
        /\ UNCHANGED <<quota, clock, spent, resets>>

\* So does a peek.
Peek(t) ==
    /\ call[t] = "peek"
    /\ ~DenyAll(quota)
    /\ state' = Roll(quota, state, now[t])
    /\ Return(t)
    /\ UNCHANGED <<quota, clock, spent, resets>>

Reset ==
    /\ resets < MaxResets
    /\ resets' = resets + 1
    /\ state' = [window |-> state.window, prev |-> 0, curr |-> 0]
    /\ spent' = NothingSpent
    /\ UNCHANGED <<quota, clock, call, need, now>>

Next ==
    \/ Tick
    \/ Reset
    \/ \E t \in Thread :
        \/ \E n \in 0..MaxCost : Call(t, "acquire", n)
        \/ Call(t, "peek", 0)
        \/ ReturnEarly(t)
        \/ Admit(t)
        \/ Deny(t)
        \/ Peek(t)

Spec == Init /\ [][Next]_vars

-----------------------------------------------------------------------------
\* However late its callers, a rolling window (a span shorter than the period)
\* that ends `offset` into a fixed window admits at most the limit plus the part
\* of it that had faded by then, offset / period: less than the twice the limit
\* that the module's documentation allows.
RollingBound ==
    \A w \in Spans :
        w[2] - w[1] < quota.period =>
            spent[w] * quota.period =< quota.limit * (quota.period + (w[2] % quota.period))

\* The counts cover what a ledger holds since their windows began, and the whole
\* ledger covers the counts.
Covers(q, s, ledger) ==
    /\ \A w \in Spans :
        /\ w[1] >= s.window * q.period + q.period => ledger[w] = 0
        /\ w[1] >= s.window * q.period => ledger[w] =< s.curr
        /\ w[1] + q.period >= s.window * q.period => ledger[w] =< s.prev + s.curr
    /\ s.prev + s.curr =< ledger[<<0, MaxTime>>]

\* The windows have begun, and no caller's reading is ahead of the clock.
Begun ==
    /\ state.window * quota.period =< clock
    /\ \A t \in Thread : now[t] =< clock

\* The inductive invariant of the proofs.
IInv ==
    /\ TypeOK
    /\ DenyAll(quota) => spent = NothingSpent
    /\ ~DenyAll(quota) => Covers(quota, state, spent)
    /\ Begun
    /\ RollingBound

\* What a check running alone at `ns` would decide.
Admits(n, ns) == Fits(quota, Roll(quota, state, ns), Offset(quota, state, ns), n)

\* With no other traffic a denied request is admitted after the wait, not before.
RetryExact(ns) ==
    \A n \in 1..MaxCost :
        ~Impossible(quota, n) /\ ~Admits(n, ns) =>
            LET wait == RetryAfter(quota, Roll(quota, state, ns), n, ns)
            IN  /\ Admits(n, ns + wait)
                /\ \A early \in 0..wait - 1 : ~Admits(n, ns + early)

\* What is reported as remaining is what a check admits, and the whole limit is
\* back when reset_after ends, not before.
SnapshotExact(ns) ==
    LET rolled == Roll(quota, state, ns)
        wait   == ResetAfter(quota, rolled, ns)
    IN  /\ \A n \in 1..quota.limit : Admits(n, ns) <=> n =< Remaining(quota, rolled, ns)
        /\ Admits(quota.limit, ns + wait)
        /\ \A early \in 0..wait - 1 : ~Admits(quota.limit, ns + early)

AnswersExact == ~DenyAll(quota) => \A ns \in Times : RetryExact(ns) /\ SnapshotExact(ns)

\* A step that admits nothing changes no decision of a caller that is not behind it.
RollInvisible ==
    (spent' = spent /\ resets' = resets) =>
        \A n \in 1..MaxCost, ns \in Times :
            quota.period # 0 /\ ns \div quota.period >= state'.window => Admits(n, ns)' = Admits(n, ns)
=============================================================================
