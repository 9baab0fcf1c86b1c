----------------------------- MODULE SlidingLog -----------------------------
(***************************************************************************)
(* The sliding-window log of src/algo/sliding_log.rs: the times of the     *)
(* units admitted in the trailing period, coalesced into runs that carry a *)
(* running total.  A check or a peek reads the clock, waits for the key's  *)
(* mutex, and works on the log as one step; others may have used the log   *)
(* at later times while it waited.                                         *)
(***************************************************************************)
EXTENDS Integers, Sequences

CONSTANTS
    Thread,         \* the threads that share one key
    Quotas,         \* the quotas a log may be built from
    MaxTime,        \* bound: the last instant of the clock
    MaxCost,        \* bound: the most units a call asks for
    MaxResets       \* bound: how often the key is reset

Times == 0..MaxTime

\* The intervals of time, by first and last instant, that the ledger counts.
Spans == {w \in Times \X Times : w[1] =< w[2]}

-----------------------------------------------------------------------------
\* Log: runs of units admitted at one time, oldest first, and the running
\* total at the end of the newest run that has aged out.

SatSub(a, b) == IF a < b THEN 0 ELSE a - b

Later(a, b) == IF a < b THEN b ELSE a

EmptyLog(total) == [runs |-> <<>>, expired |-> total]

Total(log) == IF log.runs = <<>> THEN log.expired ELSE log.runs[Len(log.runs)].total

InWindow(log) == Total(log) - log.expired

\* A late thread is treated as arriving with the newest record.
Effective(log, ns) ==
    IF log.runs = <<>> THEN ns ELSE Later(log.runs[Len(log.runs)].at, ns)

\* A record leaves one instant early: a mutant of AgedOut.
AgedOutEarly(run, period, ns) == run.at + period =< ns + 1

AgedOut(run, period, ns) == run.at + period =< ns

\* One record at most is popped: a mutant of Expire.
ExpireOne(log, period, ns) ==
    IF log.runs # <<>> /\ AgedOut(Head(log.runs), period, ns)
    THEN [runs |-> Tail(log.runs), expired |-> Head(log.runs).total]
    ELSE log

\* Pops the records at the front that have aged out.
Expire(log, period, ns) ==
    LET gone == CHOOSE k \in 0..Len(log.runs) :
                    /\ \A i \in 1..k : AgedOut(log.runs[i], period, ns)
                    /\ k < Len(log.runs) => ~AgedOut(log.runs[k + 1], period, ns)
    IN  IF gone = 0
        THEN log
        ELSE [runs |-> SubSeq(log.runs, gone + 1, Len(log.runs)), expired |-> log.runs[gone].total]

\* Never coalesces: a mutant of Record.
RecordApart(log, n, ns) ==
    [log EXCEPT !.runs = Append(@, [at |-> ns, total |-> Total(log) + n])]

\* Records n units, in the newest run if it is of the same time.
Record(log, n, ns) ==
    LET run  == [at |-> ns, total |-> Total(log) + n]
        last == Len(log.runs)
    IN  IF last # 0 /\ log.runs[last].at = ns
        THEN [runs |-> [log.runs EXCEPT ![last] = run], expired |-> log.expired]
        ELSE [runs |-> Append(log.runs, run), expired |-> log.expired]

DenyAll(q) == q.limit = 0 \/ q.period = 0

Impossible(q, n) == DenyAll(q) \/ n > q.limit

\* Whether n more units fit a log that has been expired.
Fits(q, log, n) == InWindow(log) + n =< q.limit

\* partition_point: the run with which the units that must leave have left.
AwaitedRun(q, log, n) ==
    LET target == log.expired + (InWindow(log) + n - q.limit)
    IN  CHOOSE i \in 1..Len(log.runs) + 1 :
            /\ \A j \in 1..i - 1 : log.runs[j].total < target
            /\ i =< Len(log.runs) => log.runs[i].total >= target

\* The retry_after of a denial at `ns`, by the expired log.
RetryAfter(q, log, n, ns) ==
    LET i == AwaitedRun(q, log, n)
        expireAt == IF i > Len(log.runs) THEN Effective(log, ns) ELSE log.runs[i].at + q.period
    IN  SatSub(expireAt, ns)

\* peek's snapshot, by the expired log.
Remaining(q, log) == SatSub(q.limit, InWindow(log))

ResetAfter(q, log, ns) ==
    IF log.runs = <<>> THEN 0 ELSE SatSub(log.runs[Len(log.runs)].at + q.period, ns)

-----------------------------------------------------------------------------
VARIABLES
    quota,      \* what the log was built from
    clock,      \* the time
    log,        \* the log, behind its mutex
    call,       \* what each thread is waiting for the mutex for, or "idle"
    need,       \* the units it asks for
    now,        \* the clock reading it carries
    spent,      \* ledger: the units recorded in each span of time, since the last reset
    horizon,    \* ledger: the latest instant to which the log has been expired
    lapsed,     \* ledger: whether units were admitted at an instant before the horizon
    resets      \* resets so far

vars == <<quota, clock, log, call, need, now, spent, horizon, lapsed, resets>>

Runs == [at : Times, total : Nat]

TypeOK ==
    /\ quota \in Quotas
    /\ clock \in Times
    /\ log \in [runs : Seq(Runs), expired : Nat]
    /\ call \in [Thread -> {"idle", "acquire", "peek"}]
    /\ need \in [Thread -> 0..MaxCost]
    /\ now \in [Thread -> Times]
    /\ spent \in [Spans -> Nat]
    /\ horizon \in Times
    /\ lapsed \in BOOLEAN
    /\ resets \in 0..MaxResets

NothingSpent == [w \in Spans |-> 0]

Init ==
    /\ quota \in Quotas
    /\ clock = 0
    /\ log = EmptyLog(0)
    /\ call = [t \in Thread |-> "idle"]
    /\ need = [t \in Thread |-> 0]
    /\ now = [t \in Thread |-> 0]
    /\ spent = NothingSpent
    /\ horizon = 0
    /\ lapsed = FALSE
    /\ resets = 0

Tick ==
    /\ clock < MaxTime
    /\ clock' = clock + 1
    /\ UNCHANGED <<quota, log, call, need, now, spent, horizon, lapsed, resets>>

\* The caller reads the clock and goes for the mutex.
Call(t, what, n) ==
    /\ call[t] = "idle"
    /\ call' = [call EXCEPT ![t] = what]
    /\ need' = [need EXCEPT ![t] = n]
    /\ now' = [now EXCEPT ![t] = clock]
    /\ UNCHANGED <<quota, clock, log, spent, horizon, lapsed, resets>>

Return(t) ==
    /\ call' = [call EXCEPT ![t] = "idle"]
    /\ need' = [need EXCEPT ![t] = 0]
    /\ now' = [now EXCEPT ![t] = 0]

\* Nothing to judge: the log is not locked.
ReturnEarly(t) ==
    /\ \/ call[t] = "acquire" /\ (need[t] = 0 \/ Impossible(quota, need[t]))
       \/ call[t] = "peek" /\ DenyAll(quota)
    /\ Return(t)
    /\ UNCHANGED <<quota, clock, log, spent, horizon, lapsed, resets>>

Charge(ledger, ns, n) ==
    [w \in Spans |-> IF w[1] =< ns /\ ns =< w[2] THEN ledger[w] + n ELSE ledger[w]]

Admit(t) ==
    LET ns   == Effective(log, now[t])
        kept == Expire(log, quota.period, ns)
    IN  /\ call[t] = "acquire"
        /\ need[t] # 0 /\ ~Impossible(quota, need[t])
        /\ Fits(quota, kept, need[t])
        /\ log' = Record(kept, need[t], ns)
        /\ spent' = Charge(spent, ns, need[t])
        /\ horizon' = Later(horizon, ns)
        /\ lapsed' = (lapsed \/ ns < horizon)
        /\ Return(t)
        /\ UNCHANGED <<quota, clock, resets>>

\* A denial leaves the log expired.
Deny(t) ==
    LET ns   == Effective(log, now[t])
        kept == Expire(log, quota.period, ns)
    IN  /\ call[t] = "acquire"
        /\ need[t] # 0 /\ ~Impossible(quota, need[t])
        /\ ~Fits(quota, kept, need[t])
        /\ log' = kept
        /\ horizon' = Later(horizon, ns)
        /\ Return(t)
        /\ UNCHANGED <<quota, clock, spent, lapsed, resets>>

\* So does a peek.
Peek(t) ==
    LET ns == Effective(log, now[t])
    IN  /\ call[t] = "peek"
        /\ ~DenyAll(quota)
        /\ log' = Expire(log, quota.period, ns)
        /\ horizon' = Later(horizon, ns)
        /\ Return(t)
        /\ UNCHANGED <<quota, clock, spent, lapsed, resets>>

\* The running total survives a reset.
Reset ==
    /\ resets < MaxResets
    /\ resets' = resets + 1
    /\ log' = EmptyLog(Total(log))
    /\ spent' = NothingSpent
    /\ horizon' = 0
    /\ lapsed' = FALSE
    /\ UNCHANGED <<quota, clock, call, need, now>>

Next ==
    \/ Tick
    \/ Reset
    \/ \E t \in Thread :
        \/ \E n \in 0..MaxCost : Call(t, "acquire", n)
        \/ Call(t, "peek", 0)
        \/ ReturnEarly(t)
        \/ Admit(t)
        \/ Deny(t)
        \/ Peek(t)

Spec == Init /\ [][Next]_vars

-----------------------------------------------------------------------------
\* The rolling windows: spans shorter than the period.
Rolling == {w \in Spans : w[2] - w[1] < quota.period}

\* No rolling window ever holds more than the limit (the module's "exact
\* algorithm").
RollingExact == \A w \in Rolling : spent[w] =< quota.limit

\* The same while no caller has been so late that it is admitted at an instant
\* before one to which the log has already been expired.
RollingBound == ~lapsed => RollingExact

\* However late its callers, the log is in order, one record to an instant, and
\* holds no more units, so no more records, than the limit: what the running
\* totals, the binary search and the memory bound of the module rely on.
LogOrdered ==
    /\ InWindow(log) =< quota.limit
    /\ Len(log.runs) =< quota.limit
    /\ \A i \in 1..Len(log.runs) :
        /\ log.runs[i].total > IF i = 1 THEN log.expired ELSE log.runs[i - 1].total
        /\ i > 1 => log.runs[i].at > log.runs[i - 1].at

\* The running total at the end of a run, or before the first.
TotalAt(l, k) == IF k = 0 THEN l.expired ELSE l.runs[k].total

\* Every two records are in order, and a unit apart for each record between them.
InOrder(l) ==
    \A j \in 1..Len(l.runs) : \A i \in 0..j - 1 :
        /\ TotalAt(l, j) >= TotalAt(l, i) + (j - i)
        /\ i > 0 => l.runs[i].at < l.runs[j].at

\* Of a rolling window that begins late enough for none of its records to have been
\* expired, the log holds everything.
RecordsBacked ==
    ~lapsed =>
        \A w \in Rolling :
            w[1] + quota.period > horizon =>
                \A k \in 0..Len(log.runs) :
                    k = 0 \/ log.runs[k].at < w[1] => spent[w] =< Total(log) - TotalAt(log, k)

\* The inductive invariant of the proofs.
IInv ==
    /\ TypeOK
    /\ InOrder(log)
    /\ InWindow(log) =< quota.limit
    /\ InWindow(log) =< spent[<<0, MaxTime>>]
    /\ RecordsBacked
    /\ RollingBound

\* What a check running alone at `ns` would decide on a log.
Admits(l, n, ns) == Fits(quota, Expire(l, quota.period, Effective(l, ns)), n)

\* A peek or a denial changes no decision of a caller that is not behind it.
ExpiryInvisible ==
    (spent' = spent /\ resets' = resets) =>
        \A n \in 1..MaxCost, ns \in horizon'..MaxTime : Admits(log', n, ns) = Admits(log, n, ns)

\* With no other traffic a denied request is admitted after the wait, not before.
RetryExact(ns) ==
    \A n \in 1..MaxCost :
        ~Impossible(quota, n) /\ ~Admits(log, n, ns) =>
            LET kept == Expire(log, quota.period, Effective(log, ns))
                wait == RetryAfter(quota, kept, n, ns)
            IN  /\ Admits(log, n, ns + wait)
                /\ \A early \in 0..wait - 1 : ~Admits(log, n, ns + early)

\* What is reported as remaining is what a check admits, and reset_after ends when
\* the log is empty.
SnapshotExact(ns) ==
    LET kept == Expire(log, quota.period, Effective(log, ns))
        wait == ResetAfter(quota, kept, ns)
    IN  /\ \A n \in 1..quota.limit : Admits(log, n, ns) <=> n =< Remaining(quota, kept)
        /\ \A early \in 0..wait - 1 : ~Admits(log, quota.limit, ns + early)
        /\ Admits(log, quota.limit, ns + wait)

AnswersExact == ~DenyAll(quota) => \A ns \in Times : RetryExact(ns) /\ SnapshotExact(ns)
=============================================================================
