------------------------------ MODULE Settings -------------------------------
(***************************************************************************)
(* How a limiter is configured: the builder of src/builder.rs with its     *)
(* two ways to finish, the eviction policy of src/eviction.rs, the quotas  *)
(* of src/quota.rs judged by src/algorithm.rs, the with_ methods of        *)
(* src/limiter.rs that build a limiter again, and the sizes Store::new     *)
(* makes of it all.                                                        *)
(*                                                                         *)
(* An Option is the empty set or a set of one.  Times are ticks, of which  *)
(* TicksPerMs make a millisecond; one tick is the nanosecond below which   *)
(* no emission interval can go.                                            *)
(***************************************************************************)
EXTENDS Integers, Sequences, FiniteSetsExt, Functions

CONSTANTS
    Limits, Periods, Bursts,    \* the numbers a quota is made of
    ShardCounts,                \* the shard counts asked for
    Capacities, Ttls,           \* the caps and idle times asked for
    Options,                    \* values of KeyOptions, the default first (what they do is in KeyedLimiter)
    NoOptions,                  \* KeyOptions::default()
    DefaultMaxKeys,             \* DEFAULT_MAX_KEYS
    Parallelism,                \* available_parallelism()
    MaxDefaultShards,           \* the most shards a limiter has unasked
    MaxShards,                  \* MAX_SHARDS, a power of two
    MaxKeysPerShard,            \* MAX_KEYS_PER_SHARD
    MaxSlots,                   \* MAX_SLOTS
    MaxLogLimit,                \* MAX_SLIDING_LOG_LIMIT
    BucketRecords, ExactPerKey, CellsPerKey,            \* of the recovery table
    MinBuckets, MaxBuckets, MinCells, MaxCells,
    TicksPerMs                  \* ticks in a millisecond

ASSUME SettingsAssumption ==
    /\ Limits \cup Periods \cup Bursts \cup ShardCounts \cup Capacities \cup Ttls \subseteq Nat
    /\ NoOptions \in Options
    /\ {Parallelism, MaxDefaultShards, MaxKeysPerShard, MaxSlots, MaxLogLimit, TicksPerMs} \subseteq Nat \ {0}
    /\ {BucketRecords, ExactPerKey, CellsPerKey} \subseteq Nat \ {0}
    /\ DefaultMaxKeys \in Capacities

ASSUME PowersAssumption ==
    \A m \in {MaxShards, MinBuckets, MaxBuckets, MinCells, MaxCells} : \E i \in 0..16 : m = 2^i

Algorithms == {"token", "leaky", "fixed", "log", "counter"}

Clamped(n, low, high) == Max({low, Min({n, high})})

CeilDiv(a, b) == (a + b - 1) \div b

NextPowerOfTwo(n) == Min({2^i : i \in 0..n} \ 0..n - 1)

\* What an Option holds, or a default.
OrElse(option, default) == IF option = {} THEN default ELSE CHOOSE v \in option : TRUE

-----------------------------------------------------------------------------
\* src/eviction.rs.

\* Overflow.
Overflows == {"FailClosed", "Forget"}

Eviction(maxKeys, ttl) == [maxKeys |-> maxKeys, ttl |-> ttl, overflow |-> "FailClosed"]

\* capacity, idle, new and unbounded; Default is a capacity.
Made ==
    {Eviction({m}, {}) : m \in Capacities} \cup {Eviction({DefaultMaxKeys}, {i}) : i \in Ttls}
        \cup {Eviction({m}, {i}) : m \in Capacities, i \in Ttls} \cup {Eviction({}, {})}

DefaultEviction == Eviction({DefaultMaxKeys}, {})

\* with_capacity, with_idle, without_capacity and with_overflow.
Adjusted(e) ==
    {[e EXCEPT !.maxKeys = {m}] : m \in Capacities} \cup {[e EXCEPT !.ttl = {i}] : i \in Ttls}
        \cup {[e EXCEPT !.maxKeys = {}]} \cup {[e EXCEPT !.overflow = o] : o \in Overflows}

-----------------------------------------------------------------------------
\* src/algorithm.rs.  A quota is a record of limit, period and burst.

DegenerateRate(q) == q.limit = 0 \/ q.period = 0

RefillTime(q) == CeilDiv(q.burst * q.period, q.limit)

\* A sliding counter recovers in a period: a mutant of RecoveryTime.
RecoveryTimeOfOnePeriod(a, q) ==
    IF DegenerateRate(q) THEN 0 ELSE IF a \in {"token", "leaky"} THEN RefillTime(q) ELSE q.period

RecoveryTime(a, q) ==
    IF DegenerateRate(q)
    THEN 0
    ELSE CASE a \in {"token", "leaky"} -> RefillTime(q)
           [] a \in {"fixed", "log"}   -> q.period
           [] a = "counter"            -> 2 * q.period

\* The first test that fails, of a sequence of what must not be and its error.
FirstError(tests) ==
    LET failed == {i \in DOMAIN tests : tests[i].fails}
    IN  IF failed = {} THEN {} ELSE {tests[Min(failed)].error}

\* RateLimiterError, in the order in which a builder's settings are tested.
Errors ==
    <<"ZeroQuota", "ZeroPeriod", "ZeroBurst", "RateTooHigh", "LimitTooLarge",
      "ShardCountOutOfRange", "IdleTtlTooShort">>

Test(fails, error) == [fails |-> fails, error |-> error]

\* gcra::validate: an emission interval is at least a nanosecond.
GcraTests(q) ==
    <<Test(q.limit = 0, "ZeroQuota"), Test(q.period = 0, "ZeroPeriod"),
      Test(q.burst = 0, "ZeroBurst"), Test(q.limit > q.period, "RateTooHigh")>>

\* A leaky bucket may have no burst: a mutant of QuotaTests.
QuotaTestsLax(a, q) ==
    <<Test(q.limit = 0, "ZeroQuota"), Test(q.period = 0, "ZeroPeriod")>>
        \o (CASE a = "token" -> <<Test(q.burst = 0, "ZeroBurst")>>
              [] a = "leaky" -> <<Test(q.limit > q.period, "RateTooHigh")>>
              [] a = "log"   -> <<Test(q.limit > MaxLogLimit, "LimitTooLarge")>>
              [] OTHER       -> <<>>)

\* Algorithm::validate.
QuotaTests(a, q) ==
    <<Test(q.limit = 0, "ZeroQuota"), Test(q.period = 0, "ZeroPeriod")>>
        \o (CASE a = "token" -> <<Test(q.burst = 0, "ZeroBurst")>>
              [] a = "leaky" -> GcraTests(q)
              [] a = "log"   -> <<Test(q.limit > MaxLogLimit, "LimitTooLarge")>>
              [] OTHER       -> <<>>)

\* fresh_snapshot: what a key never seen may spend, 0 if the quota is closed.
Capacity(a, q) ==
    IF DegenerateRate(q) THEN 0 ELSE IF a \in {"token", "leaky"} THEN q.burst ELSE q.limit

\* GcraParams::new: a rate past one unit a nanosecond is brought down to it.
LeakyLimit(q) == Min({q.limit, q.period})

-----------------------------------------------------------------------------
\* Store::new.

DefaultShardCount == Clamped(NextPowerOfTwo(Parallelism * 4), 1, MaxDefaultShards)

ShardsForCap(e) == CeilDiv(OrElse(e.maxKeys, 1), IF e.maxKeys = {} THEN 1 ELSE MaxKeysPerShard)

ShardCount(shards, e) == NextPowerOfTwo(Clamped(Max({shards, ShardsForCap(e)}), 1, MaxShards))

\* The cap's remainder is dropped: a mutant of PerShardCap.
PerShardCapFloored(count, e) ==
    IF e.maxKeys = {} THEN MaxSlots ELSE Clamped(OrElse(e.maxKeys, 0) \div count, 1, MaxSlots)

PerShardCap(count, e) ==
    IF e.maxKeys = {} THEN MaxSlots ELSE Clamped(CeilDiv(OrElse(e.maxKeys, 0), count), 1, MaxSlots)

\* The TTL in milliseconds, with the one added for the floored stamps.
IdleTtlMs(e, minIdle) == {CeilDiv(Max({i, minIdle}), TicksPerMs) + 1 : i \in e.ttl}

\* TableSize::for_cap and with_overflow.
TableSize(cap, e) ==
    [buckets |-> NextPowerOfTwo(Clamped(CeilDiv(cap * ExactPerKey, BucketRecords), MinBuckets, MaxBuckets)),
     cells   |-> IF e.overflow = "Forget" THEN MinCells
                 ELSE NextPowerOfTwo(Clamped(cap * CellsPerKey, MinCells, MaxCells)),
     forget  |-> e.overflow = "Forget"]

SizedStore(a, count, cap, e, minIdle) ==
    [algorithm |-> a, shardCount |-> count, cap |-> cap, idleTtlMs |-> IdleTtlMs(e, minIdle), table |-> TableSize(cap, e)]

\* Keyed::new: the store of the algorithm.
StoreOf(a, shards, e, minIdle) ==
    LET count == ShardCount(shards, e)
    IN  SizedStore(a, count, PerShardCap(count, e), e, minIdle)

-----------------------------------------------------------------------------
VARIABLES
    stage,      \* "builder", or what became of it: "built", "direct" or an error
    builder,    \* the Builder's fields, and once it is built the limiter's
    store,      \* the sizes of the store
    asked       \* ledger: what the program last asked for, setting by setting

vars == <<stage, builder, store, asked>>

NoStore ==
    [algorithm |-> "none", shardCount |-> 0, cap |-> 0, idleTtlMs |-> {}, table |-> [buckets |-> 0, cells |-> 0, forget |-> FALSE]]

\* Builder::new.
NewBuilder ==
    [algorithm |-> "token", limit |-> 0, period |-> 1, burst |-> {}, shards |-> {},
     eviction |-> DefaultEviction, options |-> NoOptions]

TypeOK ==
    /\ stage \in {"builder", "built", "direct"} \cup Range(Errors)
    /\ builder.algorithm \in Algorithms
    /\ stage = "built" <=> store # NoStore

Init ==
    /\ stage = "builder"
    /\ builder = NewBuilder
    /\ store = NoStore
    /\ asked = NewBuilder

\* quota_value.
QuotaValue(b) == [limit |-> b.limit, period |-> b.period, burst |-> OrElse(b.burst, b.limit)]

\* A setter of the builder.
Set(b) ==
    /\ stage = "builder"
    /\ builder' = b
    /\ asked' = b
    /\ UNCHANGED <<stage, store>>

SetAlgorithm == \E a \in Algorithms : Set([builder EXCEPT !.algorithm = a])

\* quota, per_second and per_minute.
SetQuota == \E l \in Limits, p \in Periods : Set([builder EXCEPT !.limit = l, !.period = p])

SetBurst == \E n \in Bursts : Set([builder EXCEPT !.burst = {n}])

SetShards == \E n \in ShardCounts : Set([builder EXCEPT !.shards = {n}])

SetEviction == \E e \in Made \cup Adjusted(builder.eviction) : Set([builder EXCEPT !.eviction = e])

\* max_key_len, digest_keys_longer_than and quota_for.
SetOptions == \E o \in Options \ {NoOptions} : Set([builder EXCEPT !.options = o])

\* clock: a builder of another type, with a copy of every other setting.
SetClock ==
    /\ stage = "builder"
    /\ builder' = [algorithm |-> builder.algorithm, limit |-> builder.limit, period |-> builder.period,
                   burst |-> builder.burst, shards |-> builder.shards, eviction |-> builder.eviction,
                   options |-> builder.options]
    /\ UNCHANGED <<stage, store, asked>>

\* RateLimiter::build of the fields of a builder: the store is made anew.
BuildFrom(b) ==
    /\ stage' = "built"
    /\ builder' = b
    /\ store' = StoreOf(b.algorithm, OrElse(b.shards, DefaultShardCount), b.eviction, RecoveryTime(b.algorithm, QuotaValue(b)))

Build ==
    /\ stage = "builder"
    /\ BuildFrom([builder EXCEPT !.shards = {OrElse(@, DefaultShardCount)}])
    /\ UNCHANGED asked

\* validate: no error, or the first.
Error(b) ==
    LET q == QuotaValue(b)
    IN  FirstError(QuotaTests(b.algorithm, q) \o
            <<Test(\E n \in b.shards : n = 0 \/ n > MaxShards, "ShardCountOutOfRange"),
              Test(\E i \in b.eviction.ttl : i < RecoveryTime(b.algorithm, q), "IdleTtlTooShort")>>)

TryBuild ==
    /\ stage = "builder"
    /\ IF Error(builder) = {}
       THEN BuildFrom([builder EXCEPT !.shards = {OrElse(@, DefaultShardCount)}])
       ELSE stage' \in Error(builder) /\ UNCHANGED <<builder, store>>
    /\ UNCHANGED asked

\* build_direct, and try_build_direct of a valid quota: a limiter without a store.
BuildDirect ==
    /\ stage = "builder"
    /\ stage' = "direct"
    /\ UNCHANGED <<builder, store, asked>>

TryBuildDirect ==
    /\ stage = "builder"
    /\ stage' = OrElse(FirstError(QuotaTests(builder.algorithm, QuotaValue(builder))), "direct")
    /\ UNCHANGED <<builder, store, asked>>

\* Quota::per_second (per_minute is alike) and rate, which refuses zeros, and
\* with_burst of them.
Quotas ==
    LET unshaped == [limit : Limits, period : {NewBuilder.period}] \cup [limit : Limits \ {0}, period : Periods \ {0}]
    IN  UNION {{[limit |-> u.limit, period |-> u.period, burst |-> n] : n \in Bursts \cup {u.limit}} : u \in unshaped}

\* The defaults, with a quota.
OfQuota(q) == [NewBuilder EXCEPT !.limit = q.limit, !.period = q.period, !.burst = {q.burst}]

\* RateLimiter::with_quota, per_second and per_minute: no builder, the defaults
\* for the rest.
WithQuota ==
    /\ stage = "builder" /\ builder = NewBuilder
    /\ \E q \in Quotas :
        /\ BuildFrom([OfQuota(q) EXCEPT !.shards = {DefaultShardCount}])
        /\ asked' = OfQuota(q)

\* DirectLimiter::with_quota, per_second and per_minute.
DirectWithQuota ==
    /\ stage = "builder" /\ builder = NewBuilder
    /\ stage' = "direct"
    /\ \E q \in Quotas : builder' = OfQuota(q) /\ asked' = OfQuota(q)
    /\ UNCHANGED store

\* A limiter built again keeps the rounded shard count: a mutant of Again.
AgainRounded(b) == BuildFrom([b EXCEPT !.shards = {store.shardCount}])

\* A with_ method consumes the limiter and builds another from its fields.
Again(b) == BuildFrom(b)

WithAlgorithm ==
    /\ stage = "built"
    /\ \E a \in Algorithms :
        /\ Again([builder EXCEPT !.algorithm = a])
        /\ asked' = [asked EXCEPT !.algorithm = a]

\* The clock is no setting of the store's.
WithClock ==
    /\ stage = "built"
    /\ Again(builder)
    /\ UNCHANGED asked

WithShards ==
    /\ stage = "built"
    /\ \E n \in ShardCounts :
        /\ Again([builder EXCEPT !.shards = {n}])
        /\ asked' = [asked EXCEPT !.shards = {n}]

WithEviction ==
    /\ stage = "built"
    /\ \E e \in Made \cup Adjusted(builder.eviction) :
        /\ Again([builder EXCEPT !.eviction = e])
        /\ asked' = [asked EXCEPT !.eviction = e]

Next ==
    \/ SetAlgorithm \/ SetQuota \/ SetBurst \/ SetShards \/ SetEviction \/ SetOptions \/ SetClock
    \/ WithQuota \/ DirectWithQuota \/ Build \/ TryBuild \/ BuildDirect \/ TryBuildDirect
    \/ WithClock \/ WithAlgorithm \/ WithShards \/ WithEviction

Spec == Init /\ [][Next]_vars

-----------------------------------------------------------------------------
\* The limiter a builder's settings make, were they built.
Would(b) == StoreOf(b.algorithm, OrElse(b.shards, DefaultShardCount), b.eviction, RecoveryTime(b.algorithm, QuotaValue(b)))

\* build takes the settings as they are: it neither fails closed, nor admits at
\* another rate, nor adjusts them.  It has no ceiling for a sliding log.
TakenAsAsked(b) ==
    LET q == QuotaValue(b)
    IN  /\ Capacity(b.algorithm, q) > 0
        /\ b.algorithm = "leaky" => LeakyLimit(q) = q.limit
        /\ \A n \in b.shards : n > 0 /\ Would(b).shardCount >= n
        /\ \A i \in b.eviction.ttl : Max({i, RecoveryTime(b.algorithm, q)}) = i

\* What the documentation of an error advises.
Remedies(b, error) ==
    CASE error = "ZeroQuota"            -> {[b EXCEPT !.limit = 1]}
      [] error = "ZeroPeriod"           -> {[b EXCEPT !.period = 1]}
      [] error = "ZeroBurst"            -> {[b EXCEPT !.burst = {}], [b EXCEPT !.burst = {1}]}
      [] error = "RateTooHigh"          -> {[b EXCEPT !.period = b.limit], [b EXCEPT !.limit = b.period]}
      [] error = "LimitTooLarge"        -> {[b EXCEPT !.limit = MaxLogLimit], [b EXCEPT !.algorithm = "counter"]}
      [] error = "ShardCountOutOfRange" -> {[b EXCEPT !.shards = {1}], [b EXCEPT !.shards = {MaxShards}]}
      [] error = "IdleTtlTooShort"      -> {[b EXCEPT !.eviction.ttl = {RecoveryTime(b.algorithm, QuotaValue(b))}]}

\* Every error of a remedied builder is one that is tested later.
Helps(remedied, error) ==
    \A later \in Error(remedied), i, j \in DOMAIN Errors : Errors[i] = error /\ Errors[j] = later => i < j

\* What try_build lets through, build takes as it is: the limiter admits
\* something at the asked rate, with at least the asked shards and the asked idle
\* time.  What try_build refuses, build would not have taken unchanged, with one
\* exception: a sliding log of more times than MAX_SLIDING_LOG_LIMIT, which build
\* makes as asked (validate, against AlgoState::new, GcraParams::new and
\* Store::new; "the infallible build does not enforce the ceiling").  And
\* "each variant names exactly which constraint was violated so the caller can
\* correct the specific field" (RateLimiterError): whatever else is set, a
\* correction of that one field gets past the test, so that seven corrections are
\* always enough.
ValidationExact ==
    stage = "builder" =>
        /\ Error(builder) = {} => TakenAsAsked(builder)
        /\ TakenAsAsked(builder) /\ Error(builder) # {} =>
            Error(builder) = {"LimitTooLarge"} /\ builder.algorithm = "log" /\ builder.limit > MaxLogLimit
        /\ \A error \in Error(builder) : \A b \in Remedies(builder, error) : Helps(b, error)

\* When a key drained at `now` is whole, by the modules of the algorithms.
WholeAt(a, q, now) ==
    CASE a = "token"   -> CeilDiv(now * q.limit + q.burst * q.period, q.limit)
      [] a = "leaky"   -> LET rate == LeakyLimit(q)
                          IN  CeilDiv(((now * rate) \div q.period + q.burst) * q.period, rate)
      [] a = "fixed"   -> (now \div q.period + 1) * q.period
      [] a = "log"     -> now + q.period
      [] a = "counter" -> (now \div q.period + 2) * q.period

\* The first instant at which a key last checked at `now` counts as idle.
ExpiresAt(ttlMs, now) == (now \div TicksPerMs + ttlMs) * TicksPerMs

\* "An idle TTL never evicts a key before it could have recovered its full
\* allowance" (RateLimiter::build): whatever was asked for, and however often the
\* limiter was built again, a key of the limiter's quota that has expired is
\* whole.  A leaky bucket whose rate is brought down to one unit a nanosecond is
\* exempt: recovery_time reckons with the rate asked for.
ExpiredIsWhole ==
    LET q == QuotaValue(builder)
    IN  /\ stage = "built"
        /\ Capacity(builder.algorithm, q) > 0
        /\ builder.algorithm = "leaky" => LeakyLimit(q) = q.limit
        => \A ms \in store.idleTtlMs, now \in 0..2 * q.period :
            WholeAt(builder.algorithm, q, now) =< ExpiresAt(ms, now)

\* The shards together hold the cap that was asked for and fewer than one key a
\* shard more, no capped shard is larger than a pass under its lock may be unless
\* the shard count is at its bound, and the recovery table has room for the debts
\* of ExactPerKey evicted keys a slot unless it is at its bound (Store::new,
\* TableSize::for_cap).
SizedForCap ==
    stage = "built" =>
        /\ \E i \in 0..16 : store.shardCount = 2^i
        /\ store.shardCount =< MaxShards
        /\ \A m \in builder.eviction.maxKeys :
            /\ store.cap * store.shardCount >= Min({m, MaxSlots * store.shardCount})
            /\ store.cap * store.shardCount < Max({m, 1}) + store.shardCount
            /\ store.cap =< MaxKeysPerShard \/ store.shardCount = MaxShards
        /\ store.table.buckets * BucketRecords >= ExactPerKey * store.cap \/ store.table.buckets = MaxBuckets

\* Building again loses no setting: after any with_ methods in any order the
\* limiter is the one a builder makes of everything last asked for (Builder::clock,
\* with_clock, with_algorithm, with_shards, with_eviction).
BuiltAsAsked == stage = "built" => store = Would(asked) /\ builder.options = asked.options
=============================================================================
