---------------------------- MODULE KeyedLimiter ----------------------------
(***************************************************************************)
(* RateLimiter of src/limiter.rs: what it does with a key before the store *)
(* sees it (the limit on key lengths, digests, quotas of its own) and with *)
(* the store's answer.  The store keeps a leaky bucket per key, as         *)
(* KeyState has it; a call of it is one step here, and an eviction records *)
(* exactly what the key owed (Shard and RecoveryTable take both apart).    *)
(***************************************************************************)
EXTENDS Keys, Functions

CONSTANTS
    Period,         \* the ticks in which a unit drains
    DefaultLimit,   \* the limit of the limiter's quota
    MaxRate,        \* the largest limit that is valid for the algorithm
    Resolve(_)      \* quota_for: the limit of a key with a quota of its own, if it has one

ASSUME QuotaAssumption ==
    /\ {Period, DefaultLimit, MaxRate} \subseteq Nat \ {0}
    /\ DefaultLimit =< MaxRate

State(limit) == INSTANCE KeyState WITH Algorithm <- "bucket", Limit <- limit, Refill <- 1

\* Duration::MAX.
Never == -1

-----------------------------------------------------------------------------
\* What the limiter does with a key.

KeyOptions(max, over, quotaFor) == [maxKeyLen |-> max, digestOver |-> over, quotaFor |-> quotaFor]

\* admit: the key the store is asked for, or none if it is too long.
Admit(o, key) ==
    IF \E max \in o.maxKeyLen : KeyLen(key) > max
    THEN {}
    ELSE IF \E over \in o.digestOver : KeyLen(key) > over THEN {Digest("limiter", key)} ELSE {key}

\* QuotaFn::resolve, if there is a quota_for.
Resolved(o, key) == IF o.quotaFor THEN Resolve(key) ELSE {}

\* quota_of_ref, of the key as it was given: an invalid quota admits nothing.
QuotaOf(o, key) ==
    LET own == Resolved(o, key)
    IN  CHOOSE limit \in IF own = {} THEN {DefaultLimit} ELSE IF own \subseteq 1..MaxRate THEN own ELSE {0} : TRUE

-----------------------------------------------------------------------------
\* The store: tracked keys, each with the limit it was created with, and debts.

EmptyStore == [tracked |-> <<>>, owed |-> <<>>]

Allow == [allow |-> TRUE, retry |-> 0]

Deny(retry) == [allow |-> FALSE, retry |-> retry]

\* acquire, as Gcra does: how long until the units fit, or never.
Acquire(slot, n, now) ==
    IF State(slot.limit)!Acquires(slot.state, n, now)
    THEN Allow
    ELSE Deny(IF n > slot.limit THEN Never ELSE (slot.state.at + n - slot.limit) * Period - now)

Snapshot(limit, remaining, reset) ==
    [limit |-> limit, remaining |-> IF remaining < limit THEN remaining ELSE limit, reset |-> reset]

\* peek of a state.
SnapshotOf(slot, now) ==
    LET used == State(slot.limit)!Used(slot.state, now)
    IN  Snapshot(slot.limit, slot.limit - used, IF used = 0 THEN 0 ELSE slot.state.at * Period - now)

ClosedSnapshot == Snapshot(0, 0, Never)

FreshSnapshot(limit) == IF limit = 0 THEN ClosedSnapshot ELSE Snapshot(limit, limit, 0)

\* owed_snapshot: of a state made for the quota and charged the debt.
OwedSnapshot(debt, limit, now) ==
    IF limit = 0
    THEN ClosedSnapshot
    ELSE SnapshotOf([limit |-> limit, state |-> State(limit)!Restored(debt, now)], now)

\* The state a key is created with: whole, or with the debt recorded for it.
Created(s, key, limit, now) ==
    [limit |-> limit,
     state |-> IF key \in DOMAIN s.owed
               THEN State(limit)!Restored(s.owed[key], now)
               ELSE State(limit)!Fresh(now)]

With(f, key, value) == [k \in DOMAIN f \cup {key} |-> IF k = key THEN value ELSE f[k]]

Without(f, key) == Restrict(f, DOMAIN f \ {key})

\* The slot a check of a key finds or makes; none if its quota admits nothing.
Slots(s, stored, limit, now) ==
    IF stored \in DOMAIN s.tracked
    THEN {s.tracked[stored]}
    ELSE IF limit = 0 THEN {} ELSE {Created(s, stored, limit, now)}

\* A check of a slot, and the store with it.
Checked(s, stored, slot, n, now) ==
    [decision |-> Acquire(slot, n, now),
     store    |-> [tracked |-> With(s.tracked, stored,
                                    [slot EXCEPT !.state = State(slot.limit)!AfterCheck(@, n, now)]),
                   owed    |-> Without(s.owed, stored)]]

\* closed: no unit is ever admitted, and nothing is stored.
Closed(s, n) == [decision |-> IF n = 0 THEN Allow ELSE Deny(Never), store |-> s]

\* check_ref; a key that is too long is denied even for no units.
CheckRef(o, s, key, n, now) ==
    LET results == {IF Slots(s, stored, QuotaOf(o, key), now) = {}
                    THEN Closed(s, n)
                    ELSE Checked(s, stored, CHOOSE slot \in Slots(s, stored, QuotaOf(o, key), now) : TRUE, n, now) :
                    stored \in Admit(o, key)}
    IN  IF results = {} THEN [decision |-> Deny(Never), store |-> s] ELSE CHOOSE result \in results : TRUE

\* Store::peek: what is known of a key, its slot, a debt it still owes, or nothing.
Known(s, stored, now) ==
    IF stored \in DOMAIN s.tracked
    THEN "tracked"
    ELSE IF stored \in DOMAIN s.owed /\ s.owed[stored].until > now THEN "owed" ELSE "unknown"

\* peek_ref; nothing is left to a key that is too long.
PeekRef(o, s, key, now) ==
    LET of(stored) ==
            CASE Known(s, stored, now) = "tracked" -> SnapshotOf(s.tracked[stored], now)
              [] Known(s, stored, now) = "owed"    -> OwedSnapshot(s.owed[stored], QuotaOf(o, key), now)
              [] Known(s, stored, now) = "unknown" -> FreshSnapshot(QuotaOf(o, key))
    IN  CHOOSE snapshot \in IF Admit(o, key) = {} THEN {ClosedSnapshot} ELSE {of(stored) : stored \in Admit(o, key)} :
            TRUE

\* reset: a tracked key is made whole, what is recorded of another is forgotten.
ResetKey(o, s, key, now) ==
    [tracked |-> [k \in DOMAIN s.tracked |->
                    IF k \in Admit(o, key)
                    THEN [s.tracked[k] EXCEPT !.state = State(s.tracked[k].limit)!ResetState(@, now)]
                    ELSE s.tracked[k]],
     owed    |-> Restrict(s.owed, DOMAIN s.owed \ (Admit(o, key) \ DOMAIN s.tracked))]

\* remove: the key and what is recorded of it.
RemoveKey(o, s, key) ==
    [tracked |-> Restrict(s.tracked, DOMAIN s.tracked \ Admit(o, key)),
     owed    |-> Restrict(s.owed, DOMAIN s.owed \ Admit(o, key))]

\* retain_recent: the keys that are whole go, and the records once none is live.
Retained(s, now) ==
    [tracked |-> Restrict(s.tracked, {k \in DOMAIN s.tracked : ~State(s.tracked[k].limit)!IsFull(s.tracked[k].state, now)}),
     owed    |-> IF \E k \in DOMAIN s.owed : s.owed[k].until > now THEN s.owed ELSE <<>>]

\* evict_at: the key goes, and a debt it has is recorded.
Evicted(s, stored, now) ==
    LET slot == s.tracked[stored]
        debt == State(slot.limit)!DebtOf(slot.state, now)
    IN  [tracked |-> Without(s.tracked, stored),
         owed    |-> IF debt.spent = 0 THEN s.owed ELSE With(s.owed, stored, debt)]
=============================================================================
