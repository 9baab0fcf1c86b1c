------------------------------ MODULE Recovery ------------------------------
(***************************************************************************)
(* A recovery table at work: the shard, under its write lock, records the  *)
(* debts of the keys it evicts, takes them back as the keys return,        *)
(* forgets them on a reset, and releases a table that is spent.  A caller  *)
(* may carry a clock reading up to Lag milliseconds old.                   *)
(***************************************************************************)
EXTENDS RecoveryTable

CONSTANTS
    MaxTime,        \* bound: the last millisecond of the clock
    Spends,         \* bound: the units a key may owe
    MaxDelay,       \* bound: how far off a deadline is
    Lag             \* bound: how old a caller's clock reading is

ASSUME BoundsAssumption ==
    /\ MaxTime \in Nat
    /\ MaxDelay \in Nat \ {0}
    /\ Lag \in Nat
    /\ Spends \subseteq 1..AllUnits

Times == 0..MaxTime

VARIABLES
    clock,      \* the time, in milliseconds
    table,      \* the recovery table
    held,       \* whether a key is out, or in a slot: on its own account or seeded by the sketch
    owed,       \* ledger: what each key that is out was recorded to owe and still owes
    share,      \* ledger: the deadline of the sketch's part of what a key was charged, until it passes
    spread,     \* ledger: whether a charge read from the sketch was written back to it
    misled      \* ledger: whether a caller acted, by an old reading, on a record that had expired

vars == <<clock, table, held, owed, share, spread, misled>>

Deadlines == 0..MaxTime + MaxDelay

\* The clock readings a caller may carry.
Readings == {ms \in Times : clock - Lag =< ms /\ ms =< clock}

Debts == [spent : {0} \union Spends, until : Deadlines]

Records == [tag : Nat, spent : {0} \union Spends, until : Deadlines, inherited : BOOLEAN]

Tables ==
    [forget  : Policies,
     buckets : [Buckets -> [Slots -> Records]],
     cells   : [Cells -> [spent : 0..SpentMax, until : Deadlines]],
     turn    : Slots,
     backoff : 0..WalkBackoff]

TypeOK ==
    /\ clock \in Times
    /\ table \in Tables
    /\ held \in [Key -> {"out", "own", "seeded"}]
    /\ owed \in [Key -> Debts]
    /\ share \in [Key -> Deadlines]
    /\ spread \in BOOLEAN
    /\ misled \in BOOLEAN

\* By a reading ms the key's own record is one that has expired since.
FindsExpired(k, ms) ==
    LET own == Own(table, k, ms)
    IN  own # Nowhere /\ At(table, own).until =< clock

\* A call is noted if its reading was too old for the record it found.
NoteMisled(k, ms) == misled' = (misled \/ FindsExpired(k, ms))

\* Ledgers drop what has run out.
Running(until, at) == IF until > at THEN until ELSE 0

Owing(debt, at) == IF debt.until > at THEN debt ELSE NoDebt

Init ==
    /\ clock = 0
    /\ \E forget \in Policies : table = EmptyTable(forget)
    /\ held = [k \in Key |-> "out"]
    /\ owed = [k \in Key |-> NoDebt]
    /\ share = [k \in Key |-> 0]
    /\ spread = FALSE
    /\ misled = FALSE

Tick ==
    /\ clock < MaxTime
    /\ clock' = clock + 1
    /\ owed' = [k \in Key |-> Owing(owed[k], clock + 1)]
    /\ share' = [k \in Key |-> Running(share[k], clock + 1)]
    /\ UNCHANGED <<table, held, spread, misled>>

\* The part of check that stores a key: it is charged what applies to it.
Insert(k, ms) ==
    LET charge == Charge(table, k, ms)
        own    == Own(table, k, ms)
    IN  /\ held[k] = "out"
        /\ held' = [held EXCEPT ![k] = IF charge.shared THEN "seeded" ELSE "own"]
        /\ table' = Forgotten(table, k, ms)
        /\ owed' = [owed EXCEPT ![k] = NoDebt]
        /\ share' = [share EXCEPT ![k] =
                        CASE charge.shared -> Larger(Running(Shared(table, k, ms).until, clock), IF own # Nowhere THEN @ ELSE 0)
                          [] ~charge.shared /\ own # Nowhere /\ At(table, own).inherited -> @
                          [] OTHER -> 0]
        /\ NoteMisled(k, ms)
        /\ UNCHANGED <<clock, spread>>

\* The part of evict_at that records the debt of a key that has not recovered.
EvictOwing(k, spent, until, ms) ==
    LET seeded == held[k] = "seeded"
        debt   == [spent |-> spent, until |-> until]
    IN  /\ held[k] # "out"
        /\ seeded => HasExactRoom(table, k, ms)
        /\ \E result \in {Recorded(table, k, debt, ms, seeded)} :
            /\ result.how # "none"
            /\ table' = result.table
            /\ spread' = (\/ spread
                          \/ \E j \in Key, h \in result.spilled :
                                /\ h[1].tag = Tag[j]
                                /\ h[2] \in {BucketsOf(j)[1], BucketsOf(j)[2]}
                                /\ h[1].until > clock
                                /\ share[j] # 0)
        /\ held' = [held EXCEPT ![k] = "out"]
        /\ owed' = [owed EXCEPT ![k] = Owing(debt, clock)]
        /\ NoteMisled(k, ms)
        /\ UNCHANGED <<clock, share>>

\* A key whose allowance is whole again is evicted without a record.
EvictRecovered(k) ==
    /\ held[k] # "out"
    /\ held' = [held EXCEPT ![k] = "out"]
    /\ share' = [share EXCEPT ![k] = 0]
    /\ UNCHANGED <<clock, table, owed, spread, misled>>

\* A key is reset or removed while it is out.
Forget(k, ms) ==
    /\ held[k] = "out"
    /\ table' = Forgotten(table, k, ms)
    /\ owed' = [owed EXCEPT ![k] = NoDebt]
    /\ share' = [share EXCEPT ![k] = 0]
    /\ NoteMisled(k, ms)
    /\ UNCHANGED <<clock, held, spread>>

\* retain_recent releases a spent table.
Release(ms) ==
    /\ IsSpent(table, ms)
    /\ table' = EmptyTable(table.forget)
    /\ UNCHANGED <<clock, held, owed, share, spread, misled>>

Next ==
    \/ Tick
    \/ \E ms \in Readings :
        \/ Release(ms)
        \/ \E k \in Key :
            \/ Insert(k, ms)
            \/ Forget(k, ms)
            \/ \E spent \in Spends, delay \in 1..MaxDelay : EvictOwing(k, spent, ms + delay, ms)
    \/ \E k \in Key : EvictRecovered(k)

Spec == Init /\ [][Next]_vars

-----------------------------------------------------------------------------
Live(k) == owed[k] # NoDebt

\* The places in which a key's record may be, and whether one of them holds a
\* record of the key that is live by a reading.
Spots(k) == {BucketsOf(k)[1], BucketsOf(k)[2]} \X Slots

Holds(t, k, p, ms) == At(t, p).tag = Tag[k] /\ IsLive(At(t, p), ms)

\* At most one record of the key's is live by a reading.  There may be two when
\* the reading is older than the end of a debt the key had before: an expired
\* record stays in its place until another takes it.
Alone(k, ms) == \A p, q \in Spots(k) : Holds(table, k, p, ms) /\ Holds(table, k, q, ms) => p = q

\* Under FailClosed no eviction, walk, spill or release of any key, at however
\* old a reading, ever loses or lessens a debt that another eviction recorded:
\* while a debt is live its key is charged at least its spend until at least its
\* deadline by every reading that finds one record of the key at most, and by
\* every reading of the present time until an older one has been misled.
NoDebtLost ==
    ~table.forget =>
        \A k \in Key : Live(k) =>
            \A ms \in Readings : Alone(k, ms) \/ (ms = clock /\ ~misled) =>
                LET debt == Charge(table, k, ms).debt
                IN  debt.spent >= owed[k].spent /\ debt.until >= owed[k].until

\* While the sketch charges it nothing, a key that is out is charged exactly
\* what was recorded for it: no reset and no false charge while the debts fit
\* the exact table, until a call acts by an old reading on a record that has
\* expired.  Under Forget it is charged that or, if its debt was dropped, nothing.
ExactWhileItFits ==
    ~misled => \A k \in Key :
        LET charge == Charge(table, k, clock)
        IN  held[k] = "out" /\ ~charge.shared =>
                \/ charge.debt = owed[k]
                \/ table.forget /\ charge.debt = NoDebt

\* What evict_at relies on when it ignores the None of record: the debt of a
\* seeded key that has_exact_room lets through always finds its place.
RoomIsEnough ==
    \A k \in Key, ms \in Readings :
        HasExactRoom(table, k, ms) => Recorded(table, k, NoDebt, ms, TRUE).how # "none"

\* No charge read from the sketch is written back to it while it lasts, by the
\* eviction of the key that was charged or by a walk for another: "no spreading",
\* as long as no call acted by an old reading on a record that had expired.
NoSpreading == misled \/ ~spread

-----------------------------------------------------------------------------
\* The inductive invariant.

Positions == Buckets \X Slots

\* Every record is in one of the places of its key.
Homed(t) == \A p \in Positions : At(t, p).tag # 0 => \E k \in Key : At(t, p).tag = Tag[k] /\ p \in Spots(k)

\* A debt is covered by a record of its key, or by both of its cells.
Covers(charge, debt) == charge.spent >= debt.spent /\ charge.until >= debt.until

InTable(t, k, debt) == \E p \in Spots(k) : At(t, p).tag = Tag[k] /\ Covers(At(t, p), debt)

InSketch(t, k, debt) == \A c \in CellsAt(Tag[k], Home[k]) : Covers(Unpacked(t.cells[c]), debt)

\* Every live debt is covered, unless debts may be forgotten.
Backed ==
    \A k \in Key : Live(k) =>
        /\ owed[k].until > clock
        /\ ~table.forget => InTable(table, k, owed[k]) \/ InSketch(table, k, owed[k])

\* What a key was charged from the sketch is still in both of its cells, and the
\* key is known to owe it.
SharesKnown ==
    \A k \in Key : share[k] # 0 =>
        /\ held[k] # "own"
        /\ share[k] > clock
        /\ \A c \in CellsAt(Tag[k], Home[k]) : table.cells[c].until >= share[k]

\* A live record is the only one of its key, which is out, and states what the
\* key owes and whether it was charged from the sketch.
Accurate ==
    ~misled => \A k \in Key :
        /\ Alone(k, clock)
        /\ \A p \in Spots(k) : Holds(table, k, p, clock) =>
            /\ held[k] = "out"
            /\ owed[k] = [spent |-> At(table, p).spent, until |-> At(table, p).until]
            /\ share[k] # 0 => At(table, p).inherited

IInv ==
    /\ TypeOK
    /\ Homed(table)
    /\ Backed
    /\ SharesKnown
    /\ Accurate
    /\ NoSpreading
=============================================================================
