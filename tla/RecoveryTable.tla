---------------------------- MODULE RecoveryTable ----------------------------
(***************************************************************************)
(* The recovery table of src/store.rs, as operators on a value: an exact   *)
(* table of debts, cuckoo-hashed into buckets, and a shared overflow       *)
(* sketch for the debts the exact table has no room for.                   *)
(*                                                                         *)
(* A key is known to the table by a tag and two candidate buckets.  The    *)
(* hash arithmetic behind them is left to the constants Home, Tag, Alt and *)
(* CellsOf, of which only what the table relies on is assumed.  A table    *)
(* that is not allocated behaves as an empty one, and is modelled as one.  *)
(***************************************************************************)
EXTENDS Integers

CONSTANTS
    Key,            \* the keys of one shard
    Buckets,        \* the buckets of the exact table
    Cells,          \* the cells of the sketch
    Home,           \* the first bucket of each key
    Tag,            \* the tag of each key
    Alt(_, _),      \* a record's other bucket, from its bucket and tag
    CellsOf(_, _),  \* the two cells for a tag and the lower of its two buckets
    Places,         \* BUCKET_RECORDS: records per bucket
    MaxKicks,       \* MAX_KICKS: records one insertion may move
    WalkBackoff,    \* WALK_BACKOFF: debts that skip the walk after a failed one
    SpentMax,       \* SPENT_MAX: the largest spent count of a cell
    AllUnits,       \* u32::MAX: what a cell with a full spent count reads back as
    Policies        \* the values of TableSize::forget: TRUE for Overflow::Forget

ASSUME TableAssumption ==
    /\ Buckets \subseteq Nat
    /\ Places \in Nat \ {0}
    /\ MaxKicks \in Nat \ {0}
    /\ WalkBackoff \in Nat
    /\ SpentMax \in Nat \ {0}
    /\ AllUnits \in Nat
    /\ SpentMax =< AllUnits
    /\ Policies \subseteq BOOLEAN

\* alt_bucket is an involution without fixed points, and cells_of picks two
\* different cells.
ASSUME HashAssumption ==
    /\ Home \in [Key -> Buckets]
    /\ Tag \in [Key -> Nat \ {0}]
    /\ \A b \in Buckets, k \in Key :
        /\ Alt(b, Tag[k]) \in Buckets \ {b}
        /\ Alt(Alt(b, Tag[k]), Tag[k]) = b
        /\ \E c, d \in Cells : c # d /\ CellsOf(Tag[k], b) = {c, d}

\* Two keys of a shard that share a bucket differ in their 32-bit tags.
ASSUME TagsAssumption ==
    \A j, k \in Key :
        j # k /\ Tag[j] = Tag[k] => Home[j] \notin {Home[k], Alt(Home[k], Tag[k])}

-----------------------------------------------------------------------------
Larger(a, b) == IF a < b THEN b ELSE a

Smaller(a, b) == IF a < b THEN a ELSE b

Least(S) == CHOOSE x \in S : \A y \in S : x =< y

Slots == 0..Places - 1

\* No position, no debt.
Nowhere == <<>>

NoDebt == [spent |-> 0, until |-> 0]

EmptyRecord == [tag |-> 0, spent |-> 0, until |-> 0, inherited |-> FALSE]

EmptyTable(forget) ==
    [forget  |-> forget,
     buckets |-> [b \in Buckets |-> [r \in Slots |-> EmptyRecord]],
     cells   |-> [c \in Cells |-> NoDebt],
     turn    |-> 0,
     backoff |-> 0]

IsLive(record, ms) == record.tag # 0 /\ record.until > ms

\* The two buckets of a key, in the order they are tried.
BucketsOf(k) == <<Home[k], Alt(Home[k], Tag[k])>>

\* The cells of a record, from any bucket it may be found in.
CellsAt(tag, b) == CellsOf(tag, Smaller(b, Alt(b, tag)))

\* The places of a bucket whose record satisfies a condition; the first bucket
\* of a key that has one.
Matching(t, b, Test(_)) == {r \in Slots : Test(t.buckets[b][r])}

FirstMatch(t, k, Test(_)) ==
    LET first  == Matching(t, BucketsOf(k)[1], Test)
        second == Matching(t, BucketsOf(k)[2], Test)
    IN  IF first # {} THEN <<BucketsOf(k)[1], Least(first)>>
        ELSE IF second # {} THEN <<BucketsOf(k)[2], Least(second)>>
        ELSE Nowhere

\* The tag is not compared: a mutant of Own.
OwnUntagged(t, k, ms) == LET Mine(record) == IsLive(record, ms) IN FirstMatch(t, k, Mine)

\* The place of the key's own live record.
Own(t, k, ms) == LET Mine(record) == record.tag = Tag[k] /\ IsLive(record, ms) IN FirstMatch(t, k, Mine)

At(t, place) == t.buckets[place[1]][place[2]]

Put(t, place, record) == [t EXCEPT !.buckets[place[1]][place[2]] = record]

FreeIn(t, b, ms) == LET Free(record) == ~IsLive(record, ms) IN Matching(t, b, Free)

\* Inherited debts may move as well: a mutant of Movable.
MovableAny(record, ms) == IsLive(record, ms)

Movable(record, ms) == IsLive(record, ms) /\ ~record.inherited

\* A full bucket counts as room: a mutant of HasExactRoom.
HasExactRoomAlways(t, k, ms) == TRUE

\* Whether the exact table can take an inherited debt of the key.
HasExactRoom(t, k, ms) ==
    \/ Own(t, k, ms) # Nowhere
    \/ LET Yields(record) == ~IsLive(record, ms) \/ ~record.inherited
       IN  FirstMatch(t, k, Yields) # Nowhere

\* movable_in: the first record that may move, from a rotating offset on, and
\* the table with the offset advanced.
MovableIn(t, b, ms) ==
    LET Moves(record) == Movable(record, ms)
        steps == {i \in Slots : ((t.turn + i) % Places) \in Matching(t, b, Moves)}
    IN  [table |-> [t EXCEPT !.turn = (@ + 1) % Places],
         place |-> IF steps = {} THEN Nowhere ELSE <<b, (t.turn + Least(steps)) % Places>>]

-----------------------------------------------------------------------------
\* The sketch.

Packed(until, spent) == [until |-> until, spent |-> Smaller(spent, SpentMax)]

Unpacked(cell) == [cell EXCEPT !.spent = IF @ = SpentMax THEN AllUnits ELSE @]

\* The last debt written wins: a mutant of Raised.
RaisedToLast(cell, record, ms) == Packed(record.until, record.spent)

Raised(cell, record, ms) ==
    LET old == Unpacked(cell)
    IN  IF old.until > ms
        THEN Packed(Larger(old.until, record.until), Larger(old.spent, record.spent))
        ELSE Packed(record.until, record.spent)

Overflow(t, record, b, ms) ==
    [t EXCEPT !.cells = [c \in Cells |->
        IF c \in CellsAt(record.tag, b) THEN Raised(t.cells[c], record, ms) ELSE t.cells[c]]]

\* The charge of two live cells: the smaller deadline and the smaller spend.
Shared(t, k, ms) ==
    LET cells == {Unpacked(t.cells[c]) : c \in CellsAt(Tag[k], Home[k])}
    IN  IF \A cell \in cells : cell.until > ms
        THEN [spent |-> Least({cell.spent : cell \in cells}),
              until |-> Least({cell.until : cell \in cells})]
        ELSE NoDebt

-----------------------------------------------------------------------------
\* Recovery::record.  A result is the table, how the debt was stored ("exact",
\* "overflowed", "forgotten", or "none" when an inherited debt finds no place)
\* and the record that went to the sketch, if any, with the bucket it was at.

Spill(t, record, b, ms) ==
    IF t.forget
    THEN [table |-> t, how |-> "forgotten", spilled |-> {}]
    ELSE [table |-> Overflow(t, record, b, ms), how |-> "overflowed", spilled |-> {<<record, b>>}]

\* The key's own record keeps the larger of each, and stays inherited.
Merged(own, debt, inherited) ==
    [tag       |-> own.tag,
     spent     |-> Larger(own.spent, debt.spent),
     until     |-> Larger(own.until, debt.until),
     inherited |-> own.inherited \/ inherited]

\* One move of the walk: the homeless record takes a place, and the record it
\* displaces looks for one in its other bucket.
Kick(w, last, ms) ==
    LET out   == At(w.table, w.place)
        t     == Put(w.table, w.place, w.homeless)
        b     == Alt(w.place[1], out.tag)
        free  == FreeIn(t, b, ms)
        next  == MovableIn(t, b, ms)
        After(u, place, state) == [table |-> u, homeless |-> out, place |-> place, state |-> state]
    IN  IF free # {}
        THEN After(Put(t, <<b, Least(free)>>, out), <<b, 0>>, "placed")
        ELSE IF last
        THEN After(t, <<b, 0>>, "stuck")
        ELSE IF next.place = Nowhere
        THEN After(next.table, <<b, 0>>, "stuck")
        ELSE After(next.table, next.place, "walking")

Walk(t, record, place, budget, ms) ==
    LET w[k \in 0..budget] ==
            IF k = 0
            THEN [table |-> t, homeless |-> record, place |-> place, state |-> "walking"]
            ELSE LET before == w[k - 1]
                 IN  IF before.state = "walking" THEN Kick(before, k = budget, ms) ELSE before
    IN  w[budget]

\* The end of a walk: every record has a place, or the homeless one spills and
\* walks are skipped for a while.
WalkEnd(w, ms) ==
    IF w.state = "placed"
    THEN [table |-> w.table, how |-> "exact", spilled |-> {}]
    ELSE Spill([w.table EXCEPT !.backoff = WalkBackoff], w.homeless, w.place[1], ms)

\* A walk from the record that may move, if there is one.
WalkFrom(start, k, record, budget, ms) ==
    IF start.place # Nowhere
    THEN WalkEnd(Walk(start.table, record, start.place, budget, ms), ms)
    ELSE IF record.inherited
    THEN [table |-> start.table, how |-> "none", spilled |-> {}]
    ELSE Spill(start.table, record, Home[k], ms)

\* What may move in the key's first bucket, or else in its second.
WalkStart(first, k, ms) ==
    IF first.place # Nowhere THEN first ELSE MovableIn(first.table, BucketsOf(k)[2], ms)

\* Both buckets are full of live debts: walk, unless a walk failed lately.
Displace(t, k, record, ms) ==
    LET backing == t.backoff > 0
        rested  == IF backing THEN [t EXCEPT !.backoff = @ - 1] ELSE t
    IN  IF backing /\ ~record.inherited
        THEN Spill(rested, record, Home[k], ms)
        ELSE WalkFrom(WalkStart(MovableIn(rested, BucketsOf(k)[1], ms), k, ms),
                      k, record, IF backing THEN 1 ELSE MaxKicks, ms)

Recorded(t, k, debt, ms, inherited) ==
    LET own    == Own(t, k, ms)
        Free(r) == ~IsLive(r, ms)
        free   == FirstMatch(t, k, Free)
        record == [tag |-> Tag[k], spent |-> debt.spent, until |-> debt.until, inherited |-> inherited]
    IN  IF own # Nowhere
        THEN [table |-> Put(t, own, Merged(At(t, own), debt, inherited)), how |-> "exact", spilled |-> {}]
        ELSE IF free # Nowhere
        THEN [table |-> Put(t, free, record), how |-> "exact", spilled |-> {}]
        ELSE Displace(t, k, record, ms)

\* Recovery::peek: what applies to a key, and whether any of it is shared.
Charge(t, k, ms) ==
    LET place  == Own(t, k, ms)
        own    == IF place = Nowhere THEN NoDebt ELSE At(t, place)
        shared == Shared(t, k, ms)
    IN  [debt   |-> [spent |-> Larger(own.spent, shared.spent), until |-> Larger(own.until, shared.until)],
         shared |-> shared # NoDebt]

\* Recovery::forget, which is also what take does to the table.
Forgotten(t, k, ms) ==
    LET place == Own(t, k, ms)
    IN  IF place = Nowhere THEN t ELSE Put(t, place, EmptyRecord)

IsSpent(t, ms) ==
    /\ \A b \in Buckets, r \in Slots : ~IsLive(t.buckets[b][r], ms)
    /\ \A c \in Cells : t.cells[c].until =< ms
=============================================================================
