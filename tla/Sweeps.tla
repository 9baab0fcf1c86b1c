------------------------------- MODULE Sweeps --------------------------------
(***************************************************************************)
(* The calls of a limiter that go through every shard of its store (Store  *)
(* of src/store.rs): clear, retain_recent, tracked_keys, metrics and       *)
(* recovery_load.  They hold the lock of one shard at a time, and none     *)
(* while they read the counters, so checks, evictions, removals and other  *)
(* sweeps come between any two shards.                                     *)
(*                                                                         *)
(* What happens under one lock is one step here; Shard takes it apart.  A  *)
(* key may spend one unit, and is kept as the time at which it is whole.   *)
(***************************************************************************)
EXTENDS Integers, Sequences, FiniteSets, FiniteSetsExt, Functions

CONSTANTS
    Thread,         \* the threads that sweep
    Key,            \* the keys
    ShardOf,        \* the shard of each key, by its hash
    MaxTime,        \* bound: the last instant
    MaxInserts      \* bound: how often a key is inserted

Shards == 0..Max(Range(ShardOf))

\* No slot, or no record.
None == -1

VARIABLES
    clock,      \* the time
    slots,      \* when each tracked key is whole
    owed,       \* until when the recorded debt of each evicted key lasts
    counts,     \* the counters of each shard
    sweep,      \* the call of each thread
    watch       \* ledger: what has happened since it began

vars == <<clock, slots, owed, counts, sweep, watch>>

Tracked(s) == {k \in Key : s[k] # None}

Live(o, now) == {k \in Key : o[k] > now}

In(i, keys) == {k \in keys : ShardOf[k] = i}

\* In the order in which they are read; reclaimed is evicted and expired.
Counters == <<"inserted", "reclaimed", "removed">>

Zero == [c \in Range(Counters) |-> 0]

Sum(cs, c) == MapThenSumSet(LAMBDA i : cs[i][c], Shards)

\* Nothing read so far.
Nothing == [keys |-> 0, inserted |-> 0, reclaimed |-> 0, removed |-> 0]

Idle == [op |-> "none", now |-> 0, shard |-> 0, read |-> 1, got |-> Nothing]

\* A call with nothing to compare with.
Unwatched == [checked |-> {}, always |-> {}, ever |-> {}, counts |-> Zero]

\* What a reading counts, of some slots and records.
Counted(c, s, o) == CASE c.op = "len" -> Tracked(s) [] c.op = "load" -> Live(o, c.now) [] OTHER -> {}

Init ==
    /\ clock = 0
    /\ slots = [k \in Key |-> None]
    /\ owed = [k \in Key |-> None]
    /\ counts = [i \in Shards |-> Zero]
    /\ sweep = [t \in Thread |-> Idle]
    /\ watch = [t \in Thread |-> Unwatched]

-----------------------------------------------------------------------------
\* The ledgers after a step.
Watch(checked) ==
    watch' = [t \in Thread |->
        [watch[t] EXCEPT
            !.checked = IF sweep[t].op \in {"clear", "retain"} THEN @ \cup checked ELSE @,
            !.always  = @ \cap Counted(sweep[t], slots', owed'),
            !.ever    = @ \cup Counted(sweep[t], slots', owed')]]

Count(i, c, n) == counts' = [counts EXCEPT ![i][c] = @ + n]

Elapse ==
    /\ clock < MaxTime
    /\ clock' = clock + 1
    /\ UNCHANGED <<slots, owed, counts, sweep, watch>>

\* check of a tracked key: admitted if it is whole.
Check(k) ==
    /\ slots[k] # None
    /\ slots' = [slots EXCEPT ![k] = IF @ =< clock THEN clock + 1 ELSE @]
    /\ UNCHANGED <<clock, owed, counts, sweep>>
    /\ Watch({k})

\* check of another: it is inserted with the debt recorded for it, or whole and spends.
Insert(k) ==
    /\ slots[k] = None
    /\ Sum(counts, "inserted") < MaxInserts
    /\ slots' = [slots EXCEPT ![k] = IF owed[k] > clock THEN owed[k] ELSE clock + 1]
    /\ owed' = [owed EXCEPT ![k] = None]
    /\ Count(ShardOf[k], "inserted", 1)
    /\ Watch({k})
    /\ UNCHANGED <<clock, sweep>>

\* A key is evicted or expires, and what it owes is recorded.
Reclaim(k) ==
    /\ slots[k] # None
    /\ slots' = [slots EXCEPT ![k] = None]
    /\ owed' = [owed EXCEPT ![k] = IF slots[k] > clock THEN slots[k] ELSE @]
    /\ Count(ShardOf[k], "reclaimed", 1)
    /\ Watch({})
    /\ UNCHANGED <<clock, sweep>>

Remove(k) ==
    /\ slots[k] # None \/ owed[k] # None
    /\ slots' = [slots EXCEPT ![k] = None]
    /\ owed' = [owed EXCEPT ![k] = None]
    /\ Count(ShardOf[k], "removed", IF slots[k] = None THEN 0 ELSE 1)
    /\ Watch({})
    /\ UNCHANGED <<clock, sweep>>

-----------------------------------------------------------------------------
\* A sweep reads the clock and starts at the first shard.
Begin(t, op) ==
    LET call == [Idle EXCEPT !.op = op, !.now = IF op \in {"retain", "load"} THEN clock ELSE 0]
    IN  /\ sweep[t].op = "none"
        /\ sweep' = [sweep EXCEPT ![t] = call]
        /\ watch' = [watch EXCEPT ![t] =
                [checked |-> {},
                 always  |-> Counted(call, slots, owed),
                 ever    |-> Counted(call, slots, owed),
                 counts  |-> IF op = "metrics" THEN [c \in Range(Counters) |-> Sum(counts, c)] ELSE Zero]]
        /\ UNCHANGED <<clock, slots, owed, counts>>

Clear(t) == Begin(t, "clear")

RetainRecent(t) == Begin(t, "retain")

TrackedKeys(t) == Begin(t, "len")

Metrics(t) == Begin(t, "metrics")

RecoveryLoad(t) == Begin(t, "load")

\* Whether a call is at a shard.
At(t, op) == sweep[t].op = op /\ sweep[t].shard \in Shards

\* On to the next shard, with what was read of this one.
NextShard(t, n) == sweep' = [sweep EXCEPT ![t].shard = @ + 1, ![t].got.keys = @ + n]

\* A shard without keys keeps its table: a mutant of ClearShard.
ClearShardInUse(t) ==
    LET i == sweep[t].shard
    IN  /\ At(t, "clear")
        /\ slots' = [k \in Key |-> IF ShardOf[k] = i THEN None ELSE slots[k]]
        /\ owed' = [k \in Key |-> IF ShardOf[k] = i /\ In(i, Tracked(slots)) # {} THEN None ELSE owed[k]]
        /\ Count(i, "removed", Cardinality(In(i, Tracked(slots))))
        /\ NextShard(t, 0)
        /\ Watch({})
        /\ UNCHANGED clock

\* The shard's map is a new one, and so is its table.
ClearShard(t) ==
    LET i == sweep[t].shard
    IN  /\ At(t, "clear")
        /\ slots' = [k \in Key |-> IF ShardOf[k] = i THEN None ELSE slots[k]]
        /\ owed' = [k \in Key |-> IF ShardOf[k] = i THEN None ELSE owed[k]]
        /\ Count(i, "removed", Cardinality(In(i, Tracked(slots))))
        /\ NextShard(t, 0)
        /\ Watch({})
        /\ UNCHANGED clock

\* Every key that was whole at the reading of the call goes, and so does the
\* shard's table once no record in it is live.  The keys of a shard are one chunk.
RetainShard(t) ==
    LET i     == sweep[t].shard
        now   == sweep[t].now
        full  == {k \in In(i, Tracked(slots)) : slots[k] =< now}
        spent == IF In(i, Live(owed, now)) = {} THEN In(i, Key) ELSE {}
    IN  /\ At(t, "retain")
        /\ slots' = [k \in Key |-> IF k \in full THEN None ELSE slots[k]]
        /\ owed' = [k \in Key |-> IF k \in spent THEN None ELSE owed[k]]
        /\ Count(i, "removed", Cardinality(full))
        /\ NextShard(t, Cardinality(full))
        /\ Watch({})
        /\ UNCHANGED clock

LenShard(t) ==
    /\ At(t, "len")
    /\ NextShard(t, Cardinality(In(sweep[t].shard, Tracked(slots))))
    /\ UNCHANGED <<clock, slots, owed, counts, watch>>

LoadShard(t) ==
    /\ At(t, "load")
    /\ NextShard(t, Cardinality(In(sweep[t].shard, Live(owed, sweep[t].now))))
    /\ UNCHANGED <<clock, slots, owed, counts, watch>>

\* add_to: the counters of a shard one by one, a relaxed load each.
AddTo(t) ==
    LET c == Counters[sweep[t].read]
    IN  /\ At(t, "metrics")
        /\ sweep' = [sweep EXCEPT
                ![t].got[c] = @ + counts[sweep[t].shard][c],
                ![t].read   = IF @ = Len(Counters) THEN 1 ELSE @ + 1,
                ![t].shard  = IF sweep[t].read = Len(Counters) THEN @ + 1 ELSE @]
        /\ UNCHANGED <<clock, slots, owed, counts, watch>>

Done(t) == sweep[t].op # "none" /\ sweep[t].shard \notin Shards

Return(t) ==
    /\ Done(t)
    /\ sweep' = [sweep EXCEPT ![t] = Idle]
    /\ watch' = [watch EXCEPT ![t] = Unwatched]
    /\ UNCHANGED <<clock, slots, owed, counts>>

Step(t) ==
    \/ ClearShard(t) \/ RetainShard(t) \/ LenShard(t) \/ LoadShard(t)
    \/ AddTo(t) \/ Return(t)

Next ==
    \/ Elapse
    \/ \E k \in Key : Check(k) \/ Insert(k) \/ Reclaim(k) \/ Remove(k)
    \/ \E t \in Thread :
        Clear(t) \/ RetainRecent(t) \/ TrackedKeys(t) \/ Metrics(t) \/ RecoveryLoad(t) \/ Step(t)

Spec == Init /\ [][Next]_vars

-----------------------------------------------------------------------------
\* When clear returns, a key not checked since it began is neither tracked nor
\* owes anything, and when retain_recent does, no such key is tracked that was
\* whole when it began.
LeavesNone(t) ==
    \A k \in Key \ watch[t].checked :
        /\ sweep[t].op = "clear" => slots[k] = None /\ owed[k] = None
        /\ sweep[t].op = "retain" => slots[k] = None \/ slots[k] > sweep[t].now

\* A reading counts what was there all along, and nothing that never was.
Bracketed(t) ==
    LET w == watch[t]
        got == sweep[t].got
    IN  /\ sweep[t].op \in {"len", "load"} => got.keys \in Cardinality(w.always)..Cardinality(w.ever)
        /\ sweep[t].op = "metrics" => \A c \in Range(Counters) : got[c] \in w.counts[c]..Sum(counts, c)

\* Though a sweep is no step of its own, and keys come, go, are evicted and come
\* back in the shards it has left and in those it has yet to reach, clear and
\* retain_recent miss no key, and tracked_keys, metrics and recovery_load read
\* between what was there throughout and what was there at some time.
SweepsReachAll == \A t \in Thread : Done(t) => LeavesNone(t) /\ Bracketed(t)
=============================================================================
