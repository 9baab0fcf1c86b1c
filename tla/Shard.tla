-------------------------------- MODULE Shard --------------------------------
(***************************************************************************)
(* One shard of src/store.rs: slots under a read-write lock, a CLOCK hand  *)
(* and an idle sweep that make room for new keys, and the recovery table   *)
(* that remembers what the evicted keys owed.  A check of a stored key     *)
(* runs under the read lock; a first-seen key is checked in two steps, a   *)
(* clock reading and then the insertion under the write lock, and others   *)
(* may have used the shard at later times in between.                      *)
(***************************************************************************)
EXTENDS RecoveryTable, Sequences, FiniteSets

CONSTANTS
    Thread,         \* the threads that use the shard
    ClockScan,      \* CLOCK_SCAN
    TtlSweep,       \* TTL_SWEEP
    RetainChunk,    \* RETAIN_CHUNK
    Setups          \* the settings a store is made with, and the bounds it is explored to

\* The settings: an algorithm and its quota, a cap, an idle TTL (none if 0; a key
\* with a quota of its own may need longer to recover) and the ticks of the clock in
\* a millisecond.  The bounds: the keys that are used, the units a check asks for,
\* the last tick of the clock, how many calls wait for a lock at a time, how old
\* the reading of one gets, and how many resets, removals, clears and sweeps there
\* are.
ASSUME ShardAssumption ==
    /\ {ClockScan, TtlSweep, RetainChunk} \subseteq Nat \ {0}
    /\ \A s \in Setups :
        /\ s.algorithm \in {"token", "bucket", "window"}
        /\ {s.limit, s.period, s.refill, s.cap, s.ticksPerMs} \subseteq Nat \ {0}
        /\ s.idleTtl \in Nat \ {1}
        /\ s.keys \subseteq Key
        /\ s.costs \cup {s.maxTime, s.callers, s.lag, s.maxAdmin} \subseteq Nat

VARIABLE setup      \* the settings of the store

INSTANCE KeyState WITH
    Algorithm <- setup.algorithm, Limit <- setup.limit, Period <- setup.period, Refill <- setup.refill

\* per_shard_cap and idle_ttl_ms.
Cap == setup.cap

IdleTtl == setup.idleTtl

TicksPerMs == setup.ticksPerMs

\* UNKNOWN, the largest word.
Unknown == 1000000

Ms(now) == now \div TicksPerMs

CeilMs(now) == (now + TicksPerMs - 1) \div TicksPerMs

-----------------------------------------------------------------------------
\* Slots.

\* recovers_at: when a state is whole again, in milliseconds; 0 if it is.
RecoversAt(s, now) == IF IsFull(s, now) THEN 0 ELSE CeilMs(WholeAt(s, now))

\* Slot::recovers_at: the hint, or the state if a check may have changed it.
SlotHint(slot, now) ==
    IF slot.hint = Unknown \/ slot.referenced
    THEN RecoversAt(slot.state, now)
    ELSE IF slot.hint = Ms(now) + 1 /\ IsFull(slot.state, now) THEN 0 ELSE slot.hint

\* Any key is taken to be whole by the next boundary: a mutant of FirstHint.
FirstHintBoundary(s, fresh, n, admitted, now) == IF fresh /\ (n = 0 \/ ~admitted) THEN 0 ELSE Ms(now) + 1

FirstHint(s, fresh, n, admitted, now) ==
    LET boundary == Ms(now) + 1
    IN  IF fresh /\ (n = 0 \/ ~admitted)
        THEN 0
        ELSE IF fresh /\ IsFull(s, boundary * TicksPerMs) THEN boundary ELSE RecoversAt(s, now)

NewSlot(k, s, seeded, hint, now) ==
    [key |-> k, state |-> s, referenced |-> FALSE, seeded |-> seeded, seen |-> Ms(now), hint |-> hint]

\* touch and touch_idle, and the check of the key's own state.
Touched(slot, n, now) ==
    [slot EXCEPT !.referenced = TRUE,
                 !.seen = IF IdleTtl # 0 THEN Larger(@, Ms(now)) ELSE @,
                 !.state = AfterCheck(@, n, now)]

IsExpired(slot, now) == IdleTtl # 0 /\ Ms(now) - slot.seen >= IdleTtl

\* A shard's contents, and by its counters how many keys were inserted and not
\* since evicted, expired or removed, and how many checks begun are not yet among
\* those admitted and denied.
EmptyMap(forget) ==
    [slots |-> <<>>, hand |-> 0, sweep |-> 0, recovery |-> EmptyTable(forget), counted |-> 0, undecided |-> 0]

\* A counter's addition: what is inserted less what is evicted, expired or removed.
Count(m, keys) == [m EXCEPT !.counted = @ + keys]

OnInserted(m) == Count(m, 1)

\* A slot evicted or expired; each is counted once.
OnReclaimed(m) == Count(m, -1)

OnRemoved(m, count) == Count(m, -count)

\* A check is begun, and counted as admitted or denied.
Asked(m) == [m EXCEPT !.undecided = @ + 1]

OnDecision(m) == [m EXCEPT !.undecided = @ - 1]

\* The position of a key, or 0.
Position(m, k) ==
    IF \E i \in 1..Len(m.slots) : m.slots[i].key = k
    THEN CHOOSE i \in 1..Len(m.slots) : m.slots[i].key = k
    ELSE 0

\* A new key is appended.
Insert(slots, slot) == Append(slots, slot)

\* Swap-remove.
RemoveAt(m, pos) ==
    LET last == Len(m.slots)
    IN  [m EXCEPT !.slots = [i \in 1..last - 1 |-> IF i = pos THEN m.slots[last] ELSE m.slots[i]]]

-----------------------------------------------------------------------------
\* Eviction.

\* A seeded key may go though its debt fits nowhere: a mutant of Judged.
JudgedAnyRoom(m, pos, now) ==
    LET at == SlotHint(m.slots[pos], now)
    IN  [map     |-> [m EXCEPT !.slots[pos].hint = at],
         at      |-> at,
         verdict |-> IF at =< Ms(now) THEN "recovered" ELSE "owing"]

\* evictable: the map with the slot's hint brought up to date, and the verdict.
Judged(m, pos, now) ==
    LET slot == m.slots[pos]
        at   == SlotHint(slot, now)
    IN  [map     |-> [m EXCEPT !.slots[pos].hint = at],
         at      |-> at,
         verdict |-> CASE at =< Ms(now) -> "recovered"
                       [] at > Ms(now) /\ (~slot.seeded \/ HasExactRoom(m.recovery, slot.key, Ms(now))) -> "owing"
                       [] OTHER -> "no"]


\* The removal of a key whose debt was recorded; one that found no place stays.
RemoveRecorded(m, pos, result) ==
    IF result.how = "none"
    THEN [m EXCEPT !.recovery = result.table]
    ELSE RemoveAt([m EXCEPT !.recovery = result.table], pos)

\* evict_at: record the debt of a key that has not recovered, and remove it.
EvictAt(m, pos, recovered, now) ==
    LET slot == m.slots[pos]
        debt == DebtOf(slot.state, now)
    IN  IF recovered \/ debt.spent = 0
        THEN RemoveAt(m, pos)
        ELSE RemoveRecorded(m, pos, Recorded(m.recovery, slot.key, [debt EXCEPT !.until = CeilMs(@)],
                                             Ms(now), slot.seeded))

\* One slot of sweep_idle, with the sweep hand on it: an expired slot goes if it may.
SweepExpired(judged, pos, now) ==
    IF judged.verdict = "no"
    THEN [judged.map EXCEPT !.sweep = @ + 1]
    ELSE OnReclaimed(EvictAt(judged.map, pos, judged.verdict = "recovered", now))

SweepSlot(m, now) ==
    LET at   == IF m.sweep >= Len(m.slots) THEN 0 ELSE m.sweep
        here == [m EXCEPT !.sweep = at]
    IN  IF m.slots = <<>>
        THEN m
        ELSE IF ~IsExpired(m.slots[at + 1], now)
        THEN [here EXCEPT !.sweep = @ + 1]
        ELSE SweepExpired(Judged(here, at + 1, now), at + 1, now)

SweepIdle(m, now) ==
    LET swept[i \in 0..TtlSweep] == IF i = 0 THEN m ELSE SweepSlot(swept[i - 1], now)
    IN  IF IdleTtl = 0 THEN m ELSE swept[TtlSweep]

FinishEviction(m, pos, recovered, now) ==
    [OnReclaimed(EvictAt(m, pos, recovered, now)) EXCEPT !.hand = pos]

HasSecondChance(slot, now) == slot.referenced /\ ~IsExpired(slot, now)

\* One slot of evict_one's first pass: a second chance for a referenced slot,
\* the first recovered slot evicted, the first owing slot noted.
ScanJudged(acc, judged, pos, now) ==
    CASE judged.verdict = "recovered" ->
            [acc EXCEPT !.map = FinishEviction(judged.map, pos, TRUE, now), !.done = TRUE]
      [] judged.verdict = "owing" ->
            [acc EXCEPT !.map = judged.map, !.owing = IF @ = 0 THEN pos ELSE @]
      [] judged.verdict = "no" ->
            [acc EXCEPT !.map = judged.map, !.earliest = Smaller(@, judged.at)]

ScanSlot(acc, pos, now) ==
    IF acc.done
    THEN acc
    ELSE IF HasSecondChance(acc.map.slots[pos], now)
    THEN [acc EXCEPT !.map.slots[pos].referenced = FALSE, !.map.slots[pos].hint = Unknown]
    ELSE ScanJudged(acc, Judged(acc.map, pos, now), pos, now)

\* A refusal asks for a retry in a millisecond: a mutant of RescanJudged.
RescanJudgedSoon(acc, judged, pos, now) ==
    IF judged.verdict = "no"
    THEN [acc EXCEPT !.map = judged.map, !.earliest = Ms(now) + 1]
    ELSE [acc EXCEPT !.map = FinishEviction(judged.map, pos, judged.verdict = "recovered", now), !.done = TRUE]

\* One slot of the second pass: the first that can go.
RescanJudged(acc, judged, pos, now) ==
    IF judged.verdict = "no"
    THEN [acc EXCEPT !.map = judged.map, !.earliest = Smaller(@, judged.at)]
    ELSE [acc EXCEPT !.map = FinishEviction(judged.map, pos, judged.verdict = "recovered", now), !.done = TRUE]

RescanSlot(acc, pos, now) == IF acc.done THEN acc ELSE RescanJudged(acc, Judged(acc.map, pos, now), pos, now)

\* The slots a pass visits from the hand on, and how many of them.
Visited(start, len, i) == ((start + (i - 1)) % len) + 1

Scanned(len) == Smaller(ClockScan, len)

FirstPass(m, start, len, now) ==
    LET pass[i \in 0..Scanned(len)] ==
            IF i = 0 THEN [map |-> m, owing |-> 0, earliest |-> Unknown, done |-> FALSE]
            ELSE ScanSlot(pass[i - 1], Visited(start, len, i), now)
    IN  pass[Scanned(len)]

SecondPass(first, start, len, now) ==
    LET pass[i \in 0..Scanned(len)] ==
            IF i = 0 THEN first ELSE RescanSlot(pass[i - 1], Visited(start, len, i), now)
    IN  pass[Scanned(len)]

\* After the first pass: the owing slot it noted goes, or a second pass is made.
AfterFirstPass(first, start, len, now) ==
    IF first.done
    THEN first
    ELSE IF first.owing # 0
    THEN [first EXCEPT !.map = FinishEviction(@, first.owing, FALSE, now), !.done = TRUE]
    ELSE SecondPass(first, start, len, now)

RoomMade(m) == [map |-> m, owing |-> 0, earliest |-> Unknown, done |-> TRUE]

\* evict_one: the map, whether room was made, and else when a slot recovers.
EvictOne(m, now) ==
    LET len   == Len(m.slots)
        start == IF m.hand >= len THEN 0 ELSE m.hand
    IN  IF len = 0 THEN RoomMade(m) ELSE AfterFirstPass(FirstPass(m, start, len, now), start, len, now)

EvictIfFull(m, now) == IF Len(m.slots) >= Cap THEN EvictOne(m, now) ELSE RoomMade(m)

MakeRoom(m, now) == EvictIfFull(SweepIdle(m, now), now)

\* The end of check: a key is charged what it owed, judged, and stored.
Stored(m, k, n, s, charge, now) ==
    LET after == AfterCheck(s, n, now)
        hint  == FirstHint(after, charge.debt = NoDebt, n, Acquires(s, n, now), now)
    IN  [map      |-> OnInserted([m EXCEPT !.recovery = Forgotten(@, k, Ms(now)),
                                           !.slots = Insert(@, NewSlot(k, after, charge.shared, hint, now))]),
         admitted |-> Acquires(s, n, now)]

RestoredFrom(debt, now) == Restored([debt EXCEPT !.until = @ * TicksPerMs], now)

InsertedWith(m, k, n, charge, now) == Stored(m, k, n, RestoredFrom(charge.debt, now), charge, now)

Inserted(m, k, n, now) == InsertedWith(m, k, n, Charge(m.recovery, k, Ms(now)), now)

\* One slot of retain_recent, and a chunk of them downward from the cursor.
RetainSlot(m, pos, now) == IF IsFull(m.slots[pos].state, now) THEN OnRemoved(RemoveAt(m, pos), 1) ELSE m

RetainFrom(m, cursor, now) ==
    LET size == Smaller(cursor, RetainChunk)
        left[i \in 0..size] == IF i = 0 THEN m ELSE RetainSlot(left[i - 1], cursor - i + 1, now)
    IN  left[size]

-----------------------------------------------------------------------------
VARIABLES
    clock,      \* the time, in ticks
    map,        \* the shard's contents
    call,       \* what each thread is in the middle of
    shadow,     \* ledger: each key's state had it never been evicted
    behind,     \* ledger: the keys put back at a reading from before they were let go
    admin       \* how many administrative calls were made

ledgers == <<shadow, behind>>

vars == <<setup, clock, map, call, shadow, behind, admin>>

\* A call: [late] is a ledger, of a check whose key was let go at a later reading.
Call(op, k, n, now) == [op |-> op, key |-> k, n |-> n, now |-> now, late |-> FALSE]

Idle == Call("idle", 0, 0, 0)

TypeOK ==
    /\ setup \in Setups
    /\ clock \in 0..setup.maxTime
    /\ \A i \in 1..Len(map.slots) :
        /\ map.slots[i].key \in setup.keys
        /\ map.slots[i].hint \in Nat
        /\ map.slots[i].seen \in 0..Ms(clock)
    /\ Cardinality({map.slots[i].key : i \in 1..Len(map.slots)}) = Len(map.slots)
    /\ {map.hand, map.sweep} \subseteq 0..Cap
    /\ \A t \in Thread :
        /\ call[t].op \in {"idle", "check", "reset", "retain"}
        /\ call[t].n \in Nat
        /\ call[t].now \in 0..clock
    /\ behind \subseteq setup.keys
    /\ admin \in 0..setup.maxAdmin

Init ==
    /\ setup \in Setups
    /\ clock = 0
    /\ \E forget \in Policies : map = EmptyMap(forget)
    /\ call = [t \in Thread |-> Idle]
    /\ shadow = [k \in setup.keys |-> Fresh(0)]
    /\ behind = {}
    /\ admin = 0

Tick ==
    /\ clock < setup.maxTime
    /\ \A t \in Thread : call[t].op # "idle" => clock - call[t].now < setup.lag
    /\ clock' = clock + 1
    /\ UNCHANGED <<setup, map, call, ledgers, admin>>

\* A thread begins a call in which it waits for a lock.
Begins(t) ==
    /\ call[t].op = "idle"
    /\ Cardinality({u \in Thread : call[u].op # "idle"}) < setup.callers

Return(t) == [call EXCEPT ![t] = Idle]

\* The calls after n units of k were admitted: a reset of k under way counts them.
Admitted(calls, k, n) ==
    [t \in Thread |-> IF calls[t].op = "reset" /\ calls[t].key = k THEN [calls[t] EXCEPT !.n = @ + n] ELSE calls[t]]

\* The contents m have lost the key, or of what it owes at the reading `old'.
LetGo(m, k, old) ==
    LET before == Charge(map.recovery, k, Ms(old)).debt
        after  == Charge(m.recovery, k, Ms(old)).debt
    IN  IF Position(map, k) # 0
        THEN Position(m, k) = 0
        ELSE after.until < before.until \/ after.spent < before.spent

\* The calls after the contents became m at the reading `now': checks that wait to
\* store a key may hold an older reading than the one at which it was let go.
Overtaken(calls, m, now) ==
    [t \in Thread |-> IF calls[t].op = "check" /\ calls[t].now < now /\ LetGo(m, calls[t].key, calls[t].now)
                      THEN [calls[t] EXCEPT !.late = TRUE] ELSE calls[t]]

\* The check of a stored key at pos, and what it leaves of the ledgers.
CheckSlot(m, pos, n, now, calls) ==
    LET slot == m.slots[pos]
        units == IF Acquires(slot.state, n, now) THEN n ELSE 0
    IN  /\ map' = OnDecision([m EXCEPT !.slots[pos] = Touched(slot, n, now)])
        /\ shadow' = [shadow EXCEPT ![slot.key] = IF units = 0 THEN @ ELSE Acquired(@, units, now)]
        /\ call' = Admitted(calls, slot.key, units)
        /\ UNCHANGED <<setup, clock, behind, admin>>

\* check, fast path: under the read lock, with a clock read under it.
CheckHit(t, k, n) ==
    /\ call[t].op = "idle"
    /\ Position(map, k) # 0
    /\ CheckSlot(Asked(map), Position(map, k), n, clock, call)

\* check: the key is not stored; the clock is read, the lock released.  (A key whose
\* quota admits nothing is answered here and never stored: nothing changes.)
CheckMiss(t, k, n) ==
    /\ Begins(t)
    /\ Position(map, k) = 0
    /\ call' = [call EXCEPT ![t] = Call("check", k, n, clock)]
    /\ map' = Asked(map)
    /\ UNCHANGED <<setup, clock, ledgers, admin>>

\* check, slow path: another thread stored the key in between.
CheckLateHit(t) ==
    /\ call[t].op = "check"
    /\ Position(map, call[t].key) # 0
    /\ CheckSlot(map, Position(map, call[t].key), call[t].n, call[t].now, Return(t))

\* The key is not looked for again under the write lock: a mutant of CheckInsert.
CheckInsertBlind(t) ==
    LET c == call[t]
    IN  /\ c.op = "check"
        /\ \E room \in {MakeRoom(map, c.now)} :
            /\ room.done
            /\ map' = OnDecision(Inserted(room.map, c.key, c.n, c.now).map)
        /\ call' = Return(t)
        /\ UNCHANGED <<setup, clock, ledgers, admin>>

\* The new entry, and what its admission leaves of the ledgers.
Enter(entry, c, t) ==
    LET units == IF entry.admitted THEN c.n ELSE 0
    IN  /\ map' = OnDecision(entry.map)
        /\ shadow' = [shadow EXCEPT ![c.key] = IF units = 0 THEN @ ELSE Acquired(@, units, c.now)]
        /\ behind' = IF c.late THEN behind \cup {c.key} ELSE behind
        /\ call' = Admitted(Overtaken(Return(t), entry.map, c.now), c.key, units)

\* check, slow path: room is made and the key is stored.
CheckInsert(t) ==
    LET c == call[t]
    IN  /\ c.op = "check"
        /\ Position(map, c.key) = 0
        /\ \E room \in {MakeRoom(map, c.now)} :
            /\ room.done
            /\ Enter(Inserted(room.map, c.key, c.n, c.now), c, t)
        /\ UNCHANGED <<setup, clock, admin>>

\* check, slow path: nothing can be evicted, and the newcomer is refused.
CheckRefuse(t) ==
    LET c == call[t]
    IN  /\ c.op = "check"
        /\ Position(map, c.key) = 0
        /\ \E room \in {MakeRoom(map, c.now)} :
            /\ ~room.done
            /\ map' = OnDecision(room.map)
        /\ call' = Return(t)
        /\ UNCHANGED <<setup, clock, ledgers, admin>>

Administer ==
    /\ admin < setup.maxAdmin
    /\ admin' = admin + 1

\* The ledgers of keys whose allowance is given back, of which none is stored:
\* each is a key never seen.
NeverSeen(keys) ==
    /\ shadow' = [k \in setup.keys |-> IF k \in keys THEN Fresh(0) ELSE shadow[k]]
    /\ behind' = behind \ keys

\* reset of a stored key, under the read lock.
ResetHit(t, k) ==
    /\ Administer
    /\ call[t].op = "idle"
    /\ Position(map, k) # 0
    /\ map' = [map EXCEPT !.slots[Position(map, k)].state = ResetState(@, clock)]
    /\ shadow' = [shadow EXCEPT ![k] = ResetState(@, clock)]
    /\ behind' = behind \ {k}
    /\ UNCHANGED <<setup, clock, call>>

\* reset: the key is not stored, and the read lock is released.
ResetMiss(t, k) ==
    /\ Administer
    /\ Begins(t)
    /\ Position(map, k) = 0
    /\ call' = [call EXCEPT ![t] = Call("reset", k, 0, clock)]
    /\ UNCHANGED <<setup, clock, map, ledgers>>

\* reset: under the write lock, the debt recorded for the key is forgotten.
ResetForget(t) ==
    LET c == call[t]
    IN  /\ c.op = "reset"
        /\ map' = [map EXCEPT !.recovery = Forgotten(@, c.key, Ms(c.now))]
        /\ NeverSeen({c.key})
        /\ call' = Return(t)
        /\ UNCHANGED <<setup, clock, admin>>

\* remove: the key and its recorded debt are forgotten under the write lock.
Remove(k) ==
    LET pos  == Position(map, k)
        left == IF pos = 0 THEN map ELSE OnRemoved(RemoveAt(map, pos), 1)
    IN  /\ Administer
        /\ map' = [left EXCEPT !.recovery = Forgotten(@, k, Ms(clock))]
        /\ NeverSeen({k})
        /\ UNCHANGED <<setup, clock, call>>

Clear ==
    /\ Administer
    /\ map' = OnRemoved([EmptyMap(map.recovery.forget) EXCEPT !.counted = map.counted, !.undecided = map.undecided], Len(map.slots))
    /\ NeverSeen(setup.keys)
    /\ UNCHANGED <<setup, clock, call>>

\* retain_recent reads the clock; its cursor starts past every slot.
RetainBegin(t) ==
    /\ Administer
    /\ Begins(t)
    /\ call' = [call EXCEPT ![t] = Call("retain", 0, Cap, clock)]
    /\ UNCHANGED <<setup, clock, map, ledgers>>

\* retain_recent: one chunk, and after the last one a spent table is released.
RetainStep(t) ==
    LET c      == call[t]
        cursor == Smaller(c.n, Len(map.slots))
        left   == RetainFrom(map, cursor, c.now)
        next   == cursor - Smaller(cursor, RetainChunk)
        spent  == next = 0 /\ IsSpent(left.recovery, Ms(c.now))
        kept   == IF spent THEN [left EXCEPT !.recovery = EmptyTable(@.forget)] ELSE left
    IN  /\ c.op = "retain"
        /\ map' = kept
        /\ call' = Overtaken(IF next = 0 THEN Return(t) ELSE [call EXCEPT ![t].n = next], kept, c.now)
        /\ UNCHANGED <<setup, clock, ledgers, admin>>

\* The steps of a thread that waits for the write lock.
Step(t) ==
    \/ CheckLateHit(t)
    \/ CheckInsert(t)
    \/ CheckRefuse(t)
    \/ ResetForget(t)
    \/ RetainStep(t)

Next ==
    \/ Tick
    \/ Clear
    \/ \E k \in setup.keys : Remove(k)
    \/ \E t \in Thread :
        \/ \E k \in setup.keys, n \in setup.costs : CheckHit(t, k, n) \/ CheckMiss(t, k, n)
        \/ \E k \in setup.keys : ResetHit(t, k) \/ ResetMiss(t, k)
        \/ RetainBegin(t)
        \/ Step(t)

Spec == Init /\ [][Next]_vars

\* A thread that waits for the write lock gets it.
FairSpec == Spec /\ \A t \in Thread : WF_vars(Step(t))

-----------------------------------------------------------------------------
\* What peek finds of a key: its slot's state, or a fresh one with its debt
\* restored.
Standing(m, k) ==
    LET debt == Charge(m.recovery, k, Ms(clock)).debt
    IN  IF Position(m, k) # 0
        THEN m.slots[Position(m, k)].state
        ELSE RestoredFrom(debt, clock)

\* No interleaving of insertions, sweeps and refusals stores more keys than
\* per_shard_cap, and the counters account for every key and every check: those
\* inserted less those evicted, expired and removed are the keys that are tracked,
\* and a check is counted admitted or denied once, however it ends.  sweep_idle
\* and evict_one count an eviction that evict_at may have called off, and rely on
\* evictable to have made sure that it did not ("so recording cannot fail").
CountersBalance ==
    /\ Len(map.slots) =< Cap
    /\ map.counted = Len(map.slots)
    /\ map.undecided = Cardinality({t \in Thread : call[t].op = "check"})

\* The key is left no more units than a key of a store that never evicts, given
\* the same admissions.
NoLooser(k) == Used(shadow[k], clock) =< Used(Standing(map, k), clock)


\* "A key evicted before it recovered resumes no more permissive than it left"
\* (Store::check), whoever puts it back and however old their clock reading is.
ResumesAsItLeft == ~map.recovery.forget => \A k \in setup.keys : NoLooser(k)

\* A hint the sweep would trust is "only ever later than the truth": a slot
\* whose bit is clear and whose hint has come owes nothing.
HintNeverEarly ==
    \A i \in 1..Len(map.slots) :
        LET slot == map.slots[i]
        IN  ~slot.referenced /\ slot.hint =< Ms(clock) => IsFull(slot.state, clock)

\* A refused newcomer's retry time is honest: if nothing else happens, a check
\* at that time finds room.
RefusalHonest ==
    \A room \in {MakeRoom(map, clock)} :
        ~room.done => MakeRoom(room.map, room.earliest * TicksPerMs).done

\* "Restores the full allowance": when reset returns, the key is charged for no
\* unit but those admitted since it was called (what the sketch charges aside,
\* which a reset cannot clear).
ResetTakesEffect ==
    [][\A t \in Thread :
        call[t].op = "reset" /\ call'[t].op = "idle" =>
            LET k == call[t].key
            IN  \/ Charge(map'.recovery, k, Ms(clock)).shared
                \/ Used(Standing(map', k), clock) =< call[t].n]_vars
=============================================================================
