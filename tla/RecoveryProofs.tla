--------------------------- MODULE RecoveryProofs ---------------------------
(***************************************************************************)
(* Proofs about Recovery, for any keys, buckets, cells, hash functions and *)
(* walks of any length: no debt is lost, a seeded key that is let through  *)
(* finds its place, charges are exact while the debts fit, and no charge   *)
(* read from the sketch is written back to it.                             *)
(*                                                                         *)
(* Induction is by the least counterexample: the natural numbers are well  *)
(* founded.                                                                *)
(***************************************************************************)
EXTENDS Recovery, WellFoundedInduction, TLAPS

\* The time the provers have for a leaf, in seconds.
USE SMTT(30), ZenonT(30)

\* Every nonempty set of natural numbers has a least element.
LEMMA LeastNat ==
    ASSUME NEW T, T \subseteq Nat, T # {}
    PROVE  \E m \in T : \A k \in T : m =< k
  <1>1. PICK m \in T : \A k \in T : ~(<<k, m>> \in OpToRel(<, Nat))
    BY WFMin, NatLessThanWellFounded, Zenon
  <1>2. \A k \in T : ~(k < m)
    BY <1>1, Zenon DEF OpToRel
  <1> QED
    BY <1>2

\* What Least chooses.
LEMMA LeastIs ==
    ASSUME NEW T, T \subseteq Nat, T # {}
    PROVE  Least(T) \in T /\ \A x \in T : Least(T) =< x
  <1>1. \E m \in T : \A k \in T : m =< k
    BY LeastNat, Zenon
  <1> QED
    BY <1>1, Zenon DEF Least

-----------------------------------------------------------------------------
\* Places and the records in them.

\* The two buckets of a key are different buckets, each the other one of the other.
LEMMA KeyBuckets ==
    ASSUME NEW k \in Key
    PROVE  /\ Tag[k] \in Nat /\ Tag[k] # 0
           /\ BucketsOf(k)[1] \in Buckets /\ BucketsOf(k)[2] \in Buckets
           /\ BucketsOf(k)[1] = Home[k]
           /\ BucketsOf(k)[2] = Alt(Home[k], Tag[k])
           /\ Alt(BucketsOf(k)[2], Tag[k]) = Home[k]
  BY HashAssumption, Zenon DEF BucketsOf

\* A key's places are positions, in every slot of its two buckets.
LEMMA SpotsIn ==
    ASSUME NEW k \in Key
    PROVE  /\ Spots(k) \subseteq Positions
           /\ \A b, r : <<b, r>> \in Spots(k) <=> (b = BucketsOf(k)[1] \/ b = BucketsOf(k)[2]) /\ r \in Slots
           /\ \A p \in Spots(k), r \in Slots : <<Alt(p[1], Tag[k]), r>> \in Spots(k)
  <1>1. \A b, r : <<b, r>> \in Spots(k) <=> (b = BucketsOf(k)[1] \/ b = BucketsOf(k)[2]) /\ r \in Slots
    BY Zenon DEF Spots
  <1>2. \A p \in Spots(k) : p[1] = BucketsOf(k)[1] \/ p[1] = BucketsOf(k)[2]
    BY Zenon DEF Spots
  <1>3. Spots(k) \subseteq Positions
    BY KeyBuckets, Zenon DEF Spots, Positions
  <1> QED
    BY <1>1, <1>2, <1>3, KeyBuckets

\* A place holds the records of one key with a given tag at most.
LEMMA OneKey ==
    ASSUME NEW j \in Key, NEW k \in Key, NEW p, p \in Spots(j), p \in Spots(k), Tag[j] = Tag[k]
    PROVE  j = k
  <1>1. SUFFICES ASSUME j # k PROVE FALSE
    BY Zenon
  <1>2. Home[j] # Home[k] /\ Home[j] # Alt(Home[k], Tag[k])
    BY <1>1, TagsAssumption, Zenon
  <1>3. /\ p[1] = Home[j] \/ p[1] = Alt(Home[j], Tag[j])
        /\ p[1] = Home[k] \/ p[1] = Alt(Home[k], Tag[k])
    BY KeyBuckets, Zenon DEF Spots
  <1>4. Alt(Alt(Home[j], Tag[j]), Tag[j]) = Home[j] /\ Alt(Alt(Home[k], Tag[k]), Tag[k]) = Home[k]
    BY HashAssumption, Zenon
  <1> QED
    BY <1>2, <1>3, <1>4, Zenon

\* The record at a position of a table.
LEMMA AtType == ASSUME NEW t \in Tables, NEW p \in Positions PROVE At(t, p) \in Records
  BY DEF Tables, Positions, At

\* The fields of a record.
LEMMA RecordType ==
    ASSUME NEW r \in Records
    PROVE  /\ r.tag \in Nat /\ r.spent \in Nat /\ r.spent =< AllUnits /\ r.until \in Nat /\ r.inherited \in BOOLEAN
           /\ r.spent \in {0} \union Spends /\ r.until \in Deadlines
  <1>1. {0} \union Spends \subseteq 0..AllUnits /\ Deadlines \subseteq Nat
    BY BoundsAssumption, TableAssumption DEF Deadlines
  <1>2. r.tag \in Nat /\ r.spent \in {0} \union Spends /\ r.until \in Deadlines /\ r.inherited \in BOOLEAN
    BY Zenon DEF Records
  <1>3. \A x \in {0} \union Spends : x \in Nat /\ x =< AllUnits
    BY <1>1, TableAssumption
  <1> QED
    BY <1>1, <1>2, <1>3, Zenon

\* The fields of a debt.
LEMMA DebtType ==
    ASSUME NEW d \in Debts
    PROVE  d.spent \in Nat /\ d.spent =< AllUnits /\ d.until \in Nat /\ d.spent \in {0} \union Spends /\ d.until \in Deadlines
  <1>1. {0} \union Spends \subseteq 0..AllUnits /\ Deadlines \subseteq Nat
    BY BoundsAssumption, TableAssumption DEF Deadlines
  <1>2. d.spent \in {0} \union Spends /\ d.until \in Deadlines
    BY Zenon DEF Debts
  <1>3. \A x \in {0} \union Spends : x \in Nat /\ x =< AllUnits
    BY <1>1, TableAssumption
  <1> QED
    BY <1>1, <1>2, <1>3, Zenon

\* Put changes one position and nothing else.
LEMMA PutIs ==
    ASSUME NEW t \in Tables, NEW p \in Positions, NEW r \in Records
    PROVE  /\ Put(t, p, r) \in Tables
           /\ At(Put(t, p, r), p) = r
           /\ \A q \in Positions : q # p => At(Put(t, p, r), q) = At(t, q)
           /\ Put(t, p, r).cells = t.cells
           /\ Put(t, p, r).forget = t.forget
           /\ Put(t, p, r).turn = t.turn
           /\ Put(t, p, r).backoff = t.backoff
  <1> DEFINE u == Put(t, p, r)
             b == p[1]
  <1>1. p = <<p[1], p[2]>> /\ p[1] \in Buckets /\ p[2] \in Slots
    BY DEF Positions
  <1>2. /\ t.buckets \in [Buckets -> [Slots -> Records]] /\ t.forget \in Policies
        /\ t.cells \in [Cells -> [spent : 0..SpentMax, until : Deadlines]]
        /\ t.turn \in Slots /\ t.backoff \in 0..WalkBackoff
    BY Zenon DEF Tables
  <1>3. u = [forget |-> t.forget, buckets |-> [t.buckets EXCEPT ![p[1]][p[2]] = r], cells |-> t.cells,
             turn |-> t.turn, backoff |-> t.backoff]
    BY DEF Tables, Put
  <1>4. [t.buckets EXCEPT ![p[1]][p[2]] = r] \in [Buckets -> [Slots -> Records]]
    BY <1>1, <1>2, Zenon
  <1>5. u \in Tables
    BY <1>2, <1>3, <1>4 DEF Tables
  <1>6. u.buckets[p[1]][p[2]] = r
    BY <1>1, <1>2, <1>3
  <1>7. ASSUME NEW q \in Positions, q # p PROVE u.buckets[q[1]][q[2]] = t.buckets[q[1]][q[2]]
    <2>1. q = <<q[1], q[2]>> /\ q[1] \in Buckets /\ q[2] \in Slots
      BY DEF Positions
    <2>2. q[1] # p[1] \/ q[2] # p[2]
      BY <1>1, <1>7, <2>1, Zenon
    <2> QED
      BY <1>1, <1>2, <1>3, <2>1, <2>2
  <1> QED
    BY <1>3, <1>5, <1>6, <1>7 DEF At

\* The first place of a key that is in a set of places.
FirstOf(k, M) ==
    LET first  == {r \in Slots : <<BucketsOf(k)[1], r>> \in M}
        second == {r \in Slots : <<BucketsOf(k)[2], r>> \in M}
    IN  IF first # {} THEN <<BucketsOf(k)[1], Least(first)>>
        ELSE IF second # {} THEN <<BucketsOf(k)[2], Least(second)>>
        ELSE Nowhere

\* It is in the set, if any place is.
LEMMA FirstOfIs ==
    ASSUME NEW k \in Key, NEW M, M \subseteq Spots(k)
    PROVE  /\ FirstOf(k, M) = Nowhere => M = {}
           /\ FirstOf(k, M) # Nowhere => FirstOf(k, M) \in M
  <1> DEFINE b1 == BucketsOf(k)[1]
             b2 == BucketsOf(k)[2]
             first  == {r \in Slots : <<b1, r>> \in M}
             second == {r \in Slots : <<b2, r>> \in M}
  <1>1. first \subseteq Nat /\ second \subseteq Nat
    BY TableAssumption DEF Slots
  <1>2. \A b, r : <<b, r>> # Nowhere
    BY Zenon DEF Nowhere
  <1>3. \A p \in M : (p = <<b1, p[2]>> \/ p = <<b2, p[2]>>) /\ p[2] \in Slots
    BY DEF Spots
  <1>4. CASE first # {}
    <2>1. FirstOf(k, M) = <<b1, Least(first)>>
      BY <1>4, Zenon DEF FirstOf
    <2>2. Least(first) \in first
      BY <1>1, <1>4, LeastIs, Zenon
    <2> QED
      BY <1>2, <2>1, <2>2, Zenon
  <1>5. CASE first = {} /\ second # {}
    <2>1. FirstOf(k, M) = <<b2, Least(second)>>
      BY <1>5, Zenon DEF FirstOf
    <2>2. Least(second) \in second
      BY <1>1, <1>5, LeastIs, Zenon
    <2> QED
      BY <1>2, <2>1, <2>2, Zenon
  <1>6. CASE first = {} /\ second = {}
    <2>1. FirstOf(k, M) = Nowhere
      BY <1>6, Zenon DEF FirstOf
    <2> QED
      BY <1>3, <1>6, <2>1, Zenon
  <1> QED
    BY <1>4, <1>5, <1>6, Zenon

\* The key's own place holds a live record of it, and there is one if any place does.
LEMMA OwnIs ==
    ASSUME NEW t \in Tables, NEW k \in Key, NEW ms
    PROVE  /\ Own(t, k, ms) = Nowhere => \A p \in Spots(k) : ~Holds(t, k, p, ms)
           /\ Own(t, k, ms) # Nowhere => Own(t, k, ms) \in Spots(k) /\ Holds(t, k, Own(t, k, ms), ms)
  <1> DEFINE M == {p \in Spots(k) : Holds(t, k, p, ms)}
  <1>1. ASSUME NEW b, b = BucketsOf(k)[1] \/ b = BucketsOf(k)[2]
        PROVE  {r \in Slots : t.buckets[b][r].tag = Tag[k] /\ IsLive(t.buckets[b][r], ms)} = {r \in Slots : <<b, r>> \in M}
    <2>1. \A r \in Slots : <<b, r>> \in Spots(k)
      BY <1>1, SpotsIn, Zenon
    <2> QED
      BY <2>1, Zenon DEF Holds, At
  <1>2. Own(t, k, ms) = FirstOf(k, M)
    BY <1>1, Zenon DEF Own, FirstMatch, Matching, FirstOf
  <1> HIDE DEF M
  <1>3. M \subseteq Spots(k)
    BY Zenon DEF M
  <1> QED
    BY <1>2, <1>3, FirstOfIs DEF M

\* A free place of a bucket.
LEMMA FreeInIs ==
    ASSUME NEW t \in Tables, NEW b \in Buckets, NEW ms
    PROVE  /\ FreeIn(t, b, ms) \subseteq Slots
           /\ \A r \in Slots : r \in FreeIn(t, b, ms) <=> ~IsLive(At(t, <<b, r>>), ms)
           /\ FreeIn(t, b, ms) # {} => Least(FreeIn(t, b, ms)) \in FreeIn(t, b, ms)
  <1>1. FreeIn(t, b, ms) = {r \in Slots : ~IsLive(At(t, <<b, r>>), ms)}
    BY Zenon DEF FreeIn, Matching, At
  <1>2. Slots \subseteq Nat
    BY TableAssumption DEF Slots
  <1> QED
    BY <1>1, <1>2, LeastIs, Zenon

-----------------------------------------------------------------------------
\* A table and a record in hand, which was found homeless at a place.

Mine(r, p, j) == r.tag = Tag[j] /\ p \in Spots(j)

\* The record in hand is of a key that has the place, if it is of any.
Handed(r, p) == r \in Records /\ p \in Positions /\ (r.tag # 0 => \E j \in Key : Mine(r, p, j))

\* Debts are covered by the table, or by the record in hand.
Kept(t, r, p, D) ==
    \A x \in D : InTable(t, x[1], x[2]) \/ InSketch(t, x[1], x[2]) \/ (Mine(r, p, x[1]) /\ Covers(r, x[2]))

\* Every key has one live record at most, in the table or in hand, which is one
\* of those it may have.
Exact(t, r, p, at, F) ==
    \A j \in Key :
        /\ \A q, s \in Spots(j) : Holds(t, j, q, at) /\ Holds(t, j, s, at) => q = s
        /\ \A q \in Spots(j) : Holds(t, j, q, at) => <<j, At(t, q)>> \in F
        /\ Mine(r, p, j) /\ r.until > at => <<j, r>> \in F /\ \A q \in Spots(j) : ~Holds(t, j, q, at)

\* The debts that a walk has to keep are those that are live by its reading.
Debited(ms) == Key \X {d \in Debts : d.until > ms}

\* The places of a key are all those of its buckets.
LEMMA SameBucket ==
    ASSUME NEW j \in Key, NEW p \in Spots(j), NEW q \in Positions, q[1] = p[1]
    PROVE  q \in Spots(j)
  <1>1. q = <<q[1], q[2]>> /\ q[2] \in Slots
    BY DEF Positions
  <1>2. q[1] = BucketsOf(j)[1] \/ q[1] = BucketsOf(j)[2]
    BY Zenon DEF Spots
  <1> QED
    BY <1>1, <1>2, SpotsIn

\* A record has a place exactly if it has those of the place's other bucket.
LEMMA OtherBucket ==
    ASSUME NEW j \in Key, NEW p \in Positions, NEW s \in Slots
    PROVE  p \in Spots(j) <=> <<Alt(p[1], Tag[j]), s>> \in Spots(j)
  <1>1. p \in Spots(j) => <<Alt(p[1], Tag[j]), s>> \in Spots(j)
    BY SpotsIn, Zenon
  <1>2. ASSUME <<Alt(p[1], Tag[j]), s>> \in Spots(j) PROVE p \in Spots(j)
    <2>1. p[1] \in Buckets /\ p = <<p[1], p[2]>> /\ p[2] \in Slots
      BY DEF Positions
    <2>2. Alt(Alt(p[1], Tag[j]), Tag[j]) = p[1]
      BY <2>1, HashAssumption, Zenon
    <2>3. <<Alt(Alt(p[1], Tag[j]), Tag[j]), p[2]>> \in Spots(j)
      BY <1>2, <2>1, SpotsIn
    <2> QED
      BY <2>1, <2>2, <2>3, Zenon
  <1> QED
    BY <1>1, <1>2, Zenon

\* The sketch is read from the cells alone.
LEMMA SketchSame ==
    ASSUME NEW t, NEW u, u.cells = t.cells, NEW j, NEW d
    PROVE  InSketch(u, j, d) <=> InSketch(t, j, d)
  BY Zenon DEF InSketch

\* A record in hand may be put where it was found homeless.
LEMMA PutHomed ==
    ASSUME NEW t \in Tables, Homed(t), NEW r, NEW p, Handed(r, p)
    PROVE  Homed(Put(t, p, r))
  <1>1. r \in Records /\ p \in Positions /\ (r.tag # 0 => \E j \in Key : Mine(r, p, j))
    BY Zenon DEF Handed
  <1>2. At(Put(t, p, r), p) = r /\ \A q \in Positions : q # p => At(Put(t, p, r), q) = At(t, q)
    BY <1>1, PutIs
  <1> QED
    BY <1>1, <1>2, Zenon DEF Homed, Mine

\* The record that it displaces may be put in the places of its other bucket.
LEMMA SwapHanded ==
    ASSUME NEW t \in Tables, Homed(t), NEW p \in Positions, At(t, p).tag # 0, NEW s \in Slots
    PROVE  Handed(At(t, p), <<Alt(p[1], At(t, p).tag), s>>)
  <1>1. PICK k \in Key : At(t, p).tag = Tag[k] /\ p \in Spots(k)
    BY Zenon DEF Homed
  <1>2. <<Alt(p[1], Tag[k]), s>> \in Spots(k) /\ Spots(k) \subseteq Positions
    BY <1>1, SpotsIn, Zenon
  <1>3. At(t, p) \in Records
    BY AtType, Zenon
  <1> QED
    BY <1>1, <1>2, <1>3, Zenon DEF Handed, Mine

\* The record in hand changes places with one of the table: no debt is lost.
LEMMA SwapKept ==
    ASSUME NEW t \in Tables, NEW r, NEW p, Handed(r, p), NEW s \in Slots, NEW D, D \subseteq Key \X Debts,
           Kept(t, r, p, D)
    PROVE  Kept(Put(t, p, r), At(t, p), <<Alt(p[1], At(t, p).tag), s>>, D)
  <1> DEFINE u == Put(t, p, r)
             b == <<Alt(p[1], At(t, p).tag), s>>
  <1>1. r \in Records /\ p \in Positions
    BY Zenon DEF Handed
  <1>2. At(u, p) = r /\ u.cells = t.cells /\ \A q \in Positions : q # p => At(u, q) = At(t, q)
    BY <1>1, PutIs
  <1> HIDE DEF u
  <1>3. SUFFICES ASSUME NEW x \in D
                 PROVE  InTable(u, x[1], x[2]) \/ InSketch(u, x[1], x[2])
                            \/ (Mine(At(t, p), b, x[1]) /\ Covers(At(t, p), x[2]))
    BY Zenon DEF Kept, u
  <1>4. x[1] \in Key /\ Spots(x[1]) \subseteq Positions
    BY SpotsIn, Zenon
  <1>5. CASE InTable(t, x[1], x[2])
    <2>1. PICK q \in Spots(x[1]) : At(t, q).tag = Tag[x[1]] /\ Covers(At(t, q), x[2])
      BY <1>5, Zenon DEF InTable
    <2>2. CASE q = p
      BY <1>1, <1>4, <2>1, <2>2, OtherBucket, Zenon DEF Mine
    <2>3. CASE q # p
      BY <1>2, <1>4, <2>1, <2>3, Zenon DEF InTable
    <2> QED
      BY <2>2, <2>3, Zenon
  <1>6. CASE InSketch(t, x[1], x[2])
    BY <1>2, <1>6, SketchSame, Zenon
  <1>7. CASE Mine(r, p, x[1]) /\ Covers(r, x[2])
    BY <1>2, <1>7, Zenon DEF Mine, InTable
  <1> QED
    BY <1>5, <1>6, <1>7, Zenon DEF Kept

\* No key gets a second live record by it.
LEMMA SwapExact ==
    ASSUME NEW t \in Tables, NEW r, NEW p, Handed(r, p), NEW s \in Slots, NEW at, NEW F, Exact(t, r, p, at, F)
    PROVE  Exact(Put(t, p, r), At(t, p), <<Alt(p[1], At(t, p).tag), s>>, at, F)
  <1> DEFINE u == Put(t, p, r)
             b == <<Alt(p[1], At(t, p).tag), s>>
  <1>1. r \in Records /\ p \in Positions
    BY Zenon DEF Handed
  <1>2. At(u, p) = r /\ \A q \in Positions : q # p => At(u, q) = At(t, q)
    BY <1>1, PutIs
  <1> HIDE DEF u
  <1>3. SUFFICES ASSUME NEW j \in Key
                 PROVE  /\ \A q, v \in Spots(j) : Holds(u, j, q, at) /\ Holds(u, j, v, at) => q = v
                        /\ \A q \in Spots(j) : Holds(u, j, q, at) => <<j, At(u, q)>> \in F
                        /\ Mine(At(t, p), b, j) /\ At(t, p).until > at
                             => <<j, At(t, p)>> \in F /\ \A q \in Spots(j) : ~Holds(u, j, q, at)
    BY Zenon DEF Exact, u
  <1>4. /\ \A q, v \in Spots(j) : Holds(t, j, q, at) /\ Holds(t, j, v, at) => q = v
        /\ \A q \in Spots(j) : Holds(t, j, q, at) => <<j, At(t, q)>> \in F
        /\ Mine(r, p, j) /\ r.until > at => <<j, r>> \in F /\ \A q \in Spots(j) : ~Holds(t, j, q, at)
    BY Zenon DEF Exact
  <1>5. Spots(j) \subseteq Positions
    BY SpotsIn, Zenon
  <1>6. \A q \in Spots(j) : q # p => At(u, q) = At(t, q) /\ (Holds(u, j, q, at) <=> Holds(t, j, q, at))
    BY <1>2, <1>5, Zenon DEF Holds
  <1>7. p \in Spots(j) /\ Holds(u, j, p, at) => Mine(r, p, j) /\ r.until > at
    BY <1>2, Zenon DEF Holds, IsLive, Mine
  <1>8. Mine(At(t, p), b, j) /\ At(t, p).until > at => p \in Spots(j) /\ Holds(t, j, p, at)
    <2>1. SUFFICES ASSUME Mine(At(t, p), b, j), At(t, p).until > at PROVE p \in Spots(j) /\ Holds(t, j, p, at)
      BY Zenon
    <2>2. At(t, p).tag = Tag[j] /\ p \in Spots(j)
      BY <1>1, <2>1, OtherBucket, Zenon DEF Mine
    <2> QED
      BY <2>1, <2>2, KeyBuckets, Zenon DEF Holds, IsLive
  <1>9. \A q \in Spots(j) : Holds(u, j, q, at) => <<j, At(u, q)>> \in F
    BY <1>2, <1>4, <1>6, <1>7, Zenon
  <1>10. \A q, v \in Spots(j) : Holds(u, j, q, at) /\ Holds(u, j, v, at) => q = v
    BY <1>4, <1>6, <1>7, Zenon
  <1>11. ASSUME Mine(At(t, p), b, j), At(t, p).until > at
         PROVE  <<j, At(t, p)>> \in F /\ \A q \in Spots(j) : ~Holds(u, j, q, at)
    BY <1>4, <1>6, <1>7, <1>8, <1>11, Zenon
  <1> QED
    BY <1>9, <1>10, <1>11, Zenon

\* The record in hand takes a free place of its bucket.
LEMMA DropKept ==
    ASSUME NEW t \in Tables, NEW r, NEW p, Handed(r, p), NEW ms \in Nat, NEW q \in Positions, q[1] = p[1],
           ~IsLive(At(t, q), ms), NEW D, D \subseteq Debited(ms), Kept(t, r, p, D)
    PROVE  Kept(Put(t, q, r), EmptyRecord, p, D)
  <1> DEFINE u == Put(t, q, r)
  <1>1. r \in Records
    BY Zenon DEF Handed
  <1>2. At(u, q) = r /\ u.cells = t.cells /\ \A v \in Positions : v # q => At(u, v) = At(t, v)
    BY <1>1, PutIs
  <1> HIDE DEF u
  <1>3. SUFFICES ASSUME NEW x \in D PROVE InTable(u, x[1], x[2]) \/ InSketch(u, x[1], x[2])
    BY Zenon DEF Kept, u
  <1>4. x[1] \in Key /\ x[2] \in Debts /\ x[2].until > ms /\ Spots(x[1]) \subseteq Positions
    BY SpotsIn, Zenon DEF Debited
  <1>5. CASE InTable(t, x[1], x[2])
    <2>1. PICK v \in Spots(x[1]) : At(t, v).tag = Tag[x[1]] /\ Covers(At(t, v), x[2])
      BY <1>5, Zenon DEF InTable
    <2>2. At(t, v).until >= x[2].until /\ At(t, v).until \in Nat /\ x[2].until \in Nat
      <3>1. At(t, v) \in Records
        BY <1>4, AtType, Zenon
      <3>2. Deadlines \subseteq Nat
        BY BoundsAssumption DEF Deadlines
      <3> QED
        BY <1>4, <2>1, <3>1, <3>2, RecordType, Zenon DEF Debts, Covers
    <2>3. IsLive(At(t, v), ms)
      BY <1>4, <2>1, <2>2, KeyBuckets DEF IsLive
    <2>4. v # q
      BY <2>3, Zenon
    <2> QED
      BY <1>2, <1>4, <2>1, <2>4, Zenon DEF InTable
  <1>6. CASE InSketch(t, x[1], x[2])
    BY <1>2, <1>6, SketchSame, Zenon
  <1>7. CASE Mine(r, p, x[1]) /\ Covers(r, x[2])
    <2>1. q \in Spots(x[1])
      BY <1>4, <1>7, SameBucket, Zenon DEF Mine
    <2> QED
      BY <1>2, <1>7, <2>1, Zenon DEF Mine, InTable
  <1> QED
    BY <1>5, <1>6, <1>7, Zenon DEF Kept

\* It overwrites no live record.
LEMMA DropExact ==
    ASSUME NEW t \in Tables, NEW r, NEW p, Handed(r, p), NEW ms \in Nat, NEW at \in Nat, ms =< at,
           NEW q \in Positions, q[1] = p[1], ~IsLive(At(t, q), ms), NEW F, Exact(t, r, p, at, F)
    PROVE  Exact(Put(t, q, r), EmptyRecord, p, at, F)
  <1> DEFINE u == Put(t, q, r)
  <1>1. r \in Records /\ p \in Positions
    BY Zenon DEF Handed
  <1>2. At(u, q) = r /\ \A v \in Positions : v # q => At(u, v) = At(t, v)
    BY <1>1, PutIs
  <1> HIDE DEF u
  <1>3. SUFFICES ASSUME NEW j \in Key
                 PROVE  /\ \A v, w \in Spots(j) : Holds(u, j, v, at) /\ Holds(u, j, w, at) => v = w
                        /\ \A v \in Spots(j) : Holds(u, j, v, at) => <<j, At(u, v)>> \in F
    <2>1. \A j \in Key : ~Mine(EmptyRecord, p, j)
      BY KeyBuckets, Zenon DEF Mine, EmptyRecord
    <2> QED
      BY <1>3, <2>1, Zenon DEF Exact, u
  <1>4. /\ \A v, w \in Spots(j) : Holds(t, j, v, at) /\ Holds(t, j, w, at) => v = w
        /\ \A v \in Spots(j) : Holds(t, j, v, at) => <<j, At(t, v)>> \in F
        /\ Mine(r, p, j) /\ r.until > at => <<j, r>> \in F /\ \A v \in Spots(j) : ~Holds(t, j, v, at)
    BY Zenon DEF Exact
  <1>5. Spots(j) \subseteq Positions
    BY SpotsIn, Zenon
  <1>6. \A v \in Spots(j) : v # q => At(u, v) = At(t, v) /\ (Holds(u, j, v, at) <=> Holds(t, j, v, at))
    BY <1>2, <1>5, Zenon DEF Holds
  <1>7. q \in Spots(j) /\ Holds(u, j, q, at) => Mine(r, p, j) /\ r.until > at
    <2>1. SUFFICES ASSUME q \in Spots(j), Holds(u, j, q, at) PROVE Mine(r, p, j) /\ r.until > at
      BY Zenon
    <2>2. p \in Spots(j)
      BY <1>1, <2>1, SameBucket, Zenon
    <2> QED
      BY <1>2, <2>1, <2>2, Zenon DEF Holds, IsLive, Mine
  <1>8. \A v \in Spots(j) : Holds(u, j, v, at) => <<j, At(u, v)>> \in F
    BY <1>2, <1>4, <1>6, <1>7, Zenon
  <1>9. \A v, w \in Spots(j) : Holds(u, j, v, at) /\ Holds(u, j, w, at) => v = w
    BY <1>4, <1>6, <1>7, Zenon
  <1> QED
    BY <1>8, <1>9, Zenon

\* Tables that differ in the turn and the backoff alone are as good.
SameRecords(t, u) == u \in Tables /\ u.buckets = t.buckets /\ u.cells = t.cells /\ u.forget = t.forget

LEMMA SameGood ==
    ASSUME NEW t \in Tables, NEW u, SameRecords(t, u), NEW r, NEW p, NEW D, NEW at, NEW F
    PROVE  /\ \A q : At(u, q) = At(t, q)
           /\ Homed(t) => Homed(u)
           /\ Kept(t, r, p, D) => Kept(u, r, p, D)
           /\ Exact(t, r, p, at, F) => Exact(u, r, p, at, F)
  <1>1. \A q : At(u, q) = At(t, q)
    BY Zenon DEF At, SameRecords
  <1>2. \A j, d : (InSketch(u, j, d) <=> InSketch(t, j, d)) /\ (InTable(u, j, d) <=> InTable(t, j, d))
    BY <1>1, Zenon DEF InSketch, InTable, SameRecords
  <1>3. \A j, q : Holds(u, j, q, at) <=> Holds(t, j, q, at)
    BY <1>1, Zenon DEF Holds
  <1>4. Homed(t) => Homed(u)
    BY <1>1, Zenon DEF Homed
  <1>5. Kept(t, r, p, D) => Kept(u, r, p, D)
    BY <1>2, Zenon DEF Kept
  <1>6. Exact(t, r, p, at, F) => Exact(u, r, p, at, F)
    BY <1>1, <1>3, Zenon DEF Exact
  <1> QED
    BY <1>1, <1>4, <1>5, <1>6, Zenon

\* The backoff may be set.
LEMMA BackoffSame ==
    ASSUME NEW t \in Tables, NEW n \in 0..WalkBackoff
    PROVE  SameRecords(t, [t EXCEPT !.backoff = n])
  BY Zenon DEF SameRecords, Tables

\* movable_in changes the turn alone, and finds a record that may move if there is one.
LEMMA MovableInIs ==
    ASSUME NEW t \in Tables, NEW b \in Buckets, NEW ms
    PROVE  /\ SameRecords(t, MovableIn(t, b, ms).table)
           /\ MovableIn(t, b, ms).place = Nowhere => \A s \in Slots : ~Movable(At(t, <<b, s>>), ms)
           /\ MovableIn(t, b, ms).place # Nowhere =>
                \E s \in Slots : MovableIn(t, b, ms).place = <<b, s>> /\ Movable(At(t, <<b, s>>), ms)
  <1> DEFINE movers == {s \in Slots : Movable(t.buckets[b][s], ms)}
             steps == {i \in Slots : ((t.turn + i) % Places) \in movers}
             m == MovableIn(t, b, ms)
  <1>1. m = [table |-> [t EXCEPT !.turn = (t.turn + 1) % Places],
             place |-> IF steps = {} THEN Nowhere ELSE <<b, (t.turn + Least(steps)) % Places>>]
    BY Zenon DEF MovableIn, Matching
  <1>2. t.turn \in Nat /\ t.turn < Places /\ Places \in Nat /\ Places > 0
    BY TableAssumption DEF Tables, Slots
  <1>3. (t.turn + 1) % Places \in Slots
    BY <1>2 DEF Slots
  <1>4. SameRecords(t, [t EXCEPT !.turn = (t.turn + 1) % Places])
    BY <1>3, Zenon DEF SameRecords, Tables
  <1>5. \A s \in Slots : Movable(At(t, <<b, s>>), ms) <=> s \in movers
    BY Zenon DEF At
  <1>6. ASSUME NEW s \in movers PROVE steps # {}
    <2> DEFINE i == IF s >= t.turn THEN s - t.turn ELSE s + Places - t.turn
    <2>1. s \in Nat /\ s < Places
      BY <1>2 DEF Slots
    <2>2. i \in Slots
      BY <1>2, <2>1 DEF Slots
    <2>3. (t.turn + i) % Places = s
      <3>1. CASE s >= t.turn
        BY <1>2, <2>1, <3>1
      <3>2. CASE s < t.turn
        <4>1. t.turn + i = s + Places
          BY <1>2, <2>1, <3>2
        <4>2. (s + Places) % Places = s
          BY <1>2, <2>1
        <4> QED
          BY <4>1, <4>2, Zenon
      <3> QED
        BY <1>2, <2>1, <3>1, <3>2
    <2> QED
      BY <1>6, <2>2, <2>3, Zenon
  <1>7. steps # {} => Least(steps) \in steps
    <2>1. steps \subseteq Nat
      BY <1>2 DEF Slots
    <2> QED
      BY <2>1, LeastIs, Zenon
  <1>8. \A s \in movers : s \in Slots
    BY Zenon
  <1>9. \A i \in steps : ((t.turn + i) % Places) \in movers
    BY Zenon
  <1> HIDE DEF movers, steps, m
  <1>10. SameRecords(t, m.table)
    BY <1>1, <1>4, Zenon
  <1>11. CASE steps = {}
    <2>1. m.place = Nowhere
      BY <1>1, <1>11, Zenon
    <2>2. \A s \in Slots : ~Movable(At(t, <<b, s>>), ms)
      BY <1>5, <1>6, <1>11, Zenon
    <2> QED
      BY <1>10, <2>1, <2>2, Zenon DEF m
  <1>12. CASE steps # {}
    <2> DEFINE x == (t.turn + Least(steps)) % Places
    <2>1. m.place = <<b, x>>
      BY <1>1, <1>12, Zenon
    <2>2. x \in movers
      BY <1>7, <1>9, <1>12, Zenon
    <2> HIDE DEF x
    <2>3. x \in Slots /\ Movable(At(t, <<b, x>>), ms)
      BY <1>5, <1>8, <2>2, Zenon
    <2>4. m.place # Nowhere
      BY <2>1 DEF Nowhere
    <2> QED
      BY <1>10, <2>1, <2>3, <2>4, Zenon DEF m
  <1> QED
    BY <1>11, <1>12, Zenon

-----------------------------------------------------------------------------
\* The walk.

\* What a walk is asked to keep: g.ms is its reading, g.clock the time, g.cells
\* and g.forget those of the table, g.debts the debts that have to be covered
\* and, if g.exact, g.records the live records that keys may have.
Setting(g) ==
    /\ g.ms \in Nat /\ g.clock \in Nat /\ g.ms =< g.clock
    /\ g.debts \subseteq Debited(g.ms)
    /\ g.forget => g.debts = {}

Sound(t, r, p, g) ==
    /\ t \in Tables /\ Homed(t) /\ Handed(r, p)
    /\ t.cells = g.cells /\ t.forget = g.forget
    /\ Kept(t, r, p, g.debts)
    /\ g.exact => Exact(t, r, p, g.clock, g.records)

LEMMA SwapSound ==
    ASSUME NEW t, NEW r, NEW p, NEW g, Setting(g), Sound(t, r, p, g), At(t, p).tag # 0, NEW s \in Slots
    PROVE  Sound(Put(t, p, r), At(t, p), <<Alt(p[1], At(t, p).tag), s>>, g)
  <1> DEFINE q == <<Alt(p[1], At(t, p).tag), s>>
  <1>1. t \in Tables /\ Homed(t) /\ Handed(r, p) /\ t.cells = g.cells /\ t.forget = g.forget /\ Kept(t, r, p, g.debts)
    BY Zenon DEF Sound
  <1>2. r \in Records /\ p \in Positions
    BY <1>1, Zenon DEF Handed
  <1>3. Put(t, p, r) \in Tables /\ Put(t, p, r).cells = g.cells /\ Put(t, p, r).forget = g.forget
    BY <1>1, <1>2, PutIs, Zenon
  <1>4. Homed(Put(t, p, r))
    BY <1>1, PutHomed, Zenon
  <1>5. Handed(At(t, p), q)
    BY <1>1, <1>2, SwapHanded, Zenon
  <1>6. g.debts \subseteq Key \X Debts
    BY Zenon DEF Setting, Debited
  <1>7. Kept(Put(t, p, r), At(t, p), q, g.debts)
    BY <1>1, <1>6, SwapKept, Zenon
  <1>8. ASSUME g.exact PROVE Exact(Put(t, p, r), At(t, p), q, g.clock, g.records)
    <2>1. Exact(t, r, p, g.clock, g.records)
      BY <1>8, Zenon DEF Sound
    <2> QED
      BY <1>1, <2>1, SwapExact, Zenon
  <1> HIDE DEF q
  <1>9. Sound(Put(t, p, r), At(t, p), q, g)
    BY <1>3, <1>4, <1>5, <1>7, <1>8, Zenon DEF Sound
  <1> QED
    BY <1>9, Zenon DEF q

LEMMA DropSound ==
    ASSUME NEW t, NEW r, NEW p, NEW g, Setting(g), Sound(t, r, p, g),
           NEW q \in Positions, q[1] = p[1], ~IsLive(At(t, q), g.ms)
    PROVE  Sound(Put(t, q, r), EmptyRecord, p, g)
  <1>1. t \in Tables /\ Homed(t) /\ Handed(r, p) /\ t.cells = g.cells /\ t.forget = g.forget /\ Kept(t, r, p, g.debts)
    BY Zenon DEF Sound
  <1>2. r \in Records /\ p \in Positions /\ (r.tag # 0 => \E j \in Key : Mine(r, p, j))
    BY <1>1, Zenon DEF Handed
  <1>3. Put(t, q, r) \in Tables /\ Put(t, q, r).cells = g.cells /\ Put(t, q, r).forget = g.forget
    BY <1>1, <1>2, PutIs, Zenon
  <1>4. Handed(r, q)
    BY <1>2, SameBucket, Zenon DEF Handed, Mine
  <1>5. Homed(Put(t, q, r))
    BY <1>1, <1>4, PutHomed, Zenon
  <1>6. Handed(EmptyRecord, p)
    <2>1. EmptyRecord \in Records /\ EmptyRecord.tag = 0
      BY BoundsAssumption DEF EmptyRecord, Records, Deadlines
    <2> QED
      BY <1>2, <2>1, Zenon DEF Handed
  <1>7. g.debts \subseteq Debited(g.ms) /\ g.ms \in Nat /\ g.clock \in Nat /\ g.ms =< g.clock
    BY Zenon DEF Setting
  <1>8. Kept(Put(t, q, r), EmptyRecord, p, g.debts)
    BY <1>1, <1>7, DropKept, Zenon
  <1>9. ASSUME g.exact PROVE Exact(Put(t, q, r), EmptyRecord, p, g.clock, g.records)
    <2>1. Exact(t, r, p, g.clock, g.records)
      BY <1>9, Zenon DEF Sound
    <2> QED
      BY <1>1, <1>7, <2>1, DropExact, Zenon
  <1> QED
    BY <1>3, <1>5, <1>6, <1>8, <1>9, Zenon DEF Sound

LEMMA TurnSound ==
    ASSUME NEW t, NEW r, NEW p, NEW g, Sound(t, r, p, g), NEW u, SameRecords(t, u)
    PROVE  Sound(u, r, p, g)
  <1>1. t \in Tables /\ Homed(t) /\ Handed(r, p) /\ t.cells = g.cells /\ t.forget = g.forget /\ Kept(t, r, p, g.debts)
    BY Zenon DEF Sound
  <1>2. u \in Tables /\ u.cells = g.cells /\ u.forget = g.forget
    BY <1>1, Zenon DEF SameRecords
  <1>3. Homed(u) /\ Kept(u, r, p, g.debts)
    BY <1>1, SameGood, Zenon
  <1>4. g.exact => Exact(u, r, p, g.clock, g.records)
    <2>1. g.exact => Exact(t, r, p, g.clock, g.records)
      BY Zenon DEF Sound
    <2> QED
      BY <1>1, <2>1, SameGood, Zenon
  <1> QED
    BY <1>1, <1>2, <1>3, <1>4, Zenon DEF Sound

\* The states of a walk: the record in hand looks for a place, with one that may
\* move where it is to go; or every record has a place; or there is none for a
\* record in hand that was not inherited.
WalkStates(g) ==
    {w \in [table : Tables, homeless : Records, place : Positions, state : {"walking", "placed", "stuck"}] :
        /\ Sound(w.table, IF w.state = "placed" THEN EmptyRecord ELSE w.homeless, w.place, g)
        /\ w.state = "walking" => Movable(At(w.table, w.place), g.ms)
        /\ w.state = "stuck" => ~w.homeless.inherited}

\* A move leads from a state of the walk to one, and the last move ends the walk.
LEMMA KickIn ==
    ASSUME NEW g, Setting(g), NEW w \in WalkStates(g), w.state = "walking", NEW last \in BOOLEAN
    PROVE  Kick(w, last, g.ms) \in WalkStates(g) /\ (last => Kick(w, last, g.ms).state # "walking")
  <1> DEFINE out == At(w.table, w.place)
             t == Put(w.table, w.place, w.homeless)
             b == Alt(w.place[1], out.tag)
             free == FreeIn(t, b, g.ms)
             next == MovableIn(t, b, g.ms)
             W == [table : Tables, homeless : Records, place : Positions, state : {"walking", "placed", "stuck"}]
             K == Kick(w, last, g.ms)
  <1>1. w \in W /\ Sound(w.table, w.homeless, w.place, g) /\ Movable(out, g.ms)
    BY Zenon DEF WalkStates
  <1>2. w.table \in Tables /\ w.homeless \in Records /\ w.place \in Positions
    BY <1>1, Zenon
  <1>3. out.tag # 0 /\ ~out.inherited
    BY <1>1, Zenon DEF Movable, IsLive
  <1>4. \A s \in Slots : Sound(t, out, <<b, s>>, g)
    BY <1>1, <1>3, SwapSound, Zenon
  <1>5. 0 \in Slots
    BY TableAssumption DEF Slots
  <1>6. t \in Tables /\ out \in Records /\ \A s \in Slots : <<b, s>> \in Positions
    BY <1>4, <1>5, Zenon DEF Sound, Handed
  <1>7. b \in Buckets
    BY <1>5, <1>6, Zenon DEF Positions
  <1>8. K = IF free # {} THEN [table |-> Put(t, <<b, Least(free)>>, out), homeless |-> out, place |-> <<b, 0>>, state |-> "placed"]
            ELSE IF last THEN [table |-> t, homeless |-> out, place |-> <<b, 0>>, state |-> "stuck"]
            ELSE IF next.place = Nowhere THEN [table |-> next.table, homeless |-> out, place |-> <<b, 0>>, state |-> "stuck"]
            ELSE [table |-> next.table, homeless |-> out, place |-> next.place, state |-> "walking"]
    BY Zenon DEF Kick
  <1>9. /\ free \subseteq Slots
        /\ \A r \in Slots : r \in free <=> ~IsLive(At(t, <<b, r>>), g.ms)
        /\ free # {} => Least(free) \in free
    BY <1>6, <1>7, FreeInIs, Zenon
  <1>10. /\ SameRecords(t, next.table)
         /\ next.place # Nowhere => \E s \in Slots : next.place = <<b, s>> /\ Movable(At(t, <<b, s>>), g.ms)
    BY <1>6, <1>7, MovableInIs, Zenon
  <1> HIDE DEF out, t, b, free, next, K
  <1>11. ASSUME NEW u, NEW p, Sound(u, out, p, g)
         PROVE  [table |-> u, homeless |-> out, place |-> p, state |-> "stuck"] \in WalkStates(g)
    <2>1. u \in Tables /\ p \in Positions
      BY <1>11, Zenon DEF Sound, Handed
    <2> QED
      BY <1>3, <1>6, <1>11, <2>1, Zenon DEF WalkStates
  <1>12. CASE free # {}
    <2> DEFINE q == <<b, Least(free)>>
    <2>1. q \in Positions /\ q[1] = <<b, 0>>[1] /\ ~IsLive(At(t, q), g.ms)
      BY <1>6, <1>9, <1>12, Zenon
    <2> HIDE DEF q
    <2>2. Sound(Put(t, q, out), EmptyRecord, <<b, 0>>, g)
      BY <1>4, <1>5, <2>1, DropSound, Zenon
    <2>3. K = [table |-> Put(t, q, out), homeless |-> out, place |-> <<b, 0>>, state |-> "placed"]
      BY <1>8, <1>12, Zenon DEF q
    <2>4. Put(t, q, out) \in Tables /\ <<b, 0>> \in Positions
      BY <1>5, <1>6, <2>2, Zenon DEF Sound
    <2>5. K \in WalkStates(g) /\ K.state # "walking"
      BY <1>6, <2>2, <2>3, <2>4, Zenon DEF WalkStates
    <2> QED
      BY <2>5, Zenon DEF K
  <1>13. CASE free = {} /\ last
    <2>1. K = [table |-> t, homeless |-> out, place |-> <<b, 0>>, state |-> "stuck"]
      BY <1>8, <1>13, Zenon
    <2>2. K \in WalkStates(g) /\ K.state # "walking"
      BY <1>4, <1>5, <1>11, <2>1, Zenon
    <2> QED
      BY <2>2, Zenon DEF K
  <1>14. CASE free = {} /\ ~last /\ next.place = Nowhere
    <2>1. K = [table |-> next.table, homeless |-> out, place |-> <<b, 0>>, state |-> "stuck"]
      BY <1>8, <1>14, Zenon
    <2>2. Sound(next.table, out, <<b, 0>>, g)
      BY <1>4, <1>5, <1>10, TurnSound, Zenon
    <2>3. K \in WalkStates(g)
      BY <1>11, <2>1, <2>2, Zenon
    <2> QED
      BY <1>14, <2>3, Zenon DEF K
  <1>15. CASE free = {} /\ ~last /\ next.place # Nowhere
    <2>1. PICK s \in Slots : next.place = <<b, s>> /\ Movable(At(t, <<b, s>>), g.ms)
      BY <1>10, <1>15, Zenon
    <2>2. K = [table |-> next.table, homeless |-> out, place |-> <<b, s>>, state |-> "walking"]
      BY <1>8, <1>15, <2>1, Zenon
    <2>3. Sound(next.table, out, <<b, s>>, g)
      BY <1>4, <1>10, TurnSound, Zenon
    <2>4. next.table \in Tables /\ <<b, s>> \in Positions
      BY <1>6, <2>3, Zenon DEF Sound
    <2>5. At(next.table, <<b, s>>) = At(t, <<b, s>>)
      BY <1>10, Zenon DEF SameRecords, At
    <2>6. K \in WalkStates(g)
      BY <1>6, <2>1, <2>2, <2>3, <2>4, <2>5, Zenon DEF WalkStates
    <2> QED
      BY <1>15, <2>6, Zenon DEF K
  <1> QED
    BY <1>12, <1>13, <1>14, <1>15, Zenon

Iterates(g, base, n, step) == \A k \in 0..n : g[k] = IF k = 0 THEN base ELSE step[k][g[k - 1]]

\* A step repeated: the recursive function that starts with base and applies
\* step[k] to reach its k-th value exists, and so is what its definition says.
LEMMA IterationExists ==
    ASSUME NEW X, NEW base \in X, NEW n \in Nat, NEW step \in [1..n -> [X -> X]]
    PROVE  \E g \in [0..n -> X] : Iterates(g, base, n, step)
  <1> DEFINE Good(m, g) == \A k \in 0..m : g[k] = IF k = 0 THEN base ELSE step[k][g[k - 1]]
             Bad == {m \in 0..n : ~\E g \in [0..m -> X] : Good(m, g)}
  <1>1. SUFFICES ASSUME Bad # {} PROVE FALSE
    <2>1. n \in 0..n
      OBVIOUS
    <2>2. \E g \in [0..n -> X] : Good(n, g)
      BY <1>1, <2>1, Zenon
    <2> QED
      BY <2>2, Zenon DEF Iterates
  <1>2. PICK m \in Bad : \A k \in Bad : m =< k
    <2>1. Bad \subseteq Nat
      OBVIOUS
    <2> QED
      BY <1>1, <2>1, LeastNat, Zenon
  <1>3. m \in 0..n /\ ~\E g \in [0..m -> X] : Good(m, g)
    BY Zenon
  <1>4. CASE m = 0
    <2>1. [k \in 0..m |-> base] \in [0..m -> X] /\ Good(m, [k \in 0..m |-> base])
      BY <1>4
    <2> QED
      BY <1>3, <2>1, Zenon
  <1>5. CASE m # 0
    <2>1. m - 1 \in 0..n /\ m - 1 \notin Bad
      <3>1. m - 1 \in 0..n /\ ~(m =< m - 1)
        BY <1>3, <1>5
      <3> QED
        BY <1>2, <3>1, Zenon
    <2>2. PICK g \in [0..m - 1 -> X] : Good(m - 1, g)
      BY <2>1, Zenon
    <2> DEFINE h == [k \in 0..m |-> IF k = m THEN step[m][g[m - 1]] ELSE g[k]]
    <2>3. m \in 1..n /\ m - 1 \in 0..m - 1
      BY <1>3, <1>5
    <2>4. step[m][g[m - 1]] \in X
      BY <2>3
    <2>5. h \in [0..m -> X]
      BY <2>4, <1>3
    <2>6. Good(m, h)
      <3>1. SUFFICES ASSUME NEW k \in 0..m
                     PROVE  h[k] = IF k = 0 THEN base ELSE step[k][h[k - 1]]
        BY Zenon
      <3>2. CASE k = m
        <4>1. h[k] = step[m][g[m - 1]] /\ h[k - 1] = g[m - 1]
          BY <2>3, <3>2
        <4> QED
          BY <1>5, <3>2, <4>1, Zenon
      <3>3. CASE k # m
        <4>1. k \in 0..m - 1 /\ h[k] = g[k]
          BY <1>3, <3>1, <3>3
        <4>2. k # 0 => k - 1 \in 0..m /\ k - 1 # m /\ h[k - 1] = g[k - 1]
          BY <1>3, <3>1, <3>3
        <4> QED
          BY <2>2, <4>1, <4>2, Zenon
      <3> QED
        BY <3>2, <3>3, Zenon
    <2> QED
      BY <1>3, <2>5, <2>6, Zenon
  <1> QED
    BY <1>4, <1>5, Zenon

\* One turn of the walk's loop.
Onward(w, last, ms) == IF w.state = "walking" THEN Kick(w, last, ms) ELSE w

IsWalk(f, start, n, ms) ==
    f = [k \in 0..n |-> IF k = 0 THEN start ELSE Onward(f[k - 1], k = n, ms)]

LEMMA WalkUnfold ==
    ASSUME NEW t, NEW r, NEW p, NEW n, NEW ms
    PROVE  Walk(t, r, p, n, ms)
             = (CHOOSE f : IsWalk(f, [table |-> t, homeless |-> r, place |-> p, state |-> "walking"], n, ms))[n]
  BY Zenon DEF Walk, IsWalk, Onward

\* A walk from a state of the walk ends in one, and is over then.
LEMMA WalkIn ==
    ASSUME NEW g, Setting(g), NEW n \in Nat, n # 0, NEW t, NEW r, NEW p,
           [table |-> t, homeless |-> r, place |-> p, state |-> "walking"] \in WalkStates(g)
    PROVE  Walk(t, r, p, n, g.ms) \in WalkStates(g) /\ Walk(t, r, p, n, g.ms).state # "walking"
  <1> DEFINE X == WalkStates(g)
             start == [table |-> t, homeless |-> r, place |-> p, state |-> "walking"]
             f == CHOOSE h : IsWalk(h, start, n, g.ms)
             step == [k \in 1..n |-> [w \in X |-> Onward(w, k = n, g.ms)]]
  <1>1. \A w \in X, last \in BOOLEAN : Onward(w, last, g.ms) \in X /\ (last => Onward(w, last, g.ms).state # "walking")
    BY KickIn, Zenon DEF Onward
  <1>2. start \in X
    BY Zenon
  <1> HIDE DEF X, start
  <1>3. step \in [1..n -> [X -> X]]
    BY <1>1, Zenon
  <1>4. \A k \in 1..n, w \in X : step[k][w] = Onward(w, k = n, g.ms)
    BY Zenon
  <1> HIDE DEF step
  <1>5. PICK h \in [0..n -> X] : Iterates(h, start, n, step)
    BY <1>2, <1>3, IterationExists, Zenon
  <1>6. IsWalk(h, start, n, g.ms)
    <2>1. ASSUME NEW k \in 0..n PROVE h[k] = IF k = 0 THEN start ELSE Onward(h[k - 1], k = n, g.ms)
      <3>1. k # 0 => k \in 1..n /\ k - 1 \in 0..n
        OBVIOUS
      <3> QED
        BY <1>4, <1>5, <3>1, Zenon DEF Iterates
    <2> DEFINE G == [k \in 0..n |-> IF k = 0 THEN start ELSE Onward(h[k - 1], k = n, g.ms)]
    <2>2. h = G
      BY <2>1, Zenon
    <2> QED
      BY <2>2, Zenon DEF IsWalk
  <1>7. IsWalk(f, start, n, g.ms)
    BY <1>6, Zenon
  <1> HIDE DEF f
  <1>8. \A k \in 0..n : f[k] = IF k = 0 THEN start ELSE Onward(f[k - 1], k = n, g.ms)
    <2> DEFINE G == [k \in 0..n |-> IF k = 0 THEN start ELSE Onward(f[k - 1], k = n, g.ms)]
    <2>1. f = G
      BY <1>7, Zenon DEF IsWalk
    <2>2. \A k \in 0..n : G[k] = IF k = 0 THEN start ELSE Onward(f[k - 1], k = n, g.ms)
      BY Zenon
    <2> QED
      BY <2>1, <2>2, Zenon
  <1>9. \A k \in 0..n : f[k] \in X
    <2> DEFINE Bad == {k \in 0..n : f[k] \notin X}
    <2>1. SUFFICES ASSUME Bad # {} PROVE FALSE
      BY Zenon
    <2>2. PICK m \in Bad : \A k \in Bad : m =< k
      <3>1. Bad \subseteq Nat
        OBVIOUS
      <3> QED
        BY <2>1, <3>1, LeastNat, Zenon
    <2>3. m \in 0..n /\ f[m] \notin X
      BY <2>2, Zenon
    <2>4. m # 0
      BY <1>2, <1>8, <2>3, Zenon
    <2>5. m - 1 \in 0..n /\ f[m - 1] \in X
      BY <2>2, <2>3, <2>4
    <2>6. f[m] = Onward(f[m - 1], m = n, g.ms)
      BY <1>8, <2>3, <2>4, Zenon
    <2> QED
      BY <1>1, <2>3, <2>5, <2>6, Zenon
  <1>10. n \in 0..n /\ n - 1 \in 0..n
    OBVIOUS
  <1>11. f[n] = Onward(f[n - 1], TRUE, g.ms)
    BY <1>8, <1>10, Zenon
  <1>12. f[n] \in X /\ f[n].state # "walking"
    BY <1>1, <1>9, <1>10, <1>11, Zenon
  <1>13. Walk(t, r, p, n, g.ms) = f[n]
    BY WalkUnfold, Zenon DEF f, start
  <1> QED
    BY <1>12, <1>13, Zenon DEF X

-----------------------------------------------------------------------------
\* The sketch.

CellValues == [spent : 0..SpentMax, until : Deadlines]

\* What a cell reads back as.
LEMMA UnpackedIs ==
    ASSUME NEW cell \in CellValues
    PROVE  /\ Unpacked(cell).until = cell.until /\ cell.until \in Nat /\ cell.until \in Deadlines
           /\ Unpacked(cell).spent = (IF cell.spent = SpentMax THEN AllUnits ELSE cell.spent)
           /\ Unpacked(cell).spent \in Nat /\ Unpacked(cell).spent =< AllUnits
  <1>1. Deadlines \subseteq Nat
    BY BoundsAssumption DEF Deadlines
  <1>2. cell.spent \in 0..SpentMax /\ cell.until \in Deadlines
    BY Zenon DEF CellValues
  <1>3. Unpacked(cell).until = cell.until /\ Unpacked(cell).spent = (IF cell.spent = SpentMax THEN AllUnits ELSE cell.spent)
    BY Zenon DEF Unpacked, CellValues
  <1>4. cell.spent \in Nat /\ cell.spent =< AllUnits /\ AllUnits \in Nat
    BY <1>2, TableAssumption
  <1>5. Unpacked(cell).spent \in Nat /\ Unpacked(cell).spent =< AllUnits
    BY <1>3, <1>4
  <1> QED
    BY <1>1, <1>2, <1>3, <1>5, Zenon

\* A debt reads back as no less than was written.
LEMMA PackedIs ==
    ASSUME NEW until \in Deadlines, NEW spent \in Nat, spent =< AllUnits
    PROVE  /\ Packed(until, spent) \in CellValues
           /\ Unpacked(Packed(until, spent)).until = until
           /\ Unpacked(Packed(until, spent)).spent >= spent
  <1> DEFINE cell == Packed(until, spent)
  <1>1. cell = [until |-> until, spent |-> IF spent < SpentMax THEN spent ELSE SpentMax]
    BY Zenon DEF Packed, Smaller
  <1>2. cell \in CellValues /\ cell.until = until
    BY <1>1, TableAssumption DEF CellValues
  <1>3. cell.spent = IF spent < SpentMax THEN spent ELSE SpentMax
    BY <1>1
  <1> HIDE DEF cell
  <1>4. Unpacked(cell).until = cell.until /\ Unpacked(cell).spent = IF cell.spent = SpentMax THEN AllUnits ELSE cell.spent
    BY <1>2, UnpackedIs, Zenon
  <1>5. Unpacked(cell).spent >= spent
    BY <1>3, <1>4, TableAssumption
  <1> QED
    BY <1>2, <1>4, <1>5, Zenon DEF cell

\* A cell that is raised covers the record, and covers and lasts as much as it did.
LEMMA RaisedIs ==
    ASSUME NEW cell \in CellValues, NEW r \in Records, NEW ms \in Nat
    PROVE  /\ Raised(cell, r, ms) \in CellValues
           /\ Covers(Unpacked(Raised(cell, r, ms)), r)
           /\ cell.until > ms => Raised(cell, r, ms).until >= cell.until
           /\ cell.until > ms => Covers(Unpacked(Raised(cell, r, ms)), Unpacked(cell))
  <1> DEFINE old == Unpacked(cell)
             new == Raised(cell, r, ms)
  <1>1. /\ old.until = cell.until /\ cell.until \in Nat /\ cell.until \in Deadlines
        /\ old.spent \in Nat /\ old.spent =< AllUnits
    BY UnpackedIs, Zenon
  <1>2. r.spent \in Nat /\ r.spent =< AllUnits /\ r.until \in Nat /\ r.until \in Deadlines
    BY RecordType, Zenon
  <1>3. new = IF old.until > ms THEN Packed(Larger(old.until, r.until), Larger(old.spent, r.spent))
              ELSE Packed(r.until, r.spent)
    BY Zenon DEF Raised
  <1> HIDE DEF old, new
  <1>4. CASE old.until > ms
    <2> DEFINE u == Larger(old.until, r.until)
               s == Larger(old.spent, r.spent)
    <2>1. /\ u \in Deadlines /\ u \in Nat /\ s \in Nat /\ s =< AllUnits
          /\ u >= old.until /\ u >= r.until /\ s >= old.spent /\ s >= r.spent
      BY <1>1, <1>2 DEF Larger
    <2> HIDE DEF u, s
    <2>2. new = Packed(u, s)
      BY <1>3, <1>4, Zenon DEF u, s
    <2>3. new \in CellValues /\ Unpacked(new).until = u /\ Unpacked(new).spent >= s
      BY <2>1, <2>2, PackedIs, Zenon
    <2>4. Unpacked(new).until = new.until /\ Unpacked(new).spent \in Nat
      BY <2>3, UnpackedIs, Zenon
    <2>5. Covers(Unpacked(new), r) /\ new.until >= cell.until /\ Covers(Unpacked(new), old)
      BY <1>1, <1>2, <2>1, <2>3, <2>4 DEF Covers
    <2> QED
      BY <2>3, <2>5, Zenon DEF new, old
  <1>5. CASE ~(old.until > ms)
    <2>1. new = Packed(r.until, r.spent)
      BY <1>3, <1>5, Zenon
    <2>2. new \in CellValues /\ Unpacked(new).until = r.until /\ Unpacked(new).spent >= r.spent
      BY <1>2, <2>1, PackedIs, Zenon
    <2>3. Covers(Unpacked(new), r)
      BY <1>2, <2>2 DEF Covers
    <2> QED
      BY <1>1, <1>5, <2>2, <2>3, Zenon DEF new, old
  <1> QED
    BY <1>4, <1>5, Zenon

\* The cells of a key, from any of its places.
LEMMA KeyCells ==
    ASSUME NEW j \in Key
    PROVE  /\ \E c, d \in Cells : CellsAt(Tag[j], Home[j]) = {c, d}
           /\ \A p \in Spots(j) : CellsAt(Tag[j], p[1]) = CellsAt(Tag[j], Home[j])
  <1> DEFINE b == Home[j]
             a == Alt(b, Tag[j])
  <1>1. b \in Buckets /\ a \in Buckets /\ Alt(a, Tag[j]) = b
    BY KeyBuckets, HashAssumption, Zenon
  <1>2. Smaller(a, b) = Smaller(b, a) /\ Smaller(a, b) \in Buckets
    <2> HIDE DEF a, b
    <2>1. a \in Nat /\ b \in Nat
      BY <1>1, TableAssumption, Zenon
    <2> QED
      BY <1>1, <2>1 DEF Smaller
  <1>3. \E c, d \in Cells : CellsOf(Tag[j], Smaller(b, a)) = {c, d}
    BY <1>2, HashAssumption
  <1>4. CellsAt(Tag[j], b) = CellsOf(Tag[j], Smaller(b, a)) /\ CellsAt(Tag[j], a) = CellsOf(Tag[j], Smaller(b, a))
    BY <1>1, <1>2, Zenon DEF CellsAt
  <1>5. \A p \in Spots(j) : p[1] = b \/ p[1] = a
    BY KeyBuckets, Zenon DEF Spots
  <1> QED
    BY <1>3, <1>4, <1>5, Zenon

\* What is in the cells by a reading stays there.
Higher(old, new, ms) == \A c \in Cells : old[c].until > ms => new[c].until >= old[c].until

LEMMA OverflowIs ==
    ASSUME NEW t \in Tables, NEW r \in Records, NEW b, NEW ms \in Nat
    PROVE  /\ Overflow(t, r, b, ms) \in Tables
           /\ Overflow(t, r, b, ms).buckets = t.buckets
           /\ Overflow(t, r, b, ms).forget = t.forget
           /\ \A c \in Cells : c \in CellsAt(r.tag, b) => Covers(Unpacked(Overflow(t, r, b, ms).cells[c]), r)
           /\ \A c \in Cells : t.cells[c].until > ms =>
                /\ Overflow(t, r, b, ms).cells[c].until >= t.cells[c].until
                /\ Covers(Unpacked(Overflow(t, r, b, ms).cells[c]), Unpacked(t.cells[c]))
  <1> DEFINE cells == [c \in Cells |-> IF c \in CellsAt(r.tag, b) THEN Raised(t.cells[c], r, ms) ELSE t.cells[c]]
             u == Overflow(t, r, b, ms)
  <1>1. \A c \in Cells : t.cells[c] \in CellValues
    BY Zenon DEF Tables, CellValues
  <1>2. \A c \in Cells :
            /\ Raised(t.cells[c], r, ms) \in CellValues
            /\ Covers(Unpacked(Raised(t.cells[c], r, ms)), r)
            /\ t.cells[c].until > ms => Raised(t.cells[c], r, ms).until >= t.cells[c].until
            /\ t.cells[c].until > ms => Covers(Unpacked(Raised(t.cells[c], r, ms)), Unpacked(t.cells[c]))
    BY <1>1, RaisedIs, Zenon
  <1>3. cells \in [Cells -> CellValues]
    BY <1>1, <1>2, Zenon
  <1>4. \A c \in Cells : cells[c] = IF c \in CellsAt(r.tag, b) THEN Raised(t.cells[c], r, ms) ELSE t.cells[c]
    BY Zenon
  <1>5. u = [t EXCEPT !.cells = cells]
    BY Zenon DEF Overflow
  <1> HIDE DEF cells, u
  <1>6. u \in Tables /\ u.buckets = t.buckets /\ u.forget = t.forget /\ u.cells = cells
    BY <1>3, <1>5, Zenon DEF Tables, CellValues
  <1>7. \A c \in Cells : c \in CellsAt(r.tag, b) => Covers(Unpacked(cells[c]), r)
    BY <1>2, <1>4, Zenon
  <1>8. \A c \in Cells : t.cells[c].until >= t.cells[c].until /\ Covers(Unpacked(t.cells[c]), Unpacked(t.cells[c]))
    BY <1>1, UnpackedIs DEF Covers
  <1>9. \A c \in Cells : t.cells[c].until > ms =>
            cells[c].until >= t.cells[c].until /\ Covers(Unpacked(cells[c]), Unpacked(t.cells[c]))
    BY <1>2, <1>4, <1>8, Zenon
  <1> QED
    BY <1>6, <1>7, <1>9, Zenon DEF u

-----------------------------------------------------------------------------
\* What recording a debt leaves behind: a table that covers the debts and has
\* the records it should, and a record that was put in the sketch, if any, which
\* was not inherited and was one that its key may have.
Settled(t, g) ==
    /\ t \in Tables /\ Homed(t) /\ t.forget = g.forget
    /\ Higher(g.cells, t.cells, g.ms)
    /\ \A x \in g.debts : InTable(t, x[1], x[2]) \/ InSketch(t, x[1], x[2])
    /\ g.exact => \A j \in Key :
        /\ \A p, q \in Spots(j) : Holds(t, j, p, g.clock) /\ Holds(t, j, q, g.clock) => p = q
        /\ \A p \in Spots(j) : Holds(t, j, p, g.clock) => <<j, At(t, p)>> \in g.records

MaySpill(h, g) ==
    /\ ~h[1].inherited
    /\ g.exact => \A j \in Key :
        h[1].tag = Tag[j] /\ h[2] \in {BucketsOf(j)[1], BucketsOf(j)[2]} /\ h[1].until > g.clock
            => <<j, h[1]>> \in g.records

Stored(result, g) == Settled(result.table, g) /\ \A h \in result.spilled : MaySpill(h, g)

LEMMA SoundSettled ==
    ASSUME NEW t, NEW r, NEW p, NEW g, Setting(g), Sound(t, r, p, g), r = EmptyRecord \/ g.debts = {}
    PROVE  Settled(t, g)
  <1>1. t \in Tables /\ Homed(t) /\ t.cells = g.cells /\ t.forget = g.forget /\ Kept(t, r, p, g.debts)
    BY Zenon DEF Sound
  <1>2. Higher(g.cells, t.cells, g.ms)
    <2>1. \A c \in Cells : t.cells[c] \in CellValues
      BY <1>1, Zenon DEF Tables, CellValues
    <2>2. \A c \in Cells : t.cells[c].until >= t.cells[c].until
      BY <2>1, UnpackedIs
    <2> QED
      BY <1>1, <2>2, Zenon DEF Higher
  <1>3. \A x \in g.debts : x[1] \in Key
    BY Zenon DEF Setting, Debited
  <1>4. ASSUME NEW x \in g.debts PROVE InTable(t, x[1], x[2]) \/ InSketch(t, x[1], x[2])
    <2>1. EmptyRecord.tag = 0
      BY Zenon DEF EmptyRecord
    <2>2. Tag[x[1]] # 0
      BY <1>3, KeyBuckets, Zenon
    <2> QED
      BY <1>1, <2>1, <2>2, Zenon DEF Kept, Mine
  <1>5. g.exact => \A j \in Key :
            /\ \A q, s \in Spots(j) : Holds(t, j, q, g.clock) /\ Holds(t, j, s, g.clock) => q = s
            /\ \A q \in Spots(j) : Holds(t, j, q, g.clock) => <<j, At(t, q)>> \in g.records
    BY Zenon DEF Sound, Exact
  <1> QED
    BY <1>1, <1>2, <1>4, <1>5, Zenon DEF Settled

\* A record that is not inherited may go to the sketch, or be forgotten.
LEMMA SpillStored ==
    ASSUME NEW t, NEW r, NEW p, NEW g, Setting(g), Sound(t, r, p, g), ~r.inherited
    PROVE  Stored(Spill(t, r, p[1], g.ms), g) /\ Spill(t, r, p[1], g.ms).how # "none"
  <1> DEFINE b == p[1]
             S == Spill(t, r, b, g.ms)
             u == Overflow(t, r, b, g.ms)
  <1>1. t \in Tables /\ Homed(t) /\ Handed(r, p) /\ t.cells = g.cells /\ t.forget = g.forget /\ Kept(t, r, p, g.debts)
    BY Zenon DEF Sound
  <1>2. r \in Records /\ p \in Positions
    BY <1>1, Zenon DEF Handed
  <1>3. CASE t.forget
    <2>1. S = [table |-> t, how |-> "forgotten", spilled |-> {}]
      BY <1>3, Zenon DEF Spill
    <2>2. Settled(t, g)
      BY <1>1, <1>3, SoundSettled, Zenon DEF Setting
    <2>3. S.table = t /\ S.spilled = {} /\ S.how # "none"
      BY <2>1
    <2> HIDE DEF S
    <2> QED
      BY <2>2, <2>3, Zenon DEF Stored, S
  <1>4. CASE ~t.forget
    <2>1. S = [table |-> u, how |-> "overflowed", spilled |-> {<<r, b>>}]
      BY <1>4, Zenon DEF Spill
    <2>2. /\ u \in Tables /\ u.buckets = t.buckets /\ u.forget = t.forget
          /\ \A c \in Cells : c \in CellsAt(r.tag, b) => Covers(Unpacked(u.cells[c]), r)
          /\ \A c \in Cells : t.cells[c].until > g.ms =>
                u.cells[c].until >= t.cells[c].until /\ Covers(Unpacked(u.cells[c]), Unpacked(t.cells[c]))
      <3>1. g.ms \in Nat
        BY Zenon DEF Setting
      <3> HIDE DEF b
      <3> QED
        BY <1>1, <1>2, <3>1, OverflowIs
    <2> HIDE DEF u, S
    <2>3. \A q : At(u, q) = At(t, q)
      BY <2>2, Zenon DEF At
    <2>4. Homed(u)
      BY <1>1, <2>3, Zenon DEF Homed
    <2>5. Higher(g.cells, u.cells, g.ms)
      BY <1>1, <2>2, Zenon DEF Higher
    <2>6. ASSUME NEW x \in g.debts PROVE InTable(u, x[1], x[2]) \/ InSketch(u, x[1], x[2])
      <3>1. x[1] \in Key /\ x[2] \in Debts /\ x[2].until > g.ms /\ g.ms \in Nat
        BY Zenon DEF Setting, Debited
      <3>2. PICK c, d \in Cells : CellsAt(Tag[x[1]], Home[x[1]]) = {c, d}
        BY <3>1, KeyCells, Zenon
      <3>3. \A e \in CellsAt(Tag[x[1]], Home[x[1]]) : e \in Cells
        BY <3>2, Zenon
      <3>4. CASE InTable(t, x[1], x[2])
        BY <2>3, <3>4, Zenon DEF InTable
      <3>5. CASE InSketch(t, x[1], x[2])
        <4>1. SUFFICES ASSUME NEW e \in CellsAt(Tag[x[1]], Home[x[1]]) PROVE Covers(Unpacked(u.cells[e]), x[2])
          BY Zenon DEF InSketch
        <4>2. e \in Cells /\ Covers(Unpacked(t.cells[e]), x[2])
          BY <3>3, <3>5, Zenon DEF InSketch
        <4>3. t.cells[e] \in CellValues /\ u.cells[e] \in CellValues
          BY <1>1, <2>2, <4>2, Zenon DEF Tables, CellValues
        <4>4. Unpacked(t.cells[e]).until = t.cells[e].until
          BY <4>3, UnpackedIs, Zenon
        <4>5. /\ t.cells[e].until \in Nat /\ Unpacked(t.cells[e]).spent \in Nat
              /\ Unpacked(u.cells[e]).until \in Nat /\ Unpacked(u.cells[e]).spent \in Nat
          BY <4>3, UnpackedIs, Zenon
        <4>6. x[2].spent \in Nat /\ x[2].until \in Nat
          BY <3>1, DebtType, Zenon
        <4>7. t.cells[e].until > g.ms
          BY <3>1, <4>2, <4>4, <4>5, <4>6 DEF Covers
        <4>8. Covers(Unpacked(u.cells[e]), Unpacked(t.cells[e]))
          BY <2>2, <4>2, <4>7, Zenon
        <4> QED
          BY <4>2, <4>4, <4>5, <4>6, <4>8 DEF Covers
      <3>6. CASE Mine(r, p, x[1]) /\ Covers(r, x[2])
        <4>1. CellsAt(r.tag, b) = CellsAt(Tag[x[1]], Home[x[1]])
          BY <3>1, <3>6, KeyCells, Zenon DEF Mine
        <4>2. SUFFICES ASSUME NEW e \in CellsAt(Tag[x[1]], Home[x[1]]) PROVE Covers(Unpacked(u.cells[e]), x[2])
          BY Zenon DEF InSketch
        <4>3. e \in Cells /\ Covers(Unpacked(u.cells[e]), r)
          BY <2>2, <3>3, <4>1, Zenon
        <4>4. u.cells[e] \in CellValues
          BY <2>2, <4>3, Zenon DEF Tables, CellValues
        <4>5. Unpacked(u.cells[e]).until \in Nat /\ Unpacked(u.cells[e]).spent \in Nat
          BY <4>4, UnpackedIs, Zenon
        <4>6. x[2].spent \in Nat /\ x[2].until \in Nat
          BY <3>1, DebtType, Zenon
        <4>7. r.spent \in Nat /\ r.until \in Nat
          BY <1>2, RecordType, Zenon
        <4> QED
          BY <3>6, <4>3, <4>5, <4>6, <4>7 DEF Covers
      <3> QED
        BY <1>1, <3>4, <3>5, <3>6, Zenon DEF Kept
    <2>7. ASSUME g.exact PROVE Exact(t, r, p, g.clock, g.records)
      BY <2>7, Zenon DEF Sound
    <2>8. g.exact => \A j \in Key :
            /\ \A q, s \in Spots(j) : Holds(u, j, q, g.clock) /\ Holds(u, j, s, g.clock) => q = s
            /\ \A q \in Spots(j) : Holds(u, j, q, g.clock) => <<j, At(u, q)>> \in g.records
      BY <2>3, <2>7, Zenon DEF Exact, Holds
    <2>9. Settled(u, g)
      BY <1>1, <2>2, <2>4, <2>5, <2>6, <2>8, Zenon DEF Settled
    <2>10. MaySpill(<<r, b>>, g)
      <3>1. <<r, b>>[1] = r /\ <<r, b>>[2] = b
        BY Zenon
      <3>2. ASSUME NEW j \in Key, b \in {BucketsOf(j)[1], BucketsOf(j)[2]} PROVE p \in Spots(j)
        <4>1. p = <<p[1], p[2]>> /\ p[2] \in Slots
          BY <1>2 DEF Positions
        <4> QED
          BY <3>2, <4>1, SpotsIn
      <3>3. g.exact => \A j \in Key : r.tag = Tag[j] /\ p \in Spots(j) /\ r.until > g.clock => <<j, r>> \in g.records
        BY <2>7, Zenon DEF Exact, Mine
      <3> HIDE DEF b
      <3> QED
        BY <3>1, <3>2, <3>3, Zenon DEF MaySpill
    <2>11. S.table = u /\ S.spilled = {<<r, b>>} /\ S.how # "none"
      BY <2>1, Zenon
    <2>12. Stored(S, g)
      BY <2>9, <2>10, <2>11, Zenon DEF Stored
    <2> QED
      BY <2>11, <2>12, Zenon DEF S
  <1> QED
    BY <1>3, <1>4, Zenon

\* The end of a walk.
LEMMA WalkEndStored ==
    ASSUME NEW g, Setting(g), NEW w \in WalkStates(g), w.state # "walking"
    PROVE  Stored(WalkEnd(w, g.ms), g) /\ WalkEnd(w, g.ms).how # "none"
  <1>1. /\ Sound(w.table, IF w.state = "placed" THEN EmptyRecord ELSE w.homeless, w.place, g)
        /\ w.state \in {"walking", "placed", "stuck"}
        /\ w.state = "stuck" => ~w.homeless.inherited
    BY Zenon DEF WalkStates
  <1>2. w.table \in Tables
    BY <1>1, Zenon DEF Sound
  <1>3. CASE w.state = "placed"
    <2> DEFINE E == WalkEnd(w, g.ms)
    <2>1. E = [table |-> w.table, how |-> "exact", spilled |-> {}]
      BY <1>3, Zenon DEF WalkEnd
    <2>2. E.table = w.table /\ E.spilled = {} /\ E.how # "none"
      BY <2>1
    <2>3. Sound(w.table, EmptyRecord, w.place, g)
      BY <1>1, <1>3, Zenon
    <2>4. Settled(w.table, g)
      BY <2>3, SoundSettled, Zenon
    <2> HIDE DEF E
    <2>5. Stored(E, g)
      BY <2>2, <2>4, Zenon DEF Stored
    <2> QED
      BY <2>2, <2>5, Zenon DEF E
  <1>4. CASE w.state # "placed"
    <2> DEFINE u == [w.table EXCEPT !.backoff = WalkBackoff]
    <2>1. Sound(w.table, w.homeless, w.place, g) /\ ~w.homeless.inherited
      BY <1>1, <1>4, Zenon
    <2>2. WalkEnd(w, g.ms) = Spill(u, w.homeless, w.place[1], g.ms)
      BY <1>4, Zenon DEF WalkEnd
    <2>3. SameRecords(w.table, u)
      <3>1. WalkBackoff \in 0..WalkBackoff
        BY TableAssumption
      <3> QED
        BY <1>2, <3>1, BackoffSame, Zenon
    <2> HIDE DEF u
    <2>4. Sound(u, w.homeless, w.place, g)
      BY <2>1, <2>3, TurnSound, Zenon
    <2> QED
      BY <2>1, <2>2, <2>4, SpillStored, Zenon
  <1> QED
    BY <1>3, <1>4, Zenon

\* A walk, or what happens instead.
LEMMA WalkFromStored ==
    ASSUME NEW g, Setting(g), NEW k \in Key, NEW r, NEW start, NEW n \in Nat, n # 0,
           \A p \in Spots(k) : Sound(start.table, r, p, g),
           start.place # Nowhere => start.place \in Spots(k) /\ Movable(At(start.table, start.place), g.ms)
    PROVE  /\ WalkFrom(start, k, r, n, g.ms).how # "none" => Stored(WalkFrom(start, k, r, n, g.ms), g)
           /\ start.place # Nowhere \/ ~r.inherited => WalkFrom(start, k, r, n, g.ms).how # "none"
  <1> DEFINE p == start.place
             t == start.table
             w == [table |-> t, homeless |-> r, place |-> p, state |-> "walking"]
             R == WalkFrom(start, k, r, n, g.ms)
  <1>1. CASE p # Nowhere
    <2>1. Sound(t, r, p, g) /\ Movable(At(t, p), g.ms)
      BY <1>1, Zenon
    <2>2. t \in Tables /\ r \in Records /\ p \in Positions
      BY <2>1, Zenon DEF Sound, Handed
    <2>3. R = WalkEnd(Walk(t, r, p, n, g.ms), g.ms)
      BY <1>1, Zenon DEF WalkFrom
    <2> HIDE DEF p, t
    <2>4. w \in WalkStates(g)
      BY <2>1, <2>2, Zenon DEF WalkStates
    <2>5. Walk(t, r, p, n, g.ms) \in WalkStates(g) /\ Walk(t, r, p, n, g.ms).state # "walking"
      BY <2>4, WalkIn, Zenon
    <2> QED
      BY <2>3, <2>5, WalkEndStored, Zenon
  <1>2. CASE p = Nowhere /\ r.inherited
    <2>1. R = [table |-> t, how |-> "none", spilled |-> {}]
      BY <1>2, Zenon DEF WalkFrom
    <2>2. R.how = "none"
      BY <2>1
    <2> QED
      BY <1>2, <2>2, Zenon
  <1>3. CASE p = Nowhere /\ ~r.inherited
    <2>1. R = Spill(t, r, Home[k], g.ms)
      BY <1>3, Zenon DEF WalkFrom
    <2>2. <<Home[k], 0>> \in Spots(k)
      BY SpotsIn, KeyBuckets, TableAssumption DEF Slots
    <2>3. Sound(t, r, <<Home[k], 0>>, g) /\ <<Home[k], 0>>[1] = Home[k]
      BY <2>2, Zenon
    <2> QED
      BY <1>3, <2>1, <2>3, SpillStored, Zenon
  <1> QED
    BY <1>1, <1>2, <1>3, Zenon

\* A walk starts at a record that may move, if the key has a place with one.
LEMMA WalkStartIs ==
    ASSUME NEW t \in Tables, NEW k \in Key, NEW ms
    PROVE  LET start == WalkStart(MovableIn(t, BucketsOf(k)[1], ms), k, ms)
           IN  /\ SameRecords(t, start.table)
               /\ start.place # Nowhere => start.place \in Spots(k) /\ Movable(At(t, start.place), ms)
               /\ start.place = Nowhere => \A p \in Spots(k) : ~Movable(At(t, p), ms)
  <1> DEFINE b1 == BucketsOf(k)[1]
             b2 == BucketsOf(k)[2]
             m1 == MovableIn(t, b1, ms)
             m2 == MovableIn(m1.table, b2, ms)
             start == WalkStart(m1, k, ms)
  <1>1. b1 \in Buckets /\ b2 \in Buckets /\ \A s \in Slots : <<b1, s>> \in Spots(k) /\ <<b2, s>> \in Spots(k)
    BY KeyBuckets, SpotsIn, Zenon
  <1>2. \A p \in Spots(k) : (p = <<b1, p[2]>> \/ p = <<b2, p[2]>>) /\ p[2] \in Slots
    BY DEF Spots
  <1>3. start = IF m1.place # Nowhere THEN m1 ELSE m2
    BY Zenon DEF WalkStart
  <1> HIDE DEF b1, b2
  <1>4. /\ SameRecords(t, m1.table)
        /\ m1.place = Nowhere => \A s \in Slots : ~Movable(At(t, <<b1, s>>), ms)
        /\ m1.place # Nowhere => \E s \in Slots : m1.place = <<b1, s>> /\ Movable(At(t, <<b1, s>>), ms)
    BY <1>1, MovableInIs, Zenon
  <1>5. m1.table \in Tables
    BY <1>4, Zenon DEF SameRecords
  <1> HIDE DEF m1
  <1>6. /\ SameRecords(m1.table, m2.table)
        /\ m2.place = Nowhere => \A s \in Slots : ~Movable(At(m1.table, <<b2, s>>), ms)
        /\ m2.place # Nowhere => \E s \in Slots : m2.place = <<b2, s>> /\ Movable(At(m1.table, <<b2, s>>), ms)
    BY <1>1, <1>5, MovableInIs, Zenon
  <1>7. SameRecords(t, m2.table) /\ \A q : At(m1.table, q) = At(t, q)
    BY <1>4, <1>6, Zenon DEF SameRecords, At
  <1> HIDE DEF m2, start
  <1>8. SameRecords(t, start.table)
    BY <1>3, <1>4, <1>7, Zenon
  <1>9. start.place # Nowhere => start.place \in Spots(k) /\ Movable(At(t, start.place), ms)
    BY <1>1, <1>3, <1>4, <1>6, <1>7, Zenon
  <1>10. start.place = Nowhere => \A p \in Spots(k) : ~Movable(At(t, p), ms)
    <2>1. SUFFICES ASSUME start.place = Nowhere, NEW p \in Spots(k) PROVE ~Movable(At(t, p), ms)
      BY Zenon
    <2>2. m1.place = Nowhere /\ m2.place = Nowhere
      BY <1>3, <2>1, Zenon
    <2>3. \A s \in Slots : ~Movable(At(t, <<b1, s>>), ms) /\ ~Movable(At(t, <<b2, s>>), ms)
      BY <1>4, <1>6, <1>7, <2>2, Zenon
    <2> QED
      BY <1>2, <2>3, Zenon
  <1> QED
    BY <1>8, <1>9, <1>10, Zenon DEF start, m1, b1

\* Both buckets are full.
LEMMA DisplaceStored ==
    ASSUME NEW g, Setting(g), NEW k \in Key, NEW r, NEW t, \A p \in Spots(k) : Sound(t, r, p, g)
    PROVE  /\ Displace(t, k, r, g.ms).how # "none" => Stored(Displace(t, k, r, g.ms), g)
           /\ ~r.inherited \/ (\E p \in Spots(k) : Movable(At(t, p), g.ms)) => Displace(t, k, r, g.ms).how # "none"
  <1> DEFINE backing == t.backoff > 0
             rested == IF backing THEN [t EXCEPT !.backoff = t.backoff - 1] ELSE t
             start == WalkStart(MovableIn(rested, BucketsOf(k)[1], g.ms), k, g.ms)
             n == IF backing THEN 1 ELSE MaxKicks
             D == Displace(t, k, r, g.ms)
  <1>1. <<Home[k], 0>> \in Spots(k) /\ <<Home[k], 0>>[1] = Home[k]
    BY SpotsIn, KeyBuckets, TableAssumption DEF Slots
  <1>2. t \in Tables
    BY <1>1, Zenon DEF Sound
  <1>3. SameRecords(t, rested)
    <2>1. t.backoff \in 0..WalkBackoff
      BY <1>2, Zenon DEF Tables
    <2>2. CASE backing
      <3>1. t.backoff - 1 \in 0..WalkBackoff
        BY <2>1, <2>2, TableAssumption
      <3> QED
        BY <1>2, <2>2, <3>1, BackoffSame, Zenon
    <2>3. CASE ~backing
      BY <1>2, <2>3, Zenon DEF SameRecords
    <2> QED
      BY <2>2, <2>3, Zenon
  <1>4. D = IF backing /\ ~r.inherited THEN Spill(rested, r, Home[k], g.ms) ELSE WalkFrom(start, k, r, n, g.ms)
    BY Zenon DEF Displace
  <1>5. n \in Nat /\ n # 0
    BY TableAssumption
  <1> HIDE DEF backing, rested, n, D
  <1>6. rested \in Tables /\ \A q : At(rested, q) = At(t, q)
    BY <1>3, Zenon DEF SameRecords, At
  <1>7. \A p \in Spots(k) : Sound(rested, r, p, g)
    BY <1>3, TurnSound, Zenon
  <1>8. CASE backing /\ ~r.inherited
    <2>1. Stored(Spill(rested, r, Home[k], g.ms), g) /\ Spill(rested, r, Home[k], g.ms).how # "none"
      <3>1. Sound(rested, r, <<Home[k], 0>>, g)
        BY <1>1, <1>7, Zenon
      <3> QED
        BY <1>1, <1>8, <3>1, SpillStored, Zenon
    <2> QED
      BY <1>4, <1>8, <2>1, Zenon DEF D
  <1>9. CASE ~(backing /\ ~r.inherited)
    <2>1. D = WalkFrom(start, k, r, n, g.ms)
      BY <1>4, <1>9, Zenon
    <2>2. /\ SameRecords(rested, start.table)
          /\ start.place # Nowhere => start.place \in Spots(k) /\ Movable(At(rested, start.place), g.ms)
          /\ start.place = Nowhere => \A p \in Spots(k) : ~Movable(At(rested, p), g.ms)
      BY <1>6, WalkStartIs, Zenon
    <2> HIDE DEF start
    <2>3. \A p \in Spots(k) : Sound(start.table, r, p, g)
      BY <1>7, <2>2, TurnSound, Zenon
    <2>4. start.place # Nowhere => start.place \in Spots(k) /\ Movable(At(start.table, start.place), g.ms)
      BY <2>2, Zenon DEF SameRecords, At
    <2>5. /\ WalkFrom(start, k, r, n, g.ms).how # "none" => Stored(WalkFrom(start, k, r, n, g.ms), g)
          /\ start.place # Nowhere \/ ~r.inherited => WalkFrom(start, k, r, n, g.ms).how # "none"
      BY <1>5, <2>3, <2>4, WalkFromStored, Zenon
    <2>6. (\E p \in Spots(k) : Movable(At(t, p), g.ms)) => start.place # Nowhere
      BY <1>6, <2>2, Zenon
    <2> QED
      BY <2>1, <2>5, <2>6, Zenon DEF D
  <1> QED
    BY <1>8, <1>9, Zenon

\* The first free place of a key, and the first that yields to an inherited debt.
FreeFor(t, k, ms) == LET Free(r) == ~IsLive(r, ms) IN FirstMatch(t, k, Free)

YieldFor(t, k, ms) == LET Yields(r) == ~IsLive(r, ms) \/ ~r.inherited IN FirstMatch(t, k, Yields)

LEMMA FreeForIs ==
    ASSUME NEW t \in Tables, NEW k \in Key, NEW ms
    PROVE  /\ FreeFor(t, k, ms) = Nowhere => \A p \in Spots(k) : IsLive(At(t, p), ms)
           /\ FreeFor(t, k, ms) # Nowhere => FreeFor(t, k, ms) \in Spots(k) /\ ~IsLive(At(t, FreeFor(t, k, ms)), ms)
  <1> DEFINE M == {p \in Spots(k) : ~IsLive(At(t, p), ms)}
  <1>1. ASSUME NEW b, b = BucketsOf(k)[1] \/ b = BucketsOf(k)[2]
        PROVE  {r \in Slots : ~IsLive(t.buckets[b][r], ms)} = {r \in Slots : <<b, r>> \in M}
    <2>1. \A r \in Slots : <<b, r>> \in Spots(k)
      BY <1>1, SpotsIn, Zenon
    <2> QED
      BY <2>1, Zenon DEF At
  <1>2. FreeFor(t, k, ms) = FirstOf(k, M)
    BY <1>1, Zenon DEF FreeFor, FirstMatch, Matching, FirstOf
  <1> HIDE DEF M
  <1>3. M \subseteq Spots(k)
    BY Zenon DEF M
  <1> QED
    BY <1>2, <1>3, FirstOfIs DEF M

LEMMA YieldForIs ==
    ASSUME NEW t \in Tables, NEW k \in Key, NEW ms, YieldFor(t, k, ms) # Nowhere
    PROVE  \E p \in Spots(k) : ~IsLive(At(t, p), ms) \/ ~At(t, p).inherited
  <1> DEFINE M == {p \in Spots(k) : ~IsLive(At(t, p), ms) \/ ~At(t, p).inherited}
  <1>1. ASSUME NEW b, b = BucketsOf(k)[1] \/ b = BucketsOf(k)[2]
        PROVE  {r \in Slots : ~IsLive(t.buckets[b][r], ms) \/ ~t.buckets[b][r].inherited} = {r \in Slots : <<b, r>> \in M}
    <2>1. \A r \in Slots : <<b, r>> \in Spots(k)
      BY <1>1, SpotsIn, Zenon
    <2> QED
      BY <2>1, Zenon DEF At
  <1>2. YieldFor(t, k, ms) = FirstOf(k, M)
    BY <1>1, Zenon DEF YieldFor, FirstMatch, Matching, FirstOf
  <1> HIDE DEF M
  <1>3. M \subseteq Spots(k)
    BY Zenon DEF M
  <1> QED
    BY <1>2, <1>3, FirstOfIs DEF M

NewRecord(k, debt, inherited) == [tag |-> Tag[k], spent |-> debt.spent, until |-> debt.until, inherited |-> inherited]

LEMMA RecordedIs ==
    ASSUME NEW t, NEW k, NEW debt, NEW ms, NEW inherited
    PROVE  Recorded(t, k, debt, ms, inherited) =
             IF Own(t, k, ms) # Nowhere
             THEN [table |-> Put(t, Own(t, k, ms), Merged(At(t, Own(t, k, ms)), debt, inherited)), how |-> "exact", spilled |-> {}]
             ELSE IF FreeFor(t, k, ms) # Nowhere
             THEN [table |-> Put(t, FreeFor(t, k, ms), NewRecord(k, debt, inherited)), how |-> "exact", spilled |-> {}]
             ELSE Displace(t, k, NewRecord(k, debt, inherited), ms)
  BY Zenon DEF Recorded, FreeFor, NewRecord

\* A debt of a key without a live record is recorded, or finds no place.  It
\* finds one if it is not inherited or there is room.
LEMMA RecordedStored ==
    ASSUME NEW g, Setting(g), NEW k \in Key, NEW debt, NEW inherited \in BOOLEAN, NEW t,
           \A p \in Spots(k) : Sound(t, NewRecord(k, debt, inherited), p, g),
           Own(t, k, g.ms) = Nowhere
    PROVE  /\ Recorded(t, k, debt, g.ms, inherited).how # "none" => Stored(Recorded(t, k, debt, g.ms, inherited), g)
           /\ ~inherited \/ HasExactRoom(t, k, g.ms) => Recorded(t, k, debt, g.ms, inherited).how # "none"
  <1> DEFINE r == NewRecord(k, debt, inherited)
             free == FreeFor(t, k, g.ms)
             R == Recorded(t, k, debt, g.ms, inherited)
  <1>1. r.inherited = inherited
    BY Zenon DEF NewRecord
  <1>2. t \in Tables
    <2>1. <<Home[k], 0>> \in Spots(k)
      BY SpotsIn, KeyBuckets, TableAssumption DEF Slots
    <2> QED
      BY <2>1, Zenon DEF Sound
  <1>3. R = IF free # Nowhere THEN [table |-> Put(t, free, r), how |-> "exact", spilled |-> {}] ELSE Displace(t, k, r, g.ms)
    BY RecordedIs, Zenon
  <1>4. /\ free = Nowhere => \A p \in Spots(k) : IsLive(At(t, p), g.ms)
        /\ free # Nowhere => free \in Spots(k) /\ ~IsLive(At(t, free), g.ms)
    BY <1>2, FreeForIs, Zenon
  <1> HIDE DEF r, free, R
  <1>5. \A p \in Spots(k) : Sound(t, r, p, g)
    BY Zenon DEF r
  <1>6. CASE free # Nowhere
    <2>1. R = [table |-> Put(t, free, r), how |-> "exact", spilled |-> {}]
      BY <1>3, <1>6, Zenon
    <2>2. R.table = Put(t, free, r) /\ R.spilled = {} /\ R.how # "none"
      BY <2>1, Zenon
    <2>3. Sound(t, r, free, g) /\ ~IsLive(At(t, free), g.ms) /\ free \in Positions
      BY <1>4, <1>5, <1>6, SpotsIn, Zenon
    <2>4. Sound(Put(t, free, r), EmptyRecord, free, g)
      BY <2>3, DropSound, Zenon
    <2>5. Settled(Put(t, free, r), g)
      BY <2>4, SoundSettled, Zenon
    <2>6. Stored(R, g)
      BY <2>2, <2>5, Zenon DEF Stored
    <2> QED
      BY <2>2, <2>6, Zenon DEF R
  <1>7. CASE free = Nowhere
    <2>1. R = Displace(t, k, r, g.ms)
      BY <1>3, <1>7, Zenon
    <2>2. /\ Displace(t, k, r, g.ms).how # "none" => Stored(Displace(t, k, r, g.ms), g)
          /\ ~r.inherited \/ (\E p \in Spots(k) : Movable(At(t, p), g.ms)) => Displace(t, k, r, g.ms).how # "none"
      BY <1>5, DisplaceStored, Zenon
    <2>3. HasExactRoom(t, k, g.ms) => \E p \in Spots(k) : Movable(At(t, p), g.ms)
      <3>1. HasExactRoom(t, k, g.ms) => YieldFor(t, k, g.ms) # Nowhere
        BY Zenon DEF HasExactRoom, YieldFor
      <3>2. HasExactRoom(t, k, g.ms) => \E p \in Spots(k) : ~IsLive(At(t, p), g.ms) \/ ~At(t, p).inherited
        BY <1>2, <3>1, YieldForIs, Zenon
      <3> QED
        BY <1>4, <1>7, <3>2, Zenon DEF Movable
    <2> QED
      BY <1>1, <2>1, <2>2, <2>3, Zenon DEF R
  <1> QED
    BY <1>6, <1>7, Zenon

\* A debt of a key with a live record is merged into it.
LEMMA MergedIs ==
    ASSUME NEW r \in Records, NEW debt \in Debts, NEW inherited \in BOOLEAN
    PROVE  /\ Merged(r, debt, inherited) \in Records
           /\ Merged(r, debt, inherited).tag = r.tag
           /\ Covers(Merged(r, debt, inherited), debt)
           /\ Covers(Merged(r, debt, inherited), r)
  <1> DEFINE m == Merged(r, debt, inherited)
  <1>1. m = [tag |-> r.tag, spent |-> Larger(r.spent, debt.spent), until |-> Larger(r.until, debt.until),
             inherited |-> r.inherited \/ inherited]
    BY Zenon DEF Merged
  <1>2. /\ r.tag \in Nat /\ r.spent \in Nat /\ r.spent =< AllUnits /\ r.until \in Nat /\ r.inherited \in BOOLEAN
        /\ r.spent \in {0} \union Spends /\ r.until \in Deadlines
    BY RecordType, Zenon
  <1>3. debt.spent \in Nat /\ debt.until \in Nat /\ debt.spent \in {0} \union Spends /\ debt.until \in Deadlines
    BY DebtType, Zenon
  <1>4. /\ Larger(r.spent, debt.spent) >= r.spent /\ Larger(r.spent, debt.spent) >= debt.spent
        /\ Larger(r.until, debt.until) >= r.until /\ Larger(r.until, debt.until) >= debt.until
    BY <1>2, <1>3 DEF Larger
  <1>5. Larger(r.spent, debt.spent) \in {0} \union Spends /\ Larger(r.until, debt.until) \in Deadlines
    BY <1>2, <1>3, Zenon DEF Larger
  <1>6. m \in Records
    BY <1>1, <1>2, <1>5 DEF Records
  <1>7. m.tag = r.tag /\ m.spent = Larger(r.spent, debt.spent) /\ m.until = Larger(r.until, debt.until)
    BY <1>1
  <1> QED
    BY <1>4, <1>6, <1>7, Zenon DEF Covers

-----------------------------------------------------------------------------
\* The parts of the invariant, of any table and ledgers.

BackedIn(t, o, at) ==
    \A k \in Key : o[k] # NoDebt =>
        /\ o[k].until > at
        /\ ~t.forget => InTable(t, k, o[k]) \/ InSketch(t, k, o[k])

SharesIn(t, h, s, at) ==
    \A k \in Key : s[k] # 0 =>
        /\ h[k] # "own"
        /\ s[k] > at
        /\ \A c \in CellsAt(Tag[k], Home[k]) : t.cells[c].until >= s[k]

AccurateFor(k, t, h, o, s, at) ==
    /\ \A p, q \in Spots(k) : Holds(t, k, p, at) /\ Holds(t, k, q, at) => p = q
    /\ \A p \in Spots(k) : Holds(t, k, p, at) =>
        /\ h[k] = "out"
        /\ o[k] = [spent |-> At(t, p).spent, until |-> At(t, p).until]
        /\ s[k] # 0 => At(t, p).inherited

AccurateIn(t, h, o, s, at) == \A k \in Key : AccurateFor(k, t, h, o, s, at)

LEMMA InvIs ==
    ASSUME IInv
    PROVE  /\ TypeOK /\ Homed(table) /\ BackedIn(table, owed, clock) /\ SharesIn(table, held, share, clock)
           /\ ~misled => AccurateIn(table, held, owed, share, clock)
           /\ ~misled => ~spread
  <1>1. TypeOK /\ Homed(table) /\ Backed /\ SharesKnown /\ Accurate /\ NoSpreading
    BY Zenon DEF IInv
  <1>2. BackedIn(table, owed, clock)
    BY <1>1, Zenon DEF Backed, BackedIn, Live
  <1>3. SharesIn(table, held, share, clock)
    BY <1>1, Zenon DEF SharesKnown, SharesIn
  <1>4. ~misled => AccurateIn(table, held, owed, share, clock)
    BY <1>1, Zenon DEF Accurate, AccurateIn, AccurateFor, Alone
  <1> QED
    BY <1>1, <1>2, <1>3, <1>4, Zenon DEF NoSpreading

LEMMA InvIsNext ==
    ASSUME TypeOK', Homed(table'), BackedIn(table', owed', clock'), SharesIn(table', held', share', clock'),
           ~misled' => AccurateIn(table', held', owed', share', clock'),
           ~misled' => ~spread'
    PROVE  IInv'
  <1>1. Backed'
    BY Zenon DEF Backed, BackedIn, Live
  <1>2. SharesKnown'
    BY Zenon DEF SharesKnown, SharesIn
  <1>3. Accurate'
    BY Zenon DEF Accurate, AccurateIn, AccurateFor, Alone
  <1>4. NoSpreading'
    BY Zenon DEF NoSpreading
  <1> QED
    BY <1>1, <1>2, <1>3, <1>4, Zenon DEF IInv

LEMMA TypeIs ==
    ASSUME TypeOK
    PROVE  /\ clock \in Times /\ table \in Tables /\ held \in [Key -> {"out", "own", "seeded"}] /\ owed \in [Key -> Debts]
           /\ share \in [Key -> Deadlines] /\ spread \in BOOLEAN /\ misled \in BOOLEAN
           /\ clock \in Nat /\ Deadlines \subseteq Nat
  <1>1. Times \subseteq Nat /\ Deadlines \subseteq Nat
    BY BoundsAssumption DEF Times, Deadlines
  <1> QED
    BY <1>1, Zenon DEF TypeOK

LEMMA TypeIsNext ==
    ASSUME clock' \in Times, table' \in Tables, held' \in [Key -> {"out", "own", "seeded"}], owed' \in [Key -> Debts],
           share' \in [Key -> Deadlines], spread' \in BOOLEAN, misled' \in BOOLEAN
    PROVE  TypeOK'
  BY Zenon DEF TypeOK

\* A reading of the clock is a time, and not after it.
LEMMA ReadingIs ==
    ASSUME TypeOK, NEW ms \in Readings
    PROVE  ms \in Nat /\ ms =< clock /\ ms \in Times /\ ms =< MaxTime
  BY BoundsAssumption DEF TypeOK, Readings, Times

\* No debt is in Debts.
LEMMA NoDebtIs == NoDebt \in Debts /\ NoDebt.spent = 0 /\ NoDebt.until = 0
  BY BoundsAssumption DEF NoDebt, Debts, Deadlines

\* A record that is live later is live now.
LEMMA LiveBefore ==
    ASSUME NEW t \in Tables, NEW j, NEW p \in Positions, NEW ms \in Nat, NEW at \in Nat, ms =< at, Holds(t, j, p, at)
    PROVE  Holds(t, j, p, ms)
  <1>1. At(t, p).until \in Nat
    BY AtType, RecordType, Zenon
  <1> QED
    BY <1>1 DEF Holds, IsLive

\* The table without the key's own record.
LEMMA ForgottenIs ==
    ASSUME NEW t \in Tables, Homed(t), NEW k \in Key, NEW ms \in Nat
    PROVE  /\ Forgotten(t, k, ms) \in Tables /\ Homed(Forgotten(t, k, ms))
           /\ Forgotten(t, k, ms).cells = t.cells /\ Forgotten(t, k, ms).forget = t.forget
           /\ \A j \in Key : \A d : j # k /\ InTable(t, j, d) => InTable(Forgotten(t, k, ms), j, d)
           /\ \A j \in Key, p \in Positions : \A at : Holds(Forgotten(t, k, ms), j, p, at) =>
                /\ Holds(t, j, p, at) /\ At(Forgotten(t, k, ms), p) = At(t, p)
                /\ Own(t, k, ms) # Nowhere => p # Own(t, k, ms)
  <1> DEFINE q == Own(t, k, ms)
             u == Forgotten(t, k, ms)
  <1>1. u = IF q = Nowhere THEN t ELSE Put(t, q, EmptyRecord)
    BY Zenon DEF Forgotten
  <1>2. q # Nowhere => q \in Spots(k) /\ Holds(t, k, q, ms)
    BY OwnIs, Zenon
  <1> HIDE DEF q, u
  <1>3. CASE q = Nowhere
    <2>1. u = t
      BY <1>1, <1>3, Zenon
    <2> QED
      BY <1>3, <2>1, Zenon DEF q, u
  <1>4. CASE q # Nowhere
    <2>1. q \in Spots(k) /\ q \in Positions /\ At(t, q).tag = Tag[k]
      BY <1>2, <1>4, SpotsIn, Zenon DEF Holds
    <2>2. EmptyRecord \in Records /\ EmptyRecord.tag = 0
      BY BoundsAssumption DEF EmptyRecord, Records, Deadlines
    <2>3. Handed(EmptyRecord, q)
      BY <2>1, <2>2, Zenon DEF Handed
    <2>4. u = Put(t, q, EmptyRecord)
      BY <1>1, <1>4, Zenon
    <2>5. /\ u \in Tables /\ At(u, q) = EmptyRecord
          /\ \A p \in Positions : p # q => At(u, p) = At(t, p)
          /\ u.cells = t.cells /\ u.forget = t.forget
      BY <2>1, <2>2, <2>4, PutIs
    <2>6. Homed(u)
      BY <2>3, <2>4, PutHomed, Zenon
    <2>7. ASSUME NEW j \in Key, NEW d, j # k, InTable(t, j, d) PROVE InTable(u, j, d)
      <3>1. PICK p \in Spots(j) : At(t, p).tag = Tag[j] /\ Covers(At(t, p), d)
        BY <2>7, Zenon DEF InTable
      <3>2. p # q
        BY <2>1, <2>7, <3>1, OneKey, Zenon
      <3>3. p \in Positions
        BY SpotsIn, Zenon
      <3> QED
        BY <2>5, <3>1, <3>2, <3>3, Zenon DEF InTable
    <2>8. ASSUME NEW j \in Key, NEW p \in Positions, NEW at, Holds(u, j, p, at)
          PROVE  Holds(t, j, p, at) /\ At(u, p) = At(t, p) /\ p # q
      <3>1. p # q
        BY <2>2, <2>5, <2>8, KeyBuckets, Zenon DEF Holds
      <3> QED
        BY <2>5, <2>8, <3>1, Zenon DEF Holds
    <2> QED
      BY <2>5, <2>6, <2>7, <2>8, Zenon DEF q, u
  <1> QED
    BY <1>3, <1>4, Zenon

\* Other debts stay covered, and other records stay accurate, when a key's record
\* is taken out by a reading that is not misled.
LEMMA ForgottenBacked ==
    ASSUME NEW t \in Tables, Homed(t), NEW k \in Key, NEW ms \in Nat, NEW o \in [Key -> Debts], NEW at, BackedIn(t, o, at)
    PROVE  BackedIn(Forgotten(t, k, ms), [o EXCEPT ![k] = NoDebt], at)
  <1> DEFINE u == Forgotten(t, k, ms)
             n == [o EXCEPT ![k] = NoDebt]
  <1>1. /\ u.cells = t.cells /\ u.forget = t.forget
        /\ \A j \in Key : \A d : j # k /\ InTable(t, j, d) => InTable(u, j, d)
    BY ForgottenIs, Zenon
  <1>2. \A j \in Key : n[j] = IF j = k THEN NoDebt ELSE o[j]
    BY Zenon
  <1> HIDE DEF u, n
  <1>3. \A j \in Key : InSketch(t, j, o[j]) => InSketch(u, j, o[j])
    BY <1>1, SketchSame, Zenon
  <1>4. BackedIn(u, n, at)
    BY <1>1, <1>2, <1>3, Zenon DEF BackedIn
  <1> QED
    BY <1>4, Zenon DEF u, n

LEMMA ForgottenAccurate ==
    ASSUME NEW t \in Tables, Homed(t), NEW k \in Key, NEW ms \in Nat, NEW at \in Nat, ms =< at,
           NEW h, NEW o \in [Key -> Debts], NEW s, AccurateIn(t, h, o, s, at),
           ~(Own(t, k, ms) # Nowhere /\ At(t, Own(t, k, ms)).until =< at),
           NEW g, NEW n, NEW v, \A j \in Key : j # k => g[j] = h[j] /\ n[j] = o[j] /\ v[j] = s[j]
    PROVE  AccurateIn(Forgotten(t, k, ms), g, n, v, at)
  <1> DEFINE u == Forgotten(t, k, ms)
             q == Own(t, k, ms)
  <1>1. \A j \in Key, p \in Positions : Holds(u, j, p, at) =>
            Holds(t, j, p, at) /\ At(u, p) = At(t, p) /\ (q # Nowhere => p # q)
    BY ForgottenIs, Zenon
  <1>2. /\ q = Nowhere => \A p \in Spots(k) : ~Holds(t, k, p, ms)
        /\ q # Nowhere => q \in Spots(k) /\ Holds(t, k, q, ms)
    BY OwnIs, Zenon
  <1>3. ~(q # Nowhere /\ At(t, q).until =< at)
    BY Zenon
  <1> HIDE DEF u, q
  <1>4. \A j \in Key : Spots(j) \subseteq Positions
    BY SpotsIn, Zenon
  <1>5. q # Nowhere => Holds(t, k, q, at)
    <2>1. SUFFICES ASSUME q # Nowhere PROVE Holds(t, k, q, at)
      BY Zenon
    <2>2. At(t, q).until \in Nat
      BY <1>2, <1>4, <2>1, AtType, RecordType, Zenon
    <2>3. At(t, q).until > at
      BY <1>3, <2>1, <2>2
    <2> QED
      BY <1>2, <2>1, <2>3, Zenon DEF Holds, IsLive
  <1>6. \A p \in Spots(k) : ~Holds(u, k, p, at)
    <2>1. SUFFICES ASSUME NEW p \in Spots(k), Holds(u, k, p, at) PROVE FALSE
      BY Zenon
    <2>2. p \in Positions /\ Holds(t, k, p, at) /\ (q # Nowhere => p # q)
      BY <1>1, <1>4, <2>1, Zenon
    <2>3. q # Nowhere
      BY <1>2, <2>2, LiveBefore, Zenon
    <2>4. \A a, b \in Spots(k) : Holds(t, k, a, at) /\ Holds(t, k, b, at) => a = b
      BY Zenon DEF AccurateIn, AccurateFor
    <2> QED
      BY <1>2, <1>5, <2>2, <2>3, <2>4, Zenon
  <1>7. AccurateFor(k, u, g, n, v, at)
    BY <1>6, Zenon DEF AccurateFor
  <1>8. ASSUME NEW j \in Key, j # k PROVE AccurateFor(j, u, g, n, v, at)
    <2>1. AccurateFor(j, t, h, o, s, at) /\ g[j] = h[j] /\ n[j] = o[j] /\ v[j] = s[j]
      BY <1>8, Zenon DEF AccurateIn
    <2>2. \A p \in Spots(j) : Holds(u, j, p, at) => Holds(t, j, p, at) /\ At(u, p) = At(t, p)
      BY <1>1, <1>4, Zenon
    <2> QED
      BY <2>1, <2>2, Zenon DEF AccurateFor
  <1>9. AccurateIn(u, g, n, v, at)
    BY <1>7, <1>8, Zenon DEF AccurateIn
  <1> QED
    BY <1>9, Zenon DEF u

-----------------------------------------------------------------------------
\* Every action keeps the invariant.

LEMMA TickInv == ASSUME IInv, Tick PROVE IInv'
  <1>1. /\ TypeOK /\ Homed(table) /\ BackedIn(table, owed, clock) /\ SharesIn(table, held, share, clock)
        /\ ~misled => AccurateIn(table, held, owed, share, clock)
        /\ ~misled => ~spread
    BY InvIs, Zenon
  <1>2. /\ clock \in Times /\ table \in Tables /\ held \in [Key -> {"out", "own", "seeded"}] /\ owed \in [Key -> Debts]
        /\ share \in [Key -> Deadlines] /\ spread \in BOOLEAN /\ misled \in BOOLEAN
        /\ clock \in Nat /\ Deadlines \subseteq Nat
    BY <1>1, TypeIs, Zenon
  <1>3. /\ clock' = clock + 1 /\ clock < MaxTime /\ table' = table /\ held' = held /\ spread' = spread /\ misled' = misled
        /\ owed' = [k \in Key |-> Owing(owed[k], clock + 1)]
        /\ share' = [k \in Key |-> Running(share[k], clock + 1)]
    BY Zenon DEF Tick
  <1>4. clock' \in Times /\ clock' \in Nat /\ clock < clock'
    BY <1>2, <1>3, BoundsAssumption DEF Times
  <1>5. \A k \in Key : owed[k] \in Debts /\ owed'[k] = (IF owed[k].until > clock' THEN owed[k] ELSE NoDebt) /\ owed'[k] \in Debts
    BY <1>2, <1>3, NoDebtIs, Zenon DEF Owing
  <1>6. \A k \in Key : share[k] \in Nat /\ share'[k] = (IF share[k] > clock' THEN share[k] ELSE 0) /\ share'[k] \in Deadlines
    BY <1>2, <1>3, BoundsAssumption DEF Running, Deadlines
  <1>7. TypeOK'
    <2>1. owed' \in [Key -> Debts] /\ share' \in [Key -> Deadlines]
      BY <1>3, <1>5, <1>6, Zenon
    <2> QED
      BY <1>2, <1>3, <1>4, <2>1, TypeIsNext, Zenon
  <1>8. BackedIn(table', owed', clock')
    BY <1>1, <1>3, <1>5, Zenon DEF BackedIn
  <1>9. SharesIn(table', held', share', clock')
    BY <1>1, <1>3, <1>6, Zenon DEF SharesIn
  <1>10. ASSUME ~misled' PROVE AccurateIn(table', held', owed', share', clock')
    <2>1. SUFFICES ASSUME NEW k \in Key PROVE AccurateFor(k, table', held', owed', share', clock')
      BY Zenon DEF AccurateIn
    <2>2. AccurateFor(k, table, held, owed, share, clock)
      BY <1>1, <1>3, <1>10, Zenon DEF AccurateIn
    <2>3. ASSUME NEW p \in Spots(k), Holds(table', k, p, clock')
          PROVE  Holds(table, k, p, clock) /\ At(table, p).until > clock'
      <3>1. p \in Positions
        BY SpotsIn, Zenon
      <3>2. clock =< clock'
        BY <1>2, <1>4
      <3>3. Holds(table, k, p, clock)
        BY <1>2, <1>3, <1>4, <2>3, <3>1, <3>2, LiveBefore, Zenon
      <3> QED
        BY <1>3, <2>3, <3>3, Zenon DEF Holds, IsLive
    <2>4. ASSUME NEW p \in Spots(k), Holds(table', k, p, clock')
          PROVE  owed'[k] = [spent |-> At(table, p).spent, until |-> At(table, p).until]
      <3>1. owed[k] = [spent |-> At(table, p).spent, until |-> At(table, p).until] /\ At(table, p).until > clock'
        BY <2>2, <2>3, <2>4, Zenon DEF AccurateFor
      <3>2. owed[k].until = At(table, p).until
        BY <3>1
      <3> QED
        BY <1>5, <3>1, <3>2, Zenon
    <2>5. share'[k] # 0 => share[k] # 0
      BY <1>6, Zenon
    <2> QED
      BY <1>3, <2>2, <2>3, <2>4, <2>5, Zenon DEF AccurateFor
  <1> QED
    BY <1>1, <1>3, <1>7, <1>8, <1>9, <1>10, InvIsNext, Zenon

LEMMA EvictRecoveredInv == ASSUME IInv, NEW k \in Key, EvictRecovered(k) PROVE IInv'
  <1>1. /\ TypeOK /\ Homed(table) /\ BackedIn(table, owed, clock) /\ SharesIn(table, held, share, clock)
        /\ ~misled => AccurateIn(table, held, owed, share, clock)
        /\ ~misled => ~spread
    BY InvIs, Zenon
  <1>2. /\ clock \in Times /\ table \in Tables /\ held \in [Key -> {"out", "own", "seeded"}] /\ owed \in [Key -> Debts]
        /\ share \in [Key -> Deadlines] /\ spread \in BOOLEAN /\ misled \in BOOLEAN
    BY <1>1, TypeIs, Zenon
  <1>3. /\ held[k] # "out" /\ held' = [held EXCEPT ![k] = "out"] /\ share' = [share EXCEPT ![k] = 0]
        /\ clock' = clock /\ table' = table /\ owed' = owed /\ spread' = spread /\ misled' = misled
    BY Zenon DEF EvictRecovered
  <1>4. \A j \in Key : held'[j] = (IF j = k THEN "out" ELSE held[j]) /\ share'[j] = (IF j = k THEN 0 ELSE share[j])
    BY <1>2, <1>3, Zenon
  <1>5. TypeOK'
    <2>1. held' \in [Key -> {"out", "own", "seeded"}] /\ share' \in [Key -> Deadlines]
      BY <1>2, <1>3, BoundsAssumption DEF Deadlines
    <2> QED
      BY <1>2, <1>3, <2>1, TypeIsNext, Zenon
  <1>6. SharesIn(table', held', share', clock')
    BY <1>1, <1>3, <1>4, Zenon DEF SharesIn
  <1>7. ASSUME ~misled' PROVE AccurateIn(table', held', owed', share', clock')
    <2>1. SUFFICES ASSUME NEW j \in Key PROVE AccurateFor(j, table', held', owed', share', clock')
      BY Zenon DEF AccurateIn
    <2>2. AccurateFor(j, table, held, owed, share, clock)
      BY <1>1, <1>3, <1>7, Zenon DEF AccurateIn
    <2> QED
      BY <1>3, <1>4, <2>2, Zenon DEF AccurateFor
  <1> QED
    BY <1>1, <1>3, <1>5, <1>6, <1>7, InvIsNext, Zenon

\* A call that is not misled found no expired record.
LEMMA Unmisled ==
    ASSUME NEW k \in Key, NEW ms, NoteMisled(k, ms), ~misled'
    PROVE  ~misled /\ ~(Own(table, k, ms) # Nowhere /\ At(table, Own(table, k, ms)).until =< clock)
  BY Zenon DEF NoteMisled, FindsExpired

LEMMA NoteType ==
    ASSUME TypeOK, NEW k \in Key, NEW ms, NoteMisled(k, ms)
    PROVE  misled' \in BOOLEAN
  BY Zenon DEF TypeOK, NoteMisled

LEMMA ForgetInv == ASSUME IInv, NEW k \in Key, NEW ms \in Readings, Forget(k, ms) PROVE IInv'
  <1>1. /\ TypeOK /\ Homed(table) /\ BackedIn(table, owed, clock) /\ SharesIn(table, held, share, clock)
        /\ ~misled => AccurateIn(table, held, owed, share, clock)
        /\ ~misled => ~spread
    BY InvIs, Zenon
  <1>2. /\ clock \in Times /\ table \in Tables /\ held \in [Key -> {"out", "own", "seeded"}] /\ owed \in [Key -> Debts]
        /\ share \in [Key -> Deadlines] /\ spread \in BOOLEAN /\ misled \in BOOLEAN /\ clock \in Nat
    BY <1>1, TypeIs, Zenon
  <1>3. /\ held[k] = "out" /\ table' = Forgotten(table, k, ms) /\ owed' = [owed EXCEPT ![k] = NoDebt]
        /\ share' = [share EXCEPT ![k] = 0] /\ NoteMisled(k, ms)
        /\ clock' = clock /\ held' = held /\ spread' = spread
    BY Zenon DEF Forget
  <1>4. ms \in Nat /\ ms =< clock
    BY <1>1, ReadingIs, Zenon
  <1>5. \A j \in Key : owed'[j] = (IF j = k THEN NoDebt ELSE owed[j]) /\ share'[j] = (IF j = k THEN 0 ELSE share[j])
    BY <1>2, <1>3, Zenon
  <1>6. /\ table' \in Tables /\ Homed(table') /\ table'.cells = table.cells
    BY <1>1, <1>2, <1>3, <1>4, ForgottenIs, Zenon
  <1>7. TypeOK'
    <2>1. owed' \in [Key -> Debts] /\ share' \in [Key -> Deadlines]
      BY <1>2, <1>3, NoDebtIs, BoundsAssumption DEF Deadlines
    <2>2. misled' \in BOOLEAN
      BY <1>1, <1>3, NoteType, Zenon
    <2> QED
      BY <1>2, <1>3, <1>6, <2>1, <2>2, TypeIsNext, Zenon
  <1>8. BackedIn(table', owed', clock')
    BY <1>1, <1>2, <1>3, <1>4, ForgottenBacked, Zenon
  <1>9. SharesIn(table', held', share', clock')
    BY <1>1, <1>3, <1>5, <1>6, Zenon DEF SharesIn
  <1>10. ASSUME ~misled' PROVE AccurateIn(table', held', owed', share', clock') /\ ~spread'
    <2>1. ~misled /\ ~(Own(table, k, ms) # Nowhere /\ At(table, Own(table, k, ms)).until =< clock)
      BY <1>3, <1>10, Unmisled, Zenon
    <2>2. AccurateIn(table, held, owed, share, clock) /\ ~spread
      BY <1>1, <2>1, Zenon
    <2>3. \A j \in Key : j # k => held'[j] = held[j] /\ owed'[j] = owed[j] /\ share'[j] = share[j]
      BY <1>3, <1>5, Zenon
    <2>4. AccurateIn(Forgotten(table, k, ms), held', owed', share', clock)
      BY <1>1, <1>2, <1>4, <2>1, <2>2, <2>3, ForgottenAccurate
    <2> QED
      BY <1>3, <2>2, <2>4, Zenon
  <1> QED
    BY <1>6, <1>7, <1>8, <1>9, <1>10, InvIsNext, Zenon

\* A table that is spent covers nothing that is live.
LEMMA ReleaseInv == ASSUME IInv, NEW ms \in Readings, Release(ms) PROVE IInv'
  <1>1. /\ TypeOK /\ Homed(table) /\ BackedIn(table, owed, clock) /\ SharesIn(table, held, share, clock)
        /\ ~misled => AccurateIn(table, held, owed, share, clock)
        /\ ~misled => ~spread
    BY InvIs, Zenon
  <1>2. /\ clock \in Times /\ table \in Tables /\ held \in [Key -> {"out", "own", "seeded"}] /\ owed \in [Key -> Debts]
        /\ share \in [Key -> Deadlines] /\ spread \in BOOLEAN /\ misled \in BOOLEAN /\ clock \in Nat /\ Deadlines \subseteq Nat
    BY <1>1, TypeIs, Zenon
  <1>3. /\ IsSpent(table, ms) /\ table' = EmptyTable(table.forget)
        /\ clock' = clock /\ held' = held /\ owed' = owed /\ share' = share /\ spread' = spread /\ misled' = misled
    BY Zenon DEF Release
  <1>4. ms \in Nat /\ ms =< clock
    BY <1>1, ReadingIs, Zenon
  <1>5. /\ table' \in Tables /\ table'.forget = table.forget
        /\ \A p \in Positions : At(table', p) = EmptyRecord
    <2>1. EmptyRecord \in Records /\ NoDebt \in [spent : 0..SpentMax, until : Deadlines] /\ 0 \in Slots /\ 0 \in 0..WalkBackoff
      BY BoundsAssumption, TableAssumption DEF EmptyRecord, Records, Deadlines, NoDebt, Slots
    <2>2. table.forget \in Policies
      BY <1>2, Zenon DEF Tables
    <2>3. \A p \in Positions : p[1] \in Buckets /\ p[2] \in Slots
      BY Zenon DEF Positions
    <2>4. table'.buckets = [b \in Buckets |-> [r \in Slots |-> EmptyRecord]] /\ table'.forget = table.forget
      BY <1>3, Zenon DEF EmptyTable
    <2>5. table' \in Tables
      BY <1>3, <2>1, <2>2, Zenon DEF EmptyTable, Tables
    <2> QED
      BY <2>3, <2>4, <2>5 DEF At
  <1>6. EmptyRecord.tag = 0 /\ \A j \in Key : Tag[j] # 0
    BY KeyBuckets, Zenon DEF EmptyRecord
  <1>7. Homed(table')
    BY <1>5, <1>6, Zenon DEF Homed
  <1>8. \A c \in Cells : table.cells[c] \in CellValues /\ table.cells[c].until \in Nat /\ table.cells[c].until =< ms
    BY <1>2, <1>3, UnpackedIs, Zenon DEF IsSpent, Tables, CellValues
  <1>9. \A j \in Key : \E c \in Cells : c \in CellsAt(Tag[j], Home[j])
    BY KeyCells, Zenon
  <1>10. ASSUME NEW j \in Key, owed[j] # NoDebt, ~table.forget PROVE FALSE
    <2>1. owed[j].until > clock /\ (InTable(table, j, owed[j]) \/ InSketch(table, j, owed[j]))
      BY <1>1, <1>10, Zenon DEF BackedIn
    <2>2. owed[j].until \in Nat
      BY <1>2, DebtType, Zenon
    <2>3. CASE InTable(table, j, owed[j])
      <3>1. PICK p \in Spots(j) : At(table, p).tag = Tag[j] /\ Covers(At(table, p), owed[j])
        BY <2>3, Zenon DEF InTable
      <3>2. p \in Positions
        BY SpotsIn, Zenon
      <3>3. At(table, p).until \in Nat
        BY <1>2, <3>2, AtType, RecordType, Zenon
      <3>4. At(table, p).until > ms
        BY <1>2, <1>4, <2>1, <2>2, <3>1, <3>3 DEF Covers
      <3>5. IsLive(At(table, p), ms)
        BY <1>6, <3>1, <3>4, Zenon DEF IsLive
      <3>6. ~IsLive(At(table, p), ms)
        BY <1>3, <3>2, Zenon DEF IsSpent, At, Positions
      <3> QED
        BY <3>5, <3>6, Zenon
    <2>4. CASE InSketch(table, j, owed[j])
      <3>1. PICK c \in Cells : c \in CellsAt(Tag[j], Home[j])
        BY <1>9, Zenon
      <3>2. Unpacked(table.cells[c]).until >= owed[j].until
        BY <2>4, <3>1, Zenon DEF InSketch, Covers
      <3>3. Unpacked(table.cells[c]).until = table.cells[c].until
        BY <1>8, UnpackedIs, Zenon
      <3> QED
        BY <1>2, <1>4, <1>8, <2>1, <2>2, <3>2, <3>3
    <2> QED
      BY <2>1, <2>3, <2>4, Zenon
  <1>11. ASSUME NEW j \in Key PROVE share[j] = 0
    <2>1. SUFFICES ASSUME share[j] # 0 PROVE FALSE
      BY Zenon
    <2>2. share[j] > clock /\ \A c \in CellsAt(Tag[j], Home[j]) : table.cells[c].until >= share[j]
      BY <1>1, <2>1, Zenon DEF SharesIn
    <2>3. PICK c \in Cells : c \in CellsAt(Tag[j], Home[j])
      BY <1>9, Zenon
    <2>4. table.cells[c].until >= share[j] /\ share[j] \in Nat
      BY <1>2, <2>2, <2>3, Zenon
    <2> QED
      BY <1>2, <1>4, <1>8, <2>2, <2>4
  <1>12. BackedIn(table', owed', clock')
    <2>1. \A j \in Key : owed[j] # NoDebt => owed[j].until > clock
      BY <1>1, Zenon DEF BackedIn
    <2> QED
      BY <1>3, <1>5, <1>10, <2>1, Zenon DEF BackedIn
  <1>13. SharesIn(table', held', share', clock')
    BY <1>3, <1>11, Zenon DEF SharesIn
  <1>14. AccurateIn(table', held', owed', share', clock')
    <2>1. \A j \in Key : Spots(j) \subseteq Positions
      BY SpotsIn, Zenon
    <2>2. \A j \in Key : \A p \in Spots(j) : ~Holds(table', j, p, clock')
      BY <1>5, <1>6, <2>1, Zenon DEF Holds
    <2> QED
      BY <2>2, Zenon DEF AccurateIn, AccurateFor
  <1>15. TypeOK'
    BY <1>2, <1>3, <1>5, TypeIsNext, Zenon
  <1> QED
    BY <1>1, <1>3, <1>7, <1>12, <1>13, <1>14, <1>15, InvIsNext, Zenon

\* What the sketch charges a key: what both of its cells say at least.
LEMMA SharedIs ==
    ASSUME NEW t \in Tables, NEW k \in Key, NEW ms \in Nat
    PROVE  /\ Shared(t, k, ms).spent \in Nat /\ Shared(t, k, ms).until \in Nat /\ Shared(t, k, ms).until \in Deadlines
           /\ (\A c \in CellsAt(Tag[k], Home[k]) : t.cells[c].until > ms) =>
                /\ Shared(t, k, ms).until > ms
                /\ \A c \in CellsAt(Tag[k], Home[k]) : t.cells[c].until >= Shared(t, k, ms).until
                /\ \A d \in Debts : InSketch(t, k, d) => Covers(Shared(t, k, ms), d)
           /\ ~(\A c \in CellsAt(Tag[k], Home[k]) : t.cells[c].until > ms) => Shared(t, k, ms) = NoDebt
  <1> DEFINE C == CellsAt(Tag[k], Home[k])
             V == {Unpacked(t.cells[c]) : c \in C}
             S == {v.spent : v \in V}
             U == {v.until : v \in V}
             sh == Shared(t, k, ms)
  <1>1. sh = IF \A v \in V : v.until > ms THEN [spent |-> Least(S), until |-> Least(U)] ELSE NoDebt
    BY Zenon DEF Shared
  <1>2. PICK a, b \in Cells : C = {a, b}
    BY KeyCells, Zenon
  <1>3. \A c \in C : t.cells[c] \in CellValues
    BY <1>2, Zenon DEF Tables, CellValues
  <1>4. \A c \in C : /\ Unpacked(t.cells[c]).until = t.cells[c].until /\ t.cells[c].until \in Nat /\ t.cells[c].until \in Deadlines
                     /\ Unpacked(t.cells[c]).spent \in Nat
    BY <1>3, UnpackedIs, Zenon
  <1> HIDE DEF C
  <1>5. \A v \in V : v.until \in Nat /\ v.until \in Deadlines /\ v.spent \in Nat
    BY <1>4, Zenon
  <1>6. a \in C
    BY <1>2, Zenon
  <1>7. S \subseteq Nat /\ U \subseteq Nat /\ U \subseteq Deadlines /\ S # {} /\ U # {}
    BY <1>5, <1>6, Zenon
  <1>8. (\A v \in V : v.until > ms) <=> \A c \in C : t.cells[c].until > ms
    BY <1>4, Zenon
  <1>9. \A c \in C : t.cells[c].until \in U /\ Unpacked(t.cells[c]).spent \in S
    BY <1>4, Zenon
  <1>10. \A s \in S : \E c \in C : s = Unpacked(t.cells[c]).spent
    BY Zenon
  <1>11. \A u \in U : \E c \in C : u = t.cells[c].until
    BY <1>4, Zenon
  <1> HIDE DEF S, U, V, sh
  <1>12. /\ Least(S) \in S /\ \A s \in S : Least(S) =< s
         /\ Least(U) \in U /\ \A u \in U : Least(U) =< u
    BY <1>7, LeastIs, Zenon
  <1>13. CASE \A c \in C : t.cells[c].until > ms
    <2>1. sh = [spent |-> Least(S), until |-> Least(U)]
      BY <1>1, <1>8, <1>13, Zenon
    <2>2. sh.spent = Least(S) /\ sh.until = Least(U)
      BY <2>1, Zenon
    <2>3. sh.spent \in Nat /\ sh.until \in Nat /\ sh.until \in Deadlines
      BY <1>7, <1>12, <2>2, Zenon
    <2>4. sh.until > ms
      BY <1>11, <1>12, <1>13, <2>2, Zenon
    <2>5. \A c \in C : t.cells[c].until >= sh.until
      BY <1>4, <1>9, <1>12, <2>2, <2>3, Zenon
    <2>6. ASSUME NEW d \in Debts, InSketch(t, k, d) PROVE Covers(sh, d)
      <3>1. \A c \in C : Unpacked(t.cells[c]).spent >= d.spent /\ t.cells[c].until >= d.until
        BY <1>4, <2>6, Zenon DEF InSketch, Covers, C
      <3> QED
        BY <1>10, <1>11, <1>12, <2>2, <3>1, Zenon DEF Covers
    <2> QED
      BY <1>13, <2>3, <2>4, <2>5, <2>6, Zenon DEF sh, C
  <1>14. CASE ~\A c \in C : t.cells[c].until > ms
    <2>1. sh = NoDebt
      BY <1>1, <1>8, <1>14, Zenon
    <2>2. sh.spent \in Nat /\ sh.until \in Nat /\ sh.until \in Deadlines
      BY <2>1, NoDebtIs, BoundsAssumption DEF Deadlines
    <2> QED
      BY <1>14, <2>1, <2>2, Zenon DEF sh, C
  <1> QED
    BY <1>13, <1>14, Zenon

LEMMA InsertInv == ASSUME IInv, NEW k \in Key, NEW ms \in Readings, Insert(k, ms) PROVE IInv'
  <1> DEFINE sh == Shared(table, k, ms)
             own == Own(table, k, ms)
             shared == sh # NoDebt
  <1>1. /\ TypeOK /\ Homed(table) /\ BackedIn(table, owed, clock) /\ SharesIn(table, held, share, clock)
        /\ ~misled => AccurateIn(table, held, owed, share, clock)
        /\ ~misled => ~spread
    BY InvIs, Zenon
  <1>2. /\ clock \in Times /\ table \in Tables /\ held \in [Key -> {"out", "own", "seeded"}] /\ owed \in [Key -> Debts]
        /\ share \in [Key -> Deadlines] /\ spread \in BOOLEAN /\ misled \in BOOLEAN /\ clock \in Nat /\ Deadlines \subseteq Nat
    BY <1>1, TypeIs, Zenon
  <1>3. Charge(table, k, ms).shared = shared
    BY Zenon DEF Charge
  <1>4. /\ held[k] = "out" /\ table' = Forgotten(table, k, ms) /\ owed' = [owed EXCEPT ![k] = NoDebt]
        /\ NoteMisled(k, ms) /\ clock' = clock /\ spread' = spread
        /\ held' = [held EXCEPT ![k] = IF Charge(table, k, ms).shared THEN "seeded" ELSE "own"]
        /\ share' = [share EXCEPT ![k] =
                        CASE Charge(table, k, ms).shared -> Larger(Running(Shared(table, k, ms).until, clock), IF own # Nowhere THEN @ ELSE 0)
                          [] ~Charge(table, k, ms).shared /\ own # Nowhere /\ At(table, own).inherited -> @
                          [] OTHER -> 0]
    BY Zenon DEF Insert
  <1>5. ms \in Nat /\ ms =< clock
    BY <1>1, ReadingIs, Zenon
  <1>6. /\ table' \in Tables /\ Homed(table') /\ table'.cells = table.cells
    BY <1>1, <1>2, <1>4, <1>5, ForgottenIs, Zenon
  <1>7. /\ sh.until \in Nat /\ sh.until \in Deadlines
        /\ (\A c \in CellsAt(Tag[k], Home[k]) : table.cells[c].until > ms) =>
              /\ sh.until > ms /\ \A c \in CellsAt(Tag[k], Home[k]) : table.cells[c].until >= sh.until
        /\ ~(\A c \in CellsAt(Tag[k], Home[k]) : table.cells[c].until > ms) => sh = NoDebt
    BY <1>2, <1>5, SharedIs, Zenon
  <1> HIDE DEF sh, own, shared
  <1>8. share[k] # 0 => shared
    <2>1. SUFFICES ASSUME share[k] # 0 PROVE sh # NoDebt
      BY Zenon DEF shared
    <2>2. share[k] > clock /\ \A c \in CellsAt(Tag[k], Home[k]) : table.cells[c].until >= share[k]
      BY <1>1, <2>1, Zenon DEF SharesIn
    <2>3. share[k] \in Nat
      BY <1>2, Zenon
    <2>4. \A c \in CellsAt(Tag[k], Home[k]) : c \in Cells
      BY KeyCells, Zenon
    <2>5. \A c \in CellsAt(Tag[k], Home[k]) : table.cells[c] \in CellValues
      BY <1>2, <2>4, Zenon DEF Tables, CellValues
    <2>6. \A c \in CellsAt(Tag[k], Home[k]) : table.cells[c].until > ms
      BY <1>2, <1>5, <2>2, <2>3, <2>5, UnpackedIs
    <2>7. sh.until > ms
      BY <1>7, <2>6, Zenon
    <2> QED
      BY <1>5, <1>7, <2>7, NoDebtIs
  <1>9. \A j \in Key : /\ j # k => held'[j] = held[j] /\ share'[j] = share[j] /\ owed'[j] = owed[j]
                       /\ j = k => held'[j] = (IF shared THEN "seeded" ELSE "own")
    BY <1>2, <1>3, <1>4, Zenon
  <1> DEFINE C == CellsAt(Tag[k], Home[k])
             x == share'[k]
  <1>10. x = CASE shared -> Larger(Running(sh.until, clock), IF own # Nowhere THEN share[k] ELSE 0)
               [] ~shared /\ own # Nowhere /\ At(table, own).inherited -> share[k]
               [] OTHER -> 0
    BY <1>2, <1>3, <1>4, Zenon DEF sh
  <1>11. share[k] \in Nat /\ share[k] \in Deadlines /\ 0 \in Deadlines
    BY <1>2, BoundsAssumption DEF Deadlines
  <1> HIDE DEF x, C
  <1>12. x \in Deadlines /\ (x # 0 => shared /\ x > clock /\ \A c \in C : table.cells[c].until >= x)
    <2>1. CASE shared
      <3> DEFINE a == Running(sh.until, clock)
                 b == IF own # Nowhere THEN share[k] ELSE 0
      <3>1. x = Larger(a, b)
        BY <1>10, <2>1, Zenon
      <3>2. \A c \in C : table.cells[c].until >= sh.until
        BY <1>7, <2>1, Zenon DEF shared, C
      <3>3. a \in Deadlines /\ (a # 0 => a > clock /\ \A c \in C : table.cells[c].until >= a)
        BY <1>7, <1>11, <3>2, Zenon DEF Running
      <3>4. share[k] # 0 => share[k] > clock /\ \A c \in C : table.cells[c].until >= share[k]
        BY <1>1, Zenon DEF SharesIn, C
      <3>5. b \in Deadlines /\ (b # 0 => b > clock /\ \A c \in C : table.cells[c].until >= b)
        BY <1>11, <3>4, Zenon
      <3> HIDE DEF a, b
      <3>6. x = a \/ x = b
        BY <3>1, Zenon DEF Larger
      <3> QED
        BY <2>1, <3>3, <3>5, <3>6, Zenon
    <2>2. CASE ~shared
      <3>1. x = 0
        BY <1>8, <1>10, <2>2, Zenon
      <3> QED
        BY <1>11, <3>1, Zenon
    <2> QED
      BY <2>1, <2>2, Zenon
  <1>13. TypeOK'
    <2>1. owed' \in [Key -> Debts] /\ held' \in [Key -> {"out", "own", "seeded"}]
      BY <1>2, <1>4, NoDebtIs, Zenon
    <2>2. \E y : share' = [share EXCEPT ![k] = y]
      BY <1>4, Zenon
    <2>3. share' = [share EXCEPT ![k] = x]
      BY <1>2, <2>2, Zenon DEF x
    <2>4. share' \in [Key -> Deadlines]
      BY <1>2, <1>12, <2>3, Zenon
    <2>5. misled' \in BOOLEAN
      BY <1>1, <1>4, NoteType, Zenon
    <2> QED
      BY <1>2, <1>4, <1>6, <2>1, <2>4, <2>5, TypeIsNext, Zenon
  <1>14. BackedIn(table', owed', clock')
    BY <1>1, <1>2, <1>4, <1>5, ForgottenBacked, Zenon
  <1>15. SharesIn(table', held', share', clock')
    <2>1. SUFFICES ASSUME NEW j \in Key, share'[j] # 0
                   PROVE  /\ held'[j] # "own" /\ share'[j] > clock
                          /\ \A c \in CellsAt(Tag[j], Home[j]) : table.cells[c].until >= share'[j]
      BY <1>4, <1>6, Zenon DEF SharesIn
    <2>2. CASE j = k
      <3>1. x # 0
        BY <2>1, <2>2, Zenon DEF x
      <3>2. held'[j] = "seeded"
        BY <1>9, <1>12, <2>2, <3>1, Zenon
      <3>3. held'[j] # "own"
        BY <3>2, Zenon
      <3> QED
        BY <1>12, <2>2, <3>1, <3>3, Zenon DEF x, C
    <2>3. CASE j # k
      <3>1. held'[j] = held[j] /\ share'[j] = share[j]
        BY <1>9, <2>3, Zenon
      <3> QED
        BY <1>1, <2>1, <3>1, Zenon DEF SharesIn
    <2> QED
      BY <2>2, <2>3, Zenon
  <1>16. ASSUME ~misled' PROVE AccurateIn(table', held', owed', share', clock') /\ ~spread'
    <2>1. ~misled /\ ~(Own(table, k, ms) # Nowhere /\ At(table, Own(table, k, ms)).until =< clock)
      BY <1>4, <1>16, Unmisled, Zenon
    <2>2. AccurateIn(table, held, owed, share, clock) /\ ~spread
      BY <1>1, <2>1, Zenon
    <2>3. \A j \in Key : j # k => held'[j] = held[j] /\ owed'[j] = owed[j] /\ share'[j] = share[j]
      BY <1>9, Zenon
    <2>4. AccurateIn(Forgotten(table, k, ms), held', owed', share', clock)
      BY <1>1, <1>2, <1>5, <2>1, <2>2, <2>3, ForgottenAccurate
    <2> QED
      BY <1>4, <2>2, <2>4, Zenon
  <1> QED
    BY <1>6, <1>13, <1>14, <1>15, <1>16, InvIsNext, Zenon

\* The eviction of a key that owes: the debts that have to be covered then, and
\* the records that keys may have.
DebtsLeft(t, o, k, debt, ms) ==
    IF t.forget THEN {}
    ELSE {x \in Debited(ms) : (x[1] = k /\ x[2] = debt) \/ (x[1] # k /\ x[2] = o[x[1]] /\ o[x[1]] # NoDebt)}

RecordsLeft(h, o, s, k, r) ==
    {x \in Key \X Records :
        \/ x[1] = k /\ x[2] = r
        \/ /\ x[1] # k
           /\ h[x[1]] = "out"
           /\ o[x[1]] = [spent |-> x[2].spent, until |-> x[2].until]
           /\ s[x[1]] # 0 => x[2].inherited}

Evicting(k, debt, r, ms, at, t, h, o, s, e) ==
    [ms |-> ms, clock |-> at, cells |-> t.cells, forget |-> t.forget, exact |-> e,
     debts |-> DebtsLeft(t, o, k, debt, ms), records |-> RecordsLeft(h, o, s, k, r)]

LEMMA EvictStart ==
    ASSUME NEW t \in Tables, Homed(t), NEW k \in Key, NEW h, NEW o \in [Key -> Debts], NEW s, NEW ms \in Nat, NEW at \in Nat,
           ms =< at, NEW debt \in Debts, NEW inherited \in BOOLEAN, BackedIn(t, o, at), NEW e \in BOOLEAN,
           e => AccurateIn(t, h, o, s, at), Own(t, k, ms) = Nowhere
    PROVE  LET g == Evicting(k, debt, NewRecord(k, debt, inherited), ms, at, t, h, o, s, e)
           IN  Setting(g) /\ \A p \in Spots(k) : Sound(t, NewRecord(k, debt, inherited), p, g)
  <1> DEFINE r == NewRecord(k, debt, inherited)
             D == DebtsLeft(t, o, k, debt, ms)
             F == RecordsLeft(h, o, s, k, r)
             g == Evicting(k, debt, r, ms, at, t, h, o, s, e)
  <1>1. r \in Records /\ r.tag = Tag[k] /\ Covers(r, debt)
    <2>1. debt.spent \in Nat /\ debt.until \in Nat /\ debt.spent \in {0} \union Spends /\ debt.until \in Deadlines
      BY DebtType, Zenon
    <2>2. Tag[k] \in Nat
      BY KeyBuckets, Zenon
    <2>3. r \in Records
      BY <2>1, <2>2, Zenon DEF NewRecord, Records
    <2>4. r.tag = Tag[k] /\ r.spent = debt.spent /\ r.until = debt.until
      BY Zenon DEF NewRecord
    <2> QED
      BY <2>1, <2>3, <2>4 DEF Covers
  <1>2. /\ g.ms = ms /\ g.clock = at /\ g.cells = t.cells /\ g.forget = t.forget /\ g.exact = e
        /\ g.debts = D /\ g.records = F
    BY Zenon DEF Evicting
  <1>3. D \subseteq Debited(ms) /\ (t.forget => D = {})
    BY Zenon DEF DebtsLeft
  <1>4. \A x \in D : ~t.forget /\ ((x[1] = k /\ x[2] = debt) \/ (x[1] \in Key /\ x[2] = o[x[1]] /\ o[x[1]] # NoDebt))
    BY Zenon DEF DebtsLeft, Debited
  <1> HIDE DEF D, g
  <1>5. Setting(g)
    BY <1>2, <1>3, Zenon DEF Setting
  <1>6. ASSUME NEW p \in Spots(k) PROVE Sound(t, r, p, g)
    <2>1. p \in Positions
      BY SpotsIn, Zenon
    <2>2. Handed(r, p)
      BY <1>1, <2>1, Zenon DEF Handed, Mine
    <2>3. Kept(t, r, p, D)
      <3>1. SUFFICES ASSUME NEW x \in D
                     PROVE  InTable(t, x[1], x[2]) \/ InSketch(t, x[1], x[2]) \/ (Mine(r, p, x[1]) /\ Covers(r, x[2]))
        BY Zenon DEF Kept
      <3>2. CASE x[1] = k /\ x[2] = debt
        BY <1>1, <3>2, Zenon DEF Mine
      <3>3. CASE x[1] \in Key /\ x[2] = o[x[1]] /\ o[x[1]] # NoDebt
        <4>1. ~t.forget
          BY <1>4, Zenon
        <4> QED
          BY <3>3, <4>1, Zenon DEF BackedIn
      <3> QED
        BY <1>4, <3>2, <3>3, Zenon
    <2>4. ASSUME e PROVE Exact(t, r, p, at, F)
      <3>1. SUFFICES ASSUME NEW j \in Key
                     PROVE  /\ \A q, v \in Spots(j) : Holds(t, j, q, at) /\ Holds(t, j, v, at) => q = v
                            /\ \A q \in Spots(j) : Holds(t, j, q, at) => <<j, At(t, q)>> \in F
                            /\ Mine(r, p, j) /\ r.until > at => <<j, r>> \in F /\ \A q \in Spots(j) : ~Holds(t, j, q, at)
        BY Zenon DEF Exact
      <3>2. AccurateFor(j, t, h, o, s, at)
        BY <2>4, Zenon DEF AccurateIn
      <3>3. \A q \in Spots(k) : ~Holds(t, k, q, at)
        <4>1. \A q \in Spots(k) : ~Holds(t, k, q, ms) /\ q \in Positions
          BY OwnIs, SpotsIn, Zenon
        <4> QED
          BY <4>1, LiveBefore, Zenon
      <3>4. ASSUME NEW q \in Spots(j), Holds(t, j, q, at) PROVE <<j, At(t, q)>> \in F
        <4>1. j # k
          BY <3>3, <3>4, Zenon
        <4>2. h[j] = "out" /\ o[j] = [spent |-> At(t, q).spent, until |-> At(t, q).until] /\ (s[j] # 0 => At(t, q).inherited)
          BY <3>2, <3>4, Zenon DEF AccurateFor
        <4>3. At(t, q) \in Records
          BY AtType, SpotsIn, Zenon
        <4> QED
          BY <4>1, <4>2, <4>3, Zenon DEF RecordsLeft
      <3>5. Mine(r, p, j) => j = k
        BY <1>1, OneKey, Zenon DEF Mine
      <3>6. <<k, r>> \in F
        BY <1>1, Zenon DEF RecordsLeft
      <3>7. \A q, v \in Spots(j) : Holds(t, j, q, at) /\ Holds(t, j, v, at) => q = v
        BY <3>2, Zenon DEF AccurateFor
      <3> HIDE DEF F
      <3> QED
        BY <3>3, <3>4, <3>5, <3>6, <3>7, Zenon
    <2> HIDE DEF F
    <2> QED
      BY <1>2, <2>2, <2>3, <2>4, Zenon DEF Sound
  <1> QED
    BY <1>5, <1>6, Zenon DEF g

\* The shares that are running stay in cells that only rise.
LEMMA SharesStay ==
    ASSUME NEW t \in Tables, NEW u \in Tables, NEW ms \in Nat, NEW at \in Nat, ms =< at, Higher(t.cells, u.cells, ms),
           NEW h, NEW n, NEW s \in [Key -> Deadlines], SharesIn(t, h, s, at), \A j \in Key : n[j] = h[j] \/ n[j] = "out"
    PROVE  SharesIn(u, n, s, at)
  <1>1. SUFFICES ASSUME NEW j \in Key, s[j] # 0
                 PROVE  n[j] # "own" /\ s[j] > at /\ \A c \in CellsAt(Tag[j], Home[j]) : u.cells[c].until >= s[j]
    BY Zenon DEF SharesIn
  <1>2. h[j] # "own" /\ s[j] > at /\ \A c \in CellsAt(Tag[j], Home[j]) : t.cells[c].until >= s[j]
    BY <1>1, Zenon DEF SharesIn
  <1>3. n[j] # "own"
    BY <1>2, Zenon
  <1>4. s[j] \in Nat
    BY BoundsAssumption DEF Deadlines
  <1>5. ASSUME NEW c \in CellsAt(Tag[j], Home[j]) PROVE u.cells[c].until >= s[j]
    <2>1. c \in Cells
      BY KeyCells, Zenon
    <2>2. t.cells[c] \in CellValues /\ u.cells[c] \in CellValues
      BY <2>1, Zenon DEF Tables, CellValues
    <2>3. t.cells[c].until \in Nat /\ u.cells[c].until \in Nat
      BY <2>2, UnpackedIs, Zenon
    <2>4. t.cells[c].until > ms /\ t.cells[c].until >= s[j]
      BY <1>2, <1>4, <2>3
    <2>5. u.cells[c].until >= t.cells[c].until
      BY <2>1, <2>4, Zenon DEF Higher
    <2> QED
      BY <1>4, <2>3, <2>4, <2>5
  <1> QED
    BY <1>2, <1>3, <1>5, Zenon

\* A debt that is merged into the record of its key is covered, and every other is still.
LEMMA MergedKeeps ==
    ASSUME NEW t \in Tables, Homed(t), NEW k \in Key, NEW ms \in Nat, NEW debt \in Debts, NEW inherited \in BOOLEAN,
           Own(t, k, ms) # Nowhere
    PROVE  LET u == Put(t, Own(t, k, ms), Merged(At(t, Own(t, k, ms)), debt, inherited))
           IN  /\ u \in Tables /\ Homed(u) /\ u.cells = t.cells /\ u.forget = t.forget
               /\ InTable(u, k, debt)
               /\ \A j \in Key, d \in Debts : InTable(t, j, d) => InTable(u, j, d)
  <1> DEFINE q == Own(t, k, ms)
             m == Merged(At(t, q), debt, inherited)
             u == Put(t, q, m)
  <1>1. q \in Spots(k) /\ q \in Positions /\ At(t, q).tag = Tag[k]
    BY OwnIs, SpotsIn, Zenon DEF Holds
  <1>2. At(t, q) \in Records
    BY <1>1, AtType, Zenon
  <1> HIDE DEF q
  <1>3. m \in Records /\ m.tag = At(t, q).tag /\ Covers(m, debt) /\ Covers(m, At(t, q))
    BY <1>2, MergedIs, Zenon
  <1> HIDE DEF m
  <1>4. /\ u \in Tables /\ At(u, q) = m /\ (\A p \in Positions : p # q => At(u, p) = At(t, p))
        /\ u.cells = t.cells /\ u.forget = t.forget
    <2>1. q \in Positions /\ m \in Records
      BY <1>1, <1>3
    <2> QED
      BY <2>1, PutIs, ZenonT(30)
  <1>5. Handed(m, q)
    BY <1>1, <1>3, Zenon DEF Handed, Mine
  <1>6. Homed(u)
    BY <1>5, PutHomed, Zenon
  <1> HIDE DEF u
  <1>7. InTable(u, k, debt)
    BY <1>1, <1>3, <1>4, Zenon DEF InTable
  <1>8. ASSUME NEW j \in Key, NEW d \in Debts, InTable(t, j, d) PROVE InTable(u, j, d)
    <2>1. PICK p \in Spots(j) : At(t, p).tag = Tag[j] /\ Covers(At(t, p), d)
      BY <1>8, Zenon DEF InTable
    <2>2. p \in Positions
      BY SpotsIn, Zenon
    <2>3. CASE p = q
      <3>1. m.spent \in Nat /\ m.until \in Nat /\ At(t, q).spent \in Nat /\ At(t, q).until \in Nat
        BY <1>2, <1>3, RecordType, Zenon
      <3>2. d.spent \in Nat /\ d.until \in Nat
        BY DebtType, Zenon
      <3>3. Covers(m, d)
        BY <1>3, <2>1, <2>3, <3>1, <3>2 DEF Covers
      <3> QED
        BY <1>3, <1>4, <2>1, <2>3, <3>3, Zenon DEF InTable
    <2>4. CASE p # q
      BY <1>4, <2>1, <2>2, <2>4, Zenon DEF InTable
    <2> QED
      BY <2>3, <2>4, Zenon
  <1> QED
    BY <1>4, <1>6, <1>7, <1>8, Zenon DEF u, m, q

\* What the eviction of a key that owes does.
Seeded(k) == held[k] = "seeded"

MaySpread(spilled) ==
    \E j \in Key, h \in spilled :
        h[1].tag = Tag[j] /\ h[2] \in {BucketsOf(j)[1], BucketsOf(j)[2]} /\ h[1].until > clock /\ share[j] # 0

LEMMA EvictOwingIs ==
    ASSUME TypeOK, NEW k \in Key, NEW ms \in Readings, NEW spent \in Spends, NEW delay \in 1..MaxDelay,
           EvictOwing(k, spent, ms + delay, ms)
    PROVE  LET debt == [spent |-> spent, until |-> ms + delay]
               R == Recorded(table, k, debt, ms, Seeded(k))
           IN  /\ ms \in Nat /\ ms =< clock /\ debt \in Debts /\ debt.until > ms /\ Seeded(k) \in BOOLEAN
               /\ held[k] # "out" /\ R.how # "none" /\ table' = R.table
               /\ spread' = (spread \/ MaySpread(R.spilled))
               /\ held' \in [Key -> {"out", "own", "seeded"}] /\ owed' \in [Key -> Debts]
               /\ \A j \in Key : held'[j] = IF j = k THEN "out" ELSE held[j]
               /\ \A j \in Key : owed'[j] = IF j = k THEN Owing(debt, clock) ELSE owed[j]
               /\ NoteMisled(k, ms) /\ clock' = clock /\ share' = share
  <1> DEFINE debt == [spent |-> spent, until |-> ms + delay]
             R == Recorded(table, k, debt, ms, Seeded(k))
  <1>1. /\ held[k] # "out" /\ R.how # "none" /\ table' = R.table
        /\ spread' = (spread \/ MaySpread(R.spilled))
        /\ held' = [held EXCEPT ![k] = "out"] /\ owed' = [owed EXCEPT ![k] = Owing(debt, clock)]
        /\ NoteMisled(k, ms) /\ clock' = clock /\ share' = share
    BY Zenon DEF EvictOwing, Seeded, MaySpread
  <1>2. ms \in Nat /\ ms =< clock /\ ms =< MaxTime
    BY ReadingIs, Zenon
  <1>3. debt \in Debts /\ debt.until > ms
    BY <1>2, BoundsAssumption DEF Debts, Deadlines
  <1>4. held \in [Key -> {"out", "own", "seeded"}] /\ owed \in [Key -> Debts]
    BY TypeIs, Zenon
  <1>5. Seeded(k) \in BOOLEAN
    BY Zenon DEF Seeded
  <1> HIDE DEF debt, R
  <1>6. Owing(debt, clock) \in Debts
    BY <1>3, NoDebtIs, Zenon DEF Owing
  <1>7. /\ held' \in [Key -> {"out", "own", "seeded"}] /\ owed' \in [Key -> Debts]
        /\ \A j \in Key : held'[j] = IF j = k THEN "out" ELSE held[j]
        /\ \A j \in Key : owed'[j] = IF j = k THEN Owing(debt, clock) ELSE owed[j]
    BY <1>1, <1>4, <1>6, Zenon
  <1> QED
    BY <1>1, <1>2, <1>3, <1>5, <1>7, Zenon DEF debt, R

LEMMA EvictOwingInv ==
    ASSUME IInv, NEW k \in Key, NEW ms \in Readings, NEW spent \in Spends, NEW delay \in 1..MaxDelay,
           EvictOwing(k, spent, ms + delay, ms)
    PROVE  IInv'
  <1> DEFINE debt == [spent |-> spent, until |-> ms + delay]
             R == Recorded(table, k, debt, ms, Seeded(k))
             r == NewRecord(k, debt, Seeded(k))
             g == Evicting(k, debt, r, ms, clock, table, held, owed, share, ~misled')
  <1>1. /\ TypeOK /\ Homed(table) /\ BackedIn(table, owed, clock) /\ SharesIn(table, held, share, clock)
        /\ ~misled => AccurateIn(table, held, owed, share, clock)
        /\ ~misled => ~spread
    BY InvIs, Zenon
  <1>2. /\ clock \in Times /\ table \in Tables /\ owed \in [Key -> Debts]
        /\ share \in [Key -> Deadlines] /\ spread \in BOOLEAN /\ misled \in BOOLEAN /\ clock \in Nat
    BY <1>1, TypeIs, Zenon
  <1>3. /\ ms \in Nat /\ ms =< clock /\ debt \in Debts /\ debt.until > ms /\ Seeded(k) \in BOOLEAN
        /\ held[k] # "out" /\ R.how # "none" /\ table' = R.table
        /\ spread' = (spread \/ MaySpread(R.spilled))
        /\ held' \in [Key -> {"out", "own", "seeded"}] /\ owed' \in [Key -> Debts]
        /\ (\A j \in Key : held'[j] = IF j = k THEN "out" ELSE held[j])
        /\ (\A j \in Key : owed'[j] = IF j = k THEN Owing(debt, clock) ELSE owed[j])
        /\ NoteMisled(k, ms) /\ clock' = clock /\ share' = share
    BY <1>1, EvictOwingIs, Zenon
  <1> HIDE DEF debt, R, r
  <1>4. misled' \in BOOLEAN /\ spread' \in BOOLEAN
    <2>1. misled' \in BOOLEAN
      BY <1>1, <1>3, NoteType, Zenon
    <2>2. spread' \in BOOLEAN
      BY <1>2, <1>3, Zenon DEF MaySpread
    <2> QED
      BY <2>1, <2>2, Zenon
  <1>5. \A j \in Key : held'[j] = held[j] \/ held'[j] = "out"
    BY <1>3, Zenon
  <1>6. \A j \in Key : owed'[j] # NoDebt =>
            owed'[j].until > clock /\ owed'[j] \in Debts /\ owed'[j] = (IF j = k THEN debt ELSE owed[j])
                /\ (j # k /\ ~table.forget => InTable(table, j, owed[j]) \/ InSketch(table, j, owed[j]))
    <2>1. \A j \in Key : owed'[j] \in Debts
      BY <1>3, Zenon
    <2>2. Owing(debt, clock) # NoDebt => Owing(debt, clock) = debt /\ debt.until > clock
      BY Zenon DEF Owing
    <2> QED
      BY <1>1, <1>3, <2>1, <2>2, Zenon DEF BackedIn
  <1>7. CASE Own(table, k, ms) # Nowhere
    <2> DEFINE own == Own(table, k, ms)
               u == Put(table, own, Merged(At(table, own), debt, Seeded(k)))
    <2>1. R = [table |-> u, how |-> "exact", spilled |-> {}]
      BY <1>7, RecordedIs, Zenon DEF R
    <2>2. table' = u /\ R.spilled = {}
      BY <1>3, <2>1, Zenon
    <2>3. /\ u \in Tables /\ Homed(u) /\ u.cells = table.cells /\ u.forget = table.forget
          /\ InTable(u, k, debt)
          /\ \A j \in Key, d \in Debts : InTable(table, j, d) => InTable(u, j, d)
      <3>1. table \in Tables /\ Homed(table) /\ ms \in Nat /\ debt \in Debts /\ Seeded(k) \in BOOLEAN
        BY <1>1, <1>2, <1>3, Zenon
      <3> QED
        BY <1>7, <3>1, MergedKeeps, ZenonT(30)
    <2>4. misled'
      <3>1. SUFFICES ASSUME ~misled' PROVE FALSE
        BY <1>4, Zenon
      <3>2. ~misled /\ ~(own # Nowhere /\ At(table, own).until =< clock)
        BY <1>3, <3>1, Unmisled, Zenon
      <3>3. own \in Spots(k) /\ Holds(table, k, own, ms)
        BY <1>2, <1>7, OwnIs, Zenon
      <3>4. At(table, own).until \in Nat
        BY <1>2, <3>3, SpotsIn, AtType, RecordType
      <3>5. At(table, own).until > clock
        BY <1>2, <1>7, <3>2, <3>4
      <3>6. Holds(table, k, own, clock)
        BY <3>3, <3>5, Zenon DEF Holds, IsLive
      <3>7. AccurateFor(k, table, held, owed, share, clock)
        BY <1>1, <3>2, Zenon DEF AccurateIn
      <3> QED
        BY <1>3, <3>3, <3>6, <3>7, Zenon DEF AccurateFor
    <2> HIDE DEF u, own
    <2>5. BackedIn(table', owed', clock')
      <3>1. \A j \in Key : \A d : InSketch(table, j, d) => InSketch(u, j, d)
        BY <2>3, SketchSame, Zenon
      <3>2. ASSUME NEW j \in Key, owed'[j] # NoDebt, ~u.forget PROVE InTable(u, j, owed'[j]) \/ InSketch(u, j, owed'[j])
        <4>1. CASE j = k
          BY <1>6, <2>3, <3>2, <4>1, Zenon
        <4>2. CASE j # k
          <5>1. owed'[j] = owed[j] /\ owed[j] \in Debts /\ (InTable(table, j, owed[j]) \/ InSketch(table, j, owed[j]))
            BY <1>6, <2>3, <3>2, <4>2, Zenon
          <5> QED
            BY <2>3, <3>1, <5>1, Zenon
        <4> QED
          BY <4>1, <4>2, Zenon
      <3> QED
        BY <1>3, <1>6, <2>2, <3>2, Zenon DEF BackedIn
    <2>6. Higher(table.cells, u.cells, ms)
      <3>1. \A c \in Cells : table.cells[c] \in CellValues
        BY <1>2, Zenon DEF Tables, CellValues
      <3>2. \A c \in Cells : table.cells[c].until >= table.cells[c].until
        BY <3>1, UnpackedIs
      <3> QED
        BY <2>3, <3>2, Zenon DEF Higher
    <2>7. SharesIn(table', held', share', clock')
      <3>1. /\ table \in Tables /\ u \in Tables /\ ms \in Nat /\ clock \in Nat /\ ms =< clock
            /\ Higher(table.cells, u.cells, ms) /\ share \in [Key -> Deadlines]
            /\ SharesIn(table, held, share, clock) /\ \A j \in Key : held'[j] = held[j] \/ held'[j] = "out"
        BY <1>1, <1>2, <1>3, <1>5, <2>3, <2>6, Zenon
      <3>2. SharesIn(u, held', share, clock)
        BY <3>1, SharesStay, ZenonT(30)
      <3> QED
        BY <1>3, <2>2, <3>2, Zenon
    <2>8. TypeOK'
      BY <1>2, <1>3, <1>4, <2>2, <2>3, TypeIsNext, Zenon
    <2> QED
      BY <2>2, <2>3, <2>4, <2>5, <2>7, <2>8, InvIsNext, Zenon
  <1>8. CASE Own(table, k, ms) = Nowhere
    <2>1. ~misled' => ~misled
      BY <1>3, Unmisled, Zenon
    <2>2. Setting(g) /\ \A p \in Spots(k) : Sound(table, r, p, g)
      <3>1. (~misled') \in BOOLEAN
        BY <1>4, Zenon
      <3>2. ~misled' => AccurateIn(table, held, owed, share, clock)
        BY <1>1, <2>1, Zenon
      <3> QED
        BY <1>1, <1>2, <1>3, <1>8, <3>1, <3>2, EvictStart, ZenonT(30) DEF r
    <2>3. /\ g.ms = ms /\ g.clock = clock /\ g.cells = table.cells /\ g.forget = table.forget /\ (g.exact <=> ~misled')
          /\ g.debts = DebtsLeft(table, owed, k, debt, ms) /\ g.records = RecordsLeft(held, owed, share, k, r)
      BY Zenon DEF Evicting
    <2> HIDE DEF g
    <2>4. Stored(R, g)
      <3>1. Own(table, k, g.ms) = Nowhere
        BY <1>8, <2>3, Zenon
      <3>2. R = Recorded(table, k, debt, g.ms, Seeded(k))
        BY <2>3, Zenon DEF R
      <3> QED
        BY <1>3, <2>2, <3>1, <3>2, RecordedStored, Zenon DEF r
    <2>5. Settled(table', g) /\ \A h \in R.spilled : MaySpill(h, g)
      BY <1>3, <2>4, Zenon DEF Stored
    <2>6. /\ table' \in Tables /\ Homed(table') /\ table'.forget = table.forget
          /\ Higher(table.cells, table'.cells, ms)
          /\ \A x \in g.debts : InTable(table', x[1], x[2]) \/ InSketch(table', x[1], x[2])
      BY <2>3, <2>5, Zenon DEF Settled
    <2>7. BackedIn(table', owed', clock')
      <3>1. ASSUME NEW j \in Key, owed'[j] # NoDebt, ~table.forget PROVE <<j, owed'[j]>> \in g.debts
        <4>1. owed'[j] \in Debts /\ owed'[j].until > clock /\ owed'[j] = (IF j = k THEN debt ELSE owed[j])
          BY <1>6, <3>1, Zenon
        <4>2. owed'[j].until > ms
          BY <1>2, <1>3, <4>1, DebtType
        <4>3. <<j, owed'[j]>> \in Debited(ms)
          BY <4>1, <4>2, Zenon DEF Debited
        <4>4. (j = k /\ owed'[j] = debt) \/ (j # k /\ owed'[j] = owed[j] /\ owed[j] # NoDebt)
          BY <3>1, <4>1, Zenon
        <4>5. <<j, owed'[j]>>[1] = j /\ <<j, owed'[j]>>[2] = owed'[j]
          BY Zenon
        <4> DEFINE x == <<j, owed'[j]>>
        <4>6. /\ x \in Debited(ms)
              /\ (x[1] = k /\ x[2] = debt) \/ (x[1] # k /\ x[2] = owed[x[1]] /\ owed[x[1]] # NoDebt)
          BY <4>3, <4>4, <4>5, Zenon
        <4> HIDE DEF x
        <4>7. x \in DebtsLeft(table, owed, k, debt, ms)
          BY <3>1, <4>6, Zenon DEF DebtsLeft
        <4> QED
          BY <2>3, <4>7, Zenon DEF x
      <3>2. ASSUME NEW j \in Key, owed'[j] # NoDebt, ~table.forget
            PROVE  InTable(table', j, owed'[j]) \/ InSketch(table', j, owed'[j])
        <4>1. <<j, owed'[j]>> \in g.debts
          BY <3>1, <3>2, Zenon
        <4> QED
          BY <2>6, <4>1, Zenon
      <3> QED
        BY <1>3, <1>6, <2>6, <3>2, Zenon DEF BackedIn
    <2>8. SharesIn(table', held', share', clock')
      <3>1. /\ table \in Tables /\ table' \in Tables /\ ms \in Nat /\ clock \in Nat /\ ms =< clock
            /\ Higher(table.cells, table'.cells, ms) /\ share \in [Key -> Deadlines]
            /\ SharesIn(table, held, share, clock) /\ \A j \in Key : held'[j] = held[j] \/ held'[j] = "out"
        BY <1>1, <1>2, <1>3, <1>5, <2>6, Zenon
      <3>2. SharesIn(table', held', share, clock)
        BY <3>1, SharesStay, ZenonT(30)
      <3> QED
        BY <1>3, <3>2, Zenon
    <2>9. share[k] # 0 => r.inherited
      <3>1. share[k] # 0 => held[k] # "own"
        BY <1>1, Zenon DEF SharesIn
      <3>2. held[k] \in {"out", "own", "seeded"}
        BY <1>1, TypeIs, Zenon
      <3>3. share[k] # 0 => Seeded(k)
        BY <1>3, <3>1, <3>2, Zenon DEF Seeded
      <3> QED
        BY <3>3, Zenon DEF r, NewRecord
    <2>10. ASSUME NEW j \in Key, NEW y, <<j, y>> \in g.records
           PROVE  /\ j # k => held[j] = "out" /\ owed[j] = [spent |-> y.spent, until |-> y.until]
                  /\ j = k => y = r
                  /\ share[j] # 0 => y.inherited
      BY <2>3, <2>9, <2>10 DEF RecordsLeft
    <2>11. ASSUME ~misled' PROVE AccurateIn(table', held', owed', share', clock')
      <3>1. SUFFICES ASSUME NEW j \in Key PROVE AccurateFor(j, table', held', owed', share', clock')
        BY Zenon DEF AccurateIn
      <3>2. /\ \A p, q \in Spots(j) : Holds(table', j, p, clock) /\ Holds(table', j, q, clock) => p = q
            /\ \A p \in Spots(j) : Holds(table', j, p, clock) => <<j, At(table', p)>> \in g.records
        BY <2>3, <2>5, <2>11, Zenon DEF Settled
      <3>3. ASSUME NEW p \in Spots(j), Holds(table', j, p, clock)
            PROVE  /\ held'[j] = "out" /\ owed'[j] = [spent |-> At(table', p).spent, until |-> At(table', p).until]
                   /\ share[j] # 0 => At(table', p).inherited
        <4> DEFINE y == At(table', p)
        <4>1. <<j, y>> \in g.records
          BY <3>2, <3>3, Zenon
        <4> HIDE DEF y
        <4>2. /\ j # k => held[j] = "out" /\ owed[j] = [spent |-> y.spent, until |-> y.until]
              /\ j = k => y = r
              /\ share[j] # 0 => y.inherited
          BY <2>10, <4>1, Zenon
        <4>3. CASE j # k
          BY <1>3, <4>2, <4>3, Zenon DEF y
        <4>4. CASE j = k
          <5>1. y.until > clock
            BY <3>3, Zenon DEF Holds, IsLive, y
          <5>2. r.spent = debt.spent /\ r.until = debt.until
            BY Zenon DEF r, NewRecord
          <5>3. debt = [spent |-> debt.spent, until |-> debt.until]
            BY Zenon DEF debt
          <5>4. Owing(debt, clock) = debt
            BY <4>2, <4>4, <5>1, <5>2, Zenon DEF Owing
          <5>5. owed'[j] = [spent |-> y.spent, until |-> y.until]
            BY <1>3, <4>2, <4>4, <5>2, <5>3, <5>4
          <5> QED
            BY <1>3, <4>2, <4>4, <5>5, Zenon DEF y
        <4> QED
          BY <4>3, <4>4, Zenon
      <3> QED
        BY <1>3, <3>2, <3>3, Zenon DEF AccurateFor
    <2>12. ASSUME ~misled' PROVE ~spread'
      <3>1. ~spread
        BY <1>1, <2>1, <2>12, Zenon
      <3>2. ASSUME NEW j \in Key, NEW h \in R.spilled, h[1].tag = Tag[j], h[2] \in {BucketsOf(j)[1], BucketsOf(j)[2]},
                   h[1].until > clock, share[j] # 0
            PROVE  FALSE
        <4>1. ~h[1].inherited /\ <<j, h[1]>> \in g.records
          BY <2>3, <2>5, <2>12, <3>2, Zenon DEF MaySpill
        <4> QED
          BY <2>10, <3>2, <4>1, Zenon
      <3>3. ~MaySpread(R.spilled)
        BY <3>2, Zenon DEF MaySpread
      <3> QED
        BY <1>3, <3>1, <3>3, Zenon
    <2>13. TypeOK'
      BY <1>2, <1>3, <1>4, <2>6, TypeIsNext, Zenon
    <2> QED
      BY <2>6, <2>7, <2>8, <2>11, <2>12, <2>13, InvIsNext, Zenon
  <1> QED
    BY <1>7, <1>8, Zenon

LEMMA InitInv == Init => IInv
  <1> SUFFICES ASSUME Init PROVE IInv
    BY Zenon
  <1>1. /\ clock = 0 /\ held = [k \in Key |-> "out"] /\ owed = [k \in Key |-> NoDebt] /\ share = [k \in Key |-> 0]
        /\ spread = FALSE /\ misled = FALSE
    BY Zenon DEF Init
  <1>2. PICK forget \in Policies : table = EmptyTable(forget)
    BY Zenon DEF Init
  <1>3. EmptyRecord \in Records /\ NoDebt \in [spent : 0..SpentMax, until : Deadlines] /\ 0 \in Slots /\ 0 \in 0..WalkBackoff
    BY BoundsAssumption, TableAssumption DEF EmptyRecord, Records, Deadlines, NoDebt, Slots
  <1>4. table \in Tables
    BY <1>2, <1>3, Zenon DEF EmptyTable, Tables
  <1>5. TypeOK
    <2>1. 0 \in Times /\ 0 \in Deadlines /\ NoDebt \in Debts
      BY NoDebtIs, BoundsAssumption DEF Times, Deadlines
    <2> QED
      BY <1>1, <1>4, <2>1, Zenon DEF TypeOK
  <1>6. EmptyRecord.tag = 0 /\ \A j \in Key : Tag[j] # 0
    BY KeyBuckets, Zenon DEF EmptyRecord
  <1>7. \A p \in Positions : At(table, p) = EmptyRecord
    <2>1. \A p \in Positions : p[1] \in Buckets /\ p[2] \in Slots
      BY Zenon DEF Positions
    <2>2. table.buckets = [b \in Buckets |-> [r \in Slots |-> EmptyRecord]]
      BY <1>2, Zenon DEF EmptyTable
    <2> QED
      BY <2>1, <2>2 DEF At
  <1>8. Homed(table)
    BY <1>6, <1>7, Zenon DEF Homed
  <1>9. \A k \in Key : owed[k] = NoDebt /\ share[k] = 0
    BY <1>1, Zenon
  <1>10. Backed /\ SharesKnown
    BY <1>9, Zenon DEF Backed, Live, SharesKnown
  <1>11. \A j \in Key : \A p \in Spots(j) : ~Holds(table, j, p, clock)
    BY <1>6, <1>7, SpotsIn DEF Holds
  <1>12. Accurate
    BY <1>11, Zenon DEF Accurate, Alone
  <1> QED
    BY <1>1, <1>5, <1>8, <1>10, <1>12 DEF IInv, NoSpreading

LEMMA NextInv == IInv /\ [Next]_vars => IInv'
  <1> SUFFICES ASSUME IInv, [Next]_vars PROVE IInv'
    BY Zenon
  <1>1. CASE Tick
    BY <1>1, TickInv, Zenon
  <1>2. ASSUME NEW ms \in Readings, Release(ms) PROVE IInv'
    BY <1>2, ReleaseInv, Zenon
  <1>3. ASSUME NEW ms \in Readings, NEW k \in Key, Insert(k, ms) PROVE IInv'
    BY <1>3, InsertInv, Zenon
  <1>4. ASSUME NEW ms \in Readings, NEW k \in Key, Forget(k, ms) PROVE IInv'
    BY <1>4, ForgetInv, Zenon
  <1>5. ASSUME NEW ms \in Readings, NEW k \in Key, NEW spent \in Spends, NEW delay \in 1..MaxDelay,
               EvictOwing(k, spent, ms + delay, ms)
        PROVE  IInv'
    BY <1>5, EvictOwingInv, Zenon
  <1>6. ASSUME NEW k \in Key, EvictRecovered(k) PROVE IInv'
    BY <1>6, EvictRecoveredInv, Zenon
  <1>7. CASE UNCHANGED vars
    <2>1. clock' = clock /\ table' = table /\ held' = held /\ owed' = owed /\ share' = share /\ spread' = spread /\ misled' = misled
      BY <1>7, Zenon DEF vars
    <2>2. /\ TypeOK /\ Homed(table) /\ BackedIn(table, owed, clock) /\ SharesIn(table, held, share, clock)
          /\ ~misled => AccurateIn(table, held, owed, share, clock)
          /\ ~misled => ~spread
      BY InvIs, Zenon
    <2>3. TypeOK'
      BY <2>1, <2>2, TypeIs, TypeIsNext, Zenon
    <2> QED
      BY <2>1, <2>2, <2>3, InvIsNext, Zenon
  <1> QED
    BY <1>1, <1>2, <1>3, <1>4, <1>5, <1>6, <1>7, Zenon DEF Next

\* A debt that is covered is charged.
LEMMA CoveredIsCharged ==
    ASSUME NEW t \in Tables, NEW k \in Key, NEW ms \in Nat, NEW d \in Debts, d.until > ms,
           InTable(t, k, d) \/ InSketch(t, k, d),
           \A p, q \in Spots(k) : Holds(t, k, p, ms) /\ Holds(t, k, q, ms) => p = q
    PROVE  Covers(Charge(t, k, ms).debt, d)
  <1> DEFINE own == Own(t, k, ms)
             a == IF own = Nowhere THEN NoDebt ELSE At(t, own)
             b == Shared(t, k, ms)
             c == Charge(t, k, ms).debt
  <1>1. c.spent = Larger(a.spent, b.spent) /\ c.until = Larger(a.until, b.until)
    BY Zenon DEF Charge
  <1>2. /\ own = Nowhere => \A p \in Spots(k) : ~Holds(t, k, p, ms)
        /\ own # Nowhere => own \in Spots(k) /\ Holds(t, k, own, ms)
    BY OwnIs, Zenon
  <1>3. /\ b.spent \in Nat /\ b.until \in Nat
        /\ (\A e \in CellsAt(Tag[k], Home[k]) : t.cells[e].until > ms) => (InSketch(t, k, d) => Covers(b, d))
    BY SharedIs, Zenon
  <1> HIDE DEF b, c, own
  <1>4. a.spent \in Nat /\ a.until \in Nat
    <2>1. own # Nowhere => At(t, own) \in Records
      BY <1>2, SpotsIn, AtType, Zenon
    <2> QED
      BY <2>1, RecordType, NoDebtIs
  <1>5. d.spent \in Nat /\ d.until \in Nat
    BY DebtType, Zenon
  <1>6. c.spent >= a.spent /\ c.spent >= b.spent /\ c.until >= a.until /\ c.until >= b.until /\ c.spent \in Nat /\ c.until \in Nat
    BY <1>1, <1>3, <1>4 DEF Larger
  <1>7. CASE InTable(t, k, d)
    <2>1. PICK p \in Spots(k) : At(t, p).tag = Tag[k] /\ Covers(At(t, p), d)
      BY <1>7, Zenon DEF InTable
    <2>2. At(t, p).until \in Nat /\ At(t, p).spent \in Nat
      BY <2>1, SpotsIn, AtType, RecordType, Zenon
    <2>3. At(t, p).until > ms
      BY <1>5, <2>1, <2>2 DEF Covers
    <2>4. Holds(t, k, p, ms)
      BY <2>1, <2>3, KeyBuckets, Zenon DEF Holds, IsLive
    <2>5. own = p /\ own # Nowhere
      BY <1>2, <2>4, Zenon
    <2>6. Covers(a, d)
      BY <2>1, <2>5, Zenon
    <2> HIDE DEF a
    <2> QED
      BY <1>4, <1>5, <1>6, <2>6 DEF Covers, c
  <1>8. CASE InSketch(t, k, d)
    <2>1. ASSUME NEW e \in CellsAt(Tag[k], Home[k]) PROVE t.cells[e].until > ms
      <3>1. e \in Cells
        BY KeyCells, Zenon
      <3>2. t.cells[e] \in CellValues
        BY <3>1, Zenon DEF Tables, CellValues
      <3>3. Unpacked(t.cells[e]).until = t.cells[e].until /\ t.cells[e].until \in Nat
        BY <3>2, UnpackedIs, Zenon
      <3>4. Unpacked(t.cells[e]).until >= d.until
        BY <1>8, Zenon DEF InSketch, Covers
      <3> QED
        BY <1>5, <3>3, <3>4
    <2>2. Covers(b, d)
      BY <1>3, <1>8, <2>1, Zenon
    <2> HIDE DEF a
    <2> QED
      BY <1>3, <1>5, <1>6, <2>2 DEF Covers, c
  <1> QED
    BY <1>7, <1>8, Zenon

-----------------------------------------------------------------------------
\* The theorems.

\* The invariant holds throughout, whatever is evicted, and however old the
\* readings it is evicted by.
THEOREM Invariance == Spec => []IInv
  <1> QED
    BY InitInv, NextInv, PTL DEF Spec

\* Recovery::record, with its walks and spills, and Recovery::release lose no
\* debt under FailClosed: while it is live, its key is charged for it.
THEOREM DebtsAreKept == Spec => []NoDebtLost
  <1>1. ASSUME IInv PROVE NoDebtLost
    <2>1. /\ TypeOK /\ BackedIn(table, owed, clock)
          /\ ~misled => AccurateIn(table, held, owed, share, clock)
      BY <1>1, InvIs, Zenon
    <2>2. table \in Tables /\ owed \in [Key -> Debts] /\ clock \in Nat
      BY <2>1, TypeIs, Zenon
    <2>3. SUFFICES ASSUME ~table.forget, NEW k \in Key, Live(k), NEW ms \in Readings, Alone(k, ms) \/ (ms = clock /\ ~misled)
                   PROVE  Covers(Charge(table, k, ms).debt, owed[k])
      BY Zenon DEF NoDebtLost, Covers
    <2>4. ms \in Nat /\ ms =< clock
      BY <2>1, ReadingIs, Zenon
    <2>5. owed[k] \in Debts /\ owed[k].until > clock /\ (InTable(table, k, owed[k]) \/ InSketch(table, k, owed[k]))
      BY <2>1, <2>2, <2>3, Zenon DEF BackedIn, Live
    <2>6. owed[k].until > ms
      BY <2>2, <2>4, <2>5, DebtType
    <2>7. \A p, q \in Spots(k) : Holds(table, k, p, ms) /\ Holds(table, k, q, ms) => p = q
      BY <2>1, <2>3, Zenon DEF Alone, AccurateIn, AccurateFor
    <2> QED
      BY <2>2, <2>4, <2>5, <2>6, <2>7, CoveredIsCharged, Zenon
  <1>2. IInv => NoDebtLost
    BY <1>1, Zenon
  <1> QED
    BY Invariance, <1>2, PTL

\* evict_at may ignore the None of Recovery::record for a seeded key that
\* has_exact_room let through: there is none.
THEOREM RoomIsAlwaysEnough == Spec => []RoomIsEnough
  <1>1. ASSUME IInv PROVE RoomIsEnough
    <2>1. TypeOK /\ Homed(table)
      BY <1>1, InvIs, Zenon
    <2>2. table \in Tables
      BY <2>1, TypeIs, Zenon
    <2>3. SUFFICES ASSUME NEW k \in Key, NEW ms \in Readings, HasExactRoom(table, k, ms)
                   PROVE  Recorded(table, k, NoDebt, ms, TRUE).how # "none"
      BY Zenon DEF RoomIsEnough
    <2>4. ms \in Nat /\ ms =< clock
      BY <2>1, ReadingIs, Zenon
    <2>5. CASE Own(table, k, ms) # Nowhere
      <3> DEFINE R == Recorded(table, k, NoDebt, ms, TRUE)
      <3>1. \E u : R = [table |-> u, how |-> "exact", spilled |-> {}]
        BY <2>5, RecordedIs, Zenon
      <3> HIDE DEF R
      <3>2. R.how # "none"
        BY <3>1
      <3> QED
        BY <3>2, Zenon DEF R
    <2>6. CASE Own(table, k, ms) = Nowhere
      <3> DEFINE o == [j \in Key |-> NoDebt]
                 r == NewRecord(k, NoDebt, TRUE)
                 g == Evicting(k, NoDebt, r, ms, ms, table, held, o, share, FALSE)
      <3>1. o \in [Key -> Debts] /\ NoDebt \in Debts /\ \A j \in Key : o[j] = NoDebt
        BY NoDebtIs, Zenon
      <3> HIDE DEF o
      <3>2. BackedIn(table, o, ms)
        BY <3>1, Zenon DEF BackedIn
      <3>3. ms =< ms
        BY <2>4
      <3>4. Setting(g) /\ \A p \in Spots(k) : Sound(table, r, p, g)
        BY <2>1, <2>2, <2>4, <2>6, <3>1, <3>2, <3>3, EvictStart, ZenonT(30)
      <3>5. g.ms = ms
        BY Zenon DEF Evicting
      <3> HIDE DEF g
      <3>6. Recorded(table, k, NoDebt, g.ms, TRUE).how # "none"
        <4>1. Own(table, k, g.ms) = Nowhere /\ HasExactRoom(table, k, g.ms)
          BY <2>3, <2>6, <3>5, Zenon
        <4> QED
          BY <3>4, <4>1, RecordedStored, Zenon
      <3> QED
        BY <3>5, <3>6, Zenon
    <2> QED
      BY <2>5, <2>6, Zenon
  <1>2. IInv => RoomIsEnough
    BY <1>1, Zenon
  <1> QED
    BY Invariance, <1>2, PTL

\* While the sketch charges a key nothing, Recovery::peek charges it what
\* Recovery::record was given for it, neither more nor less.
THEOREM ChargesAreExact == Spec => []ExactWhileItFits
  <1>1. ASSUME IInv PROVE ExactWhileItFits
    <2>1. /\ TypeOK /\ BackedIn(table, owed, clock)
          /\ ~misled => AccurateIn(table, held, owed, share, clock)
      BY <1>1, InvIs, Zenon
    <2>2. table \in Tables /\ owed \in [Key -> Debts] /\ clock \in Nat
      BY <2>1, TypeIs, Zenon
    <2>3. SUFFICES ASSUME ~misled, NEW k \in Key, held[k] = "out", ~Charge(table, k, clock).shared
                   PROVE  Charge(table, k, clock).debt = owed[k] \/ (table.forget /\ Charge(table, k, clock).debt = NoDebt)
      BY Zenon DEF ExactWhileItFits
    <2> DEFINE own == Own(table, k, clock)
               a == IF own = Nowhere THEN NoDebt ELSE At(table, own)
               c == Charge(table, k, clock).debt
    <2>4. Shared(table, k, clock) = NoDebt
      BY <2>3, Zenon DEF Charge
    <2>5. c = [spent |-> Larger(a.spent, Shared(table, k, clock).spent), until |-> Larger(a.until, Shared(table, k, clock).until)]
      BY Zenon DEF Charge
    <2>6. /\ own = Nowhere => \A p \in Spots(k) : ~Holds(table, k, p, clock)
          /\ own # Nowhere => own \in Spots(k) /\ Holds(table, k, own, clock)
      BY <2>2, OwnIs, Zenon
    <2>7. AccurateFor(k, table, held, owed, share, clock)
      BY <2>1, <2>3, Zenon DEF AccurateIn
    <2> HIDE DEF own, c
    <2>8. a.spent \in Nat /\ a.until \in Nat
      <3>1. own # Nowhere => At(table, own) \in Records
        BY <2>2, <2>6, SpotsIn, AtType, Zenon
      <3> QED
        BY <3>1, RecordType, NoDebtIs
    <2>9. c = [spent |-> a.spent, until |-> a.until]
      <3> HIDE DEF a
      <3>1. Larger(a.spent, 0) = a.spent /\ Larger(a.until, 0) = a.until
        BY <2>8 DEF Larger
      <3> QED
        BY <2>4, <2>5, <3>1, NoDebtIs, Zenon
    <2>10. CASE own # Nowhere
      <3>1. owed[k] = [spent |-> At(table, own).spent, until |-> At(table, own).until]
        BY <2>6, <2>7, <2>10, Zenon DEF AccurateFor
      <3> QED
        BY <2>9, <2>10, <3>1, Zenon DEF c
    <2>11. CASE own = Nowhere
      <3>1. c = NoDebt
        BY <2>9, <2>11, Zenon DEF NoDebt
      <3>2. CASE owed[k] # NoDebt /\ ~table.forget
        <4>1. owed[k] \in Debts /\ owed[k].until > clock /\ (InTable(table, k, owed[k]) \/ InSketch(table, k, owed[k]))
          BY <2>1, <2>2, <3>2, Zenon DEF BackedIn
        <4>2. \A p, q \in Spots(k) : Holds(table, k, p, clock) /\ Holds(table, k, q, clock) => p = q
          BY <2>7, Zenon DEF AccurateFor
        <4>3. Covers(c, owed[k])
          BY <2>2, <4>1, <4>2, CoveredIsCharged, Zenon DEF c
        <4>4. owed[k].until \in Nat
          BY <4>1, DebtType, Zenon
        <4> QED
          BY <2>2, <3>1, <4>1, <4>3, <4>4, NoDebtIs DEF Covers
      <3> QED
        BY <3>1, <3>2, Zenon DEF c
    <2> QED
      BY <2>10, <2>11, Zenon
  <1>2. IInv => ExactWhileItFits
    BY <1>1, Zenon
  <1> QED
    BY Invariance, <1>2, PTL

\* No walk of Recovery::record and no eviction writes what a key was charged
\* from the sketch back to it, while the charge lasts.
THEOREM NothingSpreads == Spec => []NoSpreading
  <1>1. IInv => NoSpreading
    BY Zenon DEF IInv
  <1> QED
    BY Invariance, <1>1, PTL
=============================================================================
