----------------------------- MODULE LogProofs ------------------------------
(***************************************************************************)
(* The sliding log of DirectLimiter for every set of threads, every quota  *)
(* and every bound on time: what each of its steps preserves.              *)
(*                                                                         *)
(* Induction is by the least counterexample: the natural numbers are well  *)
(* founded.                                                                *)
(***************************************************************************)
EXTENDS DirectLimiter, Lemmas, WellFoundedInduction

\* The time the provers have for a leaf, in seconds.
USE SMTT(30), ZenonT(30)

\* Every nonempty set of natural numbers has a least element.
LEMMA LeastNat ==
    ASSUME NEW T, T \subseteq Nat, T # {}
    PROVE  \E m \in T : \A k \in T : m =< k
  <1>1. PICK m \in T : \A k \in T : ~(<<k, m>> \in OpToRel(<, Nat))
    BY WFMin, NatLessThanWellFounded
  <1>2. \A k \in T : ~(k < m)
    BY <1>1, Zenon DEF OpToRel
  <1> QED
    BY <1>2

\* A span is two instants, in order.
LEMMA LogSpans ==
    /\ \A w \in Counter!Spans : /\ w[1] \in Nat /\ w[2] \in Nat /\ w[1] =< w[2] /\ w[2] =< MaxTime
    /\ <<0, MaxTime>> \in Counter!Spans /\ MaxTime \in Nat
    /\ Log!Spans = Counter!Spans /\ Log!Times = Counter!Times
  <1>1. MaxTime \in Nat
    BY BoundsAssumption
  <1> QED
    BY <1>1 DEF Counter!Spans, Counter!Times, Log!Spans, Log!Times

-----------------------------------------------------------------------------
\* The log's records.

Logs == [runs : Seq(Log!Runs), expired : Nat]

\* The time of the i-th record.
At(l, i) == l.runs[i].at

\* A log without its first k records.
Dropped(l, k, kept) ==
    /\ kept \in Logs
    /\ Len(kept.runs) = Len(l.runs) - k
    /\ \A i \in 0..Len(kept.runs) : Log!TotalAt(kept, i) = Log!TotalAt(l, k + i)
    /\ \A i \in 1..Len(kept.runs) : At(kept, i) = At(l, k + i)

\* Exactly the first k records have aged out by `ns`.
AgedBy(l, period, ns, k) ==
    /\ \A i \in 1..k : At(l, i) + period =< ns
    /\ \A i \in k + 1..Len(l.runs) : At(l, i) + period > ns

\* The types of a log.
LEMMA LogShape ==
    ASSUME NEW l \in Logs
    PROVE  /\ Len(l.runs) \in Nat /\ l.expired \in Nat /\ l.runs \in Seq(Log!Runs)
           /\ \A i \in 1..Len(l.runs) : /\ l.runs[i] \in Log!Runs /\ At(l, i) \in Log!Times
                                        /\ At(l, i) \in Nat /\ l.runs[i].total \in Nat
           /\ \A i \in 0..Len(l.runs) : Log!TotalAt(l, i) \in Nat
           /\ Log!TotalAt(l, 0) = l.expired
           /\ Log!Total(l) = Log!TotalAt(l, Len(l.runs))
           /\ l.runs = <<>> <=> Len(l.runs) = 0
  <1>1. l.runs \in Seq(Log!Runs) /\ l.expired \in Nat
    BY DEF Logs
  <1>2. Len(l.runs) \in Nat /\ (l.runs = <<>> <=> Len(l.runs) = 0) /\ \A i \in 1..Len(l.runs) : l.runs[i] \in Log!Runs
    BY <1>1
  <1>3. Log!Times \subseteq Nat
    BY BoundsAssumption DEF Log!Times
  <1>4. \A r \in Log!Runs : r.at \in Log!Times /\ r.at \in Nat /\ r.total \in Nat
    BY <1>3, Zenon DEF Log!Runs
  <1>5. \A i \in 0..Len(l.runs) : Log!TotalAt(l, i) \in Nat
    BY <1>1, <1>2, <1>4 DEF Log!TotalAt
  <1>6. Log!TotalAt(l, 0) = l.expired /\ Log!Total(l) = Log!TotalAt(l, Len(l.runs))
    BY <1>2 DEF Log!TotalAt, Log!Total
  <1> QED
    BY <1>1, <1>2, <1>4, <1>5, <1>6, Zenon DEF At

\* The records that have aged out are at the front of the log, and Expire drops them.
LEMMA Expires ==
    ASSUME NEW l \in Logs, Log!InOrder(l), NEW period \in Nat, NEW ns \in Nat,
           NEW kept, kept = Log!Expire(l, period, ns)
    PROVE  \E k \in 0..Len(l.runs) : Dropped(l, k, kept) /\ AgedBy(l, period, ns, k)
  <1> DEFINE Front(k) == /\ \A i \in 1..k : Log!AgedOut(l.runs[i], period, ns)
                         /\ k < Len(l.runs) => ~Log!AgedOut(l.runs[k + 1], period, ns)
             g == CHOOSE k \in 0..Len(l.runs) : Front(k)
             len == Len(l.runs)
  <1>1. /\ len \in Nat /\ l.expired \in Nat /\ l.runs \in Seq(Log!Runs)
        /\ \A i \in 1..len : At(l, i) \in Nat /\ l.runs[i].total \in Nat
    BY LogShape, Zenon
  <1>2. \E k \in 0..len : Front(k)
    <2> DEFINE T == {k \in 0..len : k < len => ~Log!AgedOut(l.runs[k + 1], period, ns)}
    <2>1. T \subseteq Nat /\ len \in T
      BY <1>1
    <2>2. PICK k \in T : \A m \in T : k =< m
      BY <2>1, LeastNat, Zenon
    <2>3. k \in 0..len /\ (k < len => ~Log!AgedOut(l.runs[k + 1], period, ns))
      BY Zenon
    <2>4. ASSUME NEW i \in 1..k PROVE Log!AgedOut(l.runs[i], period, ns)
      <3>1. i - 1 \in 0..len /\ i - 1 < len /\ (i - 1) + 1 = i /\ ~(k =< i - 1)
        BY <1>1, <2>3
      <3>2. ~(i - 1 \in T)
        BY <2>2, <3>1, Zenon
      <3> QED
        BY <3>1, <3>2, Zenon
    <2> QED
      BY <2>3, <2>4, Zenon
  <1>3. g \in 0..len /\ Front(g)
    BY <1>2, Zenon
  <1>4. kept = IF g = 0 THEN l ELSE [runs |-> SubSeq(l.runs, g + 1, len), expired |-> l.runs[g].total]
    BY Zenon DEF Log!Expire
  <1> HIDE DEF g
  <1>5. AgedBy(l, period, ns, g)
    <2>1. \A i \in 1..g : At(l, i) + period =< ns
      BY <1>3, Zenon DEF Log!AgedOut, At
    <2>2. ASSUME NEW i \in g + 1..len PROVE At(l, i) + period > ns
      <3>1. g + 1 \in 1..len /\ g < len /\ i \in 1..len
        BY <1>1, <1>3
      <3>2. At(l, g + 1) + period > ns
        BY <1>1, <1>3, <3>1 DEF Log!AgedOut, At
      <3>3. i = g + 1 \/ (g + 1 \in 0..i - 1 /\ g + 1 > 0)
        BY <1>1, <1>3
      <3>4. i = g + 1 \/ At(l, g + 1) < At(l, i)
        BY <3>1, <3>3, Zenon DEF Log!InOrder, At
      <3> QED
        BY <1>1, <3>1, <3>2, <3>4
    <2> QED
      BY <2>1, <2>2 DEF AgedBy
  <1>6. CASE g = 0
    <2>1. kept = l
      BY <1>4, <1>6
    <2>2. Dropped(l, 0, l)
      BY <1>1 DEF Dropped
    <2> QED
      BY <1>1, <1>3, <1>5, <1>6, <2>1, <2>2, Zenon
  <1>7. CASE g # 0
    <2> DEFINE rest == SubSeq(l.runs, g + 1, len)
               last == l.runs[g].total
    <2>1. kept = [runs |-> rest, expired |-> last]
      BY <1>4, <1>7, Zenon
    <2>2. g \in 1..len /\ last \in Nat
      BY <1>1, <1>3, <1>7
    <2>3. /\ rest \in Seq(Log!Runs) /\ Len(rest) = len - g
          /\ \A i \in 1..len - g : rest[i] = l.runs[g + i]
      BY <1>1, <2>2
    <2> HIDE DEF rest, last
    <2>4. kept.runs = rest /\ kept.expired = last
      BY <2>1
    <2>5. kept \in Logs
      BY <2>1, <2>2, <2>3 DEF Logs
    <2>6. Len(kept.runs) = len - g /\ \A i \in 1..len - g : kept.runs[i] = l.runs[g + i]
      BY <2>3, <2>4, Zenon
    <2>7. ASSUME NEW i \in 0..len - g PROVE Log!TotalAt(kept, i) = Log!TotalAt(l, g + i)
      <3>1. CASE i = 0
        <4>1. g + i = g /\ g # 0
          BY <1>1, <2>2, <3>1
        <4> QED
          BY <2>4, <3>1, <4>1, Zenon DEF Log!TotalAt, last
      <3>2. CASE i # 0
        <4>1. i \in 1..len - g /\ g + i # 0
          BY <1>1, <2>2, <3>2
        <4>2. kept.runs[i].total = l.runs[g + i].total
          BY <2>6, <4>1, Zenon
        <4> QED
          BY <3>2, <4>1, <4>2, Zenon DEF Log!TotalAt
      <3> QED
        BY <3>1, <3>2, Zenon
    <2>8. Dropped(l, g, kept)
      BY <2>5, <2>6, <2>7, Zenon DEF Dropped, At
    <2> QED
      BY <1>3, <1>5, <2>8, Zenon
  <1> QED
    BY <1>6, <1>7, Zenon

\* What is left of a log in order is in order, with the same total.
LEMMA DroppedOrder ==
    ASSUME NEW l \in Logs, Log!InOrder(l), NEW k \in 0..Len(l.runs), NEW kept, Dropped(l, k, kept)
    PROVE  /\ Log!InOrder(kept)
           /\ Log!Total(kept) = Log!Total(l)
           /\ kept.expired = Log!TotalAt(l, k)
           /\ Log!InWindow(kept) = Log!Total(l) - Log!TotalAt(l, k)
           /\ Log!InWindow(kept) \in Nat /\ Log!InWindow(kept) =< Log!InWindow(l)
  <1> DEFINE len == Len(l.runs)
             left == Len(kept.runs)
  <1>1. /\ len \in Nat /\ \A i \in 0..len : Log!TotalAt(l, i) \in Nat
        /\ Log!Total(l) = Log!TotalAt(l, len) /\ l.expired = Log!TotalAt(l, 0)
    BY LogShape, Zenon
  <1>2. kept \in Logs /\ left = len - k /\ k \in Nat /\ k =< len /\ left \in Nat /\ k + left = len
    BY <1>1 DEF Dropped
  <1>3. Log!Total(kept) = Log!TotalAt(kept, left) /\ kept.expired = Log!TotalAt(kept, 0)
    BY <1>2, LogShape, Zenon
  <1>4. /\ \A i \in 0..left : Log!TotalAt(kept, i) = Log!TotalAt(l, k + i)
        /\ \A i \in 1..left : At(kept, i) = At(l, k + i)
    BY Zenon DEF Dropped
  <1>5. \A j \in 1..len : \A i \in 0..j - 1 : /\ Log!TotalAt(l, j) >= Log!TotalAt(l, i) + (j - i)
                                              /\ i > 0 => At(l, i) < At(l, j)
    BY Zenon DEF Log!InOrder, At
  <1> HIDE DEF len, left
  <1>6. Log!Total(kept) = Log!Total(l) /\ kept.expired = Log!TotalAt(l, k)
    <2>1. left \in 0..left /\ 0 \in 0..left /\ k + 0 = k
      BY <1>2
    <2>2. Log!TotalAt(kept, left) = Log!TotalAt(l, len) /\ Log!TotalAt(kept, 0) = Log!TotalAt(l, k)
      BY <1>2, <1>4, <2>1, Zenon
    <2> QED
      BY <1>1, <1>3, <2>2, Zenon
  <1>7. ASSUME NEW j \in 1..left, NEW i \in 0..j - 1
        PROVE  /\ Log!TotalAt(kept, j) >= Log!TotalAt(kept, i) + (j - i)
               /\ i > 0 => At(kept, i) < At(kept, j)
    <2>1. k + j \in 1..len /\ k + i \in 0..(k + j) - 1 /\ (k + j) - (k + i) = j - i /\ i \in 0..left /\ j \in 0..left
      BY <1>2
    <2>2. Log!TotalAt(kept, j) = Log!TotalAt(l, k + j) /\ Log!TotalAt(kept, i) = Log!TotalAt(l, k + i)
      BY <1>4, <2>1, Zenon
    <2>3. Log!TotalAt(l, k + j) >= Log!TotalAt(l, k + i) + (j - i)
      BY <1>5, <2>1, Zenon
    <2>4. ASSUME i > 0 PROVE At(kept, i) < At(kept, j)
      <3>1. i \in 1..left /\ k + i > 0
        BY <1>2, <2>1, <2>4
      <3>2. At(l, k + i) < At(l, k + j)
        BY <1>5, <2>1, <3>1, Zenon
      <3> QED
        BY <1>4, <3>1, <3>2, Zenon
    <2> QED
      BY <2>2, <2>3, <2>4, Zenon
  <1>8. Log!InOrder(kept)
    BY <1>7, Zenon DEF Log!InOrder, left, At
  <1>9. Log!TotalAt(l, 0) =< Log!TotalAt(l, k) /\ Log!TotalAt(l, k) =< Log!TotalAt(l, len)
    <2>1. /\ k = 0 \/ (k \in 1..len /\ 0 \in 0..k - 1)
          /\ k = len \/ (len \in 1..len /\ k \in 0..len - 1)
          /\ Log!TotalAt(l, 0) \in Nat /\ Log!TotalAt(l, k) \in Nat /\ Log!TotalAt(l, len) \in Nat
      BY <1>1, <1>2
    <2>2. k = 0 \/ Log!TotalAt(l, k) >= Log!TotalAt(l, 0) + (k - 0)
      BY <1>5, <2>1, Zenon
    <2>3. k = len \/ Log!TotalAt(l, len) >= Log!TotalAt(l, k) + (len - k)
      BY <1>5, <2>1, Zenon
    <2> QED
      BY <1>1, <1>2, <2>1, <2>2, <2>3
  <1>10. 0 \in 0..len /\ k \in 0..len /\ len \in 0..len
    BY <1>1, <1>2
  <1> QED
    BY <1>1, <1>6, <1>8, <1>9, <1>10 DEF Log!InWindow

\* In a log in order totals and times grow from record to record.
LEMMA OrderGrows ==
    ASSUME NEW l \in Logs, Log!InOrder(l), NEW j \in 0..Len(l.runs), NEW i \in 0..j
    PROVE  /\ Log!TotalAt(l, i) =< Log!TotalAt(l, j)
           /\ i # j => Log!TotalAt(l, i) < Log!TotalAt(l, j)
           /\ i > 0 => At(l, i) =< At(l, j)
  <1>1. /\ Len(l.runs) \in Nat /\ \A m \in 0..Len(l.runs) : Log!TotalAt(l, m) \in Nat
        /\ \A m \in 1..Len(l.runs) : At(l, m) \in Nat
    BY LogShape, Zenon
  <1>2. CASE i = j
    BY <1>1, <1>2
  <1>3. CASE i # j
    <2>1. j \in 1..Len(l.runs) /\ i \in 0..j - 1 /\ j - i > 0 /\ i \in 0..Len(l.runs) /\ j - i \in Nat
      BY <1>1, <1>3
    <2>2. Log!TotalAt(l, j) >= Log!TotalAt(l, i) + (j - i) /\ (i > 0 => At(l, i) < At(l, j))
      BY <2>1, Zenon DEF Log!InOrder, At
    <2>3. i > 0 => At(l, i) \in Nat /\ At(l, j) \in Nat
      BY <1>1, <2>1
    <2> QED
      BY <1>1, <2>1, <2>2, <2>3
  <1> QED
    BY <1>2, <1>3, Zenon

\* A late thread is judged with the newest record.
LEMMA EffectiveIs ==
    ASSUME NEW l \in Logs, NEW ns \in Nat, NEW e, e = Log!Effective(l, ns)
    PROVE  /\ e \in Nat /\ e >= ns
           /\ Len(l.runs) = 0 => e = ns
           /\ Len(l.runs) # 0 => /\ e >= At(l, Len(l.runs)) /\ (e = ns \/ e = At(l, Len(l.runs)))
           /\ ns \in Log!Times => e \in Log!Times
  <1>1. /\ Len(l.runs) \in Nat /\ (l.runs = <<>> <=> Len(l.runs) = 0)
        /\ \A m \in 1..Len(l.runs) : At(l, m) \in Nat /\ At(l, m) \in Log!Times
    BY LogShape, Zenon
  <1>2. CASE Len(l.runs) = 0
    BY <1>1, <1>2 DEF Log!Effective
  <1>3. CASE Len(l.runs) # 0
    <2>1. Len(l.runs) \in 1..Len(l.runs)
      BY <1>1, <1>3
    <2> DEFINE a == At(l, Len(l.runs))
    <2>2. a \in Nat /\ a \in Log!Times
      BY <1>1, <2>1
    <2>3. e = IF a < ns THEN ns ELSE a
      BY <1>1, <1>3, Zenon DEF Log!Effective, Log!Later, At
    <2> HIDE DEF a
    <2>4. e \in Nat /\ e >= ns /\ e >= a /\ (e = ns \/ e = a) /\ (ns \in Log!Times => e \in Log!Times)
      BY <2>2, <2>3
    <2> QED
      BY <1>3, <2>4, Zenon DEF a
  <1> QED
    BY <1>2, <1>3, Zenon

-----------------------------------------------------------------------------
\* What the log answers.

\* What a check running alone decides on a log.
LogAdmits(q, l, n, ns) == Log!Fits(q, Log!Expire(l, q.period, Log!Effective(l, ns)), n)

\* Enough units have left by `e`: with some record, or before the first.
LeftBy(q, l, n, e) ==
    \E j \in 0..Len(l.runs) :
        /\ Log!Total(l) + n =< q.limit + Log!TotalAt(l, j)
        /\ j > 0 => At(l, j) + q.period =< e

\* A request fits exactly when enough units have left.
LEMMA AdmitsLeft ==
    ASSUME NEW q \in [limit : Nat, period : Nat], NEW l \in Logs, Log!InOrder(l), NEW n \in Nat, NEW ns \in Nat,
           NEW e, e = Log!Effective(l, ns)
    PROVE  LogAdmits(q, l, n, ns) <=> LeftBy(q, l, n, e)
  <1> DEFINE p == q.period
             len == Len(l.runs)
             kept == Log!Expire(l, p, e)
  <1>1. p \in Nat /\ q.limit \in Nat /\ e \in Nat
    BY EffectiveIs, Zenon
  <1>2. PICK k \in 0..len : Dropped(l, k, kept) /\ AgedBy(l, p, e, k)
    BY <1>1, Expires, Zenon
  <1>3. /\ len \in Nat /\ \A i \in 0..len : Log!TotalAt(l, i) \in Nat
        /\ Log!Total(l) = Log!TotalAt(l, len)
        /\ \A i \in 1..len : At(l, i) \in Nat
    BY LogShape, Zenon
  <1>4. Log!InWindow(kept) = Log!Total(l) - Log!TotalAt(l, k)
    BY <1>2, DroppedOrder, Zenon
  <1>5. LogAdmits(q, l, n, ns) <=> Log!InWindow(kept) + n =< q.limit
    BY DEF LogAdmits, Log!Fits
  <1> HIDE DEF kept
  <1>6. Log!TotalAt(l, k) \in Nat /\ Log!Total(l) \in Nat
    BY <1>3, len \in 0..len, Zenon
  <1>7. LogAdmits(q, l, n, ns) <=> Log!Total(l) + n =< q.limit + Log!TotalAt(l, k)
    BY <1>1, <1>4, <1>5, <1>6
  <1>8. k > 0 => At(l, k) + p =< e
    BY <1>2, <1>3 DEF AgedBy
  <1>9. ASSUME LeftBy(q, l, n, e) PROVE Log!Total(l) + n =< q.limit + Log!TotalAt(l, k)
    <2>1. PICK j \in 0..len : Log!Total(l) + n =< q.limit + Log!TotalAt(l, j) /\ (j > 0 => At(l, j) + p =< e)
      BY <1>9, Zenon DEF LeftBy
    <2>2. j =< k
      <3>1. SUFFICES ASSUME j > k PROVE FALSE
        BY <1>2, <1>3, <2>1
      <3>2. j \in k + 1..len /\ j > 0 /\ j \in 1..len
        BY <1>2, <1>3, <2>1, <3>1
      <3>3. At(l, j) + p > e
        BY <1>2, <3>2, Zenon DEF AgedBy
      <3> QED
        BY <1>1, <1>3, <2>1, <3>2, <3>3
    <2>3. j \in 0..k
      BY <1>2, <1>3, <2>1, <2>2
    <2>4. Log!TotalAt(l, j) =< Log!TotalAt(l, k) /\ Log!TotalAt(l, j) \in Nat
      BY <1>2, <1>3, <2>1, <2>3, OrderGrows, Zenon
    <2> QED
      BY <1>1, <1>6, <2>1, <2>4
  <1> QED
    BY <1>2, <1>7, <1>8, <1>9, Zenon DEF LeftBy

\* The wait of a denial ends exactly when the request fits.
LEMMA LogRetry ==
    ASSUME NEW q \in Open, NEW l \in Logs, Log!InOrder(l), NEW n \in Nat, n =< q.limit, NEW ns \in Nat,
           ~LogAdmits(q, l, n, ns), NEW kept, kept = Log!Expire(l, q.period, Log!Effective(l, ns)),
           NEW wait, wait = Log!RetryAfter(q, kept, n, ns)
    PROVE  /\ LogAdmits(q, l, n, ns + wait)
           /\ \A early \in 0..wait - 1 : ~LogAdmits(q, l, n, ns + early)
  <1> DEFINE p == q.period
             len == Len(l.runs)
             left == Len(kept.runs)
             tot == Log!Total(l)
             target == tot + n - q.limit
  <1>1. q \in [limit : Nat, period : Nat] /\ p \in Nat /\ p > 0 /\ q.limit \in Nat
    BY DEF Open
  <1>2. PICK e : e = Log!Effective(l, ns)
    BY Zenon
  <1>3. e \in Nat /\ e >= ns /\ (len # 0 => e >= At(l, len))
    BY <1>2, EffectiveIs, Zenon
  <1>4. PICK k \in 0..len : Dropped(l, k, kept) /\ AgedBy(l, p, e, k)
    BY <1>1, <1>2, <1>3, Expires, Zenon
  <1>5. /\ len \in Nat /\ \A i \in 0..len : Log!TotalAt(l, i) \in Nat
        /\ tot = Log!TotalAt(l, len) /\ tot \in Nat
        /\ \A i \in 1..len : At(l, i) \in Nat
    BY LogShape, len \in 0..len, Zenon
  <1>6. /\ Log!InWindow(kept) = tot - Log!TotalAt(l, k) /\ kept.expired = Log!TotalAt(l, k)
        /\ left = len - k /\ left \in Nat /\ k \in Nat /\ Log!TotalAt(l, k) \in Nat
    <2>1. Log!InWindow(kept) = tot - Log!TotalAt(l, k) /\ kept.expired = Log!TotalAt(l, k)
      BY <1>4, DroppedOrder, Zenon
    <2>2. left = len - k
      BY <1>4, Zenon DEF Dropped
    <2> QED
      BY <1>4, <1>5, <2>1, <2>2
  <1>7. Log!TotalAt(l, k) < target /\ target \in Int /\ target =< tot
    <2>1. ~LeftBy(q, l, n, e)
      BY <1>1, <1>2, AdmitsLeft, Zenon
    <2>2. k > 0 => At(l, k) + p =< e
      BY <1>4, <1>5 DEF AgedBy
    <2>3. ~(tot + n =< q.limit + Log!TotalAt(l, k))
      BY <1>4, <2>1, <2>2, Zenon DEF LeftBy
    <2> QED
      BY <1>1, <1>5, <1>6, <2>3
  <1>8. \A i \in 1..left : /\ kept.runs[i].total = Log!TotalAt(l, k + i) /\ At(kept, i) = At(l, k + i)
                           /\ k + i \in 1..len
    <2>1. ASSUME NEW i \in 1..left PROVE kept.runs[i].total = Log!TotalAt(l, k + i)
      <3>1. i \in 0..left /\ i # 0
        BY <1>6
      <3>2. Log!TotalAt(kept, i) = Log!TotalAt(l, k + i)
        BY <1>4, <3>1, Zenon DEF Dropped
      <3> QED
        BY <3>1, <3>2, Zenon DEF Log!TotalAt
    <2>2. \A i \in 1..left : At(kept, i) = At(l, k + i)
      BY <1>4, Zenon DEF Dropped
    <2>3. \A i \in 1..left : k + i \in 1..len
      BY <1>5, <1>6
    <2> QED
      BY <2>1, <2>2, <2>3, Zenon
  <1> DEFINE Reached(i) == /\ \A j \in 1..i - 1 : kept.runs[j].total < target
                           /\ i =< left => kept.runs[i].total >= target
             i0 == CHOOSE i \in 1..left + 1 : Reached(i)
  <1>9. Log!AwaitedRun(q, kept, n) = i0
    <2>1. kept.expired + (Log!InWindow(kept) + n - q.limit) = target
      BY <1>1, <1>5, <1>6
    <2> HIDE DEF target
    <2> QED
      BY <2>1, Zenon DEF Log!AwaitedRun
  <1>10. \A i \in 1..left : kept.runs[i].total \in Nat
    BY <1>4, LogShape, Zenon DEF Dropped
  <1> HIDE DEF target, tot
  <1>11. \E i \in 1..left + 1 : Reached(i)
    <2> DEFINE T == {i \in 1..left + 1 : i =< left => kept.runs[i].total >= target}
    <2>1. T \subseteq Nat /\ left + 1 \in T
      BY <1>6
    <2>2. PICK i \in T : \A m \in T : i =< m
      BY <2>1, LeastNat, Zenon
    <2>3. i \in 1..left + 1 /\ (i =< left => kept.runs[i].total >= target)
      BY Zenon
    <2>4. ASSUME NEW j \in 1..i - 1 PROVE kept.runs[j].total < target
      <3>1. j \in 1..left + 1 /\ ~(i =< j) /\ j =< left /\ j \in 1..left
        BY <1>6, <2>3
      <3>2. ~(j \in T)
        BY <2>2, <3>1, Zenon
      <3> QED
        BY <1>7, <1>10, <3>1, <3>2
    <2> QED
      BY <2>3, <2>4, Zenon
  <1>12. i0 \in 1..left + 1 /\ Reached(i0)
    BY <1>11, Zenon
  <1> HIDE DEF i0
  <1>13. i0 =< left
    <2>1. SUFFICES ASSUME i0 = left + 1 PROVE FALSE
      BY <1>6, <1>12
    <2>2. CASE left = 0
      <3>1. k = len
        BY <1>5, <1>6, <2>2
      <3> QED
        BY <1>5, <1>6, <1>7, <3>1
    <2>3. CASE left # 0
      <3>1. left \in 1..i0 - 1 /\ left \in 1..left /\ k + left = len
        BY <1>5, <1>6, <2>1, <2>3
      <3>2. kept.runs[left].total < target /\ kept.runs[left].total = Log!TotalAt(l, len)
        BY <1>8, <1>12, <3>1, Zenon
      <3> QED
        BY <1>5, <1>7, <3>2
    <2> QED
      BY <2>2, <2>3, Zenon
  <1>14. PICK j0 : j0 = k + i0
    OBVIOUS
  <1>15. /\ j0 \in 1..len /\ j0 > k /\ Log!TotalAt(l, j0) >= target /\ At(kept, i0) = At(l, j0)
         /\ Log!TotalAt(l, j0) \in Nat /\ At(l, j0) \in Nat
    <2>1. i0 \in 1..left
      BY <1>6, <1>12, <1>13
    <2>2. j0 \in 1..len /\ At(kept, i0) = At(l, j0) /\ kept.runs[i0].total = Log!TotalAt(l, j0)
      BY <1>8, <1>14, <2>1, Zenon
    <2>3. kept.runs[i0].total >= target
      BY <1>12, <1>13, Zenon
    <2>4. j0 > k /\ j0 \in 0..len
      BY <1>5, <1>6, <1>14, <2>1, <2>2
    <2> QED
      BY <1>5, <2>2, <2>3, <2>4, Zenon
  <1>16. ASSUME NEW j \in 0..len, Log!TotalAt(l, j) >= target PROVE j >= j0 /\ j > 0
    <2>1. SUFFICES ASSUME j < j0 PROVE FALSE
      BY <1>5, <1>15
    <2>2. CASE j =< k
      <3>1. j \in 0..k
        BY <1>6, <2>2
      <3>2. Log!TotalAt(l, j) =< Log!TotalAt(l, k)
        BY <1>4, <3>1, OrderGrows, Zenon
      <3> QED
        BY <1>5, <1>6, <1>7, <1>16, <3>2
    <2>3. CASE j > k
      <3>1. j \in Nat /\ k \in Nat /\ left \in Nat /\ i0 \in Nat
        BY <1>5, <1>6, <1>12
      <3>2. PICK m : m = j - k
        BY Zenon
      <3>3. m \in 1..i0 - 1 /\ m \in 1..left /\ k + m = j
        BY <1>13, <1>14, <2>1, <2>3, <3>1, <3>2
      <3>4. kept.runs[m].total < target /\ kept.runs[m].total = Log!TotalAt(l, j)
        BY <1>8, <1>12, <3>3, Zenon
      <3> QED
        BY <1>5, <1>7, <1>16, <3>4
    <2> QED
      BY <1>5, <1>6, <2>2, <2>3
  <1>17. PICK due : due = At(l, j0) + p
    BY Zenon
  <1>18. due \in Nat /\ due > e /\ due > ns
    <2>1. j0 \in k + 1..len
      BY <1>5, <1>6, <1>15
    <2>2. due > e
      BY <1>4, <1>17, <2>1, Zenon DEF AgedBy
    <2>3. due \in Nat
      BY <1>1, <1>15, <1>17
    <2> QED
      BY <1>3, <2>2, <2>3
  <1>19. wait = due - ns
    <2>1. Log!RetryAfter(q, kept, n, ns) = Log!SatSub(due, ns)
      BY <1>6, <1>9, <1>12, <1>13, <1>15, <1>17 DEF Log!RetryAfter, At
    <2> QED
      BY <1>18, <2>1 DEF Log!SatSub
  <1>20. LogAdmits(q, l, n, ns + wait)
    <2>1. ns + wait = due
      BY <1>18, <1>19
    <2>2. PICK f : f = Log!Effective(l, due)
      BY Zenon
    <2>3. f \in Nat /\ f >= due
      BY <1>18, <2>2, EffectiveIs, Zenon
    <2>4. At(l, j0) + p =< f /\ tot + n =< q.limit + Log!TotalAt(l, j0) /\ j0 \in 0..len
      BY <1>1, <1>5, <1>15, <1>17, <2>3 DEF target
    <2>5. LeftBy(q, l, n, f)
      BY <2>4, Zenon DEF LeftBy, tot
    <2> QED
      BY <1>1, <1>18, <2>1, <2>2, <2>5, AdmitsLeft, Zenon
  <1>21. ASSUME NEW early \in 0..wait - 1, LogAdmits(q, l, n, ns + early) PROVE FALSE
    <2>1. ns + early \in Nat /\ ns + early < due
      BY <1>18, <1>19
    <2>2. PICK f : f = Log!Effective(l, ns + early)
      BY Zenon
    <2>3. LeftBy(q, l, n, f)
      BY <1>1, <1>21, <2>1, <2>2, AdmitsLeft, Zenon
    <2>4. PICK j \in 0..len : tot + n =< q.limit + Log!TotalAt(l, j) /\ (j > 0 => At(l, j) + p =< f)
      BY <2>3, Zenon DEF LeftBy, tot
    <2>5. Log!TotalAt(l, j) >= target
      <3>1. Log!TotalAt(l, j) \in Nat /\ tot \in Nat
        BY <1>5, <2>4, Zenon
      <3> HIDE DEF tot
      <3> QED
        BY <1>1, <2>4, <3>1 DEF target
    <2>6. j >= j0 /\ j > 0
      BY <1>16, <2>5, Zenon
    <2>7. j \in 1..len /\ j0 \in 0..j /\ j0 > 0
      BY <1>5, <1>15, <2>6
    <2>8. At(l, j0) =< At(l, j)
      BY <2>7, OrderGrows, Zenon
    <2>9. f = ns + early \/ (len # 0 /\ f = At(l, len))
      BY <2>1, <2>2, EffectiveIs, Zenon
    <2>10. f < due
      <3>1. CASE f = ns + early
        BY <2>1, <3>1, Zenon
      <3>2. CASE len # 0 /\ f = At(l, len)
        <4>1. f =< e /\ f \in Nat
          BY <1>3, <1>5, <3>2, len \in 1..len, Zenon
        <4> QED
          BY <1>3, <1>18, <4>1
      <3> QED
        BY <2>9, <3>1, <3>2, Zenon
    <2>11. At(l, j) + p >= due /\ At(l, j) \in Nat
      <3> DEFINE at0 == At(l, j0)
                 at1 == At(l, j)
      <3>1. at1 \in Nat /\ at0 \in Nat /\ at0 =< at1 /\ due = at0 + p
        BY <1>5, <1>15, <1>17, <2>7, <2>8, Zenon
      <3> HIDE DEF at0, at1, p
      <3>2. at1 + p >= due
        BY <1>1, <3>1
      <3> QED
        BY <3>1, <3>2, Zenon DEF at1, p
    <2>12. f \in Nat
      BY <2>1, <2>2, EffectiveIs, Zenon
    <2> QED
      BY <1>1, <1>18, <2>4, <2>6, <2>10, <2>11, <2>12
  <1> QED
    BY <1>20, <1>21, Zenon

\* peek agrees with the check, now and when the log is empty.
LEMMA LogSnapshot ==
    ASSUME NEW q \in Open, NEW l \in Logs, Log!InOrder(l), Log!InWindow(l) =< q.limit, NEW ns \in Nat,
           NEW kept, kept = Log!Expire(l, q.period, Log!Effective(l, ns)),
           NEW wait, wait = Log!ResetAfter(q, kept, ns)
    PROVE  /\ \A n \in 1..q.limit : LogAdmits(q, l, n, ns) <=> n =< Log!Remaining(q, kept)
           /\ \A early \in 0..wait - 1 : ~LogAdmits(q, l, q.limit, ns + early)
           /\ LogAdmits(q, l, q.limit, ns + wait)
  <1> DEFINE p == q.period
             lim == q.limit
             len == Len(l.runs)
             left == Len(kept.runs)
             tot == Log!Total(l)
             inside == Log!InWindow(kept)
  <1>1. q \in [limit : Nat, period : Nat] /\ p \in Nat /\ p > 0 /\ lim \in Nat
    BY DEF Open
  <1>2. PICK e : e = Log!Effective(l, ns)
    OBVIOUS
  <1>3. e \in Nat /\ e >= ns /\ (len # 0 => e >= At(l, len))
    BY <1>2, EffectiveIs, Zenon
  <1>4. PICK k \in 0..len : Dropped(l, k, kept) /\ AgedBy(l, p, e, k)
    BY <1>1, <1>2, <1>3, Expires, Zenon
  <1>5. /\ len \in Nat /\ \A i \in 0..len : Log!TotalAt(l, i) \in Nat
        /\ tot = Log!TotalAt(l, len) /\ tot \in Nat
        /\ \A i \in 1..len : At(l, i) \in Nat
    BY LogShape, len \in 0..len, Zenon
  <1>6. inside \in Nat /\ inside =< lim
    <2>1. inside \in Nat /\ inside =< Log!InWindow(l)
      BY <1>4, DroppedOrder, Zenon
    <2>2. Log!InWindow(l) \in Int
      BY <1>5, LogShape DEF Log!InWindow
    <2> QED
      BY <1>1, <2>1, <2>2
  <1>7. left = len - k /\ left \in Nat /\ (kept.runs = <<>> <=> left = 0) /\ k \in Nat
    <2>1. kept \in Logs /\ left = len - k /\ k \in Nat
      BY <1>4, <1>5 DEF Dropped
    <2> QED
      BY <2>1, LogShape, Zenon
  <1>8. ASSUME NEW n \in 1..lim PROVE LogAdmits(q, l, n, ns) <=> n =< Log!Remaining(q, kept)
    <2>1. LogAdmits(q, l, n, ns) <=> inside + n =< lim
      BY Zenon DEF LogAdmits, Log!Fits
    <2>2. Log!Remaining(q, kept) = IF lim < inside THEN 0 ELSE lim - inside
      BY Zenon DEF Log!Remaining, Log!SatSub
    <2> HIDE DEF inside, lim
    <2> QED
      BY <1>1, <1>6, <2>1, <2>2
  <1>9. CASE left = 0
    <2>1. wait = 0
      BY <1>7, <1>9, Zenon DEF Log!ResetAfter
    <2>2. inside = 0
      <3>1. kept.runs = <<>> /\ kept \in Logs
        BY <1>4, <1>7, <1>9, Zenon DEF Dropped
      <3>2. kept.expired \in Nat
        BY <3>1, LogShape, Zenon
      <3> QED
        BY <3>1, <3>2 DEF Log!InWindow, Log!Total
    <2>3. LogAdmits(q, l, lim, ns)
      BY <1>1, <2>2 DEF LogAdmits, Log!Fits
    <2>4. ns + wait = ns /\ 0..wait - 1 = {}
      BY <2>1
    <2> QED
      BY <1>8, <2>3, <2>4, Zenon
  <1>10. CASE left # 0
    <2> DEFINE newest == At(l, len)
               due == newest + p
    <2>1. left \in 1..left /\ k + left = len /\ len \in 1..len /\ len \in k + 1..len
      <3> HIDE DEF len, left, newest
      <3>1. len \in Nat
        BY <1>5, Zenon
      <3>2. left = len - k /\ left \in Nat /\ k \in Nat
        BY <1>7, Zenon
      <3> QED
        BY <1>10, <3>1, <3>2
    <2>2. At(kept, left) = newest
      BY <1>4, <2>1, Zenon DEF Dropped
    <2>3. newest \in Nat /\ newest =< e
      <3>1. newest \in Nat
        BY <1>5, <2>1, Zenon
      <3>2. len # 0
        BY <1>7, <1>10
      <3>3. e >= newest
        BY <1>3, <3>2
      <3> HIDE DEF newest
      <3> QED
        BY <1>3, <3>1, <3>3
    <2>4. due > e
      BY <1>4, <2>1, Zenon DEF AgedBy
    <2>5. wait = Log!SatSub(due, ns)
      BY <1>7, <1>10, <2>2, Zenon DEF Log!ResetAfter, At
    <2> HIDE DEF newest
    <2>6. due \in Nat /\ wait = due - ns /\ ns + wait = due /\ due > newest
      BY <1>1, <1>3, <2>3, <2>4, <2>5 DEF Log!SatSub
    <2>7. LogAdmits(q, l, lim, due)
      <3>1. PICK f : f = Log!Effective(l, due)
        OBVIOUS
      <3>2. f \in Nat /\ f >= due
        BY <2>6, <3>1, EffectiveIs
      <3>3. At(l, len) + p =< f /\ tot + lim =< lim + Log!TotalAt(l, len) /\ len \in 0..len
        BY <1>1, <1>5, <2>1, <2>6, <3>2 DEF newest
      <3>4. LeftBy(q, l, lim, f)
        BY <3>3, Zenon DEF LeftBy
      <3> QED
        BY <1>1, <2>6, <3>1, <3>4, AdmitsLeft, Zenon
    <2>8. ASSUME NEW early \in 0..wait - 1, LogAdmits(q, l, lim, ns + early) PROVE FALSE
      <3>1. ns + early \in Nat /\ ns + early < due
        BY <2>6
      <3>2. PICK f : f = Log!Effective(l, ns + early)
        OBVIOUS
      <3>3. LeftBy(q, l, lim, f)
        BY <1>1, <2>8, <3>1, <3>2, AdmitsLeft, Zenon
      <3>4. PICK j \in 0..len : tot + lim =< lim + Log!TotalAt(l, j) /\ (j > 0 => At(l, j) + p =< f)
        BY <3>3, Zenon DEF LeftBy
      <3>5. j = len
        <4>1. SUFFICES ASSUME j # len PROVE FALSE
          BY Zenon
        <4>2. len \in 0..len /\ j \in 0..len /\ Log!TotalAt(l, j) \in Nat
          BY <1>5, <3>4
        <4>3. Log!TotalAt(l, j) < Log!TotalAt(l, len)
          BY <4>1, <4>2, OrderGrows, Zenon
        <4> HIDE DEF tot, lim
        <4> QED
          BY <1>1, <1>5, <3>4, <4>2, <4>3
      <3>6. due =< f
        BY <1>5, <2>1, <3>4, <3>5 DEF newest
      <3>7. f = ns + early \/ f = newest
        BY <2>1, <3>1, <3>2, EffectiveIs, Zenon DEF newest
      <3> QED
        BY <2>3, <2>6, <3>1, <3>6, <3>7
    <2> QED
      BY <1>8, <2>6, <2>7, <2>8, Zenon
  <1> QED
    BY <1>9, <1>10, Zenon

\* Expiring the log changes no decision at or after the instant of the expiry.
LEMMA ExpirySame ==
    ASSUME NEW q \in [limit : Nat, period : Nat], NEW l \in Logs, Log!InOrder(l), NEW at \in Nat,
           NEW kept, kept = Log!Expire(l, q.period, at), NEW n \in Nat, NEW ns \in Nat, ns >= at
    PROVE  LogAdmits(q, kept, n, ns) <=> LogAdmits(q, l, n, ns)
  <1> DEFINE p == q.period
             len == Len(l.runs)
             left == Len(kept.runs)
  <1>1. p \in Nat /\ q.limit \in Nat
    OBVIOUS
  <1>2. PICK k \in 0..len : Dropped(l, k, kept) /\ AgedBy(l, p, at, k)
    BY <1>1, Expires, Zenon
  <1>3. /\ len \in Nat /\ \A i \in 0..len : Log!TotalAt(l, i) \in Nat
        /\ \A i \in 1..len : At(l, i) \in Nat
    BY LogShape, Zenon
  <1>4. /\ kept \in Logs /\ left = len - k /\ left \in Nat /\ k \in Nat /\ k + left = len
        /\ \A i \in 0..left : Log!TotalAt(kept, i) = Log!TotalAt(l, k + i)
        /\ \A i \in 1..left : At(kept, i) = At(l, k + i)
    BY <1>2, <1>3 DEF Dropped
  <1>5. Log!InOrder(kept) /\ Log!Total(kept) = Log!Total(l)
    BY <1>2, DroppedOrder, Zenon
  <1>6. PICK e : e = Log!Effective(l, ns)
    OBVIOUS
  <1>7. e \in Nat /\ e >= ns
    BY <1>6, EffectiveIs, Zenon
  <1>8. Log!Effective(kept, ns) = e
    <2>1. CASE left # 0
      <3>1. left \in 1..left /\ kept.runs # <<>> /\ l.runs # <<>>
        BY <1>3, <1>4, <2>1, LogShape
      <3>2. At(kept, left) = At(l, len)
        BY <1>4, <3>1, Zenon
      <3> QED
        BY <1>6, <3>1, <3>2, Zenon DEF Log!Effective, At
    <2>2. CASE left = 0 /\ len # 0
      <3>1. kept.runs = <<>>
        BY <1>4, <2>2, LogShape, Zenon
      <3>2. len \in 1..k /\ len \in 1..len
        BY <1>3, <1>4, <2>2
      <3>3. At(l, len) + p =< at /\ At(l, len) \in Nat
        BY <1>2, <1>3, <3>2, Zenon DEF AgedBy
      <3>4. At(l, len) =< ns
        BY <1>1, <3>3
      <3>5. e = ns \/ e = At(l, len)
        BY <1>6, <2>2, EffectiveIs, Zenon
      <3>6. e = ns
        BY <1>7, <3>3, <3>4, <3>5
      <3> QED
        BY <3>1, <3>6 DEF Log!Effective
    <2>3. CASE len = 0
      <3>1. kept.runs = <<>> /\ l.runs = <<>>
        BY <1>3, <1>4, <2>3, LogShape
      <3> QED
        BY <1>6, <3>1 DEF Log!Effective
    <2> QED
      BY <2>1, <2>2, <2>3, Zenon
  <1>9. ASSUME LeftBy(q, kept, n, e) PROVE LeftBy(q, l, n, e)
    <2>1. PICK j \in 0..left : /\ Log!Total(kept) + n =< q.limit + Log!TotalAt(kept, j)
                               /\ j > 0 => At(kept, j) + p =< e
      BY <1>9, Zenon DEF LeftBy
    <2>2. k + j \in 0..len /\ j \in Nat
      BY <1>3, <1>4, <2>1
    <2>3. Log!Total(l) + n =< q.limit + Log!TotalAt(l, k + j)
      BY <1>4, <1>5, <2>1, Zenon
    <2>4. ASSUME k + j > 0 PROVE At(l, k + j) + p =< e
      <3>1. CASE j > 0
        <4>1. j \in 1..left
          BY <1>4, <2>1, <2>2, <3>1
        <4>2. At(kept, j) = At(l, k + j)
          BY <1>4, <4>1, Zenon
        <4> QED
          BY <2>1, <3>1, <4>2, Zenon
      <3>2. CASE j = 0
        <4>1. k + j = k /\ k \in 1..k /\ k \in 1..len
          BY <1>2, <1>4, <2>4, <3>2
        <4>2. At(l, k) + p =< at /\ At(l, k) \in Nat
          BY <1>2, <1>3, <4>1, Zenon DEF AgedBy
        <4> QED
          BY <1>1, <1>7, <4>1, <4>2
      <3> QED
        BY <2>2, <3>1, <3>2
    <2> QED
      BY <2>2, <2>3, <2>4, Zenon DEF LeftBy
  <1>10. ASSUME LeftBy(q, l, n, e) PROVE LeftBy(q, kept, n, e)
    <2>1. PICK j \in 0..len : /\ Log!Total(l) + n =< q.limit + Log!TotalAt(l, j)
                              /\ j > 0 => At(l, j) + p =< e
      BY <1>10, Zenon DEF LeftBy
    <2>2. CASE j > k
      <3> HIDE DEF len, left
      <3>1. j - k \in 1..left /\ j - k \in 0..left /\ k + (j - k) = j /\ j > 0
        <4>1. j \in Nat /\ j =< len /\ k \in Nat /\ left = len - k /\ len \in Nat
          BY <1>3, <1>4, <2>1
        <4> QED
          BY <2>2, <4>1
      <3> USE DEF len, left
      <3>2. Log!Total(kept) + n =< q.limit + Log!TotalAt(kept, j - k) /\ At(kept, j - k) + p =< e
        BY <1>4, <1>5, <2>1, <3>1, Zenon
      <3> QED
        BY <3>1, <3>2, Zenon DEF LeftBy
    <2>3. CASE j =< k
      <3>1. j \in 0..k /\ 0 \in 0..left /\ k + 0 = k
        BY <1>3, <1>4, <2>1, <2>3
      <3>2. Log!TotalAt(l, j) =< Log!TotalAt(l, k) /\ Log!TotalAt(l, j) \in Nat /\ Log!TotalAt(l, k) \in Nat
        BY <1>2, <1>3, <2>1, <3>1, OrderGrows, Zenon
      <3>3. Log!TotalAt(kept, 0) = Log!TotalAt(l, k)
        BY <1>4, <3>1, Zenon
      <3>4. Log!Total(l) \in Nat
        BY <1>3, LogShape, len \in 0..len, Zenon
      <3>5. Log!Total(kept) + n =< q.limit + Log!TotalAt(kept, 0)
        BY <1>1, <1>5, <2>1, <3>2, <3>3, <3>4
      <3> QED
        BY <3>1, <3>5 DEF LeftBy
    <2> QED
      BY <1>3, <1>4, <2>1, <2>2, <2>3
  <1>11. LogAdmits(q, l, n, ns) <=> LeftBy(q, l, n, e)
    BY <1>6, AdmitsLeft, Zenon
  <1>12. LogAdmits(q, kept, n, ns) <=> LeftBy(q, kept, n, e)
    BY <1>4, <1>5, <1>8, AdmitsLeft, Zenon
  <1> QED
    BY <1>9, <1>10, <1>11, <1>12, Zenon

-----------------------------------------------------------------------------
\* The log at work.

\* The rolling windows that begin late enough are covered by the records.
Backed(q, l, ledger, h) ==
    \A w \in Counter!Spans :
        w[2] - w[1] < q.period /\ w[1] + q.period > h =>
            \A k \in 0..Len(l.runs) :
                (k = 0 \/ At(l, k) < w[1]) => ledger[w] =< Log!Total(l) - Log!TotalAt(l, k)

\* No rolling window holds more than the limit.
LogBounded(q, ledger) == \A w \in Counter!Spans : w[2] - w[1] < q.period => ledger[w] =< q.limit

\* The invariant by these.
LEMMA LogInvIs ==
    Log!IInv <=> /\ Log!TypeOK /\ Log!InOrder(log) /\ Log!InWindow(log) =< quota.limit
                 /\ Log!InWindow(log) =< spent[<<0, MaxTime>>]
                 /\ ~lapsed => Backed(quota, log, spent, horizon)
                 /\ ~lapsed => LogBounded(quota, spent)
  <1>1. Log!RollingBound <=> (~lapsed => LogBounded(quota, spent))
    BY LogSpans DEF Log!RollingBound, Log!RollingExact, Log!Rolling, LogBounded
  <1>2. Log!RecordsBacked <=> (~lapsed => Backed(quota, log, spent, horizon))
    BY LogSpans, Zenon DEF Log!RecordsBacked, Log!Rolling, Backed, At
  <1> QED
    BY <1>1, <1>2, Zenon DEF Log!IInv

\* The log expired up to an instant covers the windows after it.
LEMMA ExpireBacked ==
    ASSUME NEW q \in [limit : Nat, period : Nat], NEW l \in Logs, Log!InOrder(l), NEW ledger \in Ledgers,
           NEW h \in Nat, Backed(q, l, ledger, h), NEW e \in Nat, NEW h2 \in Nat, h =< h2, e =< h2,
           NEW kept, kept = Log!Expire(l, q.period, e)
    PROVE  Backed(q, kept, ledger, h2)
  <1> DEFINE p == q.period
             len == Len(l.runs)
             left == Len(kept.runs)
  <1>1. p \in Nat
    OBVIOUS
  <1>2. PICK k \in 0..len : Dropped(l, k, kept) /\ AgedBy(l, p, e, k)
    BY <1>1, Expires, Zenon
  <1>3. len \in Nat /\ \A i \in 1..len : At(l, i) \in Nat
    BY LogShape, Zenon
  <1>4. /\ left = len - k /\ left \in Nat /\ k \in Nat
        /\ \A i \in 0..left : Log!TotalAt(kept, i) = Log!TotalAt(l, k + i)
        /\ \A i \in 1..left : At(kept, i) = At(l, k + i)
    BY <1>2, <1>3 DEF Dropped
  <1>5. Log!Total(kept) = Log!Total(l)
    BY <1>2, DroppedOrder, Zenon
  <1>6. SUFFICES ASSUME NEW w \in Counter!Spans, w[2] - w[1] < p, w[1] + p > h2,
                        NEW i \in 0..left, i = 0 \/ At(kept, i) < w[1]
                 PROVE  ledger[w] =< Log!Total(kept) - Log!TotalAt(kept, i)
    BY Zenon DEF Backed
  <1>7. w[1] \in Nat
    BY LogSpans, Zenon
  <1>8. w[1] + p > h /\ k + i \in 0..len /\ i \in Nat
    <2>1. w[1] + p > h
      BY <1>1, <1>6, <1>7
    <2>2. i \in Nat /\ i =< left
      BY <1>4, <1>6
    <2> QED
      BY <1>3, <1>4, <2>1, <2>2
  <1>9. k + i = 0 \/ At(l, k + i) < w[1]
    <2>1. CASE i # 0
      <3>1. i \in 1..left
        BY <1>4, <1>6, <2>1
      <3> QED
        BY <1>4, <1>6, <2>1, <3>1, Zenon
    <2>2. CASE i = 0 /\ k # 0
      <3>1. k \in 1..k /\ k \in 1..len /\ k + i = k
        BY <1>2, <1>3, <1>4, <2>2
      <3>2. At(l, k) + p =< e /\ At(l, k) \in Nat
        BY <1>2, <1>3, <3>1, Zenon DEF AgedBy
      <3>3. At(l, k) < w[1]
        <4>1. w[1] + p > h2
          BY <1>6, Zenon
        <4> HIDE <1>6
        <4> HIDE DEF p
        <4> QED
          BY <1>1, <1>7, <3>2, <4>1
      <3> QED
        BY <3>1, <3>3, Zenon
    <2> QED
      BY <2>1, <2>2
  <1>10. ledger[w] =< Log!Total(l) - Log!TotalAt(l, k + i)
    BY <1>6, <1>8, <1>9, Zenon DEF Backed
  <1> QED
    BY <1>4, <1>5, <1>6, <1>10, Zenon

\* A log with n units more, in its m-th and newest record.
Recorded(l, n, e, r, m) ==
    /\ r \in Logs /\ r.expired = l.expired
    /\ m \in Nat /\ m > 0 /\ m - 1 =< Len(l.runs) /\ (Len(l.runs) = m - 1 \/ Len(l.runs) = m)
    /\ At(r, m) = e /\ r.runs[m].total = Log!Total(l) + n
    /\ \A i \in 1..m - 1 : At(r, i) = At(l, i) /\ At(r, i) < e
    /\ \A i \in 0..m - 1 : Log!TotalAt(r, i) = Log!TotalAt(l, i)

\* What Record writes: the newest record, of the instant and the new total.
LEMMA RecordIs ==
    ASSUME NEW l \in Logs, Log!InOrder(l), NEW n \in Nat, n > 0, NEW e \in Log!Times,
           Len(l.runs) # 0 => At(l, Len(l.runs)) =< e, NEW r, r = Log!Record(l, n, e), NEW m, m = Len(r.runs)
    PROVE  Recorded(l, n, e, r, m)
  <1> DEFINE len == Len(l.runs)
             tot == Log!Total(l)
             run == [at |-> e, total |-> tot + n]
  <1>1. /\ len \in Nat /\ l.runs \in Seq(Log!Runs) /\ l.expired \in Nat /\ tot \in Nat
        /\ \A i \in 1..len : At(l, i) \in Nat
    BY LogShape, len \in 0..len, Zenon
  <1>2. run \in Log!Runs /\ run.at = e /\ run.total = tot + n /\ e \in Nat
    <2>1. e \in Nat
      BY BoundsAssumption DEF Log!Times
    <2>2. tot + n \in Nat
      BY <1>1
    <2>3. run.at = e /\ run.total = tot + n
      BY Zenon
    <2> HIDE DEF tot
    <2>4. run \in Log!Runs
      BY <2>2, Zenon DEF Log!Runs
    <2> QED
      BY <2>1, <2>3, <2>4, Zenon
  <1>3. ASSUME NEW j \in 1..len, NEW i \in 1..j - 1 PROVE At(l, i) < At(l, j)
    <2>1. i \in 0..j - 1 /\ i > 0
      BY <1>1, <1>3
    <2> QED
      BY <1>3, <2>1, Zenon DEF Log!InOrder, At
  <1> DEFINE same == len # 0 /\ At(l, len) = e
  <1>4. r = IF same THEN [runs |-> [l.runs EXCEPT ![len] = run], expired |-> l.expired]
                    ELSE [runs |-> Append(l.runs, run), expired |-> l.expired]
    BY Zenon DEF Log!Record, At
  <1> HIDE DEF run, tot
  <1>5. CASE same
    <2> DEFINE new == [l.runs EXCEPT ![len] = run]
    <2>1. r = [runs |-> new, expired |-> l.expired]
      BY <1>4, <1>5, Zenon
    <2>2. new \in Seq(Log!Runs) /\ Len(new) = len /\ new[len] = run /\ \A i \in 1..len - 1 : new[i] = l.runs[i]
      BY <1>1, <1>2, <1>5
    <2> HIDE DEF new
    <2>3. r.runs = new /\ r.expired = l.expired
      BY <2>1
    <2>4. r \in Logs
      BY <1>1, <2>1, <2>2 DEF Logs
    <2>5. m = len /\ m \in Nat /\ m > 0
      BY <1>1, <1>5, <2>2, <2>3
    <2>6. At(r, m) = e /\ r.runs[m].total = tot + n
      BY <1>2, <2>2, <2>3, <2>5, Zenon DEF At
    <2>7. \A i \in 1..m - 1 : r.runs[i] = l.runs[i] /\ At(l, i) < e
      <3>1. len \in 1..len
        BY <1>1, <1>5
      <3>2. \A i \in 1..len - 1 : At(l, i) < e
        BY <1>3, <1>5, <3>1, Zenon
      <3> QED
        BY <2>2, <2>3, <2>5, <3>2, Zenon
    <2>8. \A i \in 0..m - 1 : Log!TotalAt(r, i) = Log!TotalAt(l, i)
      BY <2>3, <2>5, <2>7 DEF Log!TotalAt
    <2> QED
      BY <1>1, <2>3, <2>4, <2>5, <2>6, <2>7, <2>8 DEF Recorded, tot, At
  <1>6. CASE ~same
    <2> DEFINE new == Append(l.runs, run)
    <2>1. r = [runs |-> new, expired |-> l.expired]
      BY <1>4, <1>6, Zenon
    <2>2. new \in Seq(Log!Runs) /\ Len(new) = len + 1 /\ new[len + 1] = run /\ \A i \in 1..len : new[i] = l.runs[i]
      BY <1>1, <1>2
    <2> HIDE DEF new
    <2>3. r.runs = new /\ r.expired = l.expired
      BY <2>1
    <2>4. r \in Logs
      BY <1>1, <2>1, <2>2 DEF Logs
    <2>5. m = len + 1 /\ m \in Nat /\ m > 0 /\ m - 1 = len
      BY <1>1, <2>2, <2>3
    <2>6. At(r, m) = e /\ r.runs[m].total = tot + n
      BY <1>2, <2>2, <2>3, <2>5, Zenon DEF At
    <2>7. \A i \in 1..m - 1 : r.runs[i] = l.runs[i] /\ At(l, i) < e
      <3>1. ASSUME NEW i \in 1..len PROVE At(l, i) < e
        <4>1. len # 0 /\ len \in 1..len
          BY <1>1
        <4>2. At(l, len) < e /\ At(l, len) \in Nat /\ At(l, i) \in Nat
          BY <1>1, <1>2, <1>6, <4>1
        <4>3. i = len \/ i \in 1..len - 1
          BY <1>1
        <4>4. i = len \/ At(l, i) < At(l, len)
          BY <1>3, <4>1, <4>3, Zenon
        <4> QED
          BY <1>2, <4>2, <4>4
      <3> QED
        BY <2>2, <2>3, <2>5, <3>1, Zenon
    <2>8. \A i \in 0..m - 1 : Log!TotalAt(r, i) = Log!TotalAt(l, i)
      BY <2>3, <2>5, <2>7 DEF Log!TotalAt
    <2> QED
      BY <1>1, <2>3, <2>4, <2>5, <2>6, <2>7, <2>8 DEF Recorded, tot, At
  <1> QED
    BY <1>5, <1>6, Zenon

\* A charge is seen by the span of all time.
LEMMA Charged ==
    ASSUME NEW ledger \in Ledgers, NEW n \in Nat, NEW e \in Log!Times, NEW new, new = Counter!Charge(ledger, e, n)
    PROVE  new \in Ledgers /\ new[<<0, MaxTime>>] = ledger[<<0, MaxTime>>] + n
  <1>1. e \in Nat /\ e =< MaxTime /\ MaxTime \in Nat
    BY BoundsAssumption DEF Log!Times
  <1>2. new \in Ledgers
    BY DEF Counter!Charge, Ledgers
  <1>3. <<0, MaxTime>> \in Counter!Spans /\ <<0, MaxTime>>[1] = 0 /\ <<0, MaxTime>>[2] = MaxTime /\ 0 =< e
    BY <1>1, LogSpans
  <1>4. \A w \in Counter!Spans : new[w] = IF w[1] =< e /\ e =< w[2] THEN ledger[w] + n ELSE ledger[w]
    BY DEF Counter!Charge
  <1> QED
    BY <1>1, <1>2, <1>3, <1>4, Zenon

\* Recording keeps the log in order and covers the units it admits.
LEMMA RecordBacked ==
    ASSUME NEW q \in [limit : Nat, period : Nat], NEW l \in Logs, Log!InOrder(l), NEW ledger \in Ledgers,
           NEW n \in Nat, n > 0, NEW e \in Log!Times, Len(l.runs) # 0 => At(l, Len(l.runs)) =< e,
           NEW r, r = Log!Record(l, n, e), NEW new, new = Counter!Charge(ledger, e, n)
    PROVE  /\ r \in Logs /\ Log!InOrder(r) /\ Log!InWindow(r) = Log!InWindow(l) + n
           /\ Backed(q, l, ledger, e) => Backed(q, r, new, e)
           /\ Backed(q, l, ledger, e) /\ Log!InWindow(l) + n =< q.limit /\ LogBounded(q, ledger) => LogBounded(q, new)
  <1> DEFINE len == Len(l.runs)
             tot == Log!Total(l)
  <1>1. /\ len \in Nat /\ l.expired \in Nat /\ tot \in Nat /\ tot = Log!TotalAt(l, len) /\ Log!TotalAt(l, 0) = l.expired
        /\ \A i \in 1..len : At(l, i) \in Nat
        /\ \A i \in 0..len : Log!TotalAt(l, i) \in Nat
    BY LogShape, len \in 0..len, Zenon
  <1>2. e \in Nat /\ e =< MaxTime /\ MaxTime \in Nat
    BY BoundsAssumption DEF Log!Times
  <1>3. PICK m : m = Len(r.runs)
    BY Zenon
  <1>4. /\ r \in Logs /\ r.expired = l.expired
        /\ m \in Nat /\ m > 0 /\ m - 1 =< len /\ (len = m - 1 \/ len = m)
        /\ At(r, m) = e /\ r.runs[m].total = tot + n
        /\ \A i \in 1..m - 1 : At(r, i) = At(l, i) /\ At(r, i) < e
        /\ \A i \in 0..m - 1 : Log!TotalAt(r, i) = Log!TotalAt(l, i)
    <2>1. Recorded(l, n, e, r, m)
      BY <1>3, RecordIs, Zenon
    <2> QED
      BY <2>1, Zenon DEF Recorded
  <1>5. Log!TotalAt(r, m) = tot + n /\ Log!Total(r) = tot + n
    <2>1. Log!TotalAt(r, m) = tot + n
      BY <1>4 DEF Log!TotalAt
    <2> QED
      BY <1>3, <1>4, <2>1, LogShape, Zenon
  <1> HIDE DEF len, tot
  <1>6. Log!InOrder(r)
    <2>1. SUFFICES ASSUME NEW j \in 1..m, NEW i \in 0..j - 1
                   PROVE  /\ Log!TotalAt(r, j) >= Log!TotalAt(r, i) + (j - i)
                          /\ i > 0 => At(r, i) < At(r, j)
      BY <1>3, Zenon DEF Log!InOrder, At
    <2>2. i \in 0..m - 1 /\ i \in 0..len /\ Log!TotalAt(r, i) = Log!TotalAt(l, i) /\ Log!TotalAt(l, i) \in Nat
      <3>1. i \in 0..m - 1 /\ i \in 0..len
        BY <1>1, <1>4, <2>1
      <3> QED
        BY <1>1, <1>4, <3>1, Zenon
    <2>3. CASE j < m
      <3>1. j \in 1..m - 1 /\ j \in 0..m - 1 /\ j \in 1..len
        BY <1>1, <1>4, <2>1, <2>3
      <3>2. Log!TotalAt(l, j) >= Log!TotalAt(l, i) + (j - i) /\ (i > 0 => At(l, i) < At(l, j))
        BY <2>1, <3>1, Zenon DEF Log!InOrder, len, At
      <3>3. Log!TotalAt(r, j) = Log!TotalAt(l, j) /\ At(r, j) = At(l, j)
        BY <1>4, <3>1, Zenon
      <3>4. i > 0 => At(r, i) = At(l, i)
        BY <1>4, <2>2
      <3> QED
        BY <2>2, <3>2, <3>3, <3>4, Zenon
    <2>4. CASE j = m
      <3>1. i > 0 => At(r, i) < At(r, j)
        BY <1>4, <2>2, <2>4
      <3>2. tot + n >= Log!TotalAt(l, i) + (m - i)
        <4>1. CASE i = len
          BY <1>1, <1>4, <2>2, <4>1
        <4>2. CASE i # len
          <5>1. len \in 1..len /\ i \in 0..len - 1
            BY <1>1, <2>2, <4>2
          <5>2. Log!TotalAt(l, len) >= Log!TotalAt(l, i) + (len - i)
            BY <5>1, Zenon DEF Log!InOrder, len
          <5> QED
            BY <1>1, <1>4, <2>2, <5>2
        <4> QED
          BY <4>1, <4>2, Zenon
      <3> QED
        BY <1>5, <2>2, <2>4, <3>1, <3>2, Zenon
    <2> QED
      BY <1>4, <2>1, <2>3, <2>4
  <1>7. Log!InWindow(r) = Log!InWindow(l) + n
    <2>1. Log!Total(r) = tot + n /\ r.expired = l.expired /\ tot \in Nat /\ l.expired \in Nat
      BY <1>1, <1>4, <1>5, Zenon
    <2>2. Log!Total(l) = tot
      BY Zenon DEF tot
    <2> QED
      BY <2>1, <2>2 DEF Log!InWindow
  <1>8. \A w \in Counter!Spans : new[w] = IF w[1] =< e /\ e =< w[2] THEN ledger[w] + n ELSE ledger[w]
    BY Zenon DEF Counter!Charge
  <1>9. ASSUME Backed(q, l, ledger, e), NEW w \in Counter!Spans, w[2] - w[1] < q.period, w[1] + q.period > e,
                NEW i \in 0..len, i = 0 \/ At(l, i) < w[1]
         PROVE  ledger[w] =< tot - Log!TotalAt(l, i)
    BY <1>9, Zenon DEF Backed, len, tot
  <1>10. ASSUME Backed(q, l, ledger, e) PROVE Backed(q, r, new, e)
    <2>1. SUFFICES ASSUME NEW w \in Counter!Spans, w[2] - w[1] < q.period, w[1] + q.period > e,
                          NEW i \in 0..m, i = 0 \/ At(r, i) < w[1]
                   PROVE  new[w] =< Log!Total(r) - Log!TotalAt(r, i)
      BY <1>3, Zenon DEF Backed
    <2>2. w[1] \in Nat /\ w[2] \in Nat /\ w[1] =< w[2] /\ ledger[w] \in Nat
      BY <2>1, LogSpans, Zenon DEF Ledgers
    <2>3. new[w] = IF w[1] =< e /\ e =< w[2] THEN ledger[w] + n ELSE ledger[w]
      BY <1>8, <2>1, Zenon
    <2>4. CASE i < m
      <3>1. i \in 0..m - 1 /\ i \in 0..len
        BY <1>1, <1>4, <2>1, <2>4
      <3>2. i = 0 \/ At(l, i) < w[1]
        <4>1. SUFFICES ASSUME i # 0 PROVE At(l, i) < w[1]
          BY Zenon
        <4>2. m \in Nat
          BY <1>4, Zenon
        <4>3. i \in 1..m - 1
          BY <3>1, <4>1, <4>2
        <4>4. At(r, i) = At(l, i)
          BY <1>4, <4>3, Zenon
        <4> QED
          BY <2>1, <4>1, <4>4, Zenon
      <3>3. ledger[w] =< tot - Log!TotalAt(l, i) /\ Log!TotalAt(r, i) = Log!TotalAt(l, i) /\ Log!TotalAt(l, i) \in Nat
        BY <1>1, <1>4, <1>9, <1>10, <2>1, <3>1, <3>2, Zenon
      <3>4. new[w] \in Nat /\ new[w] =< ledger[w] + n
        BY <2>2, <2>3
      <3> QED
        BY <1>1, <1>5, <2>2, <3>3, <3>4
    <2>5. CASE i = m
      <3>1. e < w[1]
        BY <1>4, <2>1, <2>5
      <3>2. new[w] = ledger[w]
        BY <1>2, <2>2, <2>3, <3>1
      <3>3. len = 0 \/ At(l, len) < w[1]
        <4>1. SUFFICES ASSUME len # 0 PROVE At(l, len) < w[1]
          BY Zenon
        <4>2. At(l, len) =< e /\ At(l, len) \in Nat
          BY <1>1, <4>1, len \in 1..len, Zenon DEF len
        <4> QED
          BY <1>2, <2>2, <3>1, <4>2
      <3>4. ledger[w] =< tot - tot
        <4>1. len \in Nat /\ tot = Log!TotalAt(l, len)
          BY <1>1, Zenon
        <4>2. len \in 0..len
          BY <4>1
        <4> QED
          BY <1>9, <1>10, <2>1, <3>3, <4>1, <4>2, Zenon
      <3>5. Log!Total(r) = tot + n /\ Log!TotalAt(r, i) = tot + n
        BY <1>5, <2>5, Zenon
      <3>6. new[w] =< tot - tot /\ tot \in Nat /\ n \in Nat
        BY <1>1, <3>2, <3>4, Zenon
      <3>7. (tot + n) - (tot + n) = tot - tot
        BY <3>6
      <3> QED
        BY <3>5, <3>6, <3>7, Zenon
    <2> QED
      BY <1>4, <2>1, <2>4, <2>5
  <1>11. ASSUME Backed(q, l, ledger, e), Log!InWindow(l) + n =< q.limit, LogBounded(q, ledger) PROVE LogBounded(q, new)
    <2>1. SUFFICES ASSUME NEW w \in Counter!Spans, w[2] - w[1] < q.period PROVE new[w] =< q.limit
      BY Zenon DEF LogBounded
    <2>2. w[1] \in Nat /\ w[2] \in Nat /\ w[1] =< w[2] /\ ledger[w] \in Nat /\ ledger[w] =< q.limit
      BY <1>11, <2>1, LogSpans, Zenon DEF Ledgers, LogBounded
    <2>3. new[w] = IF w[1] =< e /\ e =< w[2] THEN ledger[w] + n ELSE ledger[w]
      BY <1>8, <2>1, Zenon
    <2>4. CASE w[1] =< e /\ e =< w[2]
      <3>1. w[1] + q.period > e /\ 0 \in 0..len
        BY <1>1, <1>2, <2>1, <2>2, <2>4
      <3>2. ledger[w] =< tot - Log!TotalAt(l, 0)
        BY <1>9, <1>11, <2>1, <3>1, Zenon
      <3>3. ledger[w] =< Log!InWindow(l) /\ Log!InWindow(l) \in Int
        BY <1>1, <3>2 DEF Log!InWindow, tot
      <3>4. new[w] = ledger[w] + n /\ Log!InWindow(l) + n =< q.limit
        BY <1>11, <2>3, <2>4, Zenon
      <3>5. ledger[w] \in Nat /\ q.limit \in Nat
        BY <2>2
      <3> QED
        BY <3>3, <3>4, <3>5
    <2> QED
      BY <2>2, <2>3, <2>4, Zenon
  <1> QED
    BY <1>4, <1>6, <1>7, <1>10, <1>11, Zenon

\* The types of a state of the log.
LEMMA LogTypes ==
    ASSUME Log!IInv
    PROVE  /\ Log!TypeOK /\ quota \in [limit : Nat, period : Nat] /\ quota.limit \in Nat
           /\ ~Log!DenyAll(quota) => quota \in Open
           /\ log \in Logs /\ Log!InOrder(log) /\ spent \in Ledgers /\ spent[<<0, MaxTime>>] \in Nat
           /\ horizon \in Nat /\ clock \in Log!Times /\ MaxTime \in Nat /\ Log!Times \subseteq Nat
           /\ \A t \in Thread : now[t] \in Nat /\ now[t] \in Log!Times
           /\ Log!InWindow(log) \in Nat /\ Log!InWindow(log) =< quota.limit
           /\ Log!InWindow(log) =< spent[<<0, MaxTime>>] /\ Len(log.runs) =< Log!InWindow(log)
  <1>1. /\ Log!TypeOK /\ Log!InOrder(log) /\ Log!InWindow(log) =< quota.limit
        /\ Log!InWindow(log) =< spent[<<0, MaxTime>>]
    BY LogInvIs
  <1>2. MaxTime \in Nat /\ Log!Times \subseteq Nat
    BY BoundsAssumption DEF Log!Times
  <1>3. quota \in [limit : Nat, period : Nat]
    BY <1>1, QuotasAssumption DEF Log!TypeOK
  <1>4. quota.limit \in Nat /\ (~Log!DenyAll(quota) => quota \in Open)
    BY <1>3 DEF Log!DenyAll, Open
  <1>5. log \in Logs
    BY <1>1 DEF Log!TypeOK, Logs
  <1>6. spent \in Ledgers
    BY <1>1, LogSpans, Zenon DEF Log!TypeOK, Ledgers
  <1>7. spent[<<0, MaxTime>>] \in Nat
    BY <1>6, LogSpans DEF Ledgers
  <1>8. horizon \in Nat /\ clock \in Log!Times
    BY <1>1, <1>2 DEF Log!TypeOK
  <1>9. \A t \in Thread : now[t] \in Nat /\ now[t] \in Log!Times
    BY <1>1, <1>2, Zenon DEF Log!TypeOK
  <1>10. Log!InWindow(log) \in Nat /\ Len(log.runs) =< Log!InWindow(log)
    <2> DEFINE len == Len(log.runs)
    <2>1. /\ len \in Nat /\ Log!TotalAt(log, 0) \in Nat /\ Log!TotalAt(log, len) \in Nat
          /\ Log!InWindow(log) = Log!TotalAt(log, len) - Log!TotalAt(log, 0)
      <3>1. /\ len \in Nat /\ \A i \in 0..len : Log!TotalAt(log, i) \in Nat
            /\ Log!TotalAt(log, 0) = log.expired /\ Log!Total(log) = Log!TotalAt(log, len)
        BY <1>5, LogShape, Zenon
      <3> QED
        BY <3>1, 0 \in 0..len, len \in 0..len, Zenon DEF Log!InWindow
    <2>2. len = 0 \/ (len \in 1..len /\ 0 \in 0..len - 1)
      BY <2>1
    <2>3. len = 0 \/ Log!TotalAt(log, len) >= Log!TotalAt(log, 0) + (len - 0)
      BY <1>1, <2>2, Zenon DEF Log!InOrder
    <2> HIDE DEF len
    <2>4. Log!InWindow(log) \in Nat /\ len =< Log!InWindow(log)
      BY <2>1, <2>3
    <2> QED
      BY <2>4 DEF len
  <1> QED
    BY <1>1, <1>2, <1>3, <1>4, <1>5, <1>6, <1>7, <1>8, <1>9, <1>10, Zenon

\* The ledgers of the two modules are one.
LEMMA SameCharge == \A ledger, ns, n : Log!Charge(ledger, ns, n) = Counter!Charge(ledger, ns, n)
  BY LogSpans DEF Log!Charge, Counter!Charge

\* The later of two instants.
LEMMA LaterIs == \A a, b \in Nat : /\ Log!Later(a, b) \in Nat /\ Log!Later(a, b) >= a /\ Log!Later(a, b) >= b
                                   /\ Log!Later(a, b) \in {a, b} /\ (a =< b => Log!Later(a, b) = b)
  BY DEF Log!Later

\* A return frees the thread.
LEMMA LogReturn ==
    ASSUME Log!TypeOK, NEW t \in Thread, Log!Return(t)
    PROVE  /\ call' \in [Thread -> {"idle", "acquire", "peek"}] /\ need' \in [Thread -> 0..MaxCost]
           /\ now' \in [Thread -> Log!Times]
  <1>1. 0 \in 0..MaxCost /\ 0 \in Log!Times
    BY BoundsAssumption DEF Log!Times
  <1> QED
    BY <1>1, Zenon DEF Log!TypeOK, Log!Return

\* A caller's look at the log: the log expired to its instant.
LEMMA LogLooks ==
    ASSUME Log!IInv, NEW t \in Thread, NEW ns, ns = Log!Effective(log, now[t]),
           NEW kept, kept = Log!Expire(log, quota.period, ns), NEW h, h = Log!Later(horizon, ns)
    PROVE  /\ ns \in Nat /\ ns \in Log!Times /\ h \in Nat /\ h \in Log!Times /\ h >= ns /\ h >= horizon
           /\ horizon =< ns => h = ns
           /\ kept \in Logs /\ Log!InOrder(kept) /\ Log!InWindow(kept) \in Nat
           /\ Log!InWindow(kept) =< Log!InWindow(log)
           /\ Len(kept.runs) # 0 => At(kept, Len(kept.runs)) =< ns
           /\ ~lapsed => Backed(quota, kept, spent, h)
  <1>1. /\ quota \in [limit : Nat, period : Nat] /\ log \in Logs /\ Log!InOrder(log) /\ spent \in Ledgers
        /\ horizon \in Nat /\ now[t] \in Nat /\ now[t] \in Log!Times /\ quota.period \in Nat
    BY LogTypes, Zenon
  <1>2. ns \in Nat /\ ns \in Log!Times /\ (Len(log.runs) # 0 => ns >= At(log, Len(log.runs)))
    BY <1>1, EffectiveIs, Zenon
  <1>3. /\ h \in Nat /\ h >= ns /\ h >= horizon /\ (horizon =< ns => h = ns) /\ h \in {horizon, ns}
    BY <1>1, <1>2, LaterIs, Zenon
  <1>4. h \in Log!Times
    <2>1. horizon \in Log!Times
      BY LogTypes, Zenon DEF Log!TypeOK
    <2> QED
      BY <1>2, <1>3, <2>1, Zenon
  <1>5. PICK k \in 0..Len(log.runs) : Dropped(log, k, kept) /\ AgedBy(log, quota.period, ns, k)
    BY <1>1, <1>2, Expires, Zenon
  <1>6. kept \in Logs /\ Log!InOrder(kept) /\ Log!InWindow(kept) \in Nat /\ Log!InWindow(kept) =< Log!InWindow(log)
    <2>1. kept \in Logs
      BY <1>5, Zenon DEF Dropped
    <2> QED
      BY <1>1, <1>5, <2>1, DroppedOrder, Zenon
  <1>7. ASSUME Len(kept.runs) # 0 PROVE At(kept, Len(kept.runs)) =< ns
    <2> DEFINE len == Len(log.runs)
               left == Len(kept.runs)
    <2>1. left \in Nat /\ len \in Nat /\ left = len - k /\ \A i \in 1..len : At(log, i) \in Nat
      BY <1>1, <1>5, <1>6, LogShape, Zenon DEF Dropped
    <2>2. left \in 1..left /\ k + left = len /\ len # 0 /\ len \in 1..len
      BY <1>5, <1>7, <2>1
    <2>3. At(kept, left) = At(log, len)
      BY <1>5, <2>2, Zenon DEF Dropped
    <2>4. At(log, len) \in Nat /\ ns >= At(log, len)
      BY <1>2, <2>1, <2>2, Zenon
    <2> QED
      BY <1>2, <2>3, <2>4, Zenon
  <1>8. ASSUME ~lapsed PROVE Backed(quota, kept, spent, h)
    <2>1. Backed(quota, log, spent, horizon)
      BY <1>8, LogInvIs, Zenon
    <2> QED
      BY <1>1, <1>2, <1>3, <2>1, ExpireBacked, Zenon
  <1> QED
    BY <1>2, <1>3, <1>4, <1>6, <1>7, <1>8, Zenon

\* An admission keeps the invariant of the log.
LEMMA LogAdmit == ASSUME Log!IInv, NEW t \in Thread, Log!Admit(t) PROVE Log!IInv'
  <1>1. PICK ns : ns = Log!Effective(log, now[t])
    OBVIOUS
  <1>2. PICK kept : kept = Log!Expire(log, quota.period, ns)
    OBVIOUS
  <1>3. PICK h : h = Log!Later(horizon, ns)
    OBVIOUS
  <1>4. /\ need[t] # 0 /\ ~Log!Impossible(quota, need[t]) /\ Log!Fits(quota, kept, need[t])
        /\ log' = Log!Record(kept, need[t], ns) /\ spent' = Counter!Charge(spent, ns, need[t])
        /\ horizon' = h /\ lapsed' = (lapsed \/ ns < horizon) /\ Log!Return(t) /\ UNCHANGED <<quota, clock, resets>>
    BY <1>1, <1>2, <1>3, SameCharge, Zenon DEF Log!Admit
  <1>5. /\ ns \in Nat /\ ns \in Log!Times /\ h \in Nat /\ h \in Log!Times /\ h >= ns /\ h >= horizon
        /\ horizon =< ns => h = ns
        /\ kept \in Logs /\ Log!InOrder(kept) /\ Log!InWindow(kept) \in Nat
        /\ Log!InWindow(kept) =< Log!InWindow(log)
        /\ Len(kept.runs) # 0 => At(kept, Len(kept.runs)) =< ns
        /\ ~lapsed => Backed(quota, kept, spent, h)
    BY <1>1, <1>2, <1>3, LogLooks
  <1>6. /\ quota \in [limit : Nat, period : Nat] /\ quota.limit \in Nat /\ spent \in Ledgers /\ Log!TypeOK
        /\ horizon \in Nat /\ spent[<<0, MaxTime>>] \in Nat /\ Log!InWindow(log) \in Nat
        /\ Log!InWindow(log) =< spent[<<0, MaxTime>>]
    BY LogTypes, Zenon
  <1>7. need[t] \in Nat /\ need[t] > 0
    BY <1>4, <1>6, BoundsAssumption DEF Log!TypeOK
  <1>8. /\ log' \in Logs /\ Log!InOrder(log') /\ Log!InWindow(log') = Log!InWindow(kept) + need[t]
        /\ spent' \in Ledgers /\ spent'[<<0, MaxTime>>] = spent[<<0, MaxTime>>] + need[t]
    <2>1. log' = Log!Record(kept, need[t], ns) /\ spent' = Counter!Charge(spent, ns, need[t])
      BY <1>4, Zenon
    <2>2. log' \in Logs /\ Log!InOrder(log') /\ Log!InWindow(log') = Log!InWindow(kept) + need[t]
      <3>1. kept \in Logs /\ Log!InOrder(kept) /\ ns \in Log!Times /\ (Len(kept.runs) # 0 => At(kept, Len(kept.runs)) =< ns)
        BY <1>5, Zenon
      <3>2. quota \in [limit : Nat, period : Nat] /\ spent \in Ledgers
        BY <1>6, Zenon
      <3> QED
        BY <1>7, <2>1, <3>1, <3>2, RecordBacked
    <2>3. spent' \in Ledgers /\ spent'[<<0, MaxTime>>] = spent[<<0, MaxTime>>] + need[t]
      BY <1>5, <1>6, <1>7, <2>1, Charged, Zenon
    <2> QED
      BY <2>2, <2>3
  <1>9. Log!InWindow(log') =< quota.limit /\ Log!InWindow(log') =< spent'[<<0, MaxTime>>]
    <2>1. Log!InWindow(kept) + need[t] =< quota.limit
      BY <1>4, Zenon DEF Log!Fits
    <2>2. Log!InWindow(log') = Log!InWindow(kept) + need[t] /\ spent'[<<0, MaxTime>>] = spent[<<0, MaxTime>>] + need[t]
      BY <1>8
    <2>3. Log!InWindow(kept) =< spent[<<0, MaxTime>>]
      BY <1>5, <1>6
    <2> QED
      BY <1>5, <1>6, <1>7, <2>1, <2>2, <2>3
  <1>10. Log!TypeOK'
    <2>1. /\ call' \in [Thread -> {"idle", "acquire", "peek"}] /\ need' \in [Thread -> 0..MaxCost]
          /\ now' \in [Thread -> Log!Times]
      BY <1>4, <1>6, LogReturn, Zenon
    <2>2. spent' \in [Log!Spans -> Nat] /\ log' \in [runs : Seq(Log!Runs), expired : Nat]
      BY <1>8, LogSpans, Zenon DEF Ledgers, Logs
    <2>3. lapsed' \in BOOLEAN /\ horizon' \in Log!Times
      BY <1>4, <1>5, Zenon
    <2> QED
      BY <1>4, <1>6, <2>1, <2>2, <2>3, Zenon DEF Log!TypeOK
  <1>11. ASSUME ~lapsed' PROVE Backed(quota, log', spent', horizon') /\ LogBounded(quota, spent')
    <2>1. ~lapsed /\ horizon =< ns /\ h = ns
      <3>1. ~lapsed /\ ~(ns < horizon)
        BY <1>4, <1>11, Zenon
      <3>2. ns \in Nat /\ horizon \in Nat /\ (horizon =< ns => h = ns)
        BY <1>5, <1>6, Zenon
      <3> QED
        BY <3>1, <3>2
    <2>2. Backed(quota, kept, spent, ns) /\ LogBounded(quota, spent)
      BY <1>5, <2>1, LogInvIs, Zenon
    <2>3. Log!InWindow(kept) + need[t] =< quota.limit
      BY <1>4, Zenon DEF Log!Fits
    <2>4. kept \in Logs /\ Log!InOrder(kept) /\ ns \in Log!Times /\ (Len(kept.runs) # 0 => At(kept, Len(kept.runs)) =< ns)
      BY <1>5, Zenon
    <2>5. quota \in [limit : Nat, period : Nat] /\ spent \in Ledgers
      BY <1>6, Zenon
    <2>6. log' = Log!Record(kept, need[t], ns) /\ spent' = Counter!Charge(spent, ns, need[t]) /\ horizon' = ns
      BY <1>4, <2>1, Zenon
    <2> QED
      BY <1>7, <2>2, <2>3, <2>4, <2>5, <2>6, RecordBacked
  <1>12. (/\ Log!TypeOK /\ Log!InOrder(log) /\ Log!InWindow(log) =< quota.limit
          /\ Log!InWindow(log) =< spent[<<0, MaxTime>>]
          /\ ~lapsed => Backed(quota, log, spent, horizon)
          /\ ~lapsed => LogBounded(quota, spent))'
    <2>1. quota' = quota
      BY <1>4
    <2> QED
      BY <1>8, <1>9, <1>10, <1>11, <2>1, Zenon
  <1> QED
    BY <1>12, LogInvIs, PTL

\* A denial or a peek keeps the invariant of the log.
LEMMA LogLook == ASSUME Log!IInv, NEW t \in Thread, Log!Deny(t) \/ Log!Peek(t) PROVE Log!IInv'
  <1>1. PICK ns : ns = Log!Effective(log, now[t])
    OBVIOUS
  <1>2. PICK kept : kept = Log!Expire(log, quota.period, ns)
    OBVIOUS
  <1>3. PICK h : h = Log!Later(horizon, ns)
    OBVIOUS
  <1>4. log' = kept /\ horizon' = h /\ Log!Return(t) /\ UNCHANGED <<quota, clock, spent, lapsed, resets>>
    BY <1>1, <1>2, <1>3, Zenon DEF Log!Deny, Log!Peek
  <1>5. /\ h \in Log!Times /\ kept \in Logs /\ Log!InOrder(kept) /\ Log!InWindow(kept) \in Nat
        /\ Log!InWindow(kept) =< Log!InWindow(log)
        /\ ~lapsed => Backed(quota, kept, spent, h)
    BY <1>1, <1>2, <1>3, LogLooks
  <1>6. /\ quota.limit \in Nat /\ Log!TypeOK /\ spent[<<0, MaxTime>>] \in Nat /\ Log!InWindow(log) \in Nat
        /\ Log!InWindow(log) =< quota.limit /\ Log!InWindow(log) =< spent[<<0, MaxTime>>]
    BY LogTypes, Zenon
  <1>7. Log!InWindow(kept) =< quota.limit /\ Log!InWindow(kept) =< spent[<<0, MaxTime>>]
    BY <1>5, <1>6
  <1>8. Log!TypeOK'
    <2>1. /\ call' \in [Thread -> {"idle", "acquire", "peek"}] /\ need' \in [Thread -> 0..MaxCost]
          /\ now' \in [Thread -> Log!Times]
      BY <1>4, <1>6, LogReturn, Zenon
    <2>2. log' \in [runs : Seq(Log!Runs), expired : Nat]
      BY <1>4, <1>5 DEF Logs
    <2> QED
      BY <1>4, <1>5, <1>6, <2>1, <2>2, Zenon DEF Log!TypeOK
  <1>9. ~lapsed => LogBounded(quota, spent)
    BY LogInvIs
  <1>10. (/\ Log!TypeOK /\ Log!InOrder(log) /\ Log!InWindow(log) =< quota.limit
          /\ Log!InWindow(log) =< spent[<<0, MaxTime>>]
          /\ ~lapsed => Backed(quota, log, spent, horizon)
          /\ ~lapsed => LogBounded(quota, spent))'
    <2>1. /\ quota' = quota /\ spent' = spent /\ lapsed' = lapsed /\ log' = kept /\ horizon' = h
      BY <1>4
    <2> QED
      BY <1>5, <1>7, <1>8, <1>9, <2>1
  <1> QED
    BY <1>10, LogInvIs, PTL

\* A log without records and a ledger with nothing in it.
LEMMA LogFresh ==
    ASSUME NEW c \in Nat, NEW q \in [limit : Nat, period : Nat], NEW h, NEW ledger,
           ledger \in Ledgers, \A w \in Counter!Spans : ledger[w] = 0
    PROVE  /\ Log!EmptyLog(c) \in Logs /\ Log!InOrder(Log!EmptyLog(c)) /\ Log!InWindow(Log!EmptyLog(c)) = 0
           /\ Log!InWindow(Log!EmptyLog(c)) =< q.limit /\ Log!InWindow(Log!EmptyLog(c)) =< ledger[<<0, MaxTime>>]
           /\ Backed(q, Log!EmptyLog(c), ledger, h) /\ LogBounded(q, ledger)
  <1> DEFINE l == Log!EmptyLog(c)
  <1>1. l.runs = <<>> /\ l.expired = c /\ l \in Logs
    BY DEF Log!EmptyLog, Logs
  <1>2. Len(l.runs) = 0 /\ Log!Total(l) = c /\ Log!TotalAt(l, 0) = c /\ c - c = 0
    BY <1>1 DEF Log!Total, Log!TotalAt
  <1> HIDE DEF l
  <1>3. Log!InOrder(l)
    BY <1>2 DEF Log!InOrder
  <1>4. Log!InWindow(l) = 0 /\ q.limit \in Nat
    BY <1>1, <1>2 DEF Log!InWindow
  <1>5. Log!InWindow(l) =< q.limit /\ Log!InWindow(l) =< ledger[<<0, MaxTime>>]
    BY <1>4, LogSpans
  <1>6. Backed(q, l, ledger, h)
    <2>1. \A k \in 0..Len(l.runs) : k = 0
      BY <1>2
    <2> QED
      BY <1>2, <2>1 DEF Backed
  <1>7. LogBounded(q, ledger)
    BY <1>4 DEF LogBounded
  <1> QED
    BY <1>1, <1>3, <1>4, <1>5, <1>6, <1>7, Zenon DEF l

\* A log without records is within its invariant.
LEMMA LogEmpty ==
    ASSUME Log!TypeOK, NEW c \in Nat, log = Log!EmptyLog(c), \A w \in Counter!Spans : spent[w] = 0
    PROVE  Log!IInv
  <1>1. spent \in Ledgers /\ quota \in [limit : Nat, period : Nat]
    BY LogSpans, QuotasAssumption, Zenon DEF Log!TypeOK, Ledgers
  <1> QED
    BY <1>1, LogFresh, LogInvIs, Zenon

\* The log begins within its invariant.
LEMMA LogInit == Log!Init => Log!IInv
  <1>1. SUFFICES ASSUME Log!Init PROVE Log!IInv
    OBVIOUS
  <1>2. 0 \in Log!Times /\ 0 \in 0..MaxCost /\ 0 \in 0..MaxResets
    BY BoundsAssumption DEF Log!Times
  <1>3. \A w \in Counter!Spans : spent[w] = 0
    BY <1>1, LogSpans DEF Log!Init, Log!NothingSpent
  <1>4. log = Log!EmptyLog(0) /\ log \in [runs : Seq(Log!Runs), expired : Nat]
    BY <1>1 DEF Log!Init, Log!EmptyLog
  <1>5. Log!TypeOK
    BY <1>1, <1>2, <1>4, Zenon DEF Log!Init, Log!TypeOK, Log!NothingSpent
  <1> QED
    BY <1>3, <1>4, <1>5, LogEmpty

\* A step of the log keeps its invariant.
LEMMA LogNext == Log!IInv /\ Log!Next => Log!IInv'
  <1>1. SUFFICES ASSUME Log!IInv, Log!Next PROVE Log!IInv'
    OBVIOUS
  <1>2. Log!TypeOK /\ clock \in Log!Times /\ MaxTime \in Nat
    BY <1>1, LogTypes, Zenon
  <1>3. ASSUME Log!TypeOK', UNCHANGED <<quota, log, spent, horizon, lapsed>> PROVE Log!IInv'
    <2>1. (/\ Log!TypeOK /\ Log!InOrder(log) /\ Log!InWindow(log) =< quota.limit
           /\ Log!InWindow(log) =< spent[<<0, MaxTime>>]
           /\ ~lapsed => Backed(quota, log, spent, horizon)
           /\ ~lapsed => LogBounded(quota, spent))'
      <3>1. quota' = quota /\ log' = log /\ spent' = spent /\ horizon' = horizon /\ lapsed' = lapsed
        BY <1>3
      <3> QED
        BY <1>1, <1>3, <3>1, LogInvIs
    <2> QED
      BY <2>1, LogInvIs, PTL
  <1>4. CASE Log!Tick
    <2>1. clock' \in Log!Times
      BY <1>2, <1>4 DEF Log!Tick, Log!Times
    <2> QED
      BY <1>2, <1>3, <1>4, <2>1, Zenon DEF Log!Tick, Log!TypeOK
  <1>5. ASSUME NEW t \in Thread, NEW n \in 0..MaxCost, NEW what \in {"acquire", "peek"}, Log!Call(t, what, n)
        PROVE  Log!IInv'
    <2>1. Log!TypeOK'
      BY <1>2, <1>5, Zenon DEF Log!Call, Log!TypeOK
    <2>2. UNCHANGED <<quota, log, spent, horizon, lapsed>>
      BY <1>5 DEF Log!Call
    <2> QED
      BY <1>3, <2>1, <2>2, Zenon
  <1>6. ASSUME NEW t \in Thread, Log!ReturnEarly(t) PROVE Log!IInv'
    <2>1. Log!Return(t)
      BY <1>6 DEF Log!ReturnEarly
    <2>2. Log!TypeOK'
      BY <1>2, <1>6, <2>1, LogReturn, Zenon DEF Log!ReturnEarly, Log!TypeOK
    <2>3. UNCHANGED <<quota, log, spent, horizon, lapsed>>
      BY <1>6 DEF Log!ReturnEarly
    <2> QED
      BY <1>3, <2>2, <2>3, Zenon
  <1>7. CASE Log!Reset
    <2>1. PICK c : c = Log!Total(log)
      OBVIOUS
    <2>2. c \in Nat
      <3>1. log \in Logs
        BY <1>1, LogTypes, Zenon
      <3>2. Log!TotalAt(log, Len(log.runs)) \in Nat
        BY <3>1, LogShape, Len(log.runs) \in 0..Len(log.runs), Zenon
      <3> QED
        BY <2>1, <3>1, <3>2, LogShape, Zenon
    <2>3. log' = Log!EmptyLog(c) /\ \A w \in Counter!Spans : spent'[w] = 0
      BY <1>7, <2>1, LogSpans DEF Log!Reset, Log!NothingSpent
    <2>4. log' \in [runs : Seq(Log!Runs), expired : Nat]
      BY <2>2, <2>3 DEF Log!EmptyLog
    <2>5. 0 \in Log!Times /\ resets' \in 0..MaxResets
      BY <1>2, <1>7, BoundsAssumption DEF Log!Times, Log!Reset, Log!TypeOK
    <2>6. Log!TypeOK'
      BY <1>2, <1>7, <2>4, <2>5, Zenon DEF Log!Reset, Log!TypeOK, Log!NothingSpent
    <2>7. spent' \in Ledgers /\ quota' \in [limit : Nat, period : Nat]
      BY <2>6, LogSpans, QuotasAssumption DEF Log!TypeOK, Ledgers
    <2>8. (/\ Log!TypeOK /\ Log!InOrder(log) /\ Log!InWindow(log) =< quota.limit
           /\ Log!InWindow(log) =< spent[<<0, MaxTime>>]
           /\ ~lapsed => Backed(quota, log, spent, horizon)
           /\ ~lapsed => LogBounded(quota, spent))'
      BY <2>2, <2>3, <2>6, <2>7, LogFresh, Zenon
    <2> QED
      BY <2>8, LogInvIs, PTL
  <1>8. 0 \in 0..MaxCost
    BY BoundsAssumption
  <1> QED
    BY <1>1, <1>4, <1>5, <1>6, <1>7, <1>8, LogAdmit, LogLook DEF Log!Next

\* The log stays in order, and short.
LEMMA LogRecords == Log!IInv => Log!LogOrdered
  <1>1. SUFFICES ASSUME Log!IInv PROVE Log!LogOrdered
    OBVIOUS
  <1>2. /\ log \in Logs /\ Log!InOrder(log) /\ quota.limit \in Nat /\ Log!InWindow(log) \in Nat
        /\ Log!InWindow(log) =< quota.limit /\ Len(log.runs) =< Log!InWindow(log)
    BY <1>1, LogTypes, Zenon
  <1>3. Len(log.runs) \in Nat /\ \A i \in 0..Len(log.runs) : Log!TotalAt(log, i) \in Nat
    BY <1>2, LogShape, Zenon
  <1>4. ASSUME NEW i \in 1..Len(log.runs)
        PROVE  /\ log.runs[i].total > IF i = 1 THEN log.expired ELSE log.runs[i - 1].total
               /\ i > 1 => At(log, i) > At(log, i - 1)
    <2>1. i - 1 \in 0..i - 1 /\ i - (i - 1) = 1 /\ i # 0 /\ (i - 1 = 0 <=> i = 1) /\ (i > 1 => i - 1 > 0)
      BY <1>3
    <2>2. /\ Log!TotalAt(log, i) >= Log!TotalAt(log, i - 1) + 1
          /\ i - 1 > 0 => At(log, i - 1) < At(log, i)
      BY <1>2, <2>1, Zenon DEF Log!InOrder, At
    <2>3. /\ Log!TotalAt(log, i) = log.runs[i].total
          /\ Log!TotalAt(log, i - 1) = IF i = 1 THEN log.expired ELSE log.runs[i - 1].total
      BY <2>1 DEF Log!TotalAt
    <2>4. Log!TotalAt(log, i) \in Nat /\ Log!TotalAt(log, i - 1) \in Nat
      BY <1>3
    <2>5. Log!TotalAt(log, i) > Log!TotalAt(log, i - 1)
      BY <2>2, <2>4
    <2>6. ASSUME i > 1 PROVE At(log, i) > At(log, i - 1)
      <3>1. At(log, i) \in Nat /\ At(log, i - 1) \in Nat
        <4>1. i - 1 \in 1..Len(log.runs)
          BY <1>3, <2>6
        <4> QED
          BY <1>2, <4>1, LogShape, Zenon
      <3> QED
        BY <2>1, <2>2, <2>6, <3>1
    <2> QED
      BY <2>3, <2>5, <2>6, Zenon
  <1>5. Len(log.runs) =< quota.limit
    BY <1>2, <1>3
  <1> QED
    BY <1>2, <1>4, <1>5, Zenon DEF Log!LogOrdered, At

\* What the log answers is exact.
LEMMA LogAnswers == Log!IInv => Log!AnswersExact
  <1>1. SUFFICES ASSUME Log!IInv, ~Log!DenyAll(quota), NEW ns \in Log!Times
                 PROVE  Log!RetryExact(ns) /\ Log!SnapshotExact(ns)
    BY DEF Log!AnswersExact
  <1>2. /\ quota \in Open /\ quota.limit \in Nat /\ log \in Logs /\ Log!InOrder(log) /\ ns \in Nat
        /\ Log!InWindow(log) =< quota.limit
    BY <1>1, LogTypes, Zenon
  <1>3. \A n, m : Log!Admits(log, n, m) = LogAdmits(quota, log, n, m)
    BY DEF Log!Admits, LogAdmits
  <1>4. PICK kept : kept = Log!Expire(log, quota.period, Log!Effective(log, ns))
    OBVIOUS
  <1>5. Log!RetryExact(ns)
    <2>1. SUFFICES ASSUME NEW n \in 1..MaxCost, ~Log!Impossible(quota, n), ~Log!Admits(log, n, ns),
                          NEW wait, wait = Log!RetryAfter(quota, kept, n, ns)
                   PROVE  /\ Log!Admits(log, n, ns + wait)
                          /\ \A early \in 0..wait - 1 : ~Log!Admits(log, n, ns + early)
      BY <1>4, Zenon DEF Log!RetryExact
    <2>2. n \in Nat /\ n =< quota.limit
      BY <1>2, <2>1, BoundsAssumption DEF Log!Impossible
    <2>3. ~LogAdmits(quota, log, n, ns)
      BY <1>3, <2>1
    <2>4. /\ LogAdmits(quota, log, n, ns + wait)
          /\ \A early \in 0..wait - 1 : ~LogAdmits(quota, log, n, ns + early)
      BY <1>2, <1>4, <2>1, <2>2, <2>3, LogRetry
    <2> QED
      BY <1>3, <2>4
  <1>6. Log!SnapshotExact(ns)
    <2>1. PICK wait : wait = Log!ResetAfter(quota, kept, ns)
      OBVIOUS
    <2>2. /\ \A n \in 1..quota.limit : LogAdmits(quota, log, n, ns) <=> n =< Log!Remaining(quota, kept)
          /\ \A early \in 0..wait - 1 : ~LogAdmits(quota, log, quota.limit, ns + early)
          /\ LogAdmits(quota, log, quota.limit, ns + wait)
      BY <1>2, <1>4, <2>1, LogSnapshot
    <2> QED
      BY <1>3, <1>4, <2>1, <2>2, Zenon DEF Log!SnapshotExact
  <1> QED
    BY <1>5, <1>6

\* Expiring is invisible to a caller that is not behind it.
LEMMA LogInvisible == Log!IInv /\ [Log!Next]_Log!vars => Log!ExpiryInvisible
  <1>1. SUFFICES ASSUME Log!IInv, [Log!Next]_Log!vars, spent' = spent, resets' = resets,
                        NEW n \in 1..MaxCost, NEW ns \in horizon'..MaxTime
                 PROVE  Log!Admits(log', n, ns) = Log!Admits(log, n, ns)
    BY DEF Log!ExpiryInvisible
  <1>2. /\ Log!TypeOK /\ log \in Logs /\ Log!InOrder(log) /\ quota \in [limit : Nat, period : Nat] /\ n \in Nat
        /\ spent \in Ledgers /\ spent[<<0, MaxTime>>] \in Nat /\ MaxTime \in Nat /\ horizon \in Nat
    BY <1>1, LogTypes, BoundsAssumption
  <1>3. ASSUME NEW t \in Thread, Log!Admit(t) PROVE FALSE
    <2>1. PICK e : e = Log!Effective(log, now[t])
      OBVIOUS
    <2>2. spent' = Counter!Charge(spent, e, need[t]) /\ need[t] # 0 /\ need[t] \in Nat
      BY <1>2, <1>3, <2>1, SameCharge, BoundsAssumption DEF Log!Admit, Log!TypeOK
    <2>3. e \in Log!Times
      BY <1>1, <2>1, LogLooks, Zenon
    <2>4. spent'[<<0, MaxTime>>] = spent[<<0, MaxTime>>] + need[t]
      BY <1>2, <2>2, <2>3, Charged, Zenon
    <2> QED
      BY <1>1, <1>2, <2>2, <2>4
  <1>4. ASSUME NEW t \in Thread, Log!Deny(t) \/ Log!Peek(t) PROVE Log!Admits(log', n, ns) = Log!Admits(log, n, ns)
    <2>1. PICK e : e = Log!Effective(log, now[t])
      OBVIOUS
    <2>2. log' = Log!Expire(log, quota.period, e) /\ horizon' = Log!Later(horizon, e)
      BY <1>4, <2>1, Zenon DEF Log!Deny, Log!Peek
    <2>3. e \in Nat /\ horizon' \in Nat /\ horizon' >= e
      BY <1>1, <2>1, <2>2, LogLooks, Zenon
    <2>4. ns \in Nat /\ ns >= e
      <3>1. MaxTime \in Nat
        BY <1>2, Zenon
      <3> QED
        BY <2>3, <3>1
    <2>5. LogAdmits(quota, log', n, ns) <=> LogAdmits(quota, log, n, ns)
      <3>1. log \in Logs /\ Log!InOrder(log) /\ quota \in [limit : Nat, period : Nat] /\ n \in Nat
        BY <1>2, Zenon
      <3> QED
        BY <2>2, <2>3, <2>4, <3>1, ExpirySame, ZenonT(30)
    <2>6. /\ Log!Admits(log', n, ns) = LogAdmits(quota, log', n, ns)
          /\ Log!Admits(log, n, ns) = LogAdmits(quota, log, n, ns)
      BY DEF Log!Admits, LogAdmits
    <2>7. LogAdmits(quota, log', n, ns) \in BOOLEAN /\ LogAdmits(quota, log, n, ns) \in BOOLEAN
      BY DEF LogAdmits, Log!Fits
    <2> QED
      BY <2>5, <2>6, <2>7, Zenon
  <1>5. ~Log!Reset
    BY <1>1, <1>2, BoundsAssumption DEF Log!Reset, Log!TypeOK
  <1>6. ASSUME \/ Log!Tick \/ UNCHANGED Log!vars
               \/ \E t \in Thread : Log!ReturnEarly(t) \/ Log!Call(t, "peek", 0)
                                   \/ \E k \in 0..MaxCost : Log!Call(t, "acquire", k)
        PROVE  log' = log
    BY <1>6, Zenon DEF Log!Tick, Log!vars, Log!ReturnEarly, Log!Call
  <1> QED
    BY <1>1, <1>3, <1>4, <1>5, <1>6 DEF Log!Next
=============================================================================
