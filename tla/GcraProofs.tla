----------------------------- MODULE GcraProofs -----------------------------
(***************************************************************************)
(* Proofs about Gcra for every set of threads, every quota and every bound *)
(* on time that leaves the word room.                                      *)
(***************************************************************************)
EXTENDS Gcra, Lemmas

\* The time the provers have for a leaf, in seconds.
USE SMTT(30), ZenonT(30)

-----------------------------------------------------------------------------
\* The reciprocal estimate of intervals_at is the quotient or one less.
LEMMA EstimateClose ==
    ASSUME NEW n \in Nat, NEW l \in Nat, NEW p \in Nat, NEW s \in Nat,
           p > 0, n < s,
           NEW per \in Nat, per = (l * s) \div p,
           NEW est \in Nat, est = (n * per) \div s
    PROVE  /\ est * p =< n * l
           /\ n * l < (est + 2) * p
  <1>1. /\ per * p =< l * s
        /\ l * s < (per + 1) * p
    BY Quotient, l * s \in Nat, Zenon
  <1>2. /\ est * s =< n * per
        /\ n * per < (est + 1) * s
    BY Quotient, n * per \in Nat, s > 0, Zenon
  <1>3. est * p =< n * l
    <2>1. (est * s) * p =< (n * per) * p
      BY <1>2, ProductMonotone, est * s \in Nat, n * per \in Nat, Zenon
    <2>2. (per * p) * n =< (l * s) * n
      BY <1>1, ProductMonotone, per * p \in Nat, l * s \in Nat, Zenon
    <2>3. (n * per) * p = (per * p) * n /\ (l * s) * n = (n * l) * s /\ (est * s) * p = (est * p) * s
      OBVIOUS
    <2>4. (est * p) * s =< (n * l) * s
      BY <2>1, <2>2, <2>3, (n * per) * p \in Nat, (n * l) * s \in Nat, (est * p) * s \in Nat
    <2>5. SUFFICES ASSUME n * l < est * p PROVE FALSE
      BY n * l \in Nat, est * p \in Nat
    <2>6. (n * l + 1) * s =< (est * p) * s
      BY <2>5, ProductMonotone, n * l + 1 \in Nat, est * p \in Nat
    <2>7. (n * l + 1) * s = (n * l) * s + s
      OBVIOUS
    <2> QED
      BY <2>4, <2>6, <2>7, (n * l) * s \in Nat, (est * p) * s \in Nat
  <1>4. n * l < (est + 2) * p
    <2>1. (l * s) * n =< ((per + 1) * p) * n
      BY <1>1, ProductMonotone, l * s \in Nat, (per + 1) * p \in Nat
    <2>2. (n * per + 1) * p =< ((est + 1) * s) * p
      BY <1>2, ProductMonotone, n * per + 1 \in Nat, (est + 1) * s \in Nat
    <2>3. (n + 1) * p =< s * p
      BY ProductMonotone, n + 1 \in Nat
    <2>4. /\ (l * s) * n = (n * l) * s
          /\ ((per + 1) * p) * n = (n * per) * p + n * p
          /\ (n * per + 1) * p = (n * per) * p + p
          /\ (n + 1) * p = n * p + p
          /\ ((est + 1) * s) * p + s * p = ((est + 2) * p) * s
      OBVIOUS
    <2>5. (n * l) * s < ((est + 2) * p) * s
      BY <2>1, <2>2, <2>3, <2>4, (n * per) * p \in Nat, n * p \in Nat, s * p \in Nat
    <2> QED
      BY <2>5, ProductCancel, n * l \in Nat, (est + 2) * p \in Nat, s > 0, Zenon
  <1> QED
    BY <1>3, <1>4, Zenon

-----------------------------------------------------------------------------
\* The types of the precomputed quota.
LEMMA ParamsTypes ==
    ASSUME NEW q \in Quotas
    PROVE  /\ q.limit \in Nat /\ q.period \in Nat /\ q.burst \in Nat
           /\ LimitOf(q) \in Nat /\ LimitOf(q) =< q.period
           /\ Tolerance(q) \in Nat
           /\ q.burst > 0 => Tolerance(q) = q.burst - 1
           /\ PerNs(q) \in Nat
           /\ ~Closed(q) => /\ q.burst > 0 /\ q.period > 0
                            /\ PerNs(q) = (LimitOf(q) * Scale) \div q.period
  <1>1. q \in [limit : Nat, period : Nat, burst : Nat]
    BY QuotasAssumption, Zenon
  <1>2. q.limit \in Nat /\ q.period \in Nat /\ q.burst \in Nat
    BY <1>1, Zenon
  <1>3. LimitOf(q) \in Nat /\ LimitOf(q) =< q.period
    BY <1>2 DEF LimitOf
  <1>4. Tolerance(q) \in Nat /\ (q.burst > 0 => Tolerance(q) = q.burst - 1)
    BY <1>2 DEF Tolerance, SatSub
  <1>5. CASE LimitOf(q) = 0 \/ q.burst = 0
    BY <1>2, <1>3, <1>4, <1>5, Zenon DEF PerNs, Closed
  <1>6. CASE ~(LimitOf(q) = 0 \/ q.burst = 0)
    <2>1. q.period > 0 /\ q.burst > 0
      BY <1>2, <1>3, <1>6
    <2>2. PerNs(q) = (LimitOf(q) * Scale) \div q.period
      BY <1>6, Zenon DEF PerNs
    <2>3. LimitOf(q) * Scale \in Nat
      BY <1>3, WordAssumption
    <2>4. (LimitOf(q) * Scale) \div q.period \in Nat
      BY <1>2, <2>1, <2>3, Quotient, Zenon
    <2> QED
      BY <1>2, <1>3, <1>4, <2>1, <2>2, <2>4, Zenon
  <1> QED
    BY <1>5, <1>6, Zenon

\* intervals_at computes the exact quotient now * limit / period for every
\* reading of the clock and every quota: the reciprocal multiplication and its
\* one correction lose nothing.
LEMMA IntervalsAtExact ==
    ASSUME NEW q \in Quotas, ~Closed(q), NEW ns \in Readings
    PROVE  IntervalsAt(q, ns) = (ns * LimitOf(q)) \div q.period
  <1> DEFINE l == LimitOf(q)
             p == q.period
             per == PerNs(q)
             est == (ns * per) \div Scale
  <1>1. /\ l \in Nat /\ p \in Nat /\ p > 0 /\ per \in Nat
        /\ per = (l * Scale) \div p
    BY ParamsTypes, Zenon
  <1>2. ns \in Nat /\ Scale \in Nat /\ ns < Scale
    BY WordAssumption DEF Readings
  <1>3. est \in Nat
    BY <1>1, <1>2, Quotient, ns * per \in Nat, Scale > 0, Zenon
  <1>4. est * p =< ns * l /\ ns * l < (est + 2) * p
    <2> HIDE DEF l, p, per
    <2> QED BY <1>1, <1>2, <1>3, EstimateClose
  <1>5. ns * l \in Nat
    BY <1>1, <1>2
  <1>6. CASE (est + 1) * p =< ns * l
    <2>1. IntervalsAt(q, ns) = est + 1
      BY <1>6, Zenon DEF IntervalsAt
    <2> HIDE DEF l, p, est
    <2>2. ns * l < ((est + 1) + 1) * p
      BY <1>3, <1>4, <1>1, (est + 1) + 1 = est + 2, Zenon
    <2>3. (ns * l) \div p = est + 1
      BY <1>1, <1>3, <1>5, <1>6, <2>2, QuotientUnique, est + 1 \in Nat, Zenon
    <2> QED
      BY <2>1, <2>3, Zenon DEF l, p
  <1>7. CASE ~((est + 1) * p =< ns * l)
    <2>1. IntervalsAt(q, ns) = est
      BY <1>7, Zenon DEF IntervalsAt
    <2> HIDE DEF l, p, est
    <2>2. ns * l < (est + 1) * p
      BY <1>1, <1>3, <1>5, <1>7, (est + 1) * p \in Nat
    <2>3. (ns * l) \div p = est
      BY <1>1, <1>3, <1>4, <1>5, <2>2, QuotientUnique, Zenon
    <2> QED
      BY <2>1, <2>3, Zenon DEF l, p
  <1> QED
    BY <1>6, <1>7, Zenon

\* Time in intervals never runs backwards, and never runs ahead of the clock.
LEMMA IntervalsMonotone ==
    ASSUME NEW q \in Quotas, ~Closed(q), NEW a \in Readings, NEW b \in Readings, a =< b
    PROVE  /\ IntervalsAt(q, a) \in Nat
           /\ IntervalsAt(q, a) =< IntervalsAt(q, b)
           /\ IntervalsAt(q, a) =< a
  <1> DEFINE l == LimitOf(q)
             p == q.period
             x == (a * l) \div p
             y == (b * l) \div p
  <1>1. l \in Nat /\ p \in Nat /\ p > 0 /\ l =< p
    BY ParamsTypes, Zenon
  <1>2. a \in Nat /\ b \in Nat
    BY WordAssumption DEF Readings
  <1>3. IntervalsAt(q, a) = x /\ IntervalsAt(q, b) = y
    BY IntervalsAtExact, Zenon
  <1> HIDE DEF l, p
  <1>4. a * l \in Nat /\ b * l \in Nat /\ a * p \in Nat
    BY <1>1, <1>2
  <1>5. x \in Nat /\ x * p =< a * l
    BY <1>1, <1>4, Quotient, Zenon
  <1>6. y \in Nat /\ b * l < (y + 1) * p
    BY <1>1, <1>4, Quotient, Zenon
  <1> HIDE DEF x, y
  <1>7. a * l =< b * l
    BY <1>1, <1>2, ProductMonotone, Zenon
  <1>8. x =< y
    <2>1. x * p < (y + 1) * p
      BY <1>1, <1>4, <1>5, <1>6, <1>7, x * p \in Nat, (y + 1) * p \in Nat
    <2>2. x < y + 1
      BY <1>1, <1>5, <1>6, <2>1, ProductCancel, y + 1 \in Nat, Zenon
    <2> QED
      BY <1>5, <1>6, <2>2
  <1>9. x =< a
    <2>1. l * a =< p * a
      BY <1>1, <1>2, ProductMonotone, Zenon
    <2>2. x * p =< a * p
      BY <1>1, <1>2, <1>4, <1>5, <2>1, x * p \in Nat, l * a = a * l, p * a = a * p
    <2>3. x * p < (a + 1) * p
      BY <1>1, <1>2, <1>4, <1>5, <2>2, (a + 1) * p = a * p + p, x * p \in Nat
    <2>4. x < a + 1
      BY <1>1, <1>2, <1>5, <2>3, ProductCancel, a + 1 \in Nat, Zenon
    <2> QED
      BY <1>2, <1>5, <2>4
  <1> QED
    BY <1>3, <1>5, <1>8, <1>9, Zenon

-----------------------------------------------------------------------------
\* Instants of the model are readings of the clock.
LEMMA TimesAreReadings ==
    /\ Times \subseteq Readings
    /\ Times \subseteq Nat
  BY BoundsAssumption, WordAssumption DEF Times, Readings

\* An admission moves the word to at most a burst past the caller's interval,
\* by at least the units admitted, and without saturating.
LEMMA AdmitStep ==
    ASSUME NEW q \in Quotas, NEW word \in 0..WordMax, NEW ns \in Times, NEW n \in Nat,
           n # 0, ~Impossible(q, n), Conforms(q, word, n, ns)
    PROVE  /\ IntervalsAt(q, ns) \in Nat
           /\ NewTat(q, word, n, ns) \in 0..WordMax
           /\ NewTat(q, word, n, ns) >= word + n
           /\ NewTat(q, word, n, ns) >= IntervalsAt(q, ns) + n
           /\ NewTat(q, word, n, ns) =< IntervalsAt(q, ns) + q.burst
  <1> DEFINE iv == IntervalsAt(q, ns)
             eff == Effective(q, word, ns)
             tol == Tolerance(q)
  <1>1. ~Closed(q) /\ n - 1 =< tol
    BY ParamsTypes DEF Impossible
  <1>2. q.burst \in Nat /\ tol \in Nat /\ tol = q.burst - 1
    BY <1>1, ParamsTypes, Zenon
  <1>3. ns \in Nat /\ ns =< MaxTime /\ MaxTime \in Nat /\ WordMax \in Nat
    BY BoundsAssumption, WordAssumption DEF Times
  <1>4. iv \in Nat /\ iv =< ns
    BY <1>1, TimesAreReadings, IntervalsMonotone
  <1>5. MaxTime + 2 * q.burst =< WordMax
    BY WordAssumption, Zenon
  <1>6. eff \in Nat /\ eff >= word /\ eff >= iv
    BY <1>4, <1>3 DEF Effective, Later
  <1>7. SatAdd(eff, n - 1) =< SatAdd(iv, tol)
    BY Zenon DEF Conforms
  <1>8. NewTat(q, word, n, ns) = SatAdd(eff, n)
    BY Zenon DEF NewTat
  <1> HIDE DEF iv, eff, tol
  <1>9. SatAdd(iv, tol) = iv + tol /\ iv + tol < WordMax
    BY <1>2, <1>3, <1>4, <1>5 DEF SatAdd
  <1>10. eff + (n - 1) =< iv + tol
    BY <1>1, <1>2, <1>3, <1>4, <1>6, <1>7, <1>9 DEF SatAdd
  <1>11. SatAdd(eff, n) = eff + n /\ eff + n =< WordMax
    BY <1>2, <1>3, <1>4, <1>5, <1>6, <1>10 DEF SatAdd
  <1> QED
    BY <1>2, <1>3, <1>4, <1>6, <1>8, <1>10, <1>11 DEF iv

\* A restored word fits.
LEMMA RestoreType ==
    ASSUME NEW q \in Quotas, NEW until \in Times
    PROVE  RestoreUntil(q, 0, until) \in 0..WordMax
  <1>1. WordMax \in Nat /\ MaxTime \in Nat /\ MaxTime =< WordMax /\ until \in Nat /\ until =< MaxTime
    <2>1. q.burst \in Nat
      BY ParamsTypes, Zenon
    <2> QED
      BY <2>1, BoundsAssumption, WordAssumption DEF Times
  <1>2. CASE Closed(q)
    BY <1>1, <1>2 DEF RestoreUntil
  <1>3. CASE ~Closed(q)
    <2>1. IntervalsAt(q, until) \in Nat /\ IntervalsAt(q, until) =< until
      BY <1>3, TimesAreReadings, IntervalsMonotone
    <2>2. RestoreInterval(q, until) \in 0..WordMax
      BY <1>1, <2>1 DEF RestoreInterval, SatAdd
    <2> QED
      BY <1>1, <1>3, <2>2 DEF RestoreUntil, Later
  <1> QED
    BY <1>2, <1>3, Zenon

-----------------------------------------------------------------------------
\* The bound of every span is a number of units, so a span without admissions
\* respects it.
LEMMA NothingIsWithinBound ==
    ASSUME NEW q \in Quotas, NEW w \in Spans
    PROVE  0 =< IF Closed(q) THEN 0 ELSE q.burst + IntervalsAt(q, w[2]) - IntervalsAt(q, w[1])
  <1>1. CASE Closed(q)
    BY <1>1
  <1>2. CASE ~Closed(q)
    <2>1. w[1] \in Readings /\ w[2] \in Readings /\ w[1] =< w[2]
      BY TimesAreReadings, Zenon DEF Spans
    <2>2. /\ IntervalsAt(q, w[1]) \in Nat /\ IntervalsAt(q, w[2]) \in Nat
          /\ IntervalsAt(q, w[1]) =< IntervalsAt(q, w[2])
      <3>1. w[2] =< w[2]
        BY <2>1, WordAssumption DEF Readings
      <3> QED
        BY <1>2, <2>1, <3>1, IntervalsMonotone, Zenon
    <2>3. q.burst \in Nat
      BY ParamsTypes, Zenon
    <2> QED
      BY <1>2, <2>2, <2>3
  <1> QED
    BY <1>1, <1>2, Zenon

\* A new or restored bucket satisfies the invariant: nothing is spent yet.
LEMMA InitIInv == Init => IInv
  <1> SUFFICES ASSUME Init PROVE IInv
    BY Zenon
  <1>1. quota \in Quotas
    BY Zenon DEF Init
  <1>2. tat \in 0..WordMax
    BY <1>1, RestoreType, WordAssumption DEF Init
  <1>3. spent \in [Spans -> Nat] /\ \A w \in Spans : spent[w] = 0
    BY Zenon DEF Init, NothingSpent
  <1>4. TypeOK
    BY <1>1, <1>2, <1>3, BoundsAssumption, WordAssumption DEF Init, TypeOK, Times
  <1>5. CallsJudged
    BY Zenon DEF Init, CallsJudged
  <1>6. LedgerBacked
    BY <1>3, Zenon DEF LedgerBacked
  <1>7. NoOverAdmit
    BY <1>1, <1>3, NothingIsWithinBound, Zenon DEF NoOverAdmit
  <1> QED
    BY <1>4, <1>5, <1>6, <1>7 DEF IInv

\* The successful compare-and-swap, the one step that admits, keeps the invariant.
LEMMA CasAdmitIInv ==
    ASSUME IInv, NEW t \in Thread, CasAdmit(t)
    PROVE  IInv'
  <1> DEFINE n == need[t]
             ns == now[t]
  <1>1. /\ quota \in Quotas /\ tat \in 0..WordMax /\ ns \in Times /\ n \in Nat
        /\ n # 0 /\ ~Impossible(quota, n) /\ Conforms(quota, tat, n, ns)
    BY BoundsAssumption DEF IInv, TypeOK, CallsJudged, CasAdmit
  <1>2. tat' = NewTat(quota, tat, n, ns)
    BY Zenon DEF CasAdmit
  <1>3. /\ IntervalsAt(quota, ns) \in Nat
        /\ tat' \in 0..WordMax
        /\ tat' >= tat + n
        /\ tat' >= IntervalsAt(quota, ns) + n
        /\ tat' =< IntervalsAt(quota, ns) + quota.burst
    BY <1>1, <1>2, AdmitStep, Zenon
  <1>4. ~Closed(quota) /\ quota' = quota /\ quota.burst \in Nat
    BY <1>1, ParamsTypes, Zenon DEF Impossible, CasAdmit
  <1>5. spent' = Charge(spent, ns, n) /\ spent \in [Spans -> Nat]
    BY Zenon DEF CasAdmit, IInv, TypeOK
  <1>6. spent' \in [Spans -> Nat]
    BY <1>1, <1>5 DEF Charge
  <1>7. TypeOK'
    BY <1>3, <1>6, BoundsAssumption, WordAssumption
    DEF CasAdmit, Return, IInv, TypeOK, Times
  <1>8. CallsJudged'
    BY <1>4, Zenon DEF CasAdmit, Return, IInv, TypeOK, CallsJudged
  <1>9. ASSUME NEW w \in Spans
        PROVE  /\ spent'[w] = 0 \/ spent'[w] =< tat' - IntervalsAt(quota, w[1])
               /\ spent'[w] =< quota.burst + IntervalsAt(quota, w[2]) - IntervalsAt(quota, w[1])
    <2> DEFINE a == IntervalsAt(quota, w[1])
               b == IntervalsAt(quota, w[2])
               i == IntervalsAt(quota, ns)
    <2>1. w[1] \in Times /\ w[2] \in Times /\ w[1] =< w[2]
      BY Zenon DEF Spans
    <2>2. w[1] \in Readings /\ w[2] \in Readings /\ ns \in Readings
      BY <1>1, <2>1, TimesAreReadings, Zenon
    <2>3. a \in Nat /\ b \in Nat
      <3>1. w[2] =< w[2]
        BY <2>2, WordAssumption DEF Readings
      <3> QED
        BY <1>1, <1>4, <2>1, <2>2, <3>1, IntervalsMonotone, Zenon
    <2>4. w[1] =< ns => a =< i
      BY <1>1, <1>4, <2>2, IntervalsMonotone, Zenon
    <2>5. ns =< w[2] => i =< b
      BY <1>1, <1>4, <2>2, IntervalsMonotone, Zenon
    <2>6. spent[w] \in Nat /\ tat \in Nat /\ tat' \in Nat
      BY <1>1, <1>3, <1>5, WordAssumption
    <2>7. spent[w] = 0 \/ spent[w] =< tat - a
      BY Zenon DEF IInv, LedgerBacked
    <2>8. spent[w] =< quota.burst + b - a
      BY <1>4, Zenon DEF IInv, NoOverAdmit
    <2>9. spent'[w] = IF w[1] =< ns /\ ns =< w[2] THEN spent[w] + n ELSE spent[w]
      BY <1>5, Zenon DEF Charge
    <2> HIDE DEF a, b, i, n, ns
    <2>10. CASE w[1] =< ns /\ ns =< w[2]
      <3>1. spent'[w] = spent[w] + n /\ a =< i /\ i =< b
        BY <2>4, <2>5, <2>9, <2>10, Zenon
      <3>2. i \in Nat /\ tat' >= i + n /\ tat' >= tat + n /\ tat' =< i + quota.burst
        BY <1>3, Zenon DEF i
      <3>3. spent[w] + n =< tat' - a
        BY <1>1, <2>3, <2>6, <2>7, <3>1, <3>2
      <3>4. spent[w] + n =< quota.burst + b - a
        BY <1>1, <1>4, <2>3, <2>6, <3>1, <3>2, <3>3
      <3> QED
        BY <3>1, <3>3, <3>4, Zenon DEF a, b
    <2>11. CASE ~(w[1] =< ns /\ ns =< w[2])
      <3>1. spent'[w] = spent[w]
        BY <2>9, <2>11, Zenon
      <3>2. spent[w] = 0 \/ spent[w] =< tat' - a
        BY <1>1, <1>3, <2>3, <2>6, <2>7
      <3> QED
        BY <2>8, <3>1, <3>2, Zenon DEF a, b
    <2> QED
      BY <2>10, <2>11, Zenon
  <1>10. LedgerBacked' /\ NoOverAdmit'
    BY <1>4, <1>9, Zenon DEF LedgerBacked, NoOverAdmit
  <1> QED
    BY <1>7, <1>8, <1>10 DEF IInv

\* A step that leaves the quota, the word and the ledger alone keeps what the
\* invariant says of them.
LEMMA LedgerUntouched ==
    ASSUME IInv, UNCHANGED <<quota, tat, spent>>
    PROVE  LedgerBacked' /\ NoOverAdmit'
  BY Zenon DEF IInv, LedgerBacked, NoOverAdmit

\* Every step of every thread, of the clock and of a reset keeps the invariant.
LEMMA NextIInv == IInv /\ [Next]_vars => IInv'
  <1> SUFFICES ASSUME IInv, [Next]_vars PROVE IInv'
    OBVIOUS
  <1> USE DEF IInv
  <1>1. CASE Tick
    <2>1. TypeOK'
      BY <1>1, BoundsAssumption DEF Tick, TypeOK, Times
    <2>2. CallsJudged'
      BY <1>1, Zenon DEF Tick, CallsJudged
    <2> QED
      BY <1>1, <2>1, <2>2, LedgerUntouched, Zenon DEF Tick
  <1>2. CASE Reset
    <2>1. spent' = NothingSpent /\ quota' = quota /\ quota \in Quotas
      BY <1>2, Zenon DEF Reset, TypeOK
    <2>2. TypeOK'
      BY <1>2, <2>1, BoundsAssumption, WordAssumption DEF Reset, TypeOK, NothingSpent
    <2>3. CallsJudged'
      BY <1>2, Zenon DEF Reset, CallsJudged
    <2>4. LedgerBacked'
      BY <2>1, Zenon DEF LedgerBacked, NothingSpent
    <2>5. NoOverAdmit'
      BY <2>1, NothingIsWithinBound, Zenon DEF NoOverAdmit, NothingSpent
    <2> QED
      BY <2>2, <2>3, <2>4, <2>5
  <1>3. ASSUME NEW t \in Thread, NEW n \in 0..MaxCost, Call(t, n)
        PROVE  IInv'
    <2>1. TypeOK'
      BY <1>3, Zenon DEF Call, TypeOK
    <2>2. CallsJudged'
      BY <1>3, Zenon DEF Call, CallsJudged, TypeOK
    <2> QED
      BY <1>3, <2>1, <2>2, LedgerUntouched, Zenon DEF Call
  <1>4. ASSUME NEW t \in Thread, ReturnEarly(t) \/ LoadDenied(t)
        PROVE  IInv'
    <2>1. TypeOK'
      BY <1>4, BoundsAssumption, WordAssumption DEF ReturnEarly, LoadDenied, Return, TypeOK, Times
    <2>2. CallsJudged'
      BY <1>4 DEF ReturnEarly, LoadDenied, Return, CallsJudged, TypeOK
    <2> QED
      BY <1>4, <2>1, <2>2, LedgerUntouched, Zenon DEF ReturnEarly, LoadDenied
  <1>5. ASSUME NEW t \in Thread, Enter(t)
        PROVE  IInv'
    <2>1. TypeOK'
      BY <1>5, Zenon DEF Enter, TypeOK
    <2>2. CallsJudged'
      BY <1>5, Zenon DEF Enter, CallsJudged, TypeOK
    <2> QED
      BY <1>5, <2>1, <2>2, LedgerUntouched, Zenon DEF Enter
  <1>6. ASSUME NEW t \in Thread, LoadConforming(t)
        PROVE  IInv'
    <2>1. TypeOK'
      BY <1>6, Zenon DEF LoadConforming, TypeOK
    <2>2. CallsJudged'
      BY <1>6, Zenon DEF LoadConforming, CallsJudged, TypeOK
    <2> QED
      BY <1>6, <2>1, <2>2, LedgerUntouched, Zenon DEF LoadConforming
  <1>7. ASSUME NEW t \in Thread, CasAdmit(t)
        PROVE  IInv'
    BY <1>7, CasAdmitIInv, Zenon
  <1>8. ASSUME NEW t \in Thread, CasFail(t) \/ CasFailSpuriously(t)
        PROVE  IInv'
    <2>1. TypeOK'
      BY <1>8, BoundsAssumption DEF CasFail, CasFailSpuriously, TypeOK
    <2>2. CallsJudged'
      BY <1>8 DEF CasFail, CasFailSpuriously, CallsJudged, TypeOK
    <2> QED
      BY <1>8, <2>1, <2>2, LedgerUntouched, Zenon DEF CasFail, CasFailSpuriously
  <1>9. CASE UNCHANGED vars
    <2>1. TypeOK'
      BY <1>9, Zenon DEF vars, TypeOK
    <2>2. CallsJudged'
      BY <1>9, Zenon DEF vars, CallsJudged
    <2> QED
      BY <1>9, <2>1, <2>2, LedgerUntouched, Zenon DEF vars
  <1> QED
    BY <1>1, <1>2, <1>3, <1>4, <1>5, <1>6, <1>7, <1>8, <1>9, Zenon DEF Next, Step

\* The invariant holds throughout, whatever the threads do.
THEOREM Invariance == Spec => []IInv
  <1> QED
    BY InitIInv, NextIInv, PTL DEF Spec

\* No interleaving of check_n calls, however stale their clock readings, admits
\* more in any span of time than the burst and the intervals elapsed in it.
THEOREM NeverOverAdmits == Spec => []NoOverAdmit
  <1>1. IInv => NoOverAdmit
    BY DEF IInv
  <1> QED
    BY Invariance, <1>1, PTL

\* The fixed-point reciprocal of intervals_at is exact in every state.
THEOREM IntervalsAlwaysExact == Spec => []IntervalsExact
  <1>1. IInv => IntervalsExact
    BY IntervalsAtExact, Zenon DEF IInv, TypeOK, IntervalsExact
  <1> QED
    BY Invariance, <1>1, PTL

-----------------------------------------------------------------------------
\* The word stays within a burst of the time.

\* A time that the model reaches is a reading, in intervals no later than the last.
LEMMA IntervalsByTime ==
    ASSUME NEW q \in Quotas, ~Closed(q), NEW ns \in Times
    PROVE  /\ IntervalsAt(q, ns) \in Nat /\ IntervalsAt(q, MaxTime) \in Nat
           /\ IntervalsAt(q, ns) =< IntervalsAt(q, MaxTime)
           /\ IntervalsAt(q, MaxTime) =< MaxTime
  <1>1. ns \in Readings /\ MaxTime \in Readings /\ ns =< MaxTime /\ MaxTime =< MaxTime
    BY TimesAreReadings, BoundsAssumption, WordAssumption DEF Times, Readings
  <1> QED
    BY <1>1, IntervalsMonotone, Zenon

\* A new or restored word is within a burst of the time.
LEMMA InitNear == Init => WordNear
  <1>1. SUFFICES ASSUME Init PROVE WordNear
    OBVIOUS
  <1>2. quota \in Quotas /\ quota.burst \in Nat /\ WordMax \in Nat /\ MaxTime \in Nat
    BY <1>1, ParamsTypes, WordAssumption, BoundsAssumption, Zenon DEF Init
  <1>3. ASSUME ~Closed(quota) PROVE tat =< IntervalsAt(quota, MaxTime) + quota.burst
    <2>1. quota.burst > 0
      BY <1>2, <1>3, ParamsTypes, Zenon
    <2>2. IntervalsAt(quota, MaxTime) \in Nat
      BY <1>2, <1>3, IntervalsByTime DEF Times
    <2>3. CASE tat = 0
      BY <1>2, <2>2, <2>3
    <2>4. ASSUME NEW until \in Times, tat = RestoreUntil(quota, 0, until)
          PROVE  tat =< IntervalsAt(quota, MaxTime) + quota.burst
      <3>1. IntervalsAt(quota, until) \in Nat /\ IntervalsAt(quota, until) =< IntervalsAt(quota, MaxTime)
        BY <1>2, <1>3, IntervalsByTime, Zenon
      <3>2. RestoreInterval(quota, until) \in Nat /\ RestoreInterval(quota, until) =< IntervalsAt(quota, until) + 1
        BY <1>2, <3>1 DEF RestoreInterval, SatAdd
      <3>3. tat = RestoreInterval(quota, until)
        BY <1>3, <2>4, <3>2 DEF RestoreUntil, Later
      <3> QED
        BY <1>2, <2>1, <2>2, <3>1, <3>2, <3>3
    <2> QED
      BY <1>1, <2>3, <2>4, Zenon DEF Init
  <1>4. clock = 0 /\ \A t \in Thread : now[t] = 0
    BY <1>1, Zenon DEF Init
  <1>5. \A t \in Thread : now[t] =< clock
    BY <1>4, 0 =< 0, Zenon
  <1> QED
    BY <1>3, <1>5, Zenon DEF WordNear

\* Every step keeps it there.
LEMMA NextNear == IInv /\ WordNear /\ [Next]_vars => WordNear'
  <1>1. SUFFICES ASSUME IInv, WordNear, [Next]_vars PROVE WordNear'
    OBVIOUS
  <1>2. /\ quota \in Quotas /\ quota' = quota /\ quota.burst \in Nat /\ tat \in Nat
        /\ now \in [Thread -> Times] /\ clock \in Nat /\ \A t \in Thread : now[t] \in Nat
    <2>1. TypeOK /\ quota \in Quotas
      BY <1>1, Zenon DEF IInv, TypeOK
    <2>2. quota.burst \in Nat /\ tat \in Nat
      BY <2>1, ParamsTypes, WordAssumption DEF TypeOK
    <2>3. quota' = quota
      BY <1>1, Zenon DEF Next, Step, vars, Tick, Reset, Call, ReturnEarly, Enter, LoadConforming, LoadDenied,
         CasAdmit, CasFail, CasFailSpuriously
    <2>4. now \in [Thread -> Times] /\ clock \in Nat /\ \A t \in Thread : now[t] \in Nat
      BY <2>1, BoundsAssumption DEF TypeOK, Times
    <2> QED
      BY <2>1, <2>2, <2>3, <2>4, Zenon
  <1>3. \A t \in Thread : now'[t] =< clock'
    <2>1. CASE Tick
      BY <1>1, <1>2, <2>1 DEF WordNear, Tick
    <2>2. CASE ~Tick
      BY <1>1, <1>2, <2>2 DEF WordNear, Next, Step, vars, Reset, Call, ReturnEarly, Enter, LoadConforming, LoadDenied,
                              CasAdmit, CasFail, CasFailSpuriously, Return
    <2> QED
      BY <2>1, <2>2
  <1>4. ASSUME ~Closed(quota) PROVE tat' =< IntervalsAt(quota, MaxTime) + quota.burst
    <2>1. ASSUME NEW t \in Thread, CasAdmit(t) PROVE tat' =< IntervalsAt(quota, MaxTime) + quota.burst
      <3>1. /\ now[t] \in Times /\ need[t] \in Nat /\ need[t] # 0 /\ ~Impossible(quota, need[t])
            /\ Conforms(quota, tat, need[t], now[t]) /\ tat \in 0..WordMax /\ tat = seen[t]
        BY <1>1, <2>1, BoundsAssumption DEF IInv, TypeOK, CallsJudged, CasAdmit
      <3>2. tat' \in Nat /\ tat' =< IntervalsAt(quota, now[t]) + quota.burst
        BY <1>2, <2>1, <3>1, AdmitStep, WordAssumption DEF CasAdmit
      <3>3. /\ IntervalsAt(quota, now[t]) \in Nat /\ IntervalsAt(quota, MaxTime) \in Nat
            /\ IntervalsAt(quota, now[t]) =< IntervalsAt(quota, MaxTime)
        BY <1>2, <1>4, <3>1, IntervalsByTime, Zenon
      <3> QED
        BY <1>2, <3>2, <3>3
    <2>2. CASE Reset
      <3>1. tat' = 0 /\ IntervalsAt(quota, MaxTime) \in Nat
        BY <1>2, <1>4, <2>2, IntervalsByTime, BoundsAssumption DEF Reset, Times
      <3> QED
        BY <1>2, <3>1
    <2>3. CASE ~Reset /\ ~\E t \in Thread : CasAdmit(t)
      <3>1. tat' = tat
        BY <1>1, <2>3, Zenon DEF Next, Step, vars, Tick, Call, ReturnEarly, Enter, LoadConforming, LoadDenied,
           CasFail, CasFailSpuriously
      <3> QED
        BY <1>1, <1>4, <3>1, Zenon DEF WordNear
    <2> QED
      BY <2>1, <2>2, <2>3, Zenon
  <1> QED
    BY <1>2, <1>3, <1>4, Zenon DEF WordNear, Closed, PerNs, LimitOf, IntervalsAt

-----------------------------------------------------------------------------
\* check_n is a step of an atomic bucket.

\* A thread inside check_n is in the middle of a check.
LEMMA CallingIs ==
    ASSUME TypeOK, NEW t \in Thread, pc[t] # "idle"
    PROVE  Atomic!Calling(t) /\ AtomicCall[t].n = need[t] /\ AtomicCall[t].now = now[t]
  <1>1. AtomicCall[t] = [n |-> need[t], now |-> now[t]]
    BY Zenon DEF AtomicCall
  <1>2. now[t] # -1
    BY TimesAreReadings DEF TypeOK
  <1> QED
    BY <1>1, <1>2 DEF Atomic!Calling, Atomic!NoCall

\* A thread that returns ends its check.
LEMMA ReturnAtomic == ASSUME TypeOK, NEW t \in Thread, Return(t) PROVE Atomic!Return(t)
  <1>1. AtomicCall' = [AtomicCall EXCEPT ![t] = Atomic!NoCall]
    BY Zenon DEF TypeOK, Return, AtomicCall, Atomic!NoCall
  <1> QED
    BY <1>1 DEF Atomic!Return

\* Every step is one of the atomic bucket, or leaves it alone.
LEMMA NextAtomic == IInv /\ WordNear /\ [Next]_vars => [Atomic!Next]_Atomic!vars
  <1>1. SUFFICES ASSUME IInv, WordNear, [Next]_vars PROVE [Atomic!Next]_Atomic!vars
    OBVIOUS
  <1>2. TypeOK /\ CallsJudged /\ clock \in Nat /\ \A t \in Thread : now[t] \in Nat /\ now[t] \in now[t]..clock
    <2>1. TypeOK /\ CallsJudged /\ \A t \in Thread : now[t] =< clock
      BY <1>1, Zenon DEF IInv, WordNear
    <2>2. clock \in Nat /\ \A t \in Thread : now[t] \in Nat
      BY <2>1, BoundsAssumption DEF TypeOK, Times
    <2> QED
      BY <2>1, <2>2
  <1>3. CASE Tick
    <2>1. AtomicState' = AtomicState /\ AtomicCall' = AtomicCall
      BY <1>3, Zenon DEF Tick, AtomicState, AtomicCall
    <2>2. clock' > clock
      BY <1>2, <1>3 DEF Tick
    <2> QED
      BY <2>1, <2>2, Zenon DEF Atomic!Next, Atomic!Tick
  <1>4. CASE Reset
    <2>1. AtomicState' = AtomicReset(AtomicState) /\ AtomicCall' = AtomicCall
      BY <1>4 DEF Reset, AtomicState, AtomicReset, AtomicCall
    <2> QED
      BY <1>4, <2>1, Zenon DEF Reset, Atomic!Next, Atomic!Reset
  <1>5. ASSUME NEW t \in Thread, NEW n \in 0..MaxCost, Call(t, n) PROVE Atomic!Next
    <2>1. AtomicState' = AtomicState /\ UNCHANGED clock /\ ~Atomic!Calling(t)
      BY <1>5, Zenon DEF Call, AtomicState, AtomicCall, Atomic!Calling, Atomic!NoCall
    <2>2. AtomicCall' = [AtomicCall EXCEPT ![t] = [n |-> n, now |-> clock]]
      BY <1>2, <1>5, Zenon DEF Call, TypeOK, AtomicCall
    <2>3. AtomicCall'[t].n = n
      BY <2>2, Zenon DEF AtomicCall
    <2>4. Atomic!Call(t)
      BY <2>1, <2>2, <2>3, Zenon DEF Atomic!Call
    <2> QED
      BY <2>4, Zenon DEF Atomic!Next
  <1>6. ASSUME NEW t \in Thread, ReturnEarly(t) \/ LoadDenied(t) PROVE Atomic!Next
    <2>1. /\ AtomicState' = AtomicState /\ UNCHANGED clock /\ Atomic!Return(t)
          /\ Atomic!Calling(t) /\ AtomicCall[t].n = need[t] /\ AtomicCall[t].now = now[t]
      BY <1>2, <1>6, CallingIs, ReturnAtomic, Zenon DEF ReturnEarly, LoadDenied, AtomicState
    <2>2. now[t] \in Atomic!Instants(t) /\ AtomicState.quota = quota /\ AtomicState.tat = tat
      BY <1>2, <2>1, Zenon DEF Atomic!Instants, AtomicState
    <2>3. CASE need[t] = 0
      <3>1. AtomicAdmits(AtomicState, 0, now[t]) /\ AtomicCharged(AtomicState, 0, now[t]) = AtomicState
        BY DEF AtomicAdmits, AtomicCharged
      <3>2. Atomic!Admit(t)
        BY <2>1, <2>2, <2>3, <3>1, Zenon DEF Atomic!Admit
      <3> QED
        BY <3>2 DEF Atomic!Next
    <2>4. CASE need[t] # 0
      <3>1. ~AtomicAdmits(AtomicState, need[t], now[t])
        BY <1>6, <2>2, <2>4, Zenon DEF AtomicAdmits, ReturnEarly, LoadDenied
      <3>2. Atomic!Deny(t)
        BY <2>1, <2>2, <3>1, Zenon DEF Atomic!Deny
      <3> QED
        BY <3>2 DEF Atomic!Next
    <2> QED
      BY <2>3, <2>4
  <1>7. ASSUME NEW t \in Thread, CasAdmit(t) PROVE Atomic!Next
    <2>1. /\ UNCHANGED clock /\ Atomic!Return(t)
          /\ Atomic!Calling(t) /\ AtomicCall[t].n = need[t] /\ AtomicCall[t].now = now[t]
      BY <1>2, <1>7, CallingIs, ReturnAtomic, Zenon DEF CasAdmit
    <2>2. now[t] \in Atomic!Instants(t) /\ AtomicState.quota = quota /\ AtomicState.tat = tat
      BY <1>2, <2>1, Zenon DEF Atomic!Instants, AtomicState
    <2>3. /\ need[t] # 0 /\ ~Impossible(quota, need[t]) /\ Conforms(quota, tat, need[t], now[t])
          /\ tat' = NewTat(quota, tat, need[t], now[t]) /\ quota' = quota
      BY <1>2, <1>7, Zenon DEF CallsJudged, CasAdmit
    <2>4. AtomicAdmits(AtomicState, need[t], now[t])
      BY <2>2, <2>3, Zenon DEF AtomicAdmits
    <2>5. AtomicState' = AtomicCharged(AtomicState, need[t], now[t])
      BY <2>3, Zenon DEF AtomicState, AtomicCharged
    <2>6. Atomic!Admit(t)
      BY <2>1, <2>2, <2>4, <2>5, Zenon DEF Atomic!Admit
    <2> QED
      BY <2>6 DEF Atomic!Next
  <1>8. ASSUME NEW t \in Thread, Enter(t) \/ LoadConforming(t) \/ CasFail(t) \/ CasFailSpuriously(t)
        PROVE  UNCHANGED Atomic!vars
    <2>1. AtomicState' = AtomicState /\ UNCHANGED clock
      BY <1>8, Zenon DEF Enter, LoadConforming, CasFail, CasFailSpuriously, AtomicState
    <2>2. AtomicCall' = AtomicCall
      BY <1>2, <1>8, Zenon DEF Enter, LoadConforming, CasFail, CasFailSpuriously, TypeOK, AtomicCall
    <2> QED
      BY <2>1, <2>2 DEF Atomic!vars
  <1>9. CASE UNCHANGED vars
    BY <1>9, Zenon DEF vars, Atomic!vars, AtomicState, AtomicCall
  <1> QED
    BY <1>1, <1>3, <1>4, <1>5, <1>6, <1>7, <1>8, <1>9, Zenon DEF Next, Step

\* However its loop is interleaved, check_n is one step of an atomic bucket, for
\* any number of threads (KeyState::acquire for Gcra).
THEOREM CheckIsAtomic == Spec => ImplementsAtomic
  <1>1. Init => Atomic!Init
    BY Zenon DEF Init, Atomic!Init, AtomicCall, Atomic!NoCall
  <1> QED
    BY <1>1, InitIInv, NextIInv, InitNear, NextNear, NextAtomic, PTL DEF Spec, ImplementsAtomic, Atomic!Spec

-----------------------------------------------------------------------------
\* nanos_at is the inverse of intervals_at.

\* A quotient rounded up is the least number whose product covers the dividend.
LEMMA CeilCovers ==
    ASSUME NEW a \in Nat, NEW b \in Nat, b > 0
    PROVE  /\ DivCeil(a, b) \in Nat
           /\ a =< DivCeil(a, b) * b
           /\ DivCeil(a, b) * b < a + b
  <1> DEFINE c == (a + (b - 1)) \div b
  <1>1. a + (b - 1) \in Nat
    OBVIOUS
  <1>2. c \in Nat /\ c * b =< a + (b - 1) /\ a + (b - 1) < (c + 1) * b
    BY <1>1, Quotient, Zenon
  <1> HIDE DEF c
  <1>3. (c + 1) * b = c * b + b /\ c * b \in Nat
    BY <1>2, ProductNext, Zenon
  <1>4. DivCeil(a, b) = c
    BY DEF DivCeil, c
  <1> QED
    BY <1>2, <1>3, <1>4

\* The instants at which so many intervals have passed begin at the quotient
\* rounded up.
LEMMA CeilInverse ==
    ASSUME NEW k \in Nat, NEW p \in Nat, NEW l \in Nat, l > 0, p > 0, NEW ns \in Nat
    PROVE  (ns * l) \div p >= k <=> ns >= DivCeil(k * p, l)
  <1> DEFINE c == DivCeil(k * p, l)
  <1>1. k * p \in Nat /\ ns * l \in Nat
    OBVIOUS
  <1>2. c \in Nat /\ k * p =< c * l /\ c * l < k * p + l
    BY <1>1, CeilCovers, Zenon
  <1>3. (ns * l) \div p >= k <=> ns * l >= k * p
    BY <1>1, FloorAtLeast, Zenon
  <1> HIDE DEF c
  <1>4. c * l \in Nat
    BY <1>2
  <1>5. ASSUME ns >= c PROVE ns * l >= k * p
    <2>1. c * l =< ns * l
      BY <1>2, <1>5, ProductMonotone, Zenon
    <2> QED
      BY <1>1, <1>2, <1>4, <2>1
  <1>6. ASSUME ns < c PROVE ns * l < k * p
    <2>1. (ns + 1) * l =< c * l
      BY <1>2, <1>6, ProductMonotone, ns + 1 \in Nat
    <2>2. (ns + 1) * l = ns * l + l
      BY ProductNext, Zenon
    <2> QED
      BY <1>1, <1>2, <1>4, <2>1, <2>2
  <1> QED
    BY <1>1, <1>2, <1>3, <1>5, <1>6 DEF c

\* No two intervals begin at the same nanosecond.
LEMMA CeilStep ==
    ASSUME NEW j \in Nat, NEW k \in Nat, j < k, NEW p \in Nat, NEW l \in Nat, l > 0, l =< p
    PROVE  DivCeil(j * p, l) < DivCeil(k * p, l)
  <1> DEFINE c == DivCeil(j * p, l)
             d == DivCeil(k * p, l)
  <1>1. j * p \in Nat /\ k * p \in Nat
    OBVIOUS
  <1>2. c \in Nat /\ d \in Nat /\ c * l < j * p + l /\ k * p =< d * l
    BY <1>1, CeilCovers, Zenon
  <1>3. (j + 1) * p =< k * p /\ (j + 1) * p = j * p + p
    BY ProductMonotone, ProductNext, j + 1 \in Nat
  <1> HIDE DEF c, d
  <1>4. c * l < d * l
    BY <1>1, <1>2, <1>3, c * l \in Nat, d * l \in Nat
  <1>5. c < d
    BY <1>2, <1>4, ProductCancel, Zenon
  <1> QED
    BY <1>5, Zenon DEF c, d

\* The nanosecond at which an interval begins.
Begins(q, iv) == DivCeil(iv * q.period, LimitOf(q))

\* An open quota has a limit.
LEMMA OpenHasLimit ==
    ASSUME NEW q \in Quotas, ~Closed(q)
    PROVE  LimitOf(q) > 0 /\ LimitOf(q) \in Nat /\ q.period \in Nat /\ q.period > 0 /\ LimitOf(q) =< q.period
  <1>1. LimitOf(q) # 0
    BY Zenon DEF Closed, PerNs
  <1> QED
    BY <1>1, ParamsTypes

\* The intervals that have passed at a reading are those that have begun.
LEMMA BeginsExactly ==
    ASSUME NEW q \in Quotas, ~Closed(q), NEW iv \in Nat
    PROVE  /\ Begins(q, iv) \in Nat
           /\ \A ns \in Readings : IntervalsAt(q, ns) >= iv <=> ns >= Begins(q, iv)
           /\ \A less \in Nat : less < iv => Begins(q, less) \in Nat /\ Begins(q, less) < Begins(q, iv)
           /\ Begins(q, iv) =< WordMax => NanosAt(q, iv) = Begins(q, iv)
           /\ NanosAt(q, iv) \in Nat /\ NanosAt(q, iv) =< Begins(q, iv)
  <1>1. LimitOf(q) > 0 /\ LimitOf(q) \in Nat /\ q.period \in Nat /\ q.period > 0 /\ LimitOf(q) =< q.period
    BY OpenHasLimit, Zenon
  <1>2. \A k \in Nat : Begins(q, k) \in Nat
    <2>1. SUFFICES ASSUME NEW k \in Nat PROVE Begins(q, k) \in Nat
      BY Zenon
    <2> DEFINE p == q.period
               l == LimitOf(q)
    <2>2. p \in Nat /\ l \in Nat /\ l > 0 /\ Begins(q, k) = DivCeil(k * p, l)
      BY <1>1, Zenon DEF Begins
    <2> HIDE DEF p, l
    <2>3. k * p \in Nat
      BY <2>2
    <2> QED
      BY <2>2, <2>3, CeilCovers, Zenon
  <1>3. ASSUME NEW ns \in Readings PROVE IntervalsAt(q, ns) >= iv <=> ns >= Begins(q, iv)
    <2> DEFINE p == q.period
               l == LimitOf(q)
    <2>1. ns \in Nat /\ IntervalsAt(q, ns) = (ns * l) \div p /\ Begins(q, iv) = DivCeil(iv * p, l)
      BY IntervalsAtExact, WordAssumption DEF Readings, Begins
    <2>2. p \in Nat /\ l \in Nat /\ l > 0 /\ p > 0
      BY <1>1, Zenon
    <2> HIDE DEF p, l
    <2>3. (ns * l) \div p >= iv <=> ns >= DivCeil(iv * p, l)
      BY <2>1, <2>2, CeilInverse, Zenon
    <2> QED
      BY <2>1, <2>3, Zenon
  <1>4. ASSUME NEW less \in Nat, less < iv PROVE Begins(q, less) < Begins(q, iv)
    <2> DEFINE p == q.period
               l == LimitOf(q)
    <2>1. Begins(q, iv) = DivCeil(iv * p, l) /\ Begins(q, less) = DivCeil(less * p, l)
      BY Zenon DEF Begins
    <2>2. p \in Nat /\ l \in Nat /\ l > 0 /\ l =< p
      BY <1>1, Zenon
    <2> HIDE DEF p, l
    <2> QED
      BY <1>4, <2>1, <2>2, CeilStep, Zenon
  <1>5. NanosAt(q, iv) = IF Begins(q, iv) > WordMax THEN WordMax ELSE Begins(q, iv)
    BY Zenon DEF NanosAt, Begins
  <1>6. /\ Begins(q, iv) =< WordMax => NanosAt(q, iv) = Begins(q, iv)
        /\ NanosAt(q, iv) \in Nat /\ NanosAt(q, iv) =< Begins(q, iv)
    BY <1>2, <1>5, WordAssumption
  <1> QED
    BY <1>2, <1>3, <1>4, <1>6, Zenon

-----------------------------------------------------------------------------
\* What the bucket answers.

\* A request conforms from the interval at which enough of the burst is back.
LEMMA ConformsFrom ==
    ASSUME NEW q \in Quotas, ~Closed(q), NEW word \in Nat, NEW n \in Nat, n # 0, n - 1 =< Tolerance(q),
           word + Tolerance(q) =< WordMax, NEW ns \in Readings
    PROVE  Conforms(q, word, n, ns) <=> word + (n - 1) - Tolerance(q) =< IntervalsAt(q, ns)
  <1> DEFINE iv == IntervalsAt(q, ns)
             tol == Tolerance(q)
  <1>1. iv \in Nat /\ tol \in Nat /\ WordMax \in Nat
    BY IntervalsMonotone, ParamsTypes, WordAssumption DEF Readings
  <1>2. Conforms(q, word, n, ns) <=> SatAdd(Later(word, iv), n - 1) =< SatAdd(iv, tol)
    BY Zenon DEF Conforms, Effective
  <1>3. n - 1 =< tol /\ word + tol =< WordMax
    BY Zenon
  <1> HIDE DEF iv, tol
  <1>4. SatAdd(Later(word, iv), n - 1) =< SatAdd(iv, tol) <=> word + (n - 1) - tol =< iv
    BY <1>1, <1>3 DEF SatAdd, Later
  <1> QED
    BY <1>2, <1>4, Zenon DEF iv, tol

\* What a word within a burst of the time leaves room for.
LEMMA NearFits ==
    ASSUME NEW q \in Quotas, ~Closed(q), NEW word \in Nat, word =< IntervalsAt(q, MaxTime) + q.burst
    PROVE  /\ word + Tolerance(q) =< WordMax
           /\ \A ns \in Times : /\ ns \in Readings /\ IntervalsAt(q, ns) \in Nat
                                /\ SatAdd(IntervalsAt(q, ns), Tolerance(q) + 1) = IntervalsAt(q, ns) + q.burst
           /\ Tolerance(q) \in Nat /\ q.burst \in Nat /\ Tolerance(q) = q.burst - 1
  <1>1. q.burst \in Nat /\ Tolerance(q) \in Nat /\ Tolerance(q) = q.burst - 1
    BY ParamsTypes, Zenon
  <1>2. /\ MaxTime \in Nat /\ WordMax \in Nat /\ MaxTime + 2 * q.burst =< WordMax /\ MaxTime \in Times
    BY BoundsAssumption, WordAssumption DEF Times
  <1>3. IntervalsAt(q, MaxTime) \in Nat /\ IntervalsAt(q, MaxTime) =< MaxTime
    BY <1>2, IntervalsByTime, Zenon
  <1>4. word + Tolerance(q) =< WordMax
    BY <1>1, <1>2, <1>3
  <1>5. ASSUME NEW ns \in Times
        PROVE  /\ ns \in Readings /\ IntervalsAt(q, ns) \in Nat
               /\ SatAdd(IntervalsAt(q, ns), Tolerance(q) + 1) = IntervalsAt(q, ns) + q.burst
    <2>1. IntervalsAt(q, ns) \in Nat /\ IntervalsAt(q, ns) =< MaxTime
      <3>1. IntervalsAt(q, ns) \in Nat /\ IntervalsAt(q, ns) =< IntervalsAt(q, MaxTime)
        BY IntervalsByTime, Zenon
      <3> QED
        BY <1>2, <1>3, <3>1
    <2> QED
      BY <1>1, <1>2, <2>1, TimesAreReadings DEF SatAdd
  <1> QED
    BY <1>1, <1>4, <1>5, Zenon

\* Such a word is reached by the clock.
LEMMA NearBegins ==
    ASSUME RefillsInTime, NEW q \in Quotas, ~Closed(q), NEW iv \in Nat, iv =< IntervalsAt(q, MaxTime) + q.burst
    PROVE  /\ Begins(q, iv) \in Nat /\ Begins(q, iv) \in Readings /\ NanosAt(q, iv) = Begins(q, iv)
           /\ \A ns \in Readings : IntervalsAt(q, ns) >= iv <=> ns >= Begins(q, iv)
  <1> DEFINE top == IntervalsAt(q, MaxTime) + q.burst
  <1>1. top \in Nat
    BY IntervalsByTime, ParamsTypes, BoundsAssumption DEF Times
  <1>2. Begins(q, top) < Scale
    BY Zenon DEF RefillsInTime, Begins
  <1>3. iv =< top
    BY Zenon
  <1> HIDE DEF top
  <1>4. Begins(q, iv) \in Nat /\ Begins(q, top) \in Nat /\ Begins(q, iv) =< Begins(q, top)
    <2>1. Begins(q, iv) \in Nat /\ Begins(q, top) \in Nat
      BY <1>1, BeginsExactly, Zenon
    <2>2. iv < top => Begins(q, iv) < Begins(q, top)
      BY <1>1, BeginsExactly, Zenon
    <2>3. iv = top \/ iv < top
      BY <1>1, <1>3
    <2> QED
      BY <2>1, <2>2, <2>3
  <1>5. Begins(q, iv) \in Readings /\ Begins(q, iv) =< WordMax
    BY <1>2, <1>4, WordAssumption DEF Readings
  <1> QED
    BY <1>4, <1>5, BeginsExactly, Zenon

\* The wait of a denial ends exactly when the request conforms.
LEMMA RetryHonest ==
    ASSUME RefillsInTime, NEW q \in Quotas, ~Closed(q), NEW word \in Nat, word =< IntervalsAt(q, MaxTime) + q.burst,
           NEW ns \in Times, NEW n \in Nat, n # 0, ~Impossible(q, n), ~Conforms(q, word, n, ns)
    PROVE  /\ RetryAfter(q, word, n, ns) \in Nat
           /\ Conforms(q, word, n, ns + RetryAfter(q, word, n, ns))
           /\ \A early \in 1..RetryAfter(q, word, n, ns) - 1 : ~Conforms(q, word, n, ns + early)
  <1> DEFINE tol == Tolerance(q)
             iv == IntervalsAt(q, ns)
             ready == word + (n - 1) - tol
             end == Begins(q, ready)
             wait == RetryAfter(q, word, n, ns)
  <1>1. /\ word + tol =< WordMax /\ ns \in Readings /\ iv \in Nat /\ tol \in Nat /\ WordMax \in Nat /\ Scale \in Nat
    BY NearFits, WordAssumption, Zenon
  <1>2. n - 1 =< tol
    BY <1>1 DEF Impossible
  <1>3. \A m \in Readings : Conforms(q, word, n, m) <=> ready =< IntervalsAt(q, m)
    BY <1>1, <1>2, ConformsFrom, Zenon
  <1>4. ready > iv /\ ready \in Nat /\ ready =< word
    BY <1>1, <1>2, <1>3
  <1>5. ready =< IntervalsAt(q, MaxTime) + q.burst
    <2>1. IntervalsAt(q, MaxTime) + q.burst \in Nat
      BY IntervalsByTime, ParamsTypes, BoundsAssumption DEF Times
    <2> QED
      BY <1>4, <2>1
  <1>6. /\ end \in Nat /\ end \in Readings /\ NanosAt(q, ready) = end
        /\ \A m \in Readings : IntervalsAt(q, m) >= ready <=> m >= end
    <2> HIDE DEF ready
    <2> QED
      BY <1>4, <1>5, NearBegins, Zenon
  <1>7. ns \in Nat /\ ns < end
    BY <1>1, <1>4, <1>6 DEF Readings
  <1>8. wait = end - ns
    <2>1. Effective(q, word, ns) = word
      BY <1>1, <1>2, <1>4 DEF Effective, Later
    <2>2. SatAdd(word, n - 1) - tol = ready
      BY <1>1, <1>2 DEF SatAdd
    <2>3. wait = Later(SatSub(NanosAt(q, ready), ns), 1)
      BY <2>1, <2>2, Zenon DEF RetryAfter
    <2> HIDE DEF end, ready, wait
    <2> QED
      BY <1>6, <1>7, <2>3 DEF SatSub, Later
  <1> HIDE DEF end, ready, wait
  <1>9. ns + wait = end /\ wait \in Nat
    BY <1>6, <1>7, <1>8
  <1>10. \A m \in Readings : m \in Nat /\ IntervalsAt(q, m) \in Nat
    BY IntervalsMonotone, WordAssumption DEF Readings
  <1>11. Conforms(q, word, n, ns + wait)
    BY <1>3, <1>4, <1>6, <1>9, <1>10
  <1>12. ASSUME NEW early \in 1..wait - 1 PROVE ~Conforms(q, word, n, ns + early)
    <2>1. ns + early \in Readings /\ ns + early < end /\ ns + early \in Nat
      BY <1>1, <1>6, <1>7, <1>9 DEF Readings
    <2> QED
      BY <1>3, <1>4, <1>6, <1>10, <2>1
  <1> QED
    BY <1>9, <1>11, <1>12, Zenon DEF wait

\* peek agrees with the check and with is_full.
LEMMA SnapshotHonest ==
    ASSUME RefillsInTime, NEW q \in Quotas, ~Closed(q), NEW word \in Nat, word =< IntervalsAt(q, MaxTime) + q.burst,
           NEW ns \in Times
    PROVE  /\ \A n \in 1..q.burst : Conforms(q, word, n, ns) <=> n =< Remaining(q, word, ns)
           /\ IsFull(q, word, ns + ResetAfter(q, word, ns))
           /\ \A early \in 0..ResetAfter(q, word, ns) - 1 : ~IsFull(q, word, ns + early)
  <1> DEFINE tol == Tolerance(q)
             burst == q.burst
             iv == IntervalsAt(q, ns)
             wait == ResetAfter(q, word, ns)
             end == Begins(q, word)
  <1>1. /\ word + tol =< WordMax /\ ns \in Readings /\ iv \in Nat /\ tol \in Nat /\ burst \in Nat /\ tol = burst - 1
        /\ SatAdd(iv, tol + 1) = iv + burst /\ ns \in Nat /\ WordMax \in Nat /\ Scale \in Nat
    BY NearFits, WordAssumption, TimesAreReadings, Zenon
  <1>2. ASSUME NEW n \in 1..burst PROVE Conforms(q, word, n, ns) <=> n =< Remaining(q, word, ns)
    <2>1. n \in Nat /\ n # 0 /\ n - 1 =< tol
      BY <1>1
    <2>2. Conforms(q, word, n, ns) <=> word + (n - 1) - tol =< iv
      BY <1>1, <2>1, ConformsFrom, Zenon
    <2>3. Remaining(q, word, ns) = LET left == SatSub(iv + burst, Later(word, iv)) IN IF left > tol + 1 THEN tol + 1 ELSE left
      BY <1>1, Zenon DEF Remaining, Effective
    <2> HIDE DEF iv, tol, burst
    <2>4. word + (n - 1) - tol =< iv <=> n =< Remaining(q, word, ns)
      BY <1>1, <2>1, <2>3 DEF SatSub, Later
    <2> QED
      BY <2>2, <2>4, Zenon
  <1>3. /\ end \in Nat /\ end \in Readings /\ NanosAt(q, word) = end
        /\ \A m \in Readings : IntervalsAt(q, m) >= word <=> m >= end
    BY NearBegins, Zenon
  <1>4. \A m \in Readings : m \in Nat /\ IntervalsAt(q, m) \in Nat
    BY IntervalsMonotone, WordAssumption DEF Readings
  <1> HIDE DEF end
  <1>5. \A m \in Readings : IsFull(q, word, m) <=> m >= end
    <2>1. SUFFICES ASSUME NEW m \in Readings PROVE IsFull(q, word, m) <=> m >= end
      BY Zenon
    <2>2. IsFull(q, word, m) <=> word =< IntervalsAt(q, m)
      BY Zenon DEF IsFull
    <2> QED
      BY <1>3, <1>4, <2>2, Zenon
  <1>6. CASE word =< iv
    <2>1. wait = 0
      BY <1>1, <1>6 DEF ResetAfter, Effective, Later
    <2> HIDE DEF wait
    <2>2. IsFull(q, word, ns + wait) /\ 0..wait - 1 = {}
      BY <1>1, <1>6, <2>1 DEF IsFull
    <2> QED
      BY <1>2, <2>2, Zenon DEF wait, burst
  <1>7. CASE word > iv
    <2>1. ns < end
      BY <1>1, <1>3, <1>7
    <2>2. wait = end - ns
      <3>1. Effective(q, word, ns) = word /\ word # iv
        BY <1>1, <1>7 DEF Effective, Later
      <3>2. wait = SatSub(end, ns)
        BY <1>3, <3>1, Zenon DEF ResetAfter
      <3> HIDE DEF wait
      <3> QED
        BY <1>1, <1>3, <2>1, <3>2 DEF SatSub
    <2> HIDE DEF wait
    <2>3. ns + wait = end /\ wait \in Nat
      BY <1>1, <1>3, <2>1, <2>2
    <2>4. IsFull(q, word, ns + wait)
      BY <1>3, <1>5, <2>3
    <2>5. ASSUME NEW early \in 0..wait - 1 PROVE ~IsFull(q, word, ns + early)
      <3>1. ns + early \in Readings /\ ns + early < end /\ ns + early \in Nat
        BY <1>1, <1>3, <2>3 DEF Readings
      <3> QED
        BY <1>3, <1>5, <3>1
    <2> QED
      BY <1>2, <2>4, <2>5, Zenon DEF wait, burst
  <1> QED
    BY <1>1, <1>6, <1>7

\* A bucket restored from a deadline is raised to the first interval that begins
\* no earlier.
LEMMA RestoreHonest ==
    ASSUME NEW q \in Quotas, ~Closed(q), NEW until \in Readings
    PROVE  /\ \A ns \in 0..until - 1 : ~IsFull(q, RestoreUntil(q, 0, until), ns)
           /\ \A lower \in 0..RestoreUntil(q, 0, until) - 1 : NanosAt(q, lower) < until
  <1> DEFINE floor == IntervalsAt(q, until)
             word == RestoreUntil(q, 0, until)
  <1>1. /\ floor \in Nat /\ floor =< until /\ until \in Nat /\ until =< WordMax /\ WordMax \in Nat /\ Scale \in Nat
    BY IntervalsMonotone, WordAssumption DEF Readings
  <1>2. \A m \in 0..until - 1 : /\ m \in Readings /\ IntervalsAt(q, m) \in Nat /\ IntervalsAt(q, m) =< floor
                                /\ \A w : IsFull(q, w, m) <=> w =< IntervalsAt(q, m)
    <2>1. SUFFICES ASSUME NEW m \in 0..until - 1
                   PROVE  /\ m \in Readings /\ IntervalsAt(q, m) \in Nat /\ IntervalsAt(q, m) =< floor
                          /\ \A w : IsFull(q, w, m) <=> w =< IntervalsAt(q, m)
      BY Zenon
    <2>2. m \in Readings /\ m =< until
      BY <1>1 DEF Readings
    <2>3. IntervalsAt(q, m) \in Nat /\ IntervalsAt(q, m) =< floor
      BY <2>2, IntervalsMonotone, Zenon
    <2> QED
      BY <2>2, <2>3, Zenon DEF IsFull
  <1>3. /\ Begins(q, floor) \in Nat /\ Begins(q, floor) =< until
        /\ NanosAt(q, floor) = Begins(q, floor)
        /\ \A m \in Readings : IntervalsAt(q, m) >= floor <=> m >= Begins(q, floor)
    <2>1. /\ Begins(q, floor) \in Nat
          /\ \A m \in Readings : IntervalsAt(q, m) >= floor <=> m >= Begins(q, floor)
          /\ Begins(q, floor) =< WordMax => NanosAt(q, floor) = Begins(q, floor)
      <3> HIDE DEF floor
      <3> QED
        BY <1>1, BeginsExactly, Zenon
    <2>2. floor >= floor
      BY <1>1
    <2>3. Begins(q, floor) =< until
      BY <1>1, <2>1, <2>2, Zenon
    <2> QED
      BY <1>1, <2>1, <2>3
  <1>4. \A less \in Nat : /\ NanosAt(q, less) \in Nat
                          /\ less < floor => NanosAt(q, less) < Begins(q, floor)
    <2>1. SUFFICES ASSUME NEW less \in Nat
                   PROVE  /\ NanosAt(q, less) \in Nat
                          /\ less < floor => NanosAt(q, less) < Begins(q, floor)
      BY Zenon
    <2>2. NanosAt(q, less) \in Nat /\ NanosAt(q, less) =< Begins(q, less) /\ Begins(q, less) \in Nat
      BY BeginsExactly, Zenon
    <2>3. less < floor => Begins(q, less) < Begins(q, floor)
      <3> HIDE DEF floor
      <3> QED
        BY <1>1, BeginsExactly, Zenon
    <2> QED
      BY <1>3, <2>2, <2>3
  <1>5. CASE NanosAt(q, floor) >= until
    <2>1. word = floor
      BY <1>1, <1>5 DEF RestoreUntil, RestoreInterval, Later
    <2>2. Begins(q, floor) = until
      BY <1>1, <1>3, <1>5
    <2> HIDE DEF word, floor
    <2>3. ASSUME NEW m \in 0..until - 1 PROVE ~IsFull(q, word, m)
      <3>1. m \in Readings /\ m < until /\ m \in Nat /\ IntervalsAt(q, m) \in Nat
        BY <1>1, <1>2
      <3>2. ~(IntervalsAt(q, m) >= floor)
        BY <1>1, <1>3, <2>2, <3>1
      <3> QED
        BY <1>1, <1>2, <2>1, <3>1, <3>2, Zenon
    <2>4. ASSUME NEW lower \in 0..word - 1 PROVE NanosAt(q, lower) < until
      <3>1. lower \in Nat /\ lower < floor
        BY <1>1, <2>1
      <3>2. NanosAt(q, lower) < Begins(q, floor)
        BY <1>4, <3>1
      <3> QED
        BY <2>2, <3>2
    <2> QED
      BY <2>3, <2>4, Zenon DEF word
  <1>6. CASE ~(NanosAt(q, floor) >= until)
    <2>1. Begins(q, floor) < until
      BY <1>1, <1>3, <1>6
    <2>2. floor < until
      <3>1. SUFFICES ASSUME floor = until PROVE FALSE
        BY <1>1
      <3>2. ~(IntervalsAt(q, Begins(q, floor)) < floor)
        <4>1. Begins(q, floor) \in Readings
          BY <1>1, <1>3, WordAssumption DEF Readings
        <4>2. IntervalsAt(q, Begins(q, floor)) \in Nat
          BY <4>1, IntervalsMonotone, <1>3, Zenon
        <4>3. IntervalsAt(q, Begins(q, floor)) >= floor
          BY <1>3, <4>1
        <4> QED
          BY <1>1, <4>2, <4>3
      <3>3. Begins(q, floor) \in Readings /\ IntervalsAt(q, Begins(q, floor)) =< Begins(q, floor)
        <4>1. Begins(q, floor) \in Readings /\ Begins(q, floor) =< Begins(q, floor)
          BY <1>1, <1>3, WordAssumption DEF Readings
        <4> QED
          BY <4>1, IntervalsMonotone, Zenon
      <3>4. IntervalsAt(q, Begins(q, floor)) \in Nat
        BY <1>3, <3>3, IntervalsMonotone, Zenon
      <3> QED
        BY <1>1, <1>3, <2>1, <3>1, <3>2, <3>3, <3>4
    <2>3. word = floor + 1
      <3>1. SatAdd(floor, 1) = floor + 1
        BY <1>1, <2>2 DEF SatAdd
      <3> QED
        BY <1>1, <1>6, <3>1 DEF RestoreUntil, RestoreInterval, Later
    <2> HIDE DEF word, floor
    <2>4. ASSUME NEW m \in 0..until - 1 PROVE ~IsFull(q, word, m)
      BY <1>1, <1>2, <2>3
    <2>5. ASSUME NEW lower \in 0..word - 1 PROVE NanosAt(q, lower) < until
      <3>1. lower \in Nat /\ (lower = floor \/ lower < floor)
        BY <1>1, <2>3
      <3>2. NanosAt(q, lower) \in Nat /\ (lower < floor => NanosAt(q, lower) < Begins(q, floor))
        BY <1>4, <3>1, Zenon
      <3>3. NanosAt(q, floor) < until
        BY <1>3, <2>1, Zenon
      <3>4. lower < floor => NanosAt(q, lower) < until
        BY <1>1, <1>3, <2>1, <3>2
      <3> QED
        BY <3>1, <3>3, <3>4
    <2> QED
      BY <2>4, <2>5, Zenon DEF word
  <1> QED
    BY <1>5, <1>6, Zenon

\* What a state within the bounds answers.
LEMMA NearAnswers == RefillsInTime /\ IInv /\ WordNear => AnswersExact
  <1>1. SUFFICES ASSUME RefillsInTime, IInv, WordNear, ~Closed(quota)
                 PROVE  /\ \A ns \in Times : RetryExact(ns) /\ SnapshotExact(ns)
                        /\ \A until \in Readings : RestoreExact(until)
    BY Zenon DEF AnswersExact
  <1>2. quota \in Quotas /\ tat \in Nat /\ tat =< IntervalsAt(quota, MaxTime) + quota.burst
    BY <1>1, WordAssumption DEF IInv, TypeOK, WordNear
  <1>3. ASSUME NEW ns \in Times PROVE RetryExact(ns)
    <2>1. SUFFICES ASSUME NEW n \in 1..MaxCost, ~Impossible(quota, n), ~Conforms(quota, tat, n, ns)
                   PROVE  /\ Conforms(quota, tat, n, ns + RetryAfter(quota, tat, n, ns))
                          /\ \A early \in 1..RetryAfter(quota, tat, n, ns) - 1 : ~Conforms(quota, tat, n, ns + early)
      BY Zenon DEF RetryExact
    <2>2. n \in Nat /\ n # 0
      BY BoundsAssumption
    <2> QED
      BY <1>1, <1>2, <2>1, <2>2, RetryHonest, Zenon
  <1>4. ASSUME NEW ns \in Times PROVE SnapshotExact(ns)
    BY <1>1, <1>2, SnapshotHonest, Zenon DEF SnapshotExact
  <1>5. ASSUME NEW until \in Readings PROVE RestoreExact(until)
    BY <1>1, <1>2, RestoreHonest, Zenon DEF RestoreExact
  <1> QED
    BY <1>3, <1>4, <1>5

\* Where a burst comes back within the readings of the clock, retry_after is
\* honest and tight, peek agrees with check_n and is_full, and an evicted key
\* gains nothing, in every state that any number of threads reach.
THEOREM AnswersAlwaysExact == RefillsInTime /\ Spec => []AnswersExact
  <1>1. RefillsInTime => []RefillsInTime
    <2>1. RefillsInTime => RefillsInTime'
      BY Zenon DEF RefillsInTime
    <2> QED
      BY <2>1, PTL
  <1> QED
    BY <1>1, InitIInv, NextIInv, InitNear, NextNear, NearAnswers, PTL DEF Spec
=============================================================================
