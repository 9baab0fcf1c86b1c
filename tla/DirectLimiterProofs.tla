------------------------ MODULE DirectLimiterProofs -------------------------
(***************************************************************************)
(* Proofs about the limiter of DirectLimiter, built of either sliding      *)
(* window, for every set of threads, every quota and every bound on time:  *)
(* what each step of the counter preserves, then the theorems about the    *)
(* limiter.  LogProofs holds what is said of the log.                      *)
(***************************************************************************)
EXTENDS LogProofs

\* The time the provers have for a leaf, in seconds.
USE SMTT(30), ZenonT(30)

-----------------------------------------------------------------------------
\* The counter's windows.

Counts == [window : Nat, prev : Nat, curr : Nat]

\* The fixed window in which a caller arrives.
Number(q, s, ns) == Counter!Arrival(q, s, ns) \div q.period

\* A caller arrives in the state's window or a later one, at its offset.
LEMMA Arrives ==
    ASSUME NEW q \in Open, NEW s \in Counts, NEW ns \in Nat
    PROVE  /\ q.limit \in Nat /\ q.period \in Nat /\ q.period > 0
           /\ s.window \in Nat /\ s.prev \in Nat /\ s.curr \in Nat /\ s.window * q.period \in Nat
           /\ Counter!Arrival(q, s, ns) \in Nat /\ Counter!Arrival(q, s, ns) >= ns
           /\ Counter!Arrival(q, s, ns) >= s.window * q.period
           /\ ns >= s.window * q.period => Counter!Arrival(q, s, ns) = ns
           /\ Number(q, s, ns) \in Nat /\ Number(q, s, ns) >= s.window
           /\ Number(q, s, ns) * q.period \in Nat
           /\ Number(q, s, ns) * q.period =< Counter!Arrival(q, s, ns)
           /\ Counter!Arrival(q, s, ns) < Number(q, s, ns) * q.period + q.period
           /\ Counter!Offset(q, s, ns) = Counter!Arrival(q, s, ns) - Number(q, s, ns) * q.period
           /\ Counter!Offset(q, s, ns) \in Nat /\ Counter!Offset(q, s, ns) < q.period
  <1> DEFINE p == q.period
             w == s.window
             a == Counter!Arrival(q, s, ns)
             x == a \div p
  <1>1. q.limit \in Nat /\ p \in Nat /\ p > 0 /\ w \in Nat /\ s.prev \in Nat /\ s.curr \in Nat
    BY DEF Open, Counts
  <1>2. a = IF ns < w * p THEN w * p ELSE ns
    BY Zenon DEF Counter!Arrival, Counter!Later
  <1>3. Number(q, s, ns) = x /\ Counter!Offset(q, s, ns) = a % p
    BY Zenon DEF Number, Counter!Offset
  <1> HIDE DEF p, w, a
  <1>4. w * p \in Nat
    BY <1>1
  <1>5. a \in Nat /\ a >= ns /\ a >= w * p /\ (ns >= w * p => a = ns)
    BY <1>2, <1>4
  <1>6. x \in Nat /\ x * p =< a /\ a < (x + 1) * p
    BY <1>1, <1>5, Quotient, Zenon
  <1>7. a % p \in 0..p - 1 /\ a = x * p + (a % p)
    BY <1>1, <1>5, Remainder, Zenon
  <1> HIDE DEF x
  <1>8. (x + 1) * p = x * p + p /\ x * p \in Nat
    BY <1>1, <1>6, ProductNext, Zenon
  <1>9. x >= w
    <2>1. w * p < (x + 1) * p
      BY <1>1, <1>4, <1>5, <1>6, <1>8
    <2>2. w < x + 1
      BY <1>1, <1>6, <2>1, ProductCancel, x + 1 \in Nat, Zenon
    <2> QED
      BY <1>1, <1>6, <2>2
  <1>10. a % p = a - x * p /\ a % p \in Nat /\ a % p < p
    BY <1>1, <1>5, <1>7, <1>8
  <1> QED
    BY <1>1, <1>3, <1>4, <1>5, <1>6, <1>8, <1>9, <1>10, Zenon DEF p, w, a

\* Rolling forward keeps a count for one window after its own.
LEMMA RollIs ==
    ASSUME NEW q \in Open, NEW s \in Counts, NEW ns \in Nat
    PROVE  /\ Counter!Roll(q, s, ns) \in Counts
           /\ Counter!Roll(q, s, ns).window = Number(q, s, ns)
           /\ Number(q, s, ns) = s.window => Counter!Roll(q, s, ns) = s
           /\ Number(q, s, ns) = s.window + 1 =>
                Counter!Roll(q, s, ns) = [window |-> Number(q, s, ns), prev |-> s.curr, curr |-> 0]
           /\ Number(q, s, ns) > s.window + 1 =>
                Counter!Roll(q, s, ns) = [window |-> Number(q, s, ns), prev |-> 0, curr |-> 0]
  <1> DEFINE x == Number(q, s, ns)
  <1>1. x \in Nat /\ x >= s.window /\ s.window \in Nat /\ s.prev \in Nat /\ s.curr \in Nat
    BY Arrives, Zenon
  <1>2. Counter!Roll(q, s, ns) = IF x > s.window
                                 THEN [window |-> x, prev |-> IF x = s.window + 1 THEN s.curr ELSE 0, curr |-> 0]
                                 ELSE s
    BY Zenon DEF Counter!Roll, Number
  <1> HIDE DEF x
  <1>3. CASE x = s.window
    BY <1>1, <1>2, <1>3 DEF x
  <1>4. CASE x = s.window + 1
    <2>1. Counter!Roll(q, s, ns) = [window |-> x, prev |-> s.curr, curr |-> 0]
      BY <1>1, <1>2, <1>4
    <2>2. x # s.window /\ ~(x > s.window + 1)
      BY <1>1, <1>4
    <2> QED
      BY <1>1, <2>1, <2>2 DEF x, Counts
  <1>5. CASE x > s.window + 1
    <2>1. Counter!Roll(q, s, ns) = [window |-> x, prev |-> 0, curr |-> 0]
      BY <1>1, <1>2, <1>5
    <2>2. x # s.window /\ x # s.window + 1
      BY <1>1, <1>5
    <2> QED
      BY <1>1, <2>1, <2>2 DEF x, Counts
  <1> QED
    BY <1>1, <1>3, <1>4, <1>5

\* In the state's own window nothing changes.
LEMMA RollSame ==
    ASSUME NEW q \in Open, NEW s \in Counts, NEW ns \in Nat, Number(q, s, ns) = s.window
    PROVE  Counter!Roll(q, s, ns) = s
  BY RollIs, Zenon

\* In the next, the count begins to fade.
LEMMA RollOne ==
    ASSUME NEW q \in Open, NEW s \in Counts, NEW ns \in Nat, Number(q, s, ns) = s.window + 1
    PROVE  Counter!Roll(q, s, ns) = [window |-> Number(q, s, ns), prev |-> s.curr, curr |-> 0]
  BY RollIs, Zenon

\* In any later one, it is gone.
LEMMA RollFar ==
    ASSUME NEW q \in Open, NEW s \in Counts, NEW ns \in Nat, Number(q, s, ns) > s.window + 1
    PROVE  Counter!Roll(q, s, ns) = [window |-> Number(q, s, ns), prev |-> 0, curr |-> 0]
  BY RollIs, Zenon

\* Rolling forward twice is rolling forward once.
LEMMA RollTwice ==
    ASSUME NEW q \in Open, NEW s \in Counts, NEW a \in Nat, NEW b \in Nat,
           b >= a \/ b >= Number(q, s, a) * q.period
    PROVE  /\ Counter!Roll(q, Counter!Roll(q, s, a), b) = Counter!Roll(q, s, b)
           /\ Counter!Arrival(q, Counter!Roll(q, s, a), b) = Counter!Arrival(q, s, b)
  <1> DEFINE r == Counter!Roll(q, s, a)
             x == Number(q, s, a)
             p == q.period
  <1>1. CASE x = s.window
    <2>1. r = s
      BY <1>1, RollIs, Zenon
    <2> QED
      BY <2>1, Zenon
  <1>2. CASE x # s.window
    <2>1. /\ r \in Counts /\ r.window = x /\ x > s.window /\ x \in Nat /\ s.window \in Nat
          /\ p \in Nat /\ p > 0 /\ x * p \in Nat /\ s.window * p \in Nat
          /\ x * p =< Counter!Arrival(q, s, a)
      <3>1. r \in Counts /\ r.window = x
        BY RollIs, Zenon
      <3>2. /\ x >= s.window /\ x \in Nat /\ s.window \in Nat
            /\ p \in Nat /\ p > 0 /\ x * p \in Nat /\ s.window * p \in Nat
            /\ x * p =< Counter!Arrival(q, s, a)
        BY Arrives, Zenon
      <3> QED
        BY <1>2, <3>1, <3>2
    <2>2. s.window * p < x * p
      <3> DEFINE w == s.window
      <3>1. w \in Nat /\ w + 1 =< x
        BY <2>1
      <3> HIDE DEF w, x, p
      <3>2. (w + 1) * p =< x * p /\ (w + 1) * p = w * p + p
        BY <2>1, <3>1, ProductMonotone, ProductNext, w + 1 \in Nat, Zenon
      <3> QED
        BY <2>1, <3>1, <3>2, w * p \in Nat DEF w
    <2>3. b >= x * p
      <3>1. Counter!Arrival(q, s, a) = a
        BY <2>1, <2>2 DEF Counter!Arrival, Counter!Later
      <3> QED
        BY <2>1, <3>1
    <2>4. Counter!Arrival(q, r, b) = b /\ Counter!Arrival(q, s, b) = b
      <3>1. b >= s.window * p /\ b >= r.window * p
        BY <2>1, <2>2, <2>3
      <3> QED
        BY <2>1, <3>1, Arrives, Zenon
    <2> DEFINE y == Number(q, s, b)
    <2>5. Number(q, r, b) = y /\ y \in Nat /\ y >= x
      <3>1. Number(q, r, b) = y
        BY <2>4, Zenon DEF Number
      <3>2. Number(q, r, b) \in Nat /\ Number(q, r, b) >= r.window
        BY <2>1, Arrives, Zenon
      <3> QED
        BY <2>1, <3>1, <3>2, Zenon
    <2> HIDE DEF r, y
    <2>6. CASE x = s.window + 1
      <3>1. r = [window |-> x, prev |-> s.curr, curr |-> 0]
        BY <2>6, RollOne, Zenon DEF r
      <3>2. CASE y = x
        <4>1. Counter!Roll(q, r, b) = r
          BY <2>1, <2>5, <3>2, RollSame, Zenon
        <4>2. Counter!Roll(q, s, b) = [window |-> y, prev |-> s.curr, curr |-> 0]
          BY <2>6, <3>2, RollOne, Zenon DEF y
        <4> QED
          BY <2>4, <3>1, <3>2, <4>1, <4>2, Zenon DEF r
      <3>3. CASE y > x
        <4>1. Counter!Roll(q, s, b) = [window |-> y, prev |-> 0, curr |-> 0]
          <5>1. y > s.window + 1
            BY <2>1, <2>5, <2>6, <3>3, Zenon
          <5> QED
            BY <5>1, RollFar, Zenon DEF y
        <4>2. Counter!Roll(q, r, b) = [window |-> y, prev |-> 0, curr |-> 0]
          <5>1. r.curr = 0
            BY <3>1, Zenon
          <5>2. CASE y = r.window + 1
            BY <2>1, <2>5, <5>1, <5>2, RollOne
          <5>3. CASE y > r.window + 1
            BY <2>1, <2>5, <5>3, RollFar, Zenon
          <5> QED
            BY <2>1, <2>5, <3>3, <5>2, <5>3
        <4> QED
          BY <2>4, <4>1, <4>2, Zenon DEF r
      <3> QED
        BY <2>1, <2>5, <3>2, <3>3
    <2>7. CASE x > s.window + 1
      <3>1. r = [window |-> x, prev |-> 0, curr |-> 0]
        BY <2>7, RollFar, Zenon DEF r
      <3>2. Counter!Roll(q, s, b) = [window |-> y, prev |-> 0, curr |-> 0]
        <4>1. y > s.window + 1
          BY <2>1, <2>5, <2>7
        <4> QED
          BY <4>1, RollFar, Zenon DEF y
      <3>3. CASE y = x
        <4>1. Counter!Roll(q, r, b) = r
          BY <2>1, <2>5, <3>3, RollSame, Zenon
        <4> QED
          BY <2>4, <3>1, <3>2, <3>3, <4>1, Zenon DEF r
      <3>4. CASE y > x
        <4>1. Counter!Roll(q, r, b) = [window |-> y, prev |-> 0, curr |-> 0]
          <5>1. r.curr = 0
            BY <3>1, Zenon
          <5>2. CASE y = r.window + 1
            BY <2>1, <2>5, <5>1, <5>2, RollOne
          <5>3. CASE y > r.window + 1
            BY <2>1, <2>5, <5>3, RollFar, Zenon
          <5> QED
            BY <2>1, <2>5, <3>4, <5>2, <5>3
        <4> QED
          BY <2>4, <3>2, <4>1, Zenon DEF r
      <3> QED
        BY <2>1, <2>5, <3>3, <3>4
    <2> QED
      BY <2>1, <2>6, <2>7
  <1> QED
    BY <1>1, <1>2, Zenon

-----------------------------------------------------------------------------
\* The counts and the ledger.

\* A span is two instants, in order.
LEMMA SpanTypes ==
    /\ \A w \in Counter!Spans : /\ w[1] \in Nat /\ w[2] \in Nat /\ w[1] =< w[2] /\ w[2] =< MaxTime
    /\ <<0, MaxTime>> \in Counter!Spans /\ MaxTime \in Nat
    /\ Log!Spans = Counter!Spans /\ Log!Times = Counter!Times
  <1>1. MaxTime \in Nat
    BY BoundsAssumption, Zenon
  <1> QED
    BY <1>1 DEF Counter!Spans, Counter!Times, Log!Spans, Log!Times

\* Rolled counts cover as much.
LEMMA RollCovers ==
    ASSUME NEW q \in Open, NEW s \in Counts, NEW ns \in Nat, NEW ledger \in Ledgers, Counter!Covers(q, s, ledger)
    PROVE  Counter!Covers(q, Counter!Roll(q, s, ns), ledger)
  <1> DEFINE x == Number(q, s, ns)
             p == q.period
             v == s.window
             r == Counter!Roll(q, s, ns)
  <1>1. x \in Nat /\ x >= v /\ v \in Nat /\ p \in Nat /\ p > 0 /\ x * p \in Nat /\ v * p \in Nat /\ s.prev \in Nat /\ s.curr \in Nat
    BY Arrives, Zenon
  <1>2. /\ \A w \in Counter!Spans : /\ w[1] \in Nat /\ ledger[w] \in Nat
                                    /\ w[1] >= v * p + p => ledger[w] = 0
                                    /\ w[1] >= v * p => ledger[w] =< s.curr
        /\ s.prev + s.curr =< ledger[<<0, MaxTime>>] /\ ledger[<<0, MaxTime>>] \in Nat
    BY SpanTypes, Zenon DEF Counter!Covers, Ledgers
  <1>3. CASE x = v
    BY <1>3, RollSame, Zenon
  <1>4. CASE x = v + 1
    <2>1. r.window = x /\ r.prev = s.curr /\ r.curr = 0
      BY <1>4, RollOne
    <2>2. x * p = v * p + p
      <3> HIDE DEF x, v, p
      <3> QED
        BY <1>1, <1>4, ProductNext, Zenon
    <2> SUFFICES /\ \A w \in Counter!Spans :
                    /\ w[1] >= x * p + p => ledger[w] = 0
                    /\ w[1] >= x * p => ledger[w] =< 0
                    /\ w[1] + p >= x * p => ledger[w] =< s.curr + 0
                 /\ s.curr + 0 =< ledger[<<0, MaxTime>>]
      BY <2>1, Zenon DEF Counter!Covers
    <2> HIDE DEF x, v, p
    <2>3. \A w \in Counter!Spans : /\ w[1] >= x * p + p => ledger[w] = 0
                                   /\ w[1] >= x * p => ledger[w] =< 0
                                   /\ w[1] + p >= x * p => ledger[w] =< s.curr + 0
      BY <1>1, <1>2, <2>2
    <2> QED
      BY <1>1, <1>2, <2>3
  <1>5. CASE x > v + 1
    <2>1. r.window = x /\ r.prev = 0 /\ r.curr = 0
      BY <1>5, RollFar
    <2>2. x * p >= v * p + p + p
      <3> HIDE DEF x, v, p
      <3>1. ((v + 1) + 1) * p =< x * p
        BY <1>1, <1>5, ProductMonotone, (v + 1) + 1 \in Nat
      <3>2. ((v + 1) + 1) * p = (v + 1) * p + p /\ (v + 1) * p = v * p + p
        BY <1>1, ProductNext, v + 1 \in Nat, Zenon
      <3> QED
        BY <1>1, <3>1, <3>2, Zenon
    <2> SUFFICES /\ \A w \in Counter!Spans :
                    /\ w[1] >= x * p + p => ledger[w] = 0
                    /\ w[1] >= x * p => ledger[w] =< 0
                    /\ w[1] + p >= x * p => ledger[w] =< 0 + 0
                 /\ 0 + 0 =< ledger[<<0, MaxTime>>]
      BY <2>1, Zenon DEF Counter!Covers
    <2> HIDE DEF x, v, p
    <2>3. \A w \in Counter!Spans : /\ w[1] >= x * p + p => ledger[w] = 0
                                   /\ w[1] >= x * p => ledger[w] =< 0
                                   /\ w[1] + p >= x * p => ledger[w] =< 0 + 0
      BY <1>1, <1>2, <2>2
    <2> QED
      BY <1>2, <2>3
  <1> QED
    BY <1>1, <1>3, <1>4, <1>5

\* Charged counts cover the charged ledger.
LEMMA AdmitCovers ==
    ASSUME NEW q \in Open, NEW s \in Counts, NEW ledger \in Ledgers, Counter!Covers(q, s, ledger), NEW n \in Nat,
           NEW a \in Nat, s.window * q.period =< a, a < s.window * q.period + q.period, a =< MaxTime
    PROVE  /\ Counter!Covers(q, [s EXCEPT !.curr = @ + n], Counter!Charge(ledger, a, n))
           /\ Counter!Charge(ledger, a, n) \in Ledgers
  <1> DEFINE p == q.period
             b == s.window * p
             new == Counter!Charge(ledger, a, n)
             r == [s EXCEPT !.curr = @ + n]
  <1>1. b \in Nat /\ p \in Nat /\ p > 0 /\ s.prev \in Nat /\ s.curr \in Nat
    BY DEF Open, Counts
  <1>2. r.window = s.window /\ r.prev = s.prev /\ r.curr = s.curr + n
    BY Zenon DEF Counts
  <1>3. \A w \in Counter!Spans : /\ w[1] \in Nat /\ w[2] \in Nat /\ ledger[w] \in Nat
                                 /\ w[1] >= b + p => ledger[w] = 0
                                 /\ w[1] >= b => ledger[w] =< s.curr
                                 /\ w[1] + p >= b => ledger[w] =< s.prev + s.curr
    BY SpanTypes, Zenon DEF Counter!Covers, Ledgers
  <1>4. s.prev + s.curr =< ledger[<<0, MaxTime>>] /\ ledger[<<0, MaxTime>>] \in Nat
    BY SpanTypes, Zenon DEF Counter!Covers, Ledgers
  <1>5. \A w \in Counter!Spans : new[w] = IF w[1] =< a /\ a =< w[2] THEN ledger[w] + n ELSE ledger[w]
    BY Zenon DEF Counter!Charge
  <1>6. new[<<0, MaxTime>>] = ledger[<<0, MaxTime>>] + n
    BY <1>5, SpanTypes
  <1>7. b =< a /\ a < b + p
    BY Zenon
  <1>8. new \in Ledgers
    BY <1>3 DEF Ledgers, Counter!Charge
  <1> SUFFICES /\ \A w \in Counter!Spans :
                    /\ w[1] >= b + p => new[w] = 0
                    /\ w[1] >= b => new[w] =< s.curr + n
                    /\ w[1] + p >= b => new[w] =< s.prev + (s.curr + n)
               /\ s.prev + (s.curr + n) =< new[<<0, MaxTime>>]
    BY <1>2, <1>8, Zenon DEF Counter!Covers
  <1> HIDE DEF b, p, new
  <1>9. ASSUME NEW w \in Counter!Spans
        PROVE  /\ w[1] >= b + p => new[w] = 0
               /\ w[1] >= b => new[w] =< s.curr + n
               /\ w[1] + p >= b => new[w] =< s.prev + (s.curr + n)
    BY <1>1, <1>3, <1>5, <1>7
  <1> QED
    BY <1>1, <1>4, <1>6, <1>9

\* A ledger within the bound of the counter.
Bounded(q, ledger) ==
    \A w \in Counter!Spans :
        w[2] - w[1] < q.period => ledger[w] * q.period =< q.limit * (q.period + (w[2] % q.period))

\* What fits keeps the ledger within the bound.
LEMMA AdmitBounded ==
    ASSUME NEW q \in Open, NEW s \in Counts, NEW ledger \in Ledgers, Counter!Covers(q, s, ledger), NEW n \in Nat,
           NEW a \in Nat, s.window * q.period =< a, a < s.window * q.period + q.period,
           s.prev =< q.limit, Counter!Fits(q, s, a - s.window * q.period, n), Bounded(q, ledger)
    PROVE  /\ Bounded(q, Counter!Charge(ledger, a, n))
           /\ s.curr + n =< q.limit
  <1> DEFINE p == q.period
             l == q.limit
             v == s.window
             b == v * p
             o == a - b
             prev == s.prev
             curr == s.curr
             new == Counter!Charge(ledger, a, n)
  <1>1. /\ v \in Nat /\ b \in Nat /\ p \in Nat /\ p > 0 /\ l \in Nat /\ prev \in Nat /\ curr \in Nat
        /\ prev =< l /\ b =< a /\ a < b + p
    BY DEF Open, Counts
  <1>2. prev * (p - o) + curr * p + n * p =< l * p
    BY Zenon DEF Counter!Fits, Counter!Weighted
  <1>3. ASSUME NEW w \in Counter!Spans, w[2] - w[1] < p PROVE new[w] * p =< l * (p + (w[2] % p))
    <2> DEFINE e == w[2] % p
               k == w[2] \div p
    <2>1. /\ w[1] \in Nat /\ w[2] \in Nat /\ w[1] =< w[2] /\ ledger[w] \in Nat
          /\ w[1] >= b => ledger[w] =< curr
          /\ w[1] + p >= b => ledger[w] =< prev + curr
          /\ ledger[w] * p =< l * (p + e)
      BY <1>3, SpanTypes, Zenon DEF Counter!Covers, Ledgers, Bounded
    <2>2. new[w] = IF w[1] =< a /\ a =< w[2] THEN ledger[w] + n ELSE ledger[w]
      BY Zenon DEF Counter!Charge
    <2>3. e \in 0..p - 1 /\ w[2] = k * p + e
      BY <1>1, <2>1, Remainder, Zenon
    <2>4. k \in Nat
      BY <1>1, <2>1, Quotient, Zenon
    <2> DEFINE f == w[1]
               g == w[2]
               old == ledger[w]
               now1 == new[w]
    <2>5. g - f < p /\ f \in Nat /\ g \in Nat /\ f =< g /\ old \in Nat
      BY <1>3, <2>1, Zenon
    <2> HIDE DEF p, l, v, o, prev, curr, new, e, k
    <2>6. CASE f =< a /\ a =< g /\ g < b + p
      <3>1. now1 =< (prev + curr) + n /\ now1 \in Nat
        BY <1>1, <2>1, <2>2, <2>5, <2>6 DEF b
      <3>2. k = v
        <4>1. v * p =< g /\ g < (v + 1) * p
          BY <1>1, <2>5, <2>6, ProductNext DEF b
        <4> QED
          BY <1>1, <2>5, <4>1, QuotientUnique, Zenon DEF k
      <3>3. o =< e /\ o \in Nat /\ e \in Nat /\ o < p
        BY <1>1, <2>3, <2>5, <2>6, <3>2 DEF b, o
      <3>4. now1 * p =< ((prev + curr) + n) * p
        BY <1>1, <3>1, ProductMonotone, (prev + curr) + n \in Nat, Zenon
      <3>5. ((prev + curr) + n) * p = (prev * (p - o) + curr * p + n * p) + prev * o
        BY <1>1, <3>3
      <3>6. prev * o =< l * e
        <4>1. prev * o =< l * o
          BY <1>1, <3>3, ProductMonotone, Zenon
        <4>2. o * l =< e * l
          BY <1>1, <3>3, ProductMonotone, Zenon
        <4>3. o * l = l * o /\ e * l = l * e /\ prev * o \in Nat /\ l * o \in Nat /\ l * e \in Nat
          BY <1>1, <3>3
        <4> QED
          BY <4>1, <4>2, <4>3
      <3>7. l * (p + e) = l * p + l * e
        BY <1>1, <3>3
      <3>8. /\ now1 * p \in Nat /\ prev * o \in Nat /\ l * e \in Nat /\ l * p \in Nat
            /\ prev * (p - o) + curr * p + n * p \in Int
        BY <1>1, <3>1, <3>3
      <3> HIDE DEF now1
      <3> QED
        BY <1>2, <3>4, <3>5, <3>6, <3>7, <3>8 DEF now1, e
    <2>7. CASE f =< a /\ a =< g /\ g >= b + p
      <3>1. now1 =< curr + n /\ now1 \in Nat
        BY <1>1, <2>1, <2>2, <2>5, <2>7 DEF b
      <3>2. now1 * p =< (curr + n) * p /\ (curr + n) * p = curr * p + n * p
        BY <1>1, <3>1, ProductMonotone, curr + n \in Nat
      <3>3. o \in Nat /\ p - o \in Nat
        BY <1>1 DEF b, o
      <3>4. prev * (p - o) \in Nat /\ curr * p \in Nat /\ n * p \in Nat /\ l * p \in Nat /\ l * e \in Nat /\ now1 * p \in Nat
        BY <1>1, <2>3, <3>1, <3>3
      <3>5. l * (p + e) = l * p + l * e
        BY <1>1, <2>3
      <3> HIDE DEF now1
      <3> QED
        BY <1>2, <3>2, <3>4, <3>5 DEF now1, e
    <2>8. CASE ~(f =< a /\ a =< g)
      BY <2>1, <2>2, <2>8, Zenon DEF e
    <2> QED
      BY <1>1, <2>5, <2>6, <2>7, <2>8 DEF b, p, l, e, new
  <1>4. curr + n =< l
    <2> HIDE DEF p, l, o, prev, curr
    <2>1. o \in Nat /\ p - o \in Nat
      BY <1>1 DEF o
    <2>2. prev * (p - o) \in Nat /\ curr * p \in Nat /\ n * p \in Nat /\ l * p \in Nat
      BY <1>1, <2>1
    <2>3. (curr + n) * p = curr * p + n * p /\ (l + 1) * p = l * p + p
      BY <1>1
    <2>4. (curr + n) * p < (l + 1) * p
      BY <1>1, <1>2, <2>2, <2>3
    <2>5. curr + n < l + 1
      BY <1>1, <2>4, ProductCancel, curr + n \in Nat, l + 1 \in Nat, Zenon
    <2> QED
      BY <1>1, <2>5
  <1> QED
    BY <1>3, <1>4, Zenon DEF Bounded

-----------------------------------------------------------------------------
\* The counter at work.

\* The types of a state of the counter.
LEMMA CounterTypes ==
    ASSUME Counter!IInv
    PROVE  /\ quota \in Quotas /\ quota.limit \in Nat /\ quota.period \in Nat
           /\ ~Counter!DenyAll(quota) => quota \in Open
           /\ state \in Counts /\ state.prev =< quota.limit /\ state.curr =< quota.limit
           /\ spent \in Ledgers /\ clock \in Nat /\ clock =< MaxTime /\ MaxTime \in Nat
           /\ \A t \in Thread : now[t] \in Nat /\ now[t] =< clock
           /\ state.window * quota.period =< clock
  <1>1. Counter!TypeOK /\ Counter!Begun
    BY Zenon DEF Counter!IInv
  <1>2. MaxTime \in Nat /\ quota \in Quotas /\ quota \in [limit : Nat, period : Nat]
    BY <1>1, BoundsAssumption, QuotasAssumption, Zenon DEF Counter!TypeOK
  <1>3. quota.limit \in Nat /\ quota.period \in Nat
    BY <1>2, Zenon
  <1>4. ~Counter!DenyAll(quota) => quota \in Open
    BY <1>2, <1>3, Zenon DEF Counter!DenyAll, Open
  <1>5. state \in Counts /\ state.prev =< quota.limit /\ state.curr =< quota.limit
    <2>1. state \in [window : Counter!Times, prev : 0..quota.limit, curr : 0..quota.limit]
      BY <1>1, Zenon DEF Counter!TypeOK
    <2>2. Counter!Times \subseteq Nat /\ 0..quota.limit \subseteq Nat
      BY <1>2, <1>3 DEF Counter!Times
    <2>3. state \in Counts
      BY <2>1, <2>2, Zenon DEF Counts
    <2>4. state.prev \in 0..quota.limit /\ state.curr \in 0..quota.limit
      BY <2>1, Zenon
    <2> QED
      BY <1>3, <2>3, <2>4
  <1>6. spent \in Ledgers /\ clock \in Nat /\ clock =< MaxTime
    BY <1>1, <1>2 DEF Counter!TypeOK, Counter!Times, Ledgers
  <1>7. \A t \in Thread : now[t] \in Nat /\ now[t] =< clock
    <2>1. now \in [Thread -> Counter!Times] /\ Counter!Times \subseteq Nat
      BY <1>1, <1>2 DEF Counter!TypeOK, Counter!Times
    <2>2. \A t \in Thread : now[t] =< clock
      BY <1>1, Zenon DEF Counter!Begun
    <2> QED
      BY <2>1, <2>2, Zenon
  <1>8. state.window * quota.period =< clock
    BY <1>1, Zenon DEF Counter!Begun
  <1> QED
    BY <1>2, <1>3, <1>4, <1>5, <1>6, <1>7, <1>8, Zenon

\* What a caller finds once the windows are rolled.
LEMMA CounterRolls ==
    ASSUME Counter!IInv, ~Counter!DenyAll(quota), NEW t \in Thread
    PROVE  LET r == Counter!Roll(quota, state, now[t])
               a == Counter!Arrival(quota, state, now[t])
           IN  /\ r \in Counts /\ r \in [window : Counter!Times, prev : 0..quota.limit, curr : 0..quota.limit]
               /\ r.window * quota.period =< clock /\ Counter!Covers(quota, r, spent)
               /\ a \in Nat /\ a =< MaxTime /\ r.window * quota.period =< a
               /\ a < r.window * quota.period + quota.period
               /\ Counter!Offset(quota, state, now[t]) = a - r.window * quota.period
  <1> DEFINE r == Counter!Roll(quota, state, now[t])
             a == Counter!Arrival(quota, state, now[t])
             x == Number(quota, state, now[t])
             p == quota.period
  <1>1. /\ quota \in Open /\ quota.limit \in Nat /\ state \in Counts /\ state.prev =< quota.limit
        /\ state.curr =< quota.limit /\ spent \in Ledgers /\ clock \in Nat /\ clock =< MaxTime /\ MaxTime \in Nat
        /\ now[t] \in Nat /\ now[t] =< clock /\ state.window * p =< clock
    BY CounterTypes, Zenon
  <1>2. Counter!Covers(quota, state, spent)
    BY Zenon DEF Counter!IInv
  <1>3. r \in Counts /\ r.window = x
    BY <1>1, RollIs, Zenon
  <1>4. Counter!Covers(quota, r, spent)
    BY <1>1, <1>2, RollCovers, Zenon
  <1>5. /\ p \in Nat /\ p > 0 /\ a \in Nat /\ x \in Nat /\ x * p \in Nat /\ x * p =< a /\ a < x * p + p
        /\ Counter!Offset(quota, state, now[t]) = a - x * p /\ state.window * p \in Nat /\ x >= state.window
        /\ state.window \in Nat /\ state.prev \in Nat /\ state.curr \in Nat
    BY <1>1, Arrives, Zenon
  <1>6. a =< clock
    <2>1. a = now[t] \/ a = state.window * p
      BY Zenon DEF Counter!Arrival, Counter!Later
    <2> QED
      BY <1>1, <2>1, Zenon
  <1>7. x \in Counter!Times
    <2> HIDE DEF x, a, p
    <2>1. 1 * x =< p * x
      BY <1>5, ProductMonotone
    <2>2. p * x = x * p /\ 1 * x = x
      BY <1>5
    <2>3. x =< MaxTime
      BY <1>1, <1>5, <1>6, <2>1, <2>2
    <2> QED
      BY <1>1, <1>5, <2>3 DEF Counter!Times
  <1>8. r.prev \in 0..quota.limit /\ r.curr \in 0..quota.limit
    <2>1. CASE x = state.window
      <3>1. r = state
        BY <1>1, <2>1, RollSame, Zenon
      <3>2. state.prev \in 0..quota.limit /\ state.curr \in 0..quota.limit
        BY <1>1, <1>5
      <3> QED
        BY <3>1, <3>2, Zenon
    <2>2. CASE x = state.window + 1
      <3>1. r.prev = state.curr /\ r.curr = 0
        BY <1>1, <2>2, RollOne
      <3> QED
        BY <1>1, <1>5, <3>1
    <2>3. CASE x > state.window + 1
      <3>1. r.prev = 0 /\ r.curr = 0
        BY <1>1, <2>3, RollFar
      <3> QED
        BY <1>1, <3>1
    <2>4. x = state.window \/ x = state.window + 1 \/ x > state.window + 1
      <3>1. x \in Nat /\ state.window \in Nat /\ x >= state.window
        BY <1>5, Zenon
      <3> HIDE DEF x
      <3> QED
        BY <3>1
    <2> QED
      BY <2>1, <2>2, <2>3, <2>4, Zenon
  <1>9. r \in [window : Counter!Times, prev : 0..quota.limit, curr : 0..quota.limit]
    BY <1>3, <1>7, <1>8, Zenon DEF Counts
  <1> HIDE DEF r, a, x
  <1>10. /\ r.window * p =< clock /\ a =< MaxTime
    BY <1>1, <1>3, <1>5, <1>6
  <1> QED
    BY <1>3, <1>4, <1>5, <1>9, <1>10, Zenon DEF r, a

\* A call that returns leaves its thread idle.
LEMMA CounterReturn ==
    ASSUME Counter!IInv, NEW t \in Thread, Counter!Return(t)
    PROVE  /\ call' \in [Thread -> {"idle", "acquire", "peek"}] /\ need' \in [Thread -> 0..MaxCost]
           /\ now' \in [Thread -> Counter!Times] /\ \A u \in Thread : now'[u] =< clock
  <1>1. Counter!TypeOK /\ \A u \in Thread : now[u] =< clock /\ clock \in Nat
    BY CounterTypes, Zenon DEF Counter!IInv
  <1>2. 0 \in Counter!Times /\ 0 \in 0..MaxCost /\ clock \in Nat
    BY CounterTypes, BoundsAssumption DEF Counter!Times
  <1>3. \A u \in Thread : now'[u] = now[u] \/ now'[u] = 0
    BY <1>1, Zenon DEF Counter!TypeOK, Counter!Return
  <1> QED
    BY <1>1, <1>2, <1>3 DEF Counter!TypeOK, Counter!Return

\* A ledger with nothing in it is within every bound.
LEMMA NothingBounded ==
    ASSUME NEW q \in Quotas, NEW ledger \in Ledgers, \A w \in Counter!Spans : ledger[w] = 0
    PROVE  Bounded(q, ledger)
  <1>1. q.limit \in Nat /\ q.period \in Nat
    BY QuotasAssumption, Zenon
  <1>2. ASSUME NEW w \in Counter!Spans, w[2] - w[1] < q.period
        PROVE  ledger[w] * q.period =< q.limit * (q.period + (w[2] % q.period))
    <2>1. w[1] \in Nat /\ w[2] \in Nat /\ w[1] =< w[2]
      BY SpanTypes, Zenon
    <2> DEFINE p == q.period
               l == q.limit
               e == w[2] % p
    <2>2. p \in Nat /\ p > 0 /\ l \in Nat
      BY <1>1, <1>2, <2>1
    <2>3. e \in 0..p - 1
      BY <2>1, <2>2, Remainder, Zenon
    <2>4. ledger[w] * p = 0
      BY <2>2
    <2> HIDE DEF p, l, e
    <2>5. l * (p + e) \in Nat
      BY <2>2, <2>3
    <2> QED
      BY <2>4, <2>5 DEF p, l, e
  <1> QED
    BY <1>2, Zenon DEF Bounded

\* Counts of nothing, as of a window that has begun.
LEMMA CounterFresh ==
    ASSUME NEW q \in Open, NEW s \in Counts, s.prev = 0, s.curr = 0
    PROVE  Counter!Covers(q, s, Counter!NothingSpent)
  <1>1. \A w \in Counter!Spans : Counter!NothingSpent[w] = 0
    BY Zenon DEF Counter!NothingSpent
  <1> QED
    BY <1>1, SpanTypes DEF Counter!Covers

\* The count of a new key.
LEMMA FreshIs ==
    ASSUME NEW q \in Quotas, NEW ns \in Counter!Times
    PROVE  /\ Counter!Fresh(q, ns) \in [window : Counter!Times, prev : 0..q.limit, curr : 0..q.limit]
           /\ Counter!Fresh(q, ns) \in Counts /\ Counter!Fresh(q, ns).prev = 0 /\ Counter!Fresh(q, ns).curr = 0
           /\ Counter!Fresh(q, ns).window * q.period =< ns
  <1> DEFINE p == q.period
             w == IF p = 0 THEN 0 ELSE ns \div p
  <1>1. q.limit \in Nat /\ p \in Nat /\ ns \in Nat /\ ns =< MaxTime /\ MaxTime \in Nat
    BY QuotasAssumption, BoundsAssumption DEF Counter!Times
  <1>2. Counter!Fresh(q, ns) = [window |-> w, prev |-> 0, curr |-> 0]
    BY Zenon DEF Counter!Fresh
  <1> HIDE DEF p
  <1>3. w \in Nat /\ w =< ns /\ w * p =< ns
    <2>1. CASE p = 0
      BY <1>1, <2>1
    <2>2. CASE p > 0
      <3>1. w \in Nat /\ w * p =< ns
        BY <1>1, <2>2, Quotient
      <3> HIDE DEF w
      <3>2. 1 * w =< p * w
        BY <1>1, <2>2, <3>1, ProductMonotone
      <3>3. p * w = w * p /\ 1 * w = w /\ w * p \in Nat
        BY <1>1, <3>1
      <3> QED
        BY <1>1, <3>1, <3>2, <3>3
    <2> QED
      BY <1>1, <2>1, <2>2
  <1> HIDE DEF w
  <1>4. w \in Counter!Times
    BY <1>1, <1>3 DEF Counter!Times
  <1>5. [window |-> w, prev |-> 0, curr |-> 0].window * p =< ns
    BY <1>3, Zenon
  <1> QED
    BY <1>1, <1>2, <1>3, <1>4, <1>5 DEF Counts, p

\* A counter starts with nothing on the ledger.
LEMMA CounterInit == Counter!Init => Counter!IInv
  <1>1. SUFFICES ASSUME Counter!Init PROVE Counter!IInv
    BY Zenon
  <1>2. quota \in Quotas /\ clock \in Counter!Times /\ clock \in Nat /\ MaxTime \in Nat
    BY <1>1, BoundsAssumption DEF Counter!Init, Counter!Times
  <1>3. state = Counter!Fresh(quota, clock) /\ spent = Counter!NothingSpent
    BY <1>1, Zenon DEF Counter!Init
  <1>4. /\ state \in [window : Counter!Times, prev : 0..quota.limit, curr : 0..quota.limit]
        /\ state \in Counts /\ state.prev = 0 /\ state.curr = 0 /\ state.window * quota.period =< clock
    BY <1>2, <1>3, FreshIs, Zenon
  <1>5. spent \in Ledgers /\ \A w \in Counter!Spans : spent[w] = 0
    BY <1>3, Zenon DEF Counter!NothingSpent, Ledgers
  <1>6. Counter!RollingBound
    BY <1>2, <1>5, NothingBounded, Zenon DEF Counter!RollingBound, Bounded
  <1>7. Counter!TypeOK
    <2>1. 0 \in Counter!Times /\ 0 \in 0..MaxCost /\ 0 \in 0..MaxResets
      BY BoundsAssumption DEF Counter!Times
    <2> QED
      BY <1>1, <1>2, <1>4, <1>5, <2>1, Zenon DEF Counter!Init, Counter!TypeOK, Ledgers
  <1>8. Counter!Begun
    <2>1. \A t \in Thread : now[t] = 0
      BY <1>1, Zenon DEF Counter!Init
    <2> QED
      BY <1>2, <1>4, <2>1 DEF Counter!Begun
  <1>9. ~Counter!DenyAll(quota) => Counter!Covers(quota, state, spent)
    <2>1. ASSUME ~Counter!DenyAll(quota) PROVE quota \in Open
      BY <1>2, <2>1, QuotasAssumption, Zenon DEF Counter!DenyAll, Open
    <2> QED
      BY <1>3, <1>4, <2>1, CounterFresh, Zenon
  <1> QED
    BY <1>3, <1>6, <1>7, <1>8, <1>9, Zenon DEF Counter!IInv

\* A caller that is admitted.
LEMMA CounterAdmit == ASSUME Counter!IInv, NEW t \in Thread, Counter!Admit(t) PROVE Counter!IInv'
  <1> DEFINE r == Counter!Roll(quota, state, now[t])
             a == Counter!Arrival(quota, state, now[t])
             n == need[t]
  <1>1. ~Counter!DenyAll(quota)
    BY Zenon DEF Counter!Admit, Counter!Impossible
  <1>2. /\ quota \in Quotas /\ quota \in Open /\ quota.limit \in Nat /\ spent \in Ledgers /\ n \in Nat /\ quota' = quota
        /\ clock' = clock /\ clock \in Nat /\ resets' = resets
    <2>1. Counter!TypeOK
      BY Zenon DEF Counter!IInv
    <2>2. n \in Nat
      BY <2>1, BoundsAssumption DEF Counter!TypeOK
    <2> QED
      BY <1>1, <2>2, CounterTypes, Zenon DEF Counter!Admit
  <1>3. /\ r \in Counts /\ r \in [window : Counter!Times, prev : 0..quota.limit, curr : 0..quota.limit]
        /\ r.window * quota.period =< clock /\ Counter!Covers(quota, r, spent)
        /\ a \in Nat /\ a =< MaxTime /\ r.window * quota.period =< a
        /\ a < r.window * quota.period + quota.period
        /\ Counter!Offset(quota, state, now[t]) = a - r.window * quota.period
    BY <1>1, CounterRolls, Zenon
  <1>4. /\ Counter!Fits(quota, r, a - r.window * quota.period, n)
        /\ state' = [r EXCEPT !.curr = @ + n] /\ spent' = Counter!Charge(spent, a, n)
        /\ Counter!Return(t)
    BY <1>3, Zenon DEF Counter!Admit
  <1> HIDE DEF r, a, n
  <1>5. Counter!Covers(quota, state', spent') /\ spent' \in Ledgers
    BY <1>2, <1>3, <1>4, AdmitCovers, Zenon
  <1>6. Bounded(quota, spent') /\ r.curr + n =< quota.limit
    <2>1. Bounded(quota, spent)
      BY Zenon DEF Counter!IInv, Counter!RollingBound, Bounded
    <2>2. r.prev =< quota.limit
      BY <1>2, <1>3
    <2> QED
      BY <1>2, <1>3, <1>4, <2>1, <2>2, AdmitBounded, Zenon
  <1>7. /\ state'.window = r.window
        /\ state' \in [window : Counter!Times, prev : 0..quota.limit, curr : 0..quota.limit]
    <2>1. r.curr + n \in 0..quota.limit
      BY <1>2, <1>3, <1>6
    <2> QED
      BY <1>3, <1>4, <2>1, Zenon
  <1>8. Counter!TypeOK'
    BY <1>2, <1>4, <1>5, <1>7, CounterReturn, Zenon DEF Counter!IInv, Counter!TypeOK, Ledgers
  <1>9. Counter!Begun'
    BY <1>2, <1>3, <1>4, <1>7, CounterReturn, Zenon DEF Counter!Begun
  <1>10. Counter!RollingBound'
    BY <1>2, <1>6, Zenon DEF Counter!RollingBound, Bounded
  <1>11. Counter!Covers(quota, state, spent)'
    BY <1>2, <1>5, Zenon DEF Counter!Covers
  <1> QED
    BY <1>1, <1>2, <1>8, <1>9, <1>10, <1>11, Zenon DEF Counter!IInv, Counter!DenyAll

\* A caller that is denied, or only looks.
LEMMA CounterLook ==
    ASSUME Counter!IInv, NEW t \in Thread, Counter!Deny(t) \/ Counter!Peek(t) PROVE Counter!IInv'
  <1> DEFINE r == Counter!Roll(quota, state, now[t])
  <1>1. ~Counter!DenyAll(quota)
    BY Zenon DEF Counter!Deny, Counter!Peek, Counter!Impossible
  <1>2. /\ quota' = quota /\ spent' = spent /\ clock' = clock /\ resets' = resets /\ state' = r /\ Counter!Return(t)
    BY Zenon DEF Counter!Deny, Counter!Peek
  <1>3. /\ r \in [window : Counter!Times, prev : 0..quota.limit, curr : 0..quota.limit]
        /\ r.window * quota.period =< clock /\ Counter!Covers(quota, r, spent)
    BY <1>1, CounterRolls, Zenon
  <1> HIDE DEF r
  <1>4. Counter!TypeOK'
    BY <1>2, <1>3, CounterReturn, Zenon DEF Counter!IInv, Counter!TypeOK
  <1>5. Counter!Begun'
    BY <1>2, <1>3, CounterReturn, Zenon DEF Counter!Begun
  <1>6. Counter!RollingBound'
    BY <1>2, Zenon DEF Counter!IInv, Counter!RollingBound
  <1>7. Counter!Covers(quota, state, spent)'
    BY <1>2, <1>3, Zenon DEF Counter!Covers
  <1> QED
    BY <1>1, <1>2, <1>4, <1>5, <1>6, <1>7, Zenon DEF Counter!IInv, Counter!DenyAll

\* Every step of the counter.
LEMMA CounterNext == Counter!IInv /\ Counter!Next => Counter!IInv'
  <1>1. SUFFICES ASSUME Counter!IInv, Counter!Next PROVE Counter!IInv'
    BY Zenon
  <1>2. /\ Counter!TypeOK /\ clock \in Nat /\ MaxTime \in Nat /\ state.window * quota.period =< clock
        /\ \A t \in Thread : now[t] \in Nat /\ now[t] =< clock
    BY <1>1, CounterTypes, Zenon DEF Counter!IInv
  <1>3. ASSUME /\ quota' = quota /\ state' = state /\ spent' = spent /\ Counter!TypeOK'
               /\ clock' >= clock /\ clock' \in Nat /\ \A t \in Thread : now'[t] =< clock'
        PROVE  Counter!IInv'
    <2>1. state'.window * quota'.period =< clock'
      <3> DEFINE z == state.window * quota.period
      <3>1. z =< clock /\ z \in Nat /\ z = state'.window * quota'.period
        BY <1>1, <1>2, <1>3, CounterTypes DEF Counts
      <3> HIDE DEF z
      <3> QED
        BY <1>2, <1>3, <3>1
    <2>2. Counter!Begun'
      BY <1>3, <2>1, Zenon DEF Counter!Begun
    <2>3. Counter!RollingBound' /\ (~Counter!DenyAll(quota)' => Counter!Covers(quota, state, spent)')
      BY <1>1, <1>3, Zenon DEF Counter!IInv, Counter!RollingBound, Counter!DenyAll, Counter!Covers
    <2> QED
      BY <1>1, <1>3, <2>2, <2>3, Zenon DEF Counter!IInv, Counter!DenyAll
  <1>4. CASE Counter!Tick
    <2>1. clock' = clock + 1 /\ clock' \in Counter!Times
      BY <1>2, <1>4 DEF Counter!Tick, Counter!Times
    <2>2. Counter!TypeOK'
      BY <1>2, <1>4, <2>1, Zenon DEF Counter!Tick, Counter!TypeOK
    <2>3. \A t \in Thread : now'[t] =< clock'
      BY <1>2, <1>4, <2>1 DEF Counter!Tick
    <2> QED
      BY <1>2, <1>3, <1>4, <2>1, <2>2, <2>3 DEF Counter!Tick
  <1>5. ASSUME NEW t \in Thread, NEW n \in 0..MaxCost, NEW what \in {"acquire", "peek"}, Counter!Call(t, what, n)
        PROVE  Counter!IInv'
    <2>1. Counter!TypeOK'
      BY <1>2, <1>5, Zenon DEF Counter!Call, Counter!TypeOK
    <2>2. \A u \in Thread : now'[u] =< clock'
      <3>1. clock' = clock /\ clock =< clock
        BY <1>2, <1>5 DEF Counter!Call
      <3>2. \A u \in Thread : now'[u] = now[u] \/ now'[u] = clock
        BY <1>2, <1>5, Zenon DEF Counter!Call, Counter!TypeOK
      <3> QED
        BY <1>2, <3>1, <3>2, Zenon
    <2> QED
      BY <1>2, <1>3, <1>5, <2>1, <2>2 DEF Counter!Call
  <1>6. ASSUME NEW t \in Thread, Counter!ReturnEarly(t) PROVE Counter!IInv'
    <2>1. Counter!Return(t)
      BY <1>6, Zenon DEF Counter!ReturnEarly
    <2>2. Counter!TypeOK'
      BY <1>1, <1>2, <1>6, <2>1, CounterReturn, Zenon DEF Counter!ReturnEarly, Counter!TypeOK
    <2>3. \A u \in Thread : now'[u] =< clock'
      BY <1>1, <1>6, <2>1, CounterReturn, Zenon DEF Counter!ReturnEarly
    <2> QED
      BY <1>2, <1>3, <1>6, <2>2, <2>3 DEF Counter!ReturnEarly
  <1>7. CASE Counter!Reset
    <2>1. /\ quota' = quota /\ spent' = Counter!NothingSpent /\ clock' = clock /\ now' = now
          /\ state' = [window |-> state.window, prev |-> 0, curr |-> 0]
      BY <1>7, Zenon DEF Counter!Reset
    <2>2. quota \in Quotas /\ state \in Counts /\ (~Counter!DenyAll(quota) => quota \in Open) /\ quota.limit \in Nat
      BY <1>1, CounterTypes, Zenon
    <2>3. state' \in Counts /\ state'.prev = 0 /\ state'.curr = 0 /\ state'.window = state.window
      BY <2>1, <2>2, Zenon DEF Counts
    <2>4. spent' \in Ledgers /\ \A w \in Counter!Spans : spent'[w] = 0
      BY <2>1, Zenon DEF Counter!NothingSpent, Ledgers
    <2>5. Counter!TypeOK'
      <3>1. state' \in [window : Counter!Times, prev : 0..quota.limit, curr : 0..quota.limit]
        BY <1>2, <2>1, <2>2 DEF Counter!TypeOK
      <3>2. resets' \in 0..MaxResets
        BY <1>2, <1>7, BoundsAssumption DEF Counter!Reset, Counter!TypeOK
      <3> QED
        BY <1>2, <1>7, <2>1, <2>4, <3>1, <3>2, Zenon DEF Counter!Reset, Counter!TypeOK, Ledgers
    <2>6. Counter!RollingBound'
      BY <2>1, <2>2, <2>4, NothingBounded, Zenon DEF Counter!RollingBound, Bounded
    <2>7. Counter!Begun'
      BY <1>2, <2>1, <2>3, Zenon DEF Counter!Begun
    <2>8. ASSUME ~Counter!DenyAll(quota) PROVE Counter!Covers(quota, state, spent)'
      <3>1. Counter!Covers(quota, state', spent')
        BY <2>1, <2>2, <2>3, <2>8, CounterFresh, Zenon
      <3> QED
        BY <2>1, <3>1, Zenon DEF Counter!Covers
    <2>9. spent' = Counter!NothingSpent'
      BY <2>1, Zenon DEF Counter!NothingSpent
    <2> QED
      BY <2>1, <2>5, <2>6, <2>7, <2>8, <2>9, Zenon DEF Counter!IInv, Counter!DenyAll
  <1>8. 0 \in 0..MaxCost
    BY BoundsAssumption
  <1> QED
    BY <1>1, <1>4, <1>5, <1>6, <1>7, <1>8, CounterAdmit, CounterLook, Zenon DEF Counter!Next

-----------------------------------------------------------------------------
\* What the counter answers.

\* What a check running alone decides on a state.
AdmitsAt(q, s, n, ns) == Counter!Fits(q, Counter!Roll(q, s, ns), Counter!Offset(q, s, ns), n)

\* The same, by the distance from the beginning of the state's window.
FitsAfter(q, s, n, d) ==
    IF d < q.period THEN s.prev * (q.period - d) + s.curr * q.period + n * q.period =< q.limit * q.period
    ELSE IF d < q.period + q.period THEN s.curr * (q.period - (d - q.period)) + n * q.period =< q.limit * q.period
    ELSE n =< q.limit

\* A decision is the same on the state as it was and as others have rolled it.
LEMMA AdmitsRolled ==
    ASSUME NEW q \in Open, NEW s \in Counts, NEW a \in Nat, NEW b \in Nat, NEW n \in Nat,
           b >= a \/ b >= Number(q, s, a) * q.period
    PROVE  AdmitsAt(q, Counter!Roll(q, s, a), n, b) = AdmitsAt(q, s, n, b)
  BY RollTwice, Zenon DEF AdmitsAt, Counter!Offset

\* Products with the period compare as their factors do.
LEMMA TimesPeriod ==
    ASSUME NEW a \in Nat, NEW b \in Nat, NEW p \in Nat, p > 0
    PROVE  a * p =< b * p <=> a =< b
  <1>1. ASSUME a =< b PROVE a * p =< b * p
    BY <1>1, ProductMonotone, Zenon
  <1>2. ASSUME a > b PROVE ~(a * p =< b * p)
    <2>1. (b + 1) * p =< a * p /\ (b + 1) * p = b * p + p
      BY <1>2, ProductMonotone, ProductNext, b + 1 \in Nat
    <2> QED
      BY <2>1, a * p \in Nat, b * p \in Nat
  <1> QED
    BY <1>1, <1>2

\* A decision by the distance.
LEMMA AdmitsAfter ==
    ASSUME NEW q \in Open, NEW s \in Counts, NEW n \in Nat, NEW d \in Nat
    PROVE  AdmitsAt(q, s, n, s.window * q.period + d) <=> FitsAfter(q, s, n, d)
  <1> DEFINE p == q.period
             l == q.limit
             v == s.window
             m == v * p + d
             x == Number(q, s, m)
             r == Counter!Roll(q, s, m)
             o == Counter!Offset(q, s, m)
  <1>1. p \in Nat /\ p > 0 /\ v \in Nat /\ v * p \in Nat /\ l \in Nat /\ s.prev \in Nat /\ s.curr \in Nat /\ m \in Nat
    BY DEF Open, Counts
  <1>2. /\ x = m \div p /\ x \in Nat /\ x >= v /\ x * p \in Nat /\ x * p =< m /\ m < x * p + p /\ o = m - x * p
    <2>1. m >= v * p
      BY <1>1
    <2>2. Counter!Arrival(q, s, m) = m
      BY <1>1, <2>1, Arrives, Zenon
    <2>3. x = m \div p
      BY <2>2, Zenon DEF Number
    <2> QED
      BY <1>1, <2>2, <2>3, Arrives
  <1>3. AdmitsAt(q, s, n, m) <=> r.prev * (p - o) + r.curr * p + n * p =< l * p
    BY Zenon DEF AdmitsAt, Counter!Fits, Counter!Weighted
  <1>4. (v + 1) * p = v * p + p /\ ((v + 1) + 1) * p = (v * p + p) + p /\ (x + 1) * p = x * p + p
    <2> HIDE DEF p, v, x
    <2> QED
      BY <1>1, <1>2, ProductNext, v + 1 \in Nat
  <1>5. CASE d < p
    <2>1. x = v
      <3> HIDE DEF p, v, x
      <3>1. v * p =< m /\ m < (v + 1) * p
        BY <1>1, <1>4, <1>5
      <3> QED
        BY <1>1, <1>2, <3>1, QuotientUnique, Zenon
    <2>2. r = s
      BY <1>1, <2>1, RollSame, Zenon
    <2>3. o = d
      BY <1>1, <1>2, <2>1
    <2> QED
      BY <1>3, <1>5, <2>2, <2>3, Zenon DEF FitsAfter
  <1>6. CASE p =< d /\ d < p + p
    <2>1. x = v + 1
      <3> HIDE DEF p, v, x
      <3>1. (v + 1) * p =< m /\ m < ((v + 1) + 1) * p
        BY <1>1, <1>4, <1>6
      <3> QED
        BY <1>1, <1>2, <3>1, QuotientUnique, v + 1 \in Nat, Zenon
    <2>2. r.prev = s.curr /\ r.curr = 0
      BY <1>1, <2>1, RollOne
    <2>3. o = d - p
      <3> HIDE DEF p, v, x, o
      <3> QED
        BY <1>1, <1>2, <1>4, <2>1
    <2>4. 0 * p = 0 /\ s.curr * (p - o) \in Int /\ n * p \in Nat
      BY <1>1, <1>6, <2>3
    <2>5. r.prev * (p - o) + r.curr * p + n * p = s.curr * (p - o) + n * p
      BY <2>2, <2>4
    <2>6. ~(d < p)
      BY <1>1, <1>6
    <2>7. AdmitsAt(q, s, n, m) <=> s.curr * (p - (d - p)) + n * p =< l * p
      BY <1>3, <2>3, <2>5, Zenon
    <2> QED
      BY <1>6, <2>6, <2>7, Zenon DEF FitsAfter
  <1>7. CASE d >= p + p
    <2>1. x > v + 1
      <3> HIDE DEF p, v, x
      <3>1. ((v + 1) + 1) * p < (x + 1) * p
        BY <1>1, <1>2, <1>4, <1>7
      <3>2. (v + 1) + 1 < x + 1
        BY <1>1, <1>2, <3>1, ProductCancel, (v + 1) + 1 \in Nat, x + 1 \in Nat, Zenon
      <3> QED
        BY <1>1, <1>2, <3>2
    <2>2. r.prev = 0 /\ r.curr = 0
      BY <1>1, <2>1, RollFar
    <2>3. 0 * p = 0 /\ 0 * (p - o) = 0 /\ n * p \in Nat
      <3>1. p - o \in Int
        BY <1>1, <1>2
      <3> HIDE DEF p, o
      <3> QED
        BY <1>1, <3>1
    <2>4. AdmitsAt(q, s, n, m) <=> n * p =< l * p
      BY <1>3, <2>2, <2>3
    <2>5. n * p =< l * p <=> n =< l
      <3> HIDE DEF p, l
      <3> QED
        BY <1>1, TimesPeriod, Zenon
    <2>6. ~(d < p) /\ ~(d < p + p)
      BY <1>1, <1>7
    <2> QED
      BY <2>4, <2>5, <2>6, Zenon DEF FitsAfter
  <1> QED
    BY <1>1, <1>5, <1>6, <1>7

\* A late caller is judged at the beginning of the state's window.
LEMMA AdmitsLate ==
    ASSUME NEW q \in Open, NEW s \in Counts, NEW n \in Nat, NEW ns \in Nat, ns =< s.window * q.period
    PROVE  AdmitsAt(q, s, n, ns) <=> FitsAfter(q, s, n, 0)
  <1> DEFINE b == s.window * q.period
  <1>1. b \in Nat
    BY DEF Open, Counts
  <1>2. Counter!Arrival(q, s, ns) = b /\ Counter!Arrival(q, s, b + 0) = b
    BY <1>1 DEF Counter!Arrival, Counter!Later
  <1>3. AdmitsAt(q, s, n, ns) = AdmitsAt(q, s, n, b + 0)
    BY <1>2, Zenon DEF AdmitsAt, Counter!Roll, Counter!Offset
  <1> QED
    BY <1>3, AdmitsAfter, Zenon

\* earliest_fit is the distance to the first instant at which a denied request fits.
LEMMA EarliestExact ==
    ASSUME NEW q \in Open, NEW s \in Counts, NEW n \in Nat, n =< q.limit, NEW o \in Nat, o < q.period,
           ~FitsAfter(q, s, n, o)
    PROVE  /\ Counter!EarliestFit(q, s, o, n) \in Nat /\ Counter!EarliestFit(q, s, o, n) > 0
           /\ FitsAfter(q, s, n, o + Counter!EarliestFit(q, s, o, n))
           /\ \A d \in Nat : d < o + Counter!EarliestFit(q, s, o, n) /\ d >= o => ~FitsAfter(q, s, n, d)
  <1> DEFINE p == q.period
             l == q.limit
             prev == s.prev
             curr == s.curr
             fit == Counter!EarliestFit(q, s, o, n)
  <1>1. p \in Nat /\ p > 0 /\ l \in Nat /\ prev \in Nat /\ curr \in Nat /\ n =< l /\ o < p
    BY DEF Open, Counts
  <1>2. \A d \in Nat : d < p => (FitsAfter(q, s, n, d) <=> prev * (p - d) + curr * p + n * p =< l * p)
    BY Zenon DEF FitsAfter
  <1>3. \A d \in Nat : p =< d /\ d < p + p => (FitsAfter(q, s, n, d) <=> curr * (p - (d - p)) + n * p =< l * p)
    BY <1>1 DEF FitsAfter
  <1>4. \A d \in Nat : d >= p + p => FitsAfter(q, s, n, d)
    BY <1>1 DEF FitsAfter
  <1>5. curr * p \in Nat /\ n * p \in Nat /\ l * p \in Nat
    <2> HIDE DEF p, l, prev, curr
    <2> QED
      BY <1>1
  <1>6. CASE curr + n =< l /\ prev > 0
    <2> DEFINE b == (l - n - curr) * p
               slack == b \div prev
    <2>1. fit = Counter!Later(Counter!SatSub(p - Counter!Lesser(slack, p), o), 1)
      BY <1>6, Zenon DEF Counter!EarliestFit
    <2> HIDE DEF p, l, prev, curr, fit
    <2>2. b \in Nat /\ b = l * p - n * p - curr * p
      BY <1>1, <1>6
    <2>3. slack \in Nat
      BY <1>1, <1>6, <2>2, Quotient, Zenon
    <2>4. ASSUME NEW d \in Nat, d < p PROVE FitsAfter(q, s, n, d) <=> p - d =< slack
      <3>1. slack >= p - d <=> b >= (p - d) * prev
        BY <1>1, <1>6, <2>2, <2>4, FloorAtLeast, p - d \in Nat, Zenon
      <3>2. (p - d) * prev = prev * (p - d) /\ prev * (p - d) \in Nat
        BY <1>1, <2>4
      <3>3. prev * (p - d) + curr * p + n * p =< l * p <=> b >= prev * (p - d)
        BY <1>5, <2>2, <3>2
      <3> HIDE DEF b, slack
      <3> QED
        BY <1>1, <1>2, <2>3, <2>4, <3>1, <3>2, <3>3, Zenon
    <2> HIDE DEF b, slack
    <2>5. slack < p - o
      BY <1>1, <2>3, <2>4
    <2>6. fit = p - slack - o /\ fit \in Nat /\ fit > 0 /\ o + fit = p - slack
      BY <1>1, <2>1, <2>3, <2>5 DEF Counter!Later, Counter!SatSub, Counter!Lesser
    <2>7. FitsAfter(q, s, n, o + fit)
      <3>1. CASE slack > 0
        <4>1. o + fit \in Nat /\ o + fit < p /\ p - (o + fit) =< slack
          BY <1>1, <2>3, <2>6, <3>1
        <4> QED
          BY <2>4, <4>1, Zenon
      <3>2. CASE slack = 0
        <4>1. o + fit = p /\ p \in Nat /\ p =< p /\ p < p + p /\ p - (p - p) = p
          BY <1>1, <2>6, <3>2
        <4>2. curr * p + n * p =< l * p
          BY <1>5, <2>2
        <4>3. curr * (p - (p - p)) + n * p =< l * p
          BY <4>1, <4>2, Zenon
        <4> QED
          BY <1>3, <4>1, <4>3, Zenon
      <3> QED
        BY <2>3, <3>1, <3>2
    <2>8. ASSUME NEW d \in Nat, d < o + fit PROVE ~FitsAfter(q, s, n, d)
      <3>1. d < p /\ ~(p - d =< slack)
        BY <1>1, <2>3, <2>6, <2>8
      <3> QED
        BY <2>4, <3>1, Zenon
    <2> QED
      BY <2>6, <2>7, <2>8, Zenon DEF fit
  <1>7. CASE ~(curr + n =< l /\ prev > 0)
    <2>1. curr + n > l
      <3>1. CASE prev = 0
        <4> HIDE DEF p, l, curr
        <4>1. 0 * (p - o) = 0
          BY <1>1
        <4>2. ~(curr * p + n * p =< l * p)
          BY <1>1, <1>2, <1>5, <3>1, <4>1
        <4>3. (curr + n) * p = curr * p + n * p
          BY <1>1
        <4>4. ~((curr + n) * p =< l * p)
          BY <4>2, <4>3, Zenon
        <4>5. ~(curr + n =< l)
          BY <1>1, <4>4, TimesPeriod, curr + n \in Nat, Zenon
        <4> QED
          BY <1>1, <4>5
      <3>2. CASE prev # 0
        BY <1>1, <1>7, <3>2
      <3> QED
        BY <3>1, <3>2, Zenon
    <2> DEFINE b == (l - n) * p
               slack == b \div curr
    <2>2. curr > 0 /\ curr # 0
      BY <1>1, <2>1
    <2>3. fit = (p - o) + (p - Counter!Lesser(slack, p))
      BY <1>7, <2>2, Zenon DEF Counter!EarliestFit
    <2> HIDE DEF p, l, prev, curr, fit
    <2>4. b \in Nat /\ b = l * p - n * p
      BY <1>1
    <2>5. slack \in Nat
      BY <1>1, <2>2, <2>4, Quotient, Zenon
    <2>6. ASSUME NEW d \in Nat, p =< d, d < p + p PROVE FitsAfter(q, s, n, d) <=> (p + p) - d =< slack
      <3> DEFINE k == p - (d - p)
      <3>1. k \in Nat /\ k = (p + p) - d
        BY <1>1, <2>6
      <3>2. FitsAfter(q, s, n, d) <=> curr * k + n * p =< l * p
        BY <1>3, <2>6, Zenon
      <3> HIDE DEF k
      <3>3. slack >= k <=> b >= k * curr
        BY <1>1, <2>2, <2>4, <3>1, FloorAtLeast, Zenon
      <3>4. k * curr = curr * k /\ curr * k \in Nat
        BY <1>1, <3>1
      <3>5. curr * k + n * p =< l * p <=> b >= k * curr
        BY <1>5, <2>4, <3>4
      <3> HIDE DEF b, slack
      <3> QED
        BY <2>5, <3>1, <3>2, <3>3, <3>5, Zenon
    <2>7. slack < p
      <3>1. slack >= p <=> b >= p * curr
        BY <1>1, <2>2, <2>4, FloorAtLeast, Zenon
      <3>2. p * curr = curr * p /\ ~(curr * p =< (l - n) * p)
        BY <1>1, <2>1, TimesPeriod, l - n \in Nat
      <3>3. p * curr \in Nat
        BY <1>1
      <3> HIDE DEF slack
      <3> QED
        BY <1>1, <2>4, <2>5, <3>1, <3>2, <3>3
    <2>8. \A d \in Nat : d < p => ~FitsAfter(q, s, n, d)
      <3>1. SUFFICES ASSUME NEW d \in Nat, d < p PROVE ~(prev * (p - d) + curr * p + n * p =< l * p)
        BY <1>2, Zenon
      <3>2. (curr + n) * p = curr * p + n * p /\ ~((curr + n) * p =< l * p)
        BY <1>1, <2>1, TimesPeriod, curr + n \in Nat
      <3>3. prev * (p - d) \in Nat
        BY <1>1, <3>1
      <3> QED
        BY <1>5, <3>2, <3>3
    <2> HIDE DEF b, slack
    <2>9. fit \in Nat /\ fit > 0 /\ o + fit = (p + p) - slack
      BY <1>1, <2>3, <2>5, <2>7 DEF Counter!Lesser
    <2>10. FitsAfter(q, s, n, o + fit)
      <3>1. CASE slack > 0
        <4>1. o + fit \in Nat /\ p =< o + fit /\ o + fit < p + p /\ (p + p) - (o + fit) =< slack
          BY <1>1, <2>5, <2>7, <2>9, <3>1
        <4> QED
          BY <2>6, <4>1, Zenon
      <3>2. CASE slack = 0
        BY <1>1, <1>4, <2>9, <3>2
      <3> QED
        BY <2>5, <3>1, <3>2
    <2>11. ASSUME NEW d \in Nat, d < o + fit PROVE ~FitsAfter(q, s, n, d)
      <3>1. CASE d < p
        BY <2>8, <3>1, Zenon
      <3>2. CASE d >= p
        <4>1. p =< d /\ d < p + p /\ ~((p + p) - d =< slack)
          BY <1>1, <2>5, <2>9, <2>11, <3>2
        <4> QED
          BY <2>6, <4>1, Zenon
      <3> QED
        BY <1>1, <3>1, <3>2
    <2> QED
      BY <2>9, <2>10, <2>11, Zenon DEF fit
  <1> QED
    BY <1>6, <1>7, Zenon

\* The counts rolled to an instant, the arrival then and its offset.
Rolled(q, s, ns, r, a, o) ==
    r = Counter!Roll(q, s, ns) /\ a = Counter!Arrival(q, r, ns) /\ o = Counter!Offset(q, r, ns)

\* Decisions from ns on go by the distance from the arrival at ns.
ByDistance(q, s, n, ns, r, a, o) ==
    /\ \A m \in Nat : m >= a => (AdmitsAt(q, s, n, m) <=> FitsAfter(q, r, n, o + (m - a)))
    /\ \A m \in Nat : ns =< m /\ m < a => (AdmitsAt(q, s, n, m) <=> FitsAfter(q, r, n, o))

\* The arrival is at or after the instant, its offset inside the window.
LEMMA RolledTypes ==
    ASSUME NEW q \in Open, NEW s \in Counts, NEW ns \in Nat, NEW r, NEW a, NEW o, Rolled(q, s, ns, r, a, o)
    PROVE  r \in Counts /\ a \in Nat /\ a >= ns /\ o \in Nat /\ o < q.period
  BY RollIs, Arrives, Zenon DEF Rolled

\* From an instant on, decisions go by the distance from the arrival then.
LEMMA Onward ==
    ASSUME NEW q \in Open, NEW s \in Counts, NEW n \in Nat, NEW ns \in Nat, NEW r, NEW a, NEW o,
           Rolled(q, s, ns, r, a, o)
    PROVE  ByDistance(q, s, n, ns, r, a, o)
  <1> DEFINE p == q.period
             b == r.window * p
  <1> USE DEF Rolled
  <1>1. r \in Counts /\ r.window = Number(q, s, ns)
    BY RollIs, Zenon
  <1>2. /\ p \in Nat /\ p > 0 /\ b \in Nat /\ a \in Nat /\ a >= ns /\ a >= b /\ (ns >= b => a = ns)
        /\ o \in Nat /\ o < p
    BY <1>1, Arrives, Zenon
  <1>3. a = b + o
    <2>1. a = Counter!Arrival(q, s, ns) /\ o = Counter!Offset(q, s, ns)
      BY RollTwice DEF Counter!Offset
    <2>2. /\ Counter!Offset(q, s, ns) = Counter!Arrival(q, s, ns) - Number(q, s, ns) * p
          /\ Counter!Arrival(q, s, ns) \in Nat /\ Number(q, s, ns) * p \in Nat
      BY Arrives, Zenon
    <2> QED
      BY <1>1, <1>2, <2>1, <2>2
  <1>4. ASSUME NEW m \in Nat, m >= ns PROVE AdmitsAt(q, s, n, m) = AdmitsAt(q, r, n, m)
    BY <1>4, AdmitsRolled
  <1> HIDE DEF b
  <1>5. ASSUME NEW m \in Nat, m >= a PROVE AdmitsAt(q, s, n, m) <=> FitsAfter(q, r, n, o + (m - a))
    <2>1. o + (m - a) \in Nat /\ m = b + (o + (m - a)) /\ m >= ns
      BY <1>2, <1>3, <1>5
    <2>2. AdmitsAt(q, r, n, b + (o + (m - a))) <=> FitsAfter(q, r, n, o + (m - a))
      BY <1>1, <2>1, AdmitsAfter, Zenon DEF b
    <2> QED
      BY <1>4, <2>1, <2>2, Zenon
  <1>6. ASSUME NEW m \in Nat, ns =< m, m < a PROVE AdmitsAt(q, s, n, m) <=> FitsAfter(q, r, n, o)
    <2>1. a = b
      <3>1. a = ns \/ a = b
        BY Zenon DEF Counter!Arrival, Counter!Later, b
      <3> QED
        BY <1>2, <1>6, <3>1
    <2>2. o = 0 /\ m =< b
      BY <1>2, <1>3, <1>6, <2>1
    <2>3. AdmitsAt(q, r, n, m) <=> FitsAfter(q, r, n, 0)
      BY <1>1, <2>2, AdmitsLate, Zenon DEF b
    <2> QED
      BY <1>4, <1>6, <2>2, <2>3, Zenon
  <1> QED
    BY <1>5, <1>6, Zenon DEF ByDistance

\* The wait of a denial ends exactly when the request fits.
LEMMA CounterRetry ==
    ASSUME NEW q \in Open, NEW s \in Counts, NEW n \in Nat, n =< q.limit, NEW ns \in Nat, ~AdmitsAt(q, s, n, ns),
           NEW wait, wait = Counter!RetryAfter(q, Counter!Roll(q, s, ns), n, ns)
    PROVE  /\ AdmitsAt(q, s, n, ns + wait)
           /\ \A early \in 0..wait - 1 : ~AdmitsAt(q, s, n, ns + early)
  <1>1. PICK r : r = Counter!Roll(q, s, ns)
    BY Zenon
  <1>2. PICK a : a = Counter!Arrival(q, r, ns)
    BY Zenon
  <1>3. PICK o : o = Counter!Offset(q, r, ns)
    BY Zenon
  <1>4. /\ r \in Counts /\ a \in Nat /\ a >= ns /\ o \in Nat /\ o < q.period
        /\ \A m \in Nat : m >= a => (AdmitsAt(q, s, n, m) <=> FitsAfter(q, r, n, o + (m - a)))
        /\ \A m \in Nat : ns =< m /\ m < a => (AdmitsAt(q, s, n, m) <=> FitsAfter(q, r, n, o))
    <2>0. Rolled(q, s, ns, r, a, o)
      BY <1>1, <1>2, <1>3, Zenon DEF Rolled
    <2>1. r \in Counts /\ a \in Nat /\ a >= ns /\ o \in Nat /\ o < q.period
      BY <2>0, RolledTypes, Zenon
    <2>2. /\ \A m \in Nat : m >= a => (AdmitsAt(q, s, n, m) <=> FitsAfter(q, r, n, o + (m - a)))
          /\ \A m \in Nat : ns =< m /\ m < a => (AdmitsAt(q, s, n, m) <=> FitsAfter(q, r, n, o))
      <3>1. ByDistance(q, s, n, ns, r, a, o)
        BY <2>0, Onward, Zenon
      <3> QED
        BY <3>1, Zenon DEF ByDistance
    <2> QED
      BY <2>1, <2>2, Zenon
  <1>5. PICK fit : fit = Counter!EarliestFit(q, r, o, n)
    BY Zenon
  <1>6. wait = Counter!Later(fit + (a - ns), 1)
    BY <1>1, <1>2, <1>3, <1>5, Zenon DEF Counter!RetryAfter
  <1>7. ~FitsAfter(q, r, n, o)
    <2>1. CASE ns = a
      BY <1>4, <2>1, o + (a - a) = o, a >= a, Zenon
    <2>2. CASE ns < a
      BY <1>4, <2>2, ns =< ns, Zenon
    <2> QED
      BY <1>4, <2>1, <2>2
  <1>8. /\ fit \in Nat /\ fit > 0 /\ FitsAfter(q, r, n, o + fit)
        /\ \A d \in Nat : d < o + fit /\ d >= o => ~FitsAfter(q, r, n, d)
    BY <1>4, <1>5, <1>7, EarliestExact, Zenon
  <1>9. wait \in Nat /\ ns + wait = a + fit
    <2>1. a \in Nat /\ a >= ns /\ fit \in Nat /\ fit > 0
      BY <1>4, <1>8, Zenon
    <2> QED
      BY <1>6, <2>1 DEF Counter!Later
  <1>10. AdmitsAt(q, s, n, ns + wait)
    <2>1. a + fit \in Nat /\ a + fit >= a /\ o + ((a + fit) - a) = o + fit
      BY <1>4, <1>8
    <2> QED
      BY <1>4, <1>8, <1>9, <2>1, Zenon
  <1>11. ASSUME NEW early \in 0..wait - 1 PROVE ~AdmitsAt(q, s, n, ns + early)
    <2>1. ns + early \in Nat /\ ns =< ns + early /\ ns + early < a + fit
      BY <1>9, <1>4, <1>8
    <2>2. CASE ns + early < a
      BY <1>4, <1>7, <2>1, <2>2, Zenon
    <2>3. CASE ns + early >= a
      <3> DEFINE d == o + ((ns + early) - a)
      <3>1. d \in Nat /\ d >= o /\ d < o + fit
        BY <1>4, <1>8, <2>1, <2>3
      <3>2. ~FitsAfter(q, r, n, d)
        <4> HIDE DEF d
        <4> QED
          BY <1>8, <3>1, Zenon
      <3> QED
        BY <1>4, <2>1, <2>3, <3>2, Zenon
    <2> QED
      BY <1>4, <2>1, <2>2, <2>3
  <1> QED
    BY <1>10, <1>11, Zenon

\* What fits of the whole limit.
LEMMA WholeFits ==
    ASSUME NEW q \in Open, NEW r \in Counts, NEW d \in Nat
    PROVE  /\ d < q.period => (FitsAfter(q, r, q.limit, d) <=> r.prev = 0 /\ r.curr = 0)
           /\ q.period =< d /\ d < q.period + q.period => (FitsAfter(q, r, q.limit, d) <=> r.curr = 0)
           /\ d >= q.period + q.period => FitsAfter(q, r, q.limit, d)
  <1> DEFINE p == q.period
             l == q.limit
             prev == r.prev
             curr == r.curr
  <1>1. p \in Nat /\ p > 0 /\ l \in Nat /\ prev \in Nat /\ curr \in Nat
    BY DEF Open, Counts
  <1>2. /\ d < p => (FitsAfter(q, r, l, d) <=> prev * (p - d) + curr * p + l * p =< l * p)
        /\ p =< d /\ d < p + p => (FitsAfter(q, r, l, d) <=> curr * (p - (d - p)) + l * p =< l * p)
        /\ d >= p + p => FitsAfter(q, r, l, d)
    BY <1>1 DEF FitsAfter
  <1> HIDE DEF p, l, prev, curr
  <1>3. \A c \in Nat, k \in Nat : k > 0 => c * k \in Nat /\ (c * k = 0 <=> c = 0)
    <2>1. SUFFICES ASSUME NEW c \in Nat, NEW k \in Nat, k > 0 PROVE c * k \in Nat /\ (c * k = 0 <=> c = 0)
      BY Zenon
    <2>2. c * k =< 0 * k <=> c =< 0
      BY <2>1, TimesPeriod, Zenon
    <2> QED
      BY <2>1, <2>2
  <1>4. ASSUME d < p PROVE FitsAfter(q, r, l, d) <=> prev = 0 /\ curr = 0
    <2>1. prev * (p - d) \in Nat /\ (prev * (p - d) = 0 <=> prev = 0)
      BY <1>1, <1>3, <1>4, p - d \in Nat, p - d > 0
    <2>2. curr * p \in Nat /\ (curr * p = 0 <=> curr = 0)
      BY <1>1, <1>3, Zenon
    <2>3. l * p \in Nat
      BY <1>1
    <2> QED
      BY <1>2, <1>4, <2>1, <2>2, <2>3
  <1>5. ASSUME p =< d, d < p + p PROVE FitsAfter(q, r, l, d) <=> curr = 0
    <2>1. p - (d - p) \in Nat /\ p - (d - p) > 0
      BY <1>1, <1>5
    <2>2. curr * (p - (d - p)) \in Nat /\ (curr * (p - (d - p)) = 0 <=> curr = 0)
      BY <1>1, <1>3, <2>1
    <2>3. l * p \in Nat
      BY <1>1
    <2> QED
      BY <1>2, <1>5, <2>2, <2>3
  <1> QED
    BY <1>2, <1>4, <1>5, Zenon DEF p, l, prev, curr

\* peek agrees with the check, now and when the whole limit is back.
LEMMA CounterSnapshot ==
    ASSUME NEW q \in Open, NEW s \in Counts, NEW ns \in Nat,
           NEW r, r = Counter!Roll(q, s, ns), NEW wait, wait = Counter!ResetAfter(q, r, ns)
    PROVE  /\ \A n \in 1..q.limit : AdmitsAt(q, s, n, ns) <=> n =< Counter!Remaining(q, r, ns)
           /\ AdmitsAt(q, s, q.limit, ns + wait)
           /\ \A early \in 0..wait - 1 : ~AdmitsAt(q, s, q.limit, ns + early)
  <1>1. PICK a : a = Counter!Arrival(q, r, ns)
    BY Zenon
  <1>2. PICK o : o = Counter!Offset(q, r, ns)
    BY Zenon
  <1> DEFINE p == q.period
             l == q.limit
  <1>3. p \in Nat /\ p > 0 /\ l \in Nat
    BY DEF Open
  <1>4. /\ r \in Counts /\ a \in Nat /\ a >= ns /\ o \in Nat /\ o < p
    <2>1. Rolled(q, s, ns, r, a, o)
      BY <1>1, <1>2, Zenon DEF Rolled
    <2>2. r \in Counts /\ a \in Nat /\ a >= ns /\ o \in Nat /\ o < q.period
      BY <2>1, RolledTypes, Zenon
    <2> QED
      BY <2>2, Zenon
  <1>5. ASSUME NEW n \in Nat
        PROVE  /\ \A m \in Nat : m >= a => (AdmitsAt(q, s, n, m) <=> FitsAfter(q, r, n, o + (m - a)))
               /\ \A m \in Nat : ns =< m /\ m < a => (AdmitsAt(q, s, n, m) <=> FitsAfter(q, r, n, o))
    <2>1. Rolled(q, s, ns, r, a, o)
      BY <1>1, <1>2, Zenon DEF Rolled
    <2>2. ByDistance(q, s, n, ns, r, a, o)
      BY <2>1, Onward, Zenon
    <2> QED
      BY <2>2, Zenon DEF ByDistance
  <1>6. ASSUME NEW n \in Nat PROVE AdmitsAt(q, s, n, ns) <=> FitsAfter(q, r, n, o)
    <2>1. CASE ns = a
      BY <1>4, <1>5, <2>1, o + (a - a) = o, a >= a, Zenon
    <2>2. CASE ns < a
      BY <1>4, <1>5, <2>2, ns =< ns, Zenon
    <2> QED
      BY <1>4, <2>1, <2>2
  <1>7. ASSUME NEW n \in 1..l PROVE AdmitsAt(q, s, n, ns) <=> n =< Counter!Remaining(q, r, ns)
    <2> DEFINE wt == r.prev * (p - o) + r.curr * p
    <2>1. n \in Nat /\ n >= 1
      BY <1>3
    <2>2. AdmitsAt(q, s, n, ns) <=> wt + n * p =< l * p
      BY <1>4, <1>6, <2>1, Zenon DEF FitsAfter
    <2>3. Counter!Remaining(q, r, ns) = Counter!SatSub(l * p, wt) \div p
      BY <1>2, Zenon DEF Counter!Remaining, Counter!Weighted
    <2>4. wt \in Nat
      <3> DEFINE x == r.prev
                 y == r.curr
      <3>1. x \in Nat /\ y \in Nat
        BY <1>4, Zenon DEF Counts
      <3> HIDE DEF p, x, y
      <3>2. x * (p - o) \in Nat /\ y * p \in Nat
        BY <1>3, <1>4, <3>1
      <3> QED
        BY <3>2 DEF x, y
    <2> HIDE DEF p, l, wt
    <2>5. n * p \in Nat /\ l * p \in Nat /\ n * p >= p
      BY <1>3, <2>1, ProductMonotone, 1 * p = p
    <2>6. Counter!SatSub(l * p, wt) \in Nat
      BY <2>4, <2>5 DEF Counter!SatSub
    <2>7. Counter!SatSub(l * p, wt) \div p >= n <=> Counter!SatSub(l * p, wt) >= n * p
      BY <1>3, <2>1, <2>6, FloorAtLeast
    <2>8. Counter!SatSub(l * p, wt) >= n * p <=> wt + n * p =< l * p
      BY <1>3, <2>4, <2>5 DEF Counter!SatSub
    <2>9. Counter!SatSub(l * p, wt) \div p \in Nat
      BY <1>3, <2>6, Quotient
    <2> QED
      BY <2>1, <2>2, <2>3, <2>7, <2>8, <2>9, Zenon
  <1>8. PICK full : full = Counter!FullIn(q, r, o)
    BY Zenon
  <1>9. wait = IF full = 0 THEN 0 ELSE full + (a - ns)
    BY <1>1, <1>2, <1>8, Zenon DEF Counter!ResetAfter
  <1>10. /\ full \in Nat /\ FitsAfter(q, r, l, o + full)
         /\ \A d \in Nat : d >= o /\ d < o + full => ~FitsAfter(q, r, l, d)
    <2>1. r.prev \in Nat /\ r.curr \in Nat
      BY <1>4, Zenon DEF Counts
    <2>2. ASSUME NEW d \in Nat
          PROVE  /\ d < p => (FitsAfter(q, r, l, d) <=> r.prev = 0 /\ r.curr = 0)
                 /\ p =< d /\ d < p + p => (FitsAfter(q, r, l, d) <=> r.curr = 0)
                 /\ d >= p + p => FitsAfter(q, r, l, d)
      BY <1>4, WholeFits, Zenon
    <2>3. CASE r.curr > 0
      <3>1. full = (p - o) + p
        BY <1>8, <2>3 DEF Counter!FullIn
      <3> HIDE DEF p, l
      <3>2. full \in Nat /\ o + full = p + p
        BY <1>3, <1>4, <3>1
      <3>3. FitsAfter(q, r, l, o + full)
        BY <1>3, <2>2, <3>2
      <3>4. ASSUME NEW d \in Nat, d < o + full PROVE ~FitsAfter(q, r, l, d)
        BY <1>3, <2>1, <2>2, <2>3, <3>2, <3>4
      <3> QED
        BY <3>2, <3>3, <3>4, Zenon
    <2>4. CASE r.curr = 0 /\ r.prev > 0
      <3>1. full = p - o
        BY <1>8, <2>4 DEF Counter!FullIn
      <3> HIDE DEF p, l
      <3>2. full \in Nat /\ o + full = p
        BY <1>3, <1>4, <3>1
      <3>3. FitsAfter(q, r, l, o + full)
        BY <1>3, <2>2, <2>4, <3>2
      <3>4. ASSUME NEW d \in Nat, d < o + full PROVE ~FitsAfter(q, r, l, d)
        BY <1>3, <2>1, <2>2, <2>4, <3>2, <3>4
      <3> QED
        BY <3>2, <3>3, <3>4, Zenon
    <2>5. CASE r.curr = 0 /\ r.prev = 0
      <3>1. full = 0
        BY <1>8, <2>5 DEF Counter!FullIn
      <3> HIDE DEF p, l
      <3>2. FitsAfter(q, r, l, o + full) /\ o + full = o
        BY <1>4, <2>2, <2>5, <3>1
      <3> QED
        BY <1>4, <3>1, <3>2
    <2> QED
      BY <2>1, <2>3, <2>4, <2>5
  <1> HIDE DEF p, l
  <1>11. wait \in Nat /\ (full = 0 => wait = 0) /\ (full > 0 => ns + wait = a + full)
    <2>1. a \in Nat /\ a >= ns /\ full \in Nat
      BY <1>4, <1>10, Zenon
    <2> QED
      BY <1>9, <2>1
  <1>12. AdmitsAt(q, s, l, ns + wait)
    <2>1. CASE full = 0
      <3>1. ns + wait = ns /\ o + full = o
        BY <1>4, <1>11, <2>1
      <3> QED
        BY <1>3, <1>6, <1>10, <3>1, Zenon
    <2>2. CASE full > 0
      <3>1. a + full \in Nat /\ a + full >= a /\ o + ((a + full) - a) = o + full
        BY <1>4, <1>10
      <3> QED
        BY <1>3, <1>5, <1>10, <1>11, <2>2, <3>1, Zenon
    <2> QED
      BY <1>10, <2>1, <2>2
  <1>13. ASSUME NEW early \in 0..wait - 1 PROVE ~AdmitsAt(q, s, l, ns + early)
    <2>1. full > 0 /\ ns + early \in Nat /\ ns =< ns + early /\ ns + early < a + full
      BY <1>4, <1>10, <1>11
    <2>2. CASE ns + early < a
      <3>1. ~FitsAfter(q, r, l, o)
        BY <1>4, <1>10, <2>1
      <3> QED
        BY <1>3, <1>5, <2>1, <2>2, <3>1, Zenon
    <2>3. CASE ns + early >= a
      <3> DEFINE d == o + ((ns + early) - a)
      <3>1. d \in Nat /\ d >= o /\ d < o + full
        BY <1>4, <1>10, <2>1, <2>3
      <3>2. ~FitsAfter(q, r, l, d)
        <4> HIDE DEF d
        <4> QED
          BY <1>10, <3>1, Zenon
      <3> QED
        BY <1>3, <1>5, <2>1, <2>3, <3>2, Zenon
    <2> QED
      BY <1>4, <2>1, <2>2, <2>3
  <1> QED
    BY <1>7, <1>12, <1>13, Zenon DEF l

\* In every state of the counter.
LEMMA CounterAnswers == Counter!IInv => Counter!AnswersExact
  <1>1. SUFFICES ASSUME Counter!IInv, ~Counter!DenyAll(quota), NEW ns \in Counter!Times
                 PROVE  Counter!RetryExact(ns) /\ Counter!SnapshotExact(ns)
    BY Zenon DEF Counter!AnswersExact
  <1>2. quota \in Open /\ state \in Counts /\ ns \in Nat
    BY <1>1, CounterTypes, BoundsAssumption DEF Counter!Times
  <1>3. \A n, m : Counter!Admits(n, m) = AdmitsAt(quota, state, n, m)
    BY Zenon DEF Counter!Admits, AdmitsAt
  <1>4. Counter!RetryExact(ns)
    <2>1. SUFFICES ASSUME NEW n \in 1..MaxCost, ~Counter!Impossible(quota, n), ~Counter!Admits(n, ns),
                          NEW wait, wait = Counter!RetryAfter(quota, Counter!Roll(quota, state, ns), n, ns)
                   PROVE  /\ Counter!Admits(n, ns + wait)
                          /\ \A early \in 0..wait - 1 : ~Counter!Admits(n, ns + early)
      BY Zenon DEF Counter!RetryExact
    <2>2. n \in Nat /\ n =< quota.limit
      BY <1>1, <2>1, BoundsAssumption, CounterTypes DEF Counter!Impossible
    <2>3. ~AdmitsAt(quota, state, n, ns)
      BY <1>3, <2>1, Zenon
    <2>4. /\ AdmitsAt(quota, state, n, ns + wait)
          /\ \A early \in 0..wait - 1 : ~AdmitsAt(quota, state, n, ns + early)
      BY <1>2, <2>1, <2>2, <2>3, CounterRetry
    <2> QED
      BY <1>3, <2>4, Zenon
  <1>5. Counter!SnapshotExact(ns)
    BY <1>2, <1>3, CounterSnapshot DEF Counter!SnapshotExact
  <1> QED
    BY <1>4, <1>5, Zenon

\* Rolling is invisible to a caller that is not behind it.
LEMMA CounterInvisible == Counter!IInv /\ [Counter!Next]_Counter!vars => Counter!RollInvisible
  <1>1. SUFFICES ASSUME Counter!IInv, [Counter!Next]_Counter!vars, spent' = spent, resets' = resets,
                        NEW n \in 1..MaxCost, NEW ns \in Counter!Times, quota.period # 0,
                        ns \div quota.period >= state'.window
                 PROVE  Counter!Admits(n, ns)' = Counter!Admits(n, ns)
    BY Zenon DEF Counter!RollInvisible
  <1>2. n \in Nat /\ ns \in Nat /\ Counter!TypeOK
    BY <1>1, BoundsAssumption DEF Counter!Times, Counter!IInv
  <1>3. ASSUME quota' = quota, state' = state PROVE Counter!Admits(n, ns)' = Counter!Admits(n, ns)
    BY <1>3, Zenon DEF Counter!Admits, Counter!Fits, Counter!Weighted, Counter!Roll, Counter!Offset,
       Counter!Arrival, Counter!Later
  <1>4. ASSUME NEW t \in Thread, Counter!Admit(t) PROVE FALSE
    <2> DEFINE r == Counter!Roll(quota, state, now[t])
               a == Counter!Arrival(quota, state, now[t])
    <2>1. ~Counter!DenyAll(quota) /\ spent' = Counter!Charge(spent, a, need[t]) /\ need[t] # 0 /\ need[t] \in Nat
      BY <1>2, <1>4, BoundsAssumption DEF Counter!Admit, Counter!Impossible, Counter!TypeOK
    <2>2. a \in Nat /\ a =< MaxTime
      BY <1>1, <2>1, CounterRolls, Zenon
    <2> HIDE DEF a
    <2>3. <<0, MaxTime>> \in Counter!Spans /\ spent[<<0, MaxTime>>] \in Nat
      BY <1>1, SpanTypes, CounterTypes, Zenon DEF Ledgers
    <2>4. spent'[<<0, MaxTime>>] = spent[<<0, MaxTime>>] + need[t]
      BY <2>1, <2>2, <2>3 DEF Counter!Charge
    <2> QED
      BY <1>1, <2>1, <2>3, <2>4
  <1>5. ASSUME NEW t \in Thread, Counter!Deny(t) \/ Counter!Peek(t) PROVE Counter!Admits(n, ns)' = Counter!Admits(n, ns)
    <2> DEFINE r == Counter!Roll(quota, state, now[t])
    <2>1. ~Counter!DenyAll(quota) /\ quota' = quota /\ state' = r
      BY <1>5, Zenon DEF Counter!Deny, Counter!Peek, Counter!Impossible
    <2>2. quota \in Open /\ state \in Counts /\ now[t] \in Nat
      BY <1>1, <2>1, CounterTypes, Zenon
    <2>3. r.window = Number(quota, state, now[t]) /\ r.window \in Nat
      BY <2>2, RollIs, Zenon DEF Counts
    <2>4. ns >= Number(quota, state, now[t]) * quota.period
      <3> DEFINE p == quota.period
                 x == r.window
      <3>1. p \in Nat /\ p > 0 /\ x \in Nat /\ ns \div p >= x
        BY <1>1, <2>1, <2>2, <2>3 DEF Open
      <3> HIDE DEF p, x
      <3>2. ns >= x * p
        BY <1>2, <3>1, FloorAtLeast, Zenon
      <3> QED
        BY <2>3, <3>2, Zenon DEF p, x
    <2>5. AdmitsAt(quota, r, n, ns) = AdmitsAt(quota, state, n, ns)
      BY <1>2, <2>2, <2>4, AdmitsRolled
    <2> HIDE DEF r
    <2> QED
      BY <2>1, <2>5, Zenon DEF Counter!Admits, AdmitsAt
  <1>6. ~Counter!Reset
    BY <1>1, <1>2, BoundsAssumption DEF Counter!Reset, Counter!TypeOK
  <1>7. ASSUME \/ Counter!Tick \/ UNCHANGED Counter!vars
               \/ \E t \in Thread : Counter!ReturnEarly(t) \/ Counter!Call(t, "peek", 0)
                                   \/ \E k \in 0..MaxCost : Counter!Call(t, "acquire", k)
        PROVE  quota' = quota /\ state' = state
    BY <1>7, Zenon DEF Counter!Tick, Counter!vars, Counter!ReturnEarly, Counter!Call
  <1> QED
    BY <1>1, <1>3, <1>4, <1>5, <1>6, <1>7, Zenon DEF Counter!Next

-----------------------------------------------------------------------------
\* The limiter.

\* A caller that is not calling carries no reading.
Idle == \A t \in Thread : call[t] = "idle" => now[t] = 0

\* What a rebuild finds: the types that the two algorithms share.
LEMMA Parts ==
    ASSUME IInv
    PROVE  /\ algorithm \in {"log", "counter"} /\ quota \in Quotas /\ quota \in [limit : Nat, period : Nat]
           /\ call \in [Thread -> {"idle", "acquire", "peek"}] /\ need \in [Thread -> 0..MaxCost]
           /\ now \in [Thread -> Log!Times] /\ spent \in Ledgers /\ resets \in 0..MaxResets /\ Idle
  <1>1. Idle /\ ((algorithm = "log" /\ Log!IInv) \/ (algorithm = "counter" /\ Counter!IInv))
    BY Zenon DEF IInv, Idle
  <1>2. Log!TypeOK \/ Counter!TypeOK
    BY <1>1, LogTypes, Zenon DEF Counter!IInv
  <1>3. /\ quota \in Quotas /\ call \in [Thread -> {"idle", "acquire", "peek"}] /\ need \in [Thread -> 0..MaxCost]
        /\ now \in [Thread -> Log!Times] /\ spent \in Ledgers /\ resets \in 0..MaxResets
    BY <1>2, SpanTypes, Zenon DEF Log!TypeOK, Counter!TypeOK, Ledgers
  <1> QED
    BY <1>1, <1>3, QuotasAssumption, Zenon

\* A rebuilt limiter has the algorithm's invariant.
LEMMA Rebuilt == ASSUME IInv, Rebuild PROVE IInv'
  <1>1. /\ quota \in Quotas /\ quota \in [limit : Nat, period : Nat]
        /\ call \in [Thread -> {"idle", "acquire", "peek"}] /\ need \in [Thread -> 0..MaxCost]
        /\ now \in [Thread -> Log!Times] /\ spent \in Ledgers /\ resets \in 0..MaxResets /\ Idle
    BY Parts, Zenon
  <1>2. PICK a \in {"log", "counter"} : Renew(a)
    BY Zenon DEF Rebuild
  <1>3. /\ clock' = 0 /\ spent' = [w \in DOMAIN spent |-> 0] /\ UNCHANGED <<quota, call, need, now, resets>>
        /\ algorithm' = a /\ log' = Log!EmptyLog(0) /\ horizon' = 0 /\ lapsed' = FALSE
        /\ state' = Counter!Fresh(quota, 0)
    BY <1>2, Zenon DEF Rebuild, Renew
  <1>4. spent' \in Ledgers /\ spent' = Counter!NothingSpent /\ \A w \in Counter!Spans : spent'[w] = 0
    BY <1>1, <1>3, Zenon DEF Ledgers, Counter!NothingSpent
  <1>5. 0 \in Log!Times /\ 0 \in Counter!Times /\ Log!Times = Counter!Times
    BY SpanTypes, BoundsAssumption DEF Log!Times
  <1>6. \A t \in Thread : now[t] = 0
    BY <1>1, Zenon DEF Rebuild, Idle
  <1>7. Idle'
    BY <1>1, <1>3, Zenon DEF Idle
  <1>8. CASE a = "log"
    <2>1. Log!TypeOK'
      <3>1. log' \in [runs : Seq(Log!Runs), expired : Nat]
        BY <1>3 DEF Log!EmptyLog
      <3>2. spent' \in [Log!Spans -> Nat]
        BY <1>4, SpanTypes, Zenon DEF Ledgers
      <3> QED
        BY <1>1, <1>3, <1>5, <3>1, <3>2, Zenon DEF Log!TypeOK
    <2>2. (/\ Log!TypeOK /\ Log!InOrder(log) /\ Log!InWindow(log) =< quota.limit
           /\ Log!InWindow(log) =< spent[<<0, MaxTime>>]
           /\ ~lapsed => Backed(quota, log, spent, horizon)
           /\ ~lapsed => LogBounded(quota, spent))'
      BY <1>1, <1>3, <1>4, <2>1, LogFresh, 0 \in Nat
    <2>3. Log!IInv'
      BY <2>2, LogInvIs, PTL
    <2> QED
      BY <1>3, <1>7, <1>8, <2>3, Zenon DEF IInv, Idle
  <1>9. CASE a = "counter"
    <2>1. /\ state' \in [window : Counter!Times, prev : 0..quota.limit, curr : 0..quota.limit]
          /\ state' \in Counts /\ state'.prev = 0 /\ state'.curr = 0 /\ state'.window * quota.period =< 0
      BY <1>1, <1>3, <1>5, FreshIs, Zenon
    <2>2. Counter!TypeOK'
      BY <1>1, <1>3, <1>4, <1>5, <2>1 DEF Counter!TypeOK, Ledgers
    <2>3. Counter!Begun'
      BY <1>3, <1>6, <2>1 DEF Counter!Begun
    <2>4. Counter!RollingBound'
      <3>1. Bounded(quota, spent')
        BY <1>1, <1>4, NothingBounded, Zenon
      <3> QED
        BY <1>3, <3>1, Zenon DEF Counter!RollingBound, Bounded
    <2>5. ASSUME ~Counter!DenyAll(quota)' PROVE Counter!Covers(quota, state, spent)'
      <3>1. quota \in Open
        BY <1>1, <1>3, <2>5, Zenon DEF Counter!DenyAll, Open
      <3>2. Counter!Covers(quota, state', spent')
        BY <1>4, <2>1, <3>1, CounterFresh, Zenon
      <3> QED
        BY <1>3, <3>2, Zenon DEF Counter!Covers
    <2>6. spent' = Counter!NothingSpent'
      BY <1>4, Zenon DEF Counter!NothingSpent
    <2>7. Counter!IInv'
      BY <2>2, <2>3, <2>4, <2>5, <2>6 DEF Counter!IInv
    <2> QED
      BY <1>3, <1>7, <1>9, <2>7, Zenon DEF IInv, Idle
  <1> QED
    BY <1>8, <1>9, Zenon

\* Calling and returning keep the readings of the idle.
LEMMA StaysIdle ==
    ASSUME Idle, call \in [Thread -> {"idle", "acquire", "peek"}], now \in [Thread -> Log!Times],
           Log!Next \/ Counter!Next
    PROVE  Idle'
  <1>1. ASSUME UNCHANGED <<call, now>> PROVE Idle'
    BY <1>1, Zenon DEF Idle
  <1>2. ASSUME NEW t \in Thread, call' = [call EXCEPT ![t] = "idle"], now' = [now EXCEPT ![t] = 0] PROVE Idle'
    BY <1>2, Zenon DEF Idle
  <1>3. ASSUME NEW t \in Thread, NEW what \in {"acquire", "peek"}, call' = [call EXCEPT ![t] = what],
               now' = [now EXCEPT ![t] = clock]
        PROVE  Idle'
    BY <1>3, Zenon DEF Idle
  <1>4. CASE Log!Next
    <2>1. CASE Log!Tick \/ Log!Reset
      BY <1>1, <2>1, Zenon DEF Log!Tick, Log!Reset
    <2>2. ASSUME NEW t \in Thread, NEW n, NEW what \in {"acquire", "peek"}, Log!Call(t, what, n) PROVE Idle'
      BY <1>3, <2>2, Zenon DEF Log!Call
    <2>3. ASSUME NEW t \in Thread, Log!ReturnEarly(t) \/ Log!Admit(t) \/ Log!Deny(t) \/ Log!Peek(t) PROVE Idle'
      <3>1. Log!Return(t)
        BY <2>3, Zenon DEF Log!ReturnEarly, Log!Admit, Log!Deny, Log!Peek
      <3> QED
        BY <1>2, <3>1, Zenon DEF Log!Return
    <2> QED
      BY <1>4, <2>1, <2>2, <2>3, Zenon DEF Log!Next
  <1>5. CASE Counter!Next
    <2>1. CASE Counter!Tick \/ Counter!Reset
      BY <1>1, <2>1, Zenon DEF Counter!Tick, Counter!Reset
    <2>2. ASSUME NEW t \in Thread, NEW n, NEW what \in {"acquire", "peek"}, Counter!Call(t, what, n) PROVE Idle'
      BY <1>3, <2>2, Zenon DEF Counter!Call
    <2>3. ASSUME NEW t \in Thread, Counter!ReturnEarly(t) \/ Counter!Admit(t) \/ Counter!Deny(t) \/ Counter!Peek(t)
          PROVE  Idle'
      <3>1. Counter!Return(t)
        BY <2>3, Zenon DEF Counter!ReturnEarly, Counter!Admit, Counter!Deny, Counter!Peek
      <3> QED
        BY <1>2, <3>1, Zenon DEF Counter!Return
    <2> QED
      BY <1>5, <2>1, <2>2, <2>3, Zenon DEF Counter!Next
  <1> QED
    BY <1>4, <1>5, Zenon

\* The inductive invariant: whichever algorithm is in use has its own, and a
\* caller between calls carries no reading into a rebuilt limiter.
THEOREM Invariance == Spec => []IInv
  <1>1. Init => IInv
    <2>1. SUFFICES ASSUME Init PROVE IInv
      BY Zenon
    <2>2. CASE algorithm = "log" /\ Log!Init
      <3>1. Log!IInv
        BY <2>2, LogInit, Zenon
      <3>2. \A t \in Thread : now[t] = 0
        BY <2>2, Zenon DEF Log!Init
      <3> QED
        BY <2>2, <3>1, <3>2, Zenon DEF IInv
    <2>3. CASE algorithm = "counter" /\ Counter!Init
      <3>1. Counter!IInv
        BY <2>3, CounterInit, Zenon
      <3>2. \A t \in Thread : now[t] = 0
        BY <2>3, Zenon DEF Counter!Init
      <3> QED
        BY <2>3, <3>1, <3>2, Zenon DEF IInv
    <2> QED
      BY <2>1, <2>2, <2>3, Zenon DEF Init
  <1>2. IInv /\ [Next]_vars => IInv'
    <2>1. SUFFICES ASSUME IInv, [Next]_vars PROVE IInv'
      BY Zenon
    <2>2. /\ Idle /\ call \in [Thread -> {"idle", "acquire", "peek"}] /\ now \in [Thread -> Log!Times]
      BY <2>1, Parts, Zenon
    <2>3. CASE LogStep
      <3>1. algorithm = "log" /\ Log!Next /\ algorithm' = algorithm
        BY <2>3, Zenon DEF LogStep
      <3>2. Log!IInv
        BY <2>1, <3>1, Zenon DEF IInv
      <3>3. Log!IInv' /\ Idle'
        BY <2>2, <3>1, <3>2, LogNext, StaysIdle
      <3> QED
        BY <3>1, <3>3, Zenon DEF IInv, Idle
    <2>4. CASE CounterStep
      <3>1. algorithm = "counter" /\ Counter!Next /\ algorithm' = algorithm
        BY <2>4, Zenon DEF CounterStep
      <3>2. Counter!IInv
        BY <2>1, <3>1, Zenon DEF IInv
      <3>3. Counter!IInv' /\ Idle'
        BY <2>2, <3>1, <3>2, CounterNext, StaysIdle
      <3> QED
        BY <3>1, <3>3, Zenon DEF IInv, Idle
    <2>5. CASE Rebuild
      BY <2>1, <2>5, Rebuilt, Zenon
    <2>6. CASE UNCHANGED vars
      <3>1. UNCHANGED <<algorithm, log, state, horizon, lapsed, quota, clock, call, need, now, spent, resets>>
        BY <2>6, Zenon DEF vars, shared
      <3>2. (Log!IInv => Log!IInv') /\ (Counter!IInv => Counter!IInv')
        <4>1. ASSUME Log!IInv PROVE Log!IInv'
          <5>1. (/\ Log!TypeOK /\ Log!InOrder(log) /\ Log!InWindow(log) =< quota.limit
                 /\ Log!InWindow(log) =< spent[<<0, MaxTime>>]
                 /\ ~lapsed => Backed(quota, log, spent, horizon)
                 /\ ~lapsed => LogBounded(quota, spent))'
            BY <3>1, <4>1, LogInvIs, Zenon DEF Log!TypeOK
          <5> QED
            BY <5>1, LogInvIs, PTL
        <4>2. ASSUME Counter!IInv PROVE Counter!IInv'
          BY <3>1, <4>2, Zenon DEF Counter!IInv, Counter!TypeOK, Counter!RollingBound, Counter!Begun,
             Counter!Covers, Counter!DenyAll, Counter!NothingSpent
        <4> QED
          BY <4>1, <4>2, Zenon
      <3> QED
        BY <2>1, <3>1, <3>2, Zenon DEF IInv
    <2> QED
      BY <2>1, <2>3, <2>4, <2>5, <2>6 DEF Next, Dispatch
  <1> QED
    BY <1>1, <1>2, PTL DEF Spec

\* However its callers interleave and however late they are, no rolling window
\* admits more than the documented bound of its algorithm (SlidingLog::acquire,
\* SlidingCounter::acquire).
THEOREM RollingNeverExceeded == Spec => []RollingBound
  <1>1. IInv => RollingBound
    <2>1. "log" # "counter"
      BY Zenon
    <2> QED
      BY <2>1, Zenon DEF IInv, RollingBound, Log!IInv, Counter!IInv
  <1> QED
    BY <1>1, Invariance, PTL

\* The log is in order, one record to an instant, and holds no more units than
\* the limit, however late its callers (Log::record, Log::expire).
THEOREM LogAlwaysOrdered == Spec => []LogOrdered
  <1>1. IInv => LogOrdered
    BY LogRecords, Zenon DEF IInv, LogOrdered
  <1> QED
    BY <1>1, Invariance, PTL

\* Every retry_after is honest and tight, and peek agrees with check_n, in every
\* reachable state of both algorithms and at every instant (their acquire and peek).
THEOREM AnswersAlwaysExact == Spec => []AnswersExact
  <1>1. IInv => AnswersExact
    <2>1. "log" # "counter"
      BY Zenon
    <2> QED
      BY <2>1, LogAnswers, CounterAnswers, Zenon DEF IInv, AnswersExact
  <1> QED
    BY <1>1, Invariance, PTL

\* With nothing counted a request is judged by the limit alone.
LEMMA ZeroAdmits ==
    ASSUME NEW q \in Open, NEW s \in Counts, s.prev = 0, s.curr = 0, NEW n \in Nat, NEW ns \in Nat
    PROVE  AdmitsAt(q, s, n, ns) = (n * q.period =< q.limit * q.period)
  <1> DEFINE r == Counter!Roll(q, s, ns)
             o == Counter!Offset(q, s, ns)
  <1>1. r.prev = 0 /\ r.curr = 0
    BY Zenon DEF Counter!Roll
  <1>2. o \in Nat /\ o < q.period /\ q.period \in Nat
    BY Arrives, Zenon
  <1> HIDE DEF r, o
  <1>3. Counter!Weighted(q, r, o) = 0
    BY <1>1, <1>2 DEF Counter!Weighted
  <1>4. n * q.period \in Nat
    BY <1>2
  <1>5. Counter!Fits(q, r, o, n) = (n * q.period =< q.limit * q.period)
    BY <1>3, <1>4 DEF Counter!Fits
  <1> QED
    BY <1>5, Zenon DEF AdmitsAt, r, o

\* Without records a request is judged by the limit alone.
LEMMA EmptyAdmits ==
    ASSUME NEW q \in [limit : Nat, period : Nat], NEW l \in Logs, Len(l.runs) = 0, NEW n \in Nat, NEW ns \in Nat
    PROVE  LogAdmits(q, l, n, ns) <=> n =< q.limit
  <1>1. Log!InOrder(l)
    BY DEF Log!InOrder
  <1>2. /\ Log!Total(l) = Log!TotalAt(l, 0) /\ Log!TotalAt(l, 0) \in Nat
    <2>1. /\ Log!Total(l) = Log!TotalAt(l, Len(l.runs)) /\ \A i \in 0..Len(l.runs) : Log!TotalAt(l, i) \in Nat
      BY LogShape, Zenon
    <2> QED
      BY <2>1
  <1>3. PICK e : e = Log!Effective(l, ns)
    BY Zenon
  <1>4. 0..Len(l.runs) = {0}
    OBVIOUS
  <1>5. LeftBy(q, l, n, e) <=> Log!Total(l) + n =< q.limit + Log!TotalAt(l, 0)
    BY <1>4 DEF LeftBy
  <1>6. q.limit \in Nat
    BY Zenon
  <1>7. LeftBy(q, l, n, e) <=> n =< q.limit
    BY <1>2, <1>5, <1>6
  <1> QED
    BY <1>1, <1>3, <1>7, AdmitsLeft, Zenon

\* Expiring records and rolling windows change no decision of a caller that is
\* not behind them (Log::expire, SlidingCounter::roll): the upkeep of a peek or a
\* denial is safe to share.
THEOREM UpkeepNeverSeen == Spec => UpkeepInvisible
  <1>1. ASSUME IInv, [Next]_vars, algorithm = "log", algorithm' = "log" PROVE Log!ExpiryInvisible
    <2>1. Log!IInv
      BY <1>1, Zenon DEF IInv
    <2>2. CASE [Log!Next]_Log!vars
      BY <2>1, <2>2, LogInvisible, Zenon
    <2>3. CASE Rebuild
      <3>1. SUFFICES ASSUME spent' = spent, NEW n \in 1..MaxCost, NEW ns \in horizon'..MaxTime
                     PROVE  Log!Admits(log', n, ns) = Log!Admits(log, n, ns)
        BY Zenon DEF Log!ExpiryInvisible
      <3>2. log' = Log!EmptyLog(0) /\ horizon' = 0 /\ spent' = [w \in DOMAIN spent |-> 0]
        BY <2>3, Zenon DEF Rebuild, Renew
      <3>3. /\ log \in Logs /\ quota \in [limit : Nat, period : Nat] /\ spent \in Ledgers /\ MaxTime \in Nat
            /\ Log!InWindow(log) \in Nat /\ Log!InWindow(log) =< spent[<<0, MaxTime>>]
            /\ Len(log.runs) =< Log!InWindow(log)
        BY <2>1, LogTypes, Zenon
      <3>4. n \in Nat /\ ns \in Nat
        BY <3>1, <3>2, <3>3, BoundsAssumption
      <3>5. spent[<<0, MaxTime>>] = 0
        BY <3>1, <3>2, <3>3, SpanTypes DEF Ledgers
      <3>6. Len(log.runs) = 0
        <4>1. Len(log.runs) \in Nat
          BY <3>3, LogShape, Zenon
        <4> QED
          BY <3>3, <3>5, <4>1
      <3>7. log' \in Logs /\ Len(log'.runs) = 0
        BY <3>2 DEF Log!EmptyLog, Logs
      <3>8. LogAdmits(quota, log', n, ns) <=> LogAdmits(quota, log, n, ns)
        BY <3>3, <3>4, <3>6, <3>7, EmptyAdmits
      <3>9. /\ Log!Admits(log', n, ns) = LogAdmits(quota, log', n, ns)
            /\ Log!Admits(log, n, ns) = LogAdmits(quota, log, n, ns)
        BY Zenon DEF Log!Admits, LogAdmits
      <3>10. LogAdmits(quota, log', n, ns) \in BOOLEAN /\ LogAdmits(quota, log, n, ns) \in BOOLEAN
        BY DEF LogAdmits, Log!Fits
      <3> QED
        BY <3>8, <3>9, <3>10, Zenon
    <2>4. CASE UNCHANGED vars
      BY <2>2, <2>4, Zenon DEF vars, shared, Log!vars
    <2> QED
      BY <1>1, <2>2, <2>3, <2>4, Zenon DEF Next, Dispatch, LogStep, CounterStep
  <1>2. ASSUME IInv, [Next]_vars, algorithm = "counter", algorithm' = "counter" PROVE Counter!RollInvisible
    <2>1. Counter!IInv
      BY <1>2, Zenon DEF IInv
    <2>2. CASE [Counter!Next]_Counter!vars
      BY <2>1, <2>2, CounterInvisible, Zenon
    <2>3. CASE Rebuild
      <3>1. SUFFICES ASSUME spent' = spent, NEW n \in 1..MaxCost, NEW ns \in Counter!Times, quota.period # 0
                     PROVE  Counter!Admits(n, ns)' = Counter!Admits(n, ns)
        BY Zenon DEF Counter!RollInvisible
      <3>2. state' = Counter!Fresh(quota, 0) /\ quota' = quota /\ spent' = [w \in DOMAIN spent |-> 0]
        BY <2>3, Zenon DEF Rebuild, Renew
      <3>3. /\ quota \in Quotas /\ quota.limit \in Nat /\ state \in Counts /\ spent \in Ledgers
            /\ state.prev =< quota.limit /\ state.curr =< quota.limit /\ MaxTime \in Nat
        BY <2>1, CounterTypes, Zenon
      <3>4. n \in Nat /\ ns \in Nat /\ 0 \in Counter!Times
        BY BoundsAssumption DEF Counter!Times
      <3>5. quota \in Open
        BY <3>1, <3>3, QuotasAssumption, Zenon DEF Open
      <3>6. spent[<<0, MaxTime>>] = 0
        BY <3>1, <3>2, <3>3, SpanTypes, Zenon DEF Ledgers
      <3>7. state.prev = 0 /\ state.curr = 0
        <4>1. state.prev \in Nat /\ state.curr \in Nat
          BY <3>3, Zenon DEF Counts
        <4>2. CASE Counter!DenyAll(quota)
          <5>1. quota.limit = 0
            BY <3>1, <4>2, Zenon DEF Counter!DenyAll
          <5> QED
            BY <3>3, <4>1, <5>1
        <4>3. CASE ~Counter!DenyAll(quota)
          <5>1. state.prev + state.curr =< spent[<<0, MaxTime>>]
            BY <2>1, <4>3, Zenon DEF Counter!IInv, Counter!Covers
          <5> QED
            BY <3>6, <4>1, <5>1
        <4> QED
          BY <4>2, <4>3, Zenon
      <3>8. state' \in Counts /\ state'.prev = 0 /\ state'.curr = 0
        BY <3>2, <3>3, <3>4, FreshIs, Zenon
      <3>9. AdmitsAt(quota, state', n, ns) = AdmitsAt(quota, state, n, ns)
        BY <3>3, <3>4, <3>5, <3>7, <3>8, ZeroAdmits
      <3> QED
        BY <3>2, <3>9, Zenon DEF Counter!Admits, AdmitsAt
    <2>4. CASE UNCHANGED vars
      BY <2>2, <2>4, Zenon DEF vars, shared, Counter!vars
    <2> QED
      BY <1>2, <2>2, <2>3, <2>4, Zenon DEF Next, Dispatch, LogStep, CounterStep
  <1> QED
    BY <1>1, <1>2, Invariance, PTL DEF Spec, UpkeepInvisible
=============================================================================
