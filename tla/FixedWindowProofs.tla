-------------------------- MODULE FixedWindowProofs --------------------------
(***************************************************************************)
(* Proofs about FixedWindow, for any number of threads, any quotas and any *)
(* clock that stays within one turn of the packed index: no window admits  *)
(* more than the limit, and the answers are exact.                         *)
(***************************************************************************)
EXTENDS FixedWindow, Lemmas

\* The time the provers have for a leaf, in seconds.
USE SMTT(30), ZenonT(30)

-----------------------------------------------------------------------------
\* Windows and their indices.

\* Quotas are made of natural numbers.
LEMMA QuotaType ==
    ASSUME NEW q \in Quotas
    PROVE  q.limit \in Nat /\ q.period \in Nat
  BY QuotasAssumption, Zenon

\* A reading falls into its window.
LEMMA WindowBounds ==
    ASSUME NEW q \in Quotas, q.period # 0, NEW n \in Nat
    PROVE  /\ WindowOf(q, n) \in Nat
           /\ WindowOf(q, n) * q.period =< n
           /\ n < (WindowOf(q, n) + 1) * q.period
  BY QuotaType, Quotient DEF WindowOf

\* No window number exceeds the time.
LEMMA WindowType ==
    ASSUME NEW q \in Quotas, NEW n \in Nat
    PROVE  WindowOf(q, n) \in 0..n
  <1>1. CASE q.period = 0
    BY <1>1 DEF WindowOf
  <1>2. CASE q.period # 0
    <2>1. WindowOf(q, n) \in Nat /\ WindowOf(q, n) * q.period =< n
      BY <1>2, WindowBounds, Zenon
    <2>2. WindowOf(q, n) * 1 =< WindowOf(q, n) * q.period
      BY <1>2, <2>1, QuotaType, ProductMonotone
    <2> HIDE DEF WindowOf
    <2>3. WindowOf(q, n) * q.period \in Nat
      BY <2>1, QuotaType
    <2> QED
      BY <2>1, <2>2, <2>3
  <1> QED
    BY <1>1, <1>2, Zenon

\* A window has begun by a reading exactly if its start is no later.
LEMMA WindowReached ==
    ASSUME NEW q \in Quotas, q.period # 0, NEW n \in Nat, NEW w \in Nat
    PROVE  w =< WindowOf(q, n) <=> w * q.period =< n
  <1>1. /\ WindowOf(q, n) \in Nat
        /\ WindowOf(q, n) * q.period =< n
        /\ n < (WindowOf(q, n) + 1) * q.period
        /\ q.period \in Nat
    BY WindowBounds, QuotaType, Zenon
  <1> HIDE DEF WindowOf
  <1>2. {w * q.period, WindowOf(q, n) * q.period, (WindowOf(q, n) + 1) * q.period} \subseteq Nat
    BY <1>1
  <1>3. ASSUME w =< WindowOf(q, n) PROVE w * q.period =< n
    <2>1. w * q.period =< WindowOf(q, n) * q.period
      BY <1>1, <1>3, ProductMonotone, Zenon
    <2> QED
      BY <1>1, <1>2, <2>1
  <1>4. ASSUME w * q.period =< n PROVE w =< WindowOf(q, n)
    <2>1. w * q.period < (WindowOf(q, n) + 1) * q.period
      BY <1>1, <1>2, <1>4
    <2>2. w < WindowOf(q, n) + 1
      BY <1>1, <2>1, ProductCancel, WindowOf(q, n) + 1 \in Nat
    <2> QED
      BY <1>1, <2>2
  <1> QED
    BY <1>3, <1>4, Zenon

\* A later reading falls into no earlier window.
LEMMA WindowMonotone ==
    ASSUME NEW q \in Quotas, NEW m \in Nat, NEW n \in Nat, m =< n
    PROVE  WindowOf(q, m) =< WindowOf(q, n)
  <1>1. CASE q.period = 0
    BY <1>1 DEF WindowOf
  <1>2. CASE q.period # 0
    <2>1. WindowOf(q, m) \in Nat /\ WindowOf(q, m) * q.period =< m /\ WindowOf(q, m) * q.period \in Nat
      BY <1>2, WindowBounds, QuotaType
    <2>2. WindowOf(q, m) * q.period =< n
      BY <2>1
    <2> QED
      BY <1>2, <2>1, <2>2, WindowReached, Zenon
  <1> QED
    BY <1>1, <1>2, Zenon

\* The windows of the time modelled are fewer than the indices.
LEMMA WindowSpan ==
    ASSUME NEW q \in Quotas, MinTime =< MaxTime
    PROVE  WindowOf(q, MaxTime) - WindowOf(q, MinTime) < IndexMod
  <1> DEFINE a == WindowOf(q, MinTime)
             b == WindowOf(q, MaxTime)
             p == q.period
             d == MaxTime - MinTime
  <1>1. CASE p = 0
    BY <1>1, BoundsAssumption DEF WindowOf
  <1>2. CASE p # 0
    <2>1. /\ a \in Nat /\ b \in Nat /\ p \in Nat
          /\ b * p =< MaxTime
          /\ MinTime < (a + 1) * p
      BY <1>2, BoundsAssumption, QuotaType, WindowBounds, Zenon
    <2>2. d \in Nat /\ d < IndexMod /\ IndexMod \in Nat
      BY BoundsAssumption, IndexAssumption
    <2> HIDE DEF a, b, p
    <2>3. SUFFICES ASSUME b - a >= IndexMod PROVE FALSE
      BY <2>1, <2>2 DEF a, b
    <2>4. (a + 1 + d) * p =< b * p
      BY <2>1, <2>2, <2>3, ProductMonotone, a + 1 + d \in Nat
    <2>5. (a + 1 + d) * p = (a + 1) * p + d * p
      BY <2>1, <2>2
    <2>6. d * 1 =< d * p
      BY <1>2, <2>1, <2>2, ProductMonotone
    <2>7. {b * p, (a + 1) * p, d * p} \subseteq Nat
      BY <2>1, <2>2
    <2> HIDE DEF d
    <2>8. d = MaxTime - MinTime
      BY DEF d
    <2> QED
      BY <2>1, <2>2, <2>4, <2>5, <2>6, <2>7, <2>8, BoundsAssumption
  <1> QED
    BY <1>1, <1>2, Zenon

\* Two windows less than a turn apart have different indices.
LEMMA LowBitsUnique ==
    ASSUME NEW v \in Nat, NEW w \in Nat, v =< w, w - v < IndexMod, LowBits(v) = LowBits(w)
    PROVE  v = w
  <1> DEFINE a == v \div IndexMod
             b == w \div IndexMod
  <1>1. IndexMod \in Nat /\ IndexMod > 0 /\ a \in Nat /\ b \in Nat
    BY BoundsAssumption, Quotient
  <1>2. v = a * IndexMod + (v % IndexMod) /\ w = b * IndexMod + (w % IndexMod)
    BY <1>1, Remainder, Zenon
  <1>3. v % IndexMod = w % IndexMod /\ v % IndexMod \in Nat
    BY <1>1 DEF LowBits
  <1> HIDE DEF a, b
  <1>4. {a * IndexMod, b * IndexMod} \subseteq Nat
    BY <1>1
  <1>5. b * IndexMod < (a + 1) * IndexMod
    <2>1. (a + 1) * IndexMod = a * IndexMod + IndexMod
      BY <1>1
    <2> QED
      BY <1>1, <1>2, <1>3, <1>4, <2>1
  <1>6. b < a + 1
    BY <1>1, <1>5, ProductCancel, a + 1 \in Nat, Zenon
  <1>7. a * IndexMod =< b * IndexMod
    BY <1>2, <1>3, <1>4
  <1>8. a * IndexMod < (b + 1) * IndexMod
    <2>1. (b + 1) * IndexMod = b * IndexMod + IndexMod
      BY <1>1
    <2> QED
      BY <1>1, <1>4, <1>7, <2>1
  <1>9. a < b + 1
    BY <1>1, <1>8, ProductCancel, b + 1 \in Nat, Zenon
  <1>10. a = b
    BY <1>1, <1>6, <1>9
  <1> QED
    BY <1>2, <1>3, <1>10, Zenon

\* An index is one of those that the word holds.
LEMMA LowBitsType == ASSUME NEW w \in Nat PROVE LowBits(w) \in 0..IndexMod - 1
  BY BoundsAssumption DEF LowBits

-----------------------------------------------------------------------------
\* Parts of the state.

\* The types of the state.
LEMMA TypeIs == TypeOK <=>
    (/\ quota \in Quotas
     /\ clock \in Times
     /\ state \in Words
     /\ latest \in Windows
     /\ pc \in [Thread -> {"idle", "state", "latest", "raise", "cas", "reset"}]
     /\ need \in [Thread -> 0..MaxCost]
     /\ now \in [Thread -> Times]
     /\ current \in [Thread -> Words]
     /\ seen \in [Thread -> Windows]
     /\ opened \in [Thread -> {None} \union (Words \X Windows)]
     /\ charged \in [Windows -> Nat]
     /\ excused \subseteq Thread
     /\ resets \in 0..MaxResets
     /\ spurious \in 0..MaxSpurious)
  BY Zenon DEF TypeOK

\* The same after a step.
LEMMA TypeIsNext == TypeOK' <=>
    (/\ quota \in Quotas
     /\ clock \in Times
     /\ state \in Words
     /\ latest \in Windows
     /\ pc \in [Thread -> {"idle", "state", "latest", "raise", "cas", "reset"}]
     /\ need \in [Thread -> 0..MaxCost]
     /\ now \in [Thread -> Times]
     /\ current \in [Thread -> Words]
     /\ seen \in [Thread -> Windows]
     /\ opened \in [Thread -> {None} \union (Words \X Windows)]
     /\ charged \in [Windows -> Nat]
     /\ excused \subseteq Thread
     /\ resets \in 0..MaxResets
     /\ spurious \in 0..MaxSpurious)'
  BY Zenon DEF TypeOK

\* The parts of the inductive invariant.
LEMMA InvIs == IInv <=>
    (/\ TypeOK
     /\ WindowsOpened
     /\ WordCounts
     /\ \A t \in Thread : Judges(t) /\ OpensLater(t)
     /\ NoOverAdmit)
  BY DEF IInv

\* The same after a step.
LEMMA InvIsNext == IInv' <=>
    (/\ TypeOK
     /\ WindowsOpened
     /\ WordCounts
     /\ \A t \in Thread : Judges(t) /\ OpensLater(t)
     /\ NoOverAdmit)'
  BY DEF IInv

\* The numbers of the state are natural numbers.
LEMMA Numbers ==
    ASSUME TypeOK
    PROVE  /\ quota \in Quotas /\ quota.limit \in Nat /\ quota.period \in Nat
           /\ MinTime \in Nat /\ MaxTime \in Nat /\ clock \in Nat
           /\ MinTime =< clock /\ clock =< MaxTime
           /\ latest \in Nat /\ First \in Nat /\ WindowOf(quota, clock) \in Nat
           /\ state.count \in Nat
           /\ \A t \in Thread : /\ need[t] \in Nat /\ now[t] \in Nat /\ MinTime =< now[t]
                                /\ seen[t] \in Nat /\ current[t].count \in Nat
  <1>1. quota \in Quotas /\ clock \in Nat /\ MinTime \in Nat /\ MaxTime \in Nat
    BY BoundsAssumption DEF TypeOK, Times
  <1>2. First \in Nat /\ WindowOf(quota, clock) \in Nat
    BY <1>1, WindowType DEF First
  <1> QED
    BY <1>1, <1>2, QuotaType, BoundsAssumption DEF TypeOK, Times, Windows, Words

\* The index of a word tells which of the windows opened it is of.
LEMMA OneWindow ==
    ASSUME TypeOK, WindowsOpened, NEW v \in First..latest, NEW w \in First..latest, LowBits(v) = LowBits(w)
    PROVE  v = w
  <1>1. /\ First \in Nat /\ latest \in Nat /\ First = WindowOf(quota, MinTime)
        /\ latest =< WindowOf(quota, clock) /\ WindowOf(quota, clock) \in Nat
    BY Numbers, Zenon DEF WindowsOpened, First
  <1>2. WindowOf(quota, clock) =< WindowOf(quota, MaxTime) /\ WindowOf(quota, MaxTime) \in Nat
    BY Numbers, WindowMonotone, WindowType
  <1>3. WindowOf(quota, MaxTime) - First < IndexMod
    BY <1>1, Numbers, WindowSpan
  <1>4. v \in Nat /\ w \in Nat /\ w - v < IndexMod /\ v - w < IndexMod
    BY <1>1, <1>2, <1>3, BoundsAssumption
  <1> QED
    BY <1>4, LowBitsUnique

\* The window judged is the newer of the reading's and the latest.
LEMMA TargetType ==
    ASSUME TypeOK, WindowsOpened, NEW t \in Thread, NEW newest \in Nat
    PROVE  /\ WindowOf(quota, now[t]) \in Nat
           /\ First =< WindowOf(quota, now[t]) /\ WindowOf(quota, now[t]) =< WindowOf(quota, clock)
           /\ TargetWindow(quota, now[t], newest) \in {WindowOf(quota, now[t]), newest}
           /\ TargetWindow(quota, now[t], newest) >= WindowOf(quota, now[t])
           /\ TargetWindow(quota, now[t], newest) >= newest
  <1>1. now[t] \in Nat /\ MinTime =< now[t] /\ now[t] =< clock
    BY Numbers, Zenon DEF WindowsOpened
  <1>2. /\ WindowOf(quota, now[t]) \in Nat
        /\ First =< WindowOf(quota, now[t]) /\ WindowOf(quota, now[t]) =< WindowOf(quota, clock)
    BY <1>1, Numbers, WindowMonotone, WindowType DEF First
  <1> QED
    BY <1>2 DEF TargetWindow, Later

\* A thread that a step leaves alone keeps its part of the invariant.
LEMMA Unmoved ==
    ASSUME IInv, quota' = quota, latest' \in Nat, latest' >= latest, NEW u \in Thread,
           pc'[u] = pc[u], need'[u] = need[u], now'[u] = now[u], current'[u] = current[u],
           seen'[u] = seen[u], opened'[u] = opened[u]
    PROVE  Judges(u)' /\ OpensLater(u)'
  <1>1. First' = First /\ First \in Nat /\ latest \in Nat
    BY Numbers, Zenon DEF IInv, First
  <1>2. First..latest \subseteq (First..latest)'
    BY <1>1
  <1>3. Target(u)' = Target(u) /\ Total(u)' = Total(u)
    BY Zenon DEF Target, Total, Base
  <1>4. Target(u) \in Nat
    BY Numbers, TargetType, Zenon DEF IInv, Target
  <1>5. Judges(u)'
    <2>1. Judges(u)
      BY Zenon DEF IInv
    <2> QED
      BY <1>1, <1>2, <1>3, <1>4, <2>1 DEF Judges, IsOf
  <1>6. OpensLater(u)'
    <2>1. OpensLater(u)
      BY Zenon DEF IInv
    <2> QED
      BY <1>1, <1>2, <2>1, Zenon DEF OpensLater, IsOf
  <1> QED
    BY <1>5, <1>6, Zenon

\* A step leaves the locals of every thread but one alone.
OthersStand(t) ==
    \A u \in Thread \ {t} :
        /\ pc'[u] = pc[u] /\ need'[u] = need[u] /\ now'[u] = now[u]
        /\ current'[u] = current[u] /\ seen'[u] = seen[u] /\ opened'[u] = opened[u]

\* A thread that returns has nothing left to keep, and leaves the others alone.
LEMMA Returns ==
    ASSUME TypeOK, NEW t \in Thread, Return(t)
    PROVE  pc'[t] = "idle" /\ opened'[t] = None /\ now'[t] = MinTime /\ OthersStand(t)
  BY TypeIs, Zenon DEF Return, OthersStand

\* Its locals keep their types.
LEMMA ReturnTypes ==
    ASSUME TypeOK, NEW t \in Thread, Return(t)
    PROVE  /\ pc' \in [Thread -> {"idle", "state", "latest", "raise", "cas", "reset"}]
           /\ need' \in [Thread -> 0..MaxCost]
           /\ now' \in [Thread -> Times]
           /\ current' \in [Thread -> Words]
           /\ seen' \in [Thread -> Windows]
           /\ opened' \in [Thread -> {None} \union (Words \X Windows)]
  <1>1. 0 \in 0..MaxCost /\ 0 \in Windows /\ MinTime \in Times
    BY Numbers, BoundsAssumption DEF Windows, Times
  <1>2. Blank \in Words
    BY LowBitsType, Zenon DEF Blank, Pack, Words
  <1> QED
    BY <1>1, <1>2, TypeIs, Zenon DEF Return

\* What a step that leaves both words and the ledger alone has to keep.
LEMMA WordsAlone ==
    ASSUME IInv, TypeOK', UNCHANGED <<quota, clock, state, latest, charged>>, NEW t \in Thread,
           now'[t] =< clock,
           OthersStand(t), Judges(t)', OpensLater(t)'
    PROVE  IInv'
  <1>1. latest \in Nat /\ latest' >= latest
    BY Numbers DEF IInv
  <1>2. \A u \in Thread \ {t} : Judges(u)' /\ OpensLater(u)'
    BY <1>1, Unmoved, Zenon DEF OthersStand
  <1>3. WindowsOpened'
    <2>1. WindowsOpened
      BY Zenon DEF IInv
    <2> QED
      BY <2>1, Zenon DEF WindowsOpened, First, OthersStand
  <1>4. WordCounts'
    BY Zenon DEF IInv, WordCounts, First, IsOf
  <1>5. NoOverAdmit'
    BY Zenon DEF IInv, NoOverAdmit
  <1> QED
    BY <1>2, <1>3, <1>4, <1>5, Zenon DEF IInv

-----------------------------------------------------------------------------
\* One lemma for each action, or for several that are alike.

\* A new window opens with an empty count.
LEMMA InitIInv == Init => IInv
  <1>1. SUFFICES ASSUME Init PROVE IInv
    OBVIOUS
  <1>2. /\ quota \in Quotas /\ clock \in Nat /\ MinTime \in Nat /\ MinTime =< clock /\ clock =< MaxTime
        /\ MaxTime \in Nat /\ MaxCost \in Nat /\ MaxResets \in Nat /\ MaxSpurious \in Nat
    BY <1>1, BoundsAssumption DEF Init, Times
  <1>3. WindowOf(quota, clock) \in 0..clock
    BY <1>2, WindowType, Zenon
  <1>4. latest \in Windows /\ 0 \in Windows /\ MinTime \in Times
    BY <1>1, <1>2, <1>3 DEF Init, Windows, Times
  <1>5. state \in Words /\ Blank \in Words
    BY <1>1, <1>2, <1>3, LowBitsType DEF Words, Blank, Pack, Init
  <1>6. TypeOK
    BY <1>1, <1>2, <1>4, <1>5, TypeIs DEF Init, NothingCharged
  <1>7. WindowsOpened
    BY <1>1, <1>2, <1>3, WindowMonotone DEF Init, WindowsOpened, First
  <1>8. WordCounts
    <2>1. latest \in First..latest
      BY <1>6, <1>7, Numbers DEF WindowsOpened
    <2>2. IsOf(state, latest) /\ state.count = 0 /\ \A w \in Windows : charged[w] = 0
      BY <1>1, Zenon DEF Init, IsOf, Pack, NothingCharged
    <2> QED
      BY <1>4, <2>1, <2>2, Zenon DEF WordCounts
  <1>9. \A t \in Thread : Judges(t) /\ OpensLater(t)
    BY <1>1, Zenon DEF Init, Judges, OpensLater
  <1>10. NoOverAdmit
    BY <1>1, <1>6, Numbers DEF Init, NoOverAdmit, NothingCharged
  <1> QED
    BY <1>6, <1>7, <1>8, <1>9, <1>10 DEF IInv

\* Time passes.
LEMMA TickIInv == ASSUME IInv, Tick PROVE IInv'
  <1>1. clock' = clock + 1 /\ clock < MaxTime
        /\ UNCHANGED <<quota, state, latest, pc, need, now, current, seen, opened, charged, excused, resets, spurious>>
    BY Zenon DEF Tick
  <1>2. clock \in Nat /\ latest \in Nat /\ WindowOf(quota, clock) \in Nat /\ MinTime =< clock /\ quota \in Quotas
        /\ MinTime \in Nat /\ MaxTime \in Nat /\ \A t \in Thread : now[t] \in Nat
    BY Numbers, Zenon DEF IInv
  <1>3. WindowOf(quota, clock) =< WindowOf(quota, clock + 1) /\ WindowOf(quota, clock + 1) \in Nat
    BY <1>2, WindowMonotone, WindowType
  <1>4. WindowOf(quota, clock)' = WindowOf(quota, clock + 1)
    BY <1>1, Zenon DEF WindowOf
  <1>5. TypeOK'
    <2>1. clock' \in Times
      BY <1>1, <1>2 DEF Times
    <2> QED
      BY <1>1, <2>1, Zenon DEF IInv, TypeOK
  <1>6. WindowsOpened'
    BY <1>1, <1>2, <1>3, <1>4 DEF IInv, WindowsOpened, First
  <1>7. WordCounts' /\ NoOverAdmit'
    BY <1>1, Zenon DEF IInv, WordCounts, NoOverAdmit, First, IsOf
  <1>8. \A u \in Thread : Judges(u)' /\ OpensLater(u)'
    BY <1>1, <1>2, Unmoved
  <1> QED
    BY <1>5, <1>6, <1>7, <1>8, Zenon DEF IInv

\* acquire begins.
LEMMA CallIInv == ASSUME IInv, NEW t \in Thread, NEW n \in 0..MaxCost, Call(t, n) PROVE IInv'
  <1>1. TypeOK'
    BY Zenon DEF IInv, TypeOK, Call, Times, Windows, Words
  <1>2. now'[t] =< clock
    BY Numbers, InvIs, TypeIs DEF Call
  <1>3. Judges(t)'
    BY Zenon DEF IInv, TypeOK, Call, Judges
  <1>4. OpensLater(t)'
    BY Zenon DEF IInv, Call, OpensLater, IsOf, First
  <1>5. UNCHANGED <<quota, clock, state, latest, charged>>
    BY Zenon DEF Call
  <1>6. OthersStand(t)
    <2>1. TypeOK
      BY DEF IInv
    <2> QED
      BY <2>1, Zenon DEF TypeOK, Call, OthersStand
  <1> QED
    BY <1>1, <1>2, <1>3, <1>4, <1>5, <1>6, WordsAlone, Zenon

\* A thread that returns without touching a word.
LEMMA ReturnIInv ==
    ASSUME IInv, NEW t \in Thread, ReturnEarly(t) \/ LoadLatestDenied(t)
    PROVE  IInv'
  <1>1. TypeOK /\ Return(t) /\ UNCHANGED <<quota, clock, state, latest, charged, resets, spurious>> /\ excused' \subseteq excused
    BY Zenon DEF IInv, ReturnEarly, LoadLatestDenied
  <1>2. TypeOK'
    BY <1>1, ReturnTypes, Zenon DEF TypeOK, Times, Windows, Words
  <1>3. Judges(t)' /\ OpensLater(t)'
    <2>1. pc'[t] = "idle" /\ opened'[t] = None
      BY <1>1, Returns, Zenon
    <2> QED
      BY <2>1, Zenon DEF Judges, OpensLater
  <1>4. now'[t] =< clock
    BY <1>1, Returns, Numbers, Zenon
  <1> QED
    BY <1>1, <1>2, <1>3, <1>4, Returns, WordsAlone, Zenon

\* The word loaded is of the window that the state word is of.
LEMMA LoadStateIInv == ASSUME IInv, NEW t \in Thread, LoadState(t) PROVE IInv'
  <1>1. TypeOK'
    BY InvIs, TypeIs, TypeIsNext, Zenon DEF LoadState, Times, Windows, Words
  <1>2. pc'[t] = "latest" /\ current'[t] = state /\ need[t] # 0 /\ ~Impossible(quota, need[t])
    BY Zenon DEF IInv, TypeOK, LoadState
  <1>3. \E w \in First..latest : IsOf(state, w)
    BY Zenon DEF IInv, WordCounts
  <1>4. Judges(t)'
    BY <1>2, <1>3, Zenon DEF Judges, LoadState, IsOf, First, Impossible, DenyAll
  <1>5. OpensLater(t)'
    BY Zenon DEF IInv, LoadState, OpensLater, IsOf, First
  <1>6. now'[t] =< clock
    BY Zenon DEF IInv, WindowsOpened, LoadState
  <1>7. UNCHANGED <<quota, clock, state, latest, charged>>
    BY Zenon DEF LoadState
  <1>8. OthersStand(t)
    <2>1. TypeOK
      BY DEF IInv
    <2> QED
      BY <2>1, Zenon DEF TypeOK, LoadState, OthersStand
  <1> QED
    BY <1>1, <1>4, <1>5, <1>6, <1>7, <1>8, WordsAlone, Zenon

\* The request fits by the word and the latest loaded after it.
LEMMA LoadLatestIInv == ASSUME IInv, NEW t \in Thread, LoadLatestFits(t) PROVE IInv'
  <1>1. /\ pc[t] = "latest" /\ seen'[t] = latest
        /\ pc'[t] = IF TargetWindow(quota, now[t], latest) > latest THEN "raise" ELSE "cas"
        /\ Base(t, latest) + need[t] =< quota.limit
        /\ UNCHANGED <<quota, clock, state, latest, need, now, current, opened, charged, resets, spurious>>
    BY Zenon DEF IInv, TypeOK, LoadLatestFits
  <1>2. latest \in Nat /\ First \in Nat /\ First =< latest
    BY Numbers, Zenon DEF IInv, WindowsOpened
  <1>3. TypeOK'
    BY InvIs, InvIsNext, TypeIs, TypeIsNext, Zenon DEF LoadLatestFits, Times, Windows, Words
  <1>4. Target(t)' = TargetWindow(quota, now[t], latest) /\ Total(t)' = Base(t, latest) + need[t]
    BY <1>1, Zenon DEF Target, Total, Base, TargetWindow, WindowOf
  <1>5. TargetWindow(quota, now[t], latest) \in Nat /\ WindowOf(quota, now[t]) \in Nat
    BY <1>2, TargetType, Zenon DEF IInv
  <1>6. Judges(t)'
    <2>1. Judges(t)
      BY DEF IInv
    <2>2. PICK w \in First..latest : IsOf(current[t], w)
      BY <1>1, <2>1, Zenon DEF Judges
    <2>3. First' = First /\ latest' = latest /\ IsOf(current[t], w)' /\ seen'[t] \in First..latest /\ w =< seen'[t]
      BY <1>1, <1>2, <2>2 DEF First, IsOf
    <2>4. need'[t] # 0 /\ ~Impossible(quota, need[t])'
      BY <1>1, <2>1, Zenon DEF Judges, Impossible, DenyAll
    <2>5. pc'[t] \in {"raise", "cas"}
      BY <1>1, Zenon
    <2>6. pc'[t] = "raise" => TargetWindow(quota, now[t], latest) > latest
      BY <1>1, Zenon
    <2>7. pc'[t] = "cas" => TargetWindow(quota, now[t], latest) =< latest
      BY <1>1, <1>2, <1>5
    <2> QED
      BY <1>1, <1>4, <2>2, <2>3, <2>4, <2>5, <2>6, <2>7, Zenon DEF Judges
  <1>7. OpensLater(t)'
    BY <1>1, Zenon DEF IInv, OpensLater, IsOf, First
  <1>8. now'[t] =< clock
    BY <1>1, Zenon DEF IInv, WindowsOpened
  <1>9. UNCHANGED <<quota, clock, state, latest, charged>>
    BY Zenon DEF LoadLatestFits
  <1>10. OthersStand(t)
    <2>1. TypeOK
      BY DEF IInv
    <2> QED
      BY <2>1, Zenon DEF TypeOK, LoadLatestFits, OthersStand
  <1> QED
    BY <1>1, <1>3, <1>6, <1>7, <1>8, <1>9, <1>10, WordsAlone, Zenon

\* The loop begins again.
LEMMA RetryIInv == ASSUME IInv, NEW t \in Thread, CasFail(t) \/ CasFailSpuriously(t) PROVE IInv'
  <1>1. Retry(t) /\ UNCHANGED <<quota, clock, state, latest, need, now, opened, charged, excused, resets>>
    BY Zenon DEF CasFail, CasFailSpuriously
  <1>2. spurious' \in 0..MaxSpurious
    BY BoundsAssumption DEF IInv, TypeOK, CasFail, CasFailSpuriously
  <1>3. Blank \in Words /\ 0 \in Windows
    BY LowBitsType, BoundsAssumption DEF Blank, Pack, Words, Windows
  <1>4. TypeOK'
    BY <1>1, <1>2, <1>3, Zenon, InvIs, TypeIs, TypeIsNext DEF Retry, Times, Windows, Words
  <1>5. pc'[t] = "state"
    BY <1>1, InvIs, TypeIs, Zenon DEF Retry
  <1>6. Judges(t)' /\ OpensLater(t)'
    BY <1>1, <1>5, InvIs, Zenon DEF Judges, OpensLater, IsOf, First
  <1>7. now'[t] =< clock
    BY <1>1, Zenon DEF IInv, WindowsOpened
  <1>8. UNCHANGED <<quota, clock, state, latest, charged>>
    BY <1>1, Zenon DEF Retry
  <1>9. OthersStand(t)
    <2>1. TypeOK
      BY DEF IInv
    <2> QED
      BY <1>1, <2>1, Zenon DEF TypeOK, Retry, OthersStand
  <1> QED
    BY <1>1, <1>4, <1>6, <1>7, <1>8, <1>9, WordsAlone, Zenon

\* reset begins.
LEMMA ResetLoadIInv == ASSUME IInv, NEW t \in Thread, ResetLoad(t) PROVE IInv'
  <1>1. resets' \in 0..MaxResets
    BY BoundsAssumption DEF IInv, TypeOK, ResetLoad
  <1>2. TypeOK'
    BY <1>1, Zenon, InvIs, TypeIs, TypeIsNext DEF ResetLoad, Times, Windows, Words
  <1>3. latest \in First..latest
    BY Numbers DEF IInv, WindowsOpened
  <1>4. pc'[t] = "reset" /\ seen'[t] = latest
    BY Zenon DEF IInv, TypeOK, ResetLoad
  <1>5. Judges(t)' /\ OpensLater(t)'
    BY <1>3, <1>4, InvIs, Zenon DEF ResetLoad, Judges, OpensLater, IsOf, First
  <1>6. now'[t] =< clock
    BY Zenon DEF IInv, WindowsOpened, ResetLoad
  <1>7. UNCHANGED <<quota, clock, state, latest, charged>>
    BY Zenon DEF ResetLoad
  <1>8. OthersStand(t)
    <2>1. TypeOK
      BY DEF IInv
    <2> QED
      BY <2>1, Zenon DEF TypeOK, ResetLoad, OthersStand
  <1> QED
    BY <1>2, <1>5, <1>6, <1>7, <1>8, WordsAlone, Zenon

\* The latest is raised to the window of the caller's own reading.
LEMMA RaiseIInv == ASSUME IInv, NEW t \in Thread, RaiseLatest(t) PROVE IInv'
  <1>1. /\ pc[t] = "raise" /\ pc'[t] = "cas" /\ latest' = Later(latest, Target(t))
        /\ opened'[t] = <<current[t], Target(t)>>
        /\ \A u \in Thread \ {t} : pc'[u] = pc[u] /\ opened'[u] = opened[u]
        /\ UNCHANGED <<quota, clock, state, need, now, current, seen, charged, excused, resets, spurious>>
    BY Zenon DEF IInv, TypeOK, RaiseLatest
  <1>2. /\ latest \in Nat /\ First \in Nat /\ First =< latest /\ latest =< WindowOf(quota, clock)
        /\ WindowOf(quota, clock) \in Nat /\ seen[t] \in Nat /\ quota.limit \in Nat /\ need[t] \in Nat
    BY Numbers, Zenon DEF IInv, WindowsOpened
  <1>3. Judges(t)
    BY DEF IInv
  <1>4. /\ Target(t) = WindowOf(quota, now[t]) /\ Target(t) \in Nat /\ Target(t) > seen[t]
        /\ First =< Target(t) /\ Target(t) =< WindowOf(quota, clock)
    <2>1. Target(t) > seen[t] /\ Target(t) = TargetWindow(quota, now[t], seen[t])
      BY <1>1, <1>3, Zenon DEF Judges, Target
    <2>2. TypeOK /\ WindowsOpened
      BY DEF IInv
    <2> QED
      BY <1>2, <2>1, <2>2, TargetType
  <1>5. latest' \in Nat /\ latest' >= latest /\ latest' >= Target(t) /\ latest' =< WindowOf(quota, clock)
    BY <1>1, <1>2, <1>4 DEF Later
  <1>6. First' = First
    BY <1>1, Zenon DEF First
  <1>7. latest' \in Windows /\ Target(t) \in Windows
    <2>1. WindowOf(quota, clock) \in 0..clock /\ clock =< MaxTime /\ clock \in Nat /\ MaxTime \in Nat
      BY Numbers, WindowType, Zenon DEF IInv
    <2> QED
      BY <1>2, <1>4, <1>5, <2>1 DEF Windows
  <1>8. TypeOK'
    BY <1>1, <1>7 DEF IInv, TypeOK, RaiseLatest
  <1>9. WindowsOpened'
    BY <1>1, <1>2, <1>5, <1>6, InvIs DEF WindowsOpened, WindowOf
  <1>10. WordCounts' /\ NoOverAdmit'
    <2>1. First..latest \subseteq (First..latest)'
      BY <1>2, <1>5, <1>6
    <2> QED
      BY <1>1, <2>1, InvIs, Zenon DEF WordCounts, NoOverAdmit, IsOf
  <1>11. Judges(t)' /\ OpensLater(t)'
    <2>1. PICK w \in First..latest : IsOf(current[t], w) /\ w =< seen[t]
      BY <1>1, <1>3, Zenon DEF Judges
    <2>2. need[t] # 0 /\ ~Impossible(quota, need[t]) /\ need[t] =< quota.limit /\ seen[t] \in First..latest
      BY <1>1, <1>2, <1>3 DEF Judges, Impossible
    <2>3. Target(t)' = Target(t)
      BY <1>1, Zenon DEF Target
    <2>4. Base(t, seen[t])' = 0
      BY <1>1, Zenon DEF Base, Target
    <2>5. Total(t)' =< quota'.limit
      BY <1>1, <1>2, <2>2, <2>4 DEF Total
    <2>6. Judges(t)'
      <3>1. First..latest \subseteq (First..latest)'
        BY <1>2, <1>5, <1>6
      <3> QED
        BY <1>1, <1>5, <2>1, <2>2, <2>3, <2>5, <3>1, Zenon DEF Judges, IsOf, Impossible, DenyAll
    <2>7. OpensLater(t)'
      <3>1. Target(t) \in (First..latest)' /\ w \in First..Target(t) - 1
        BY <1>2, <1>4, <1>5, <1>6, <2>1
      <3>2. opened'[t][1] = current[t] /\ opened'[t][2] = Target(t)
        BY <1>1
      <3> QED
        BY <1>6, <2>1, <3>1, <3>2, Zenon DEF OpensLater, IsOf
    <2> QED
      BY <2>6, <2>7
  <1>12. \A u \in Thread \ {t} : Judges(u)' /\ OpensLater(u)'
    BY <1>1, <1>5, Unmoved, Zenon
  <1> QED
    BY <1>8, <1>9, <1>10, <1>11, <1>12, Zenon DEF IInv

\* A thread whose compare-and-swap succeeds adds to what its window was charged:
\* the word it swaps is the one it judged by, and its window is no later.
LEMMA BaseIsCharged ==
    ASSUME IInv, NEW t \in Thread, pc[t] = "cas", state = current[t],
           NEW w \in First..latest, IsOf(state, w), charged[w] = state.count,
           \A later \in Windows : later > w => charged[later] = 0
    PROVE  /\ w =< Target(t) /\ Target(t) \in First..latest
           /\ Base(t, seen[t]) = charged[Target(t)]
  <1>1. /\ latest \in Windows /\ latest \in Nat /\ First \in Nat /\ seen[t] \in Nat
        /\ TypeOK /\ WindowsOpened
    BY Numbers, InvIs, TypeIs, Zenon
  <1>2. Judges(t) /\ OpensLater(t)
    BY Zenon DEF IInv
  <1>3. PICK v \in First..latest : IsOf(current[t], v) /\ v =< seen[t]
    BY <1>2, Zenon DEF Judges
  <1>4. v = w
    BY <1>1, <1>3, OneWindow, Zenon DEF IsOf
  <1>5. Target(t) >= seen[t] /\ Target(t) \in Nat /\ Target(t) =< latest /\ seen[t] \in First..latest
    BY <1>1, <1>2, TargetType, Zenon DEF Target, Judges
  <1>6. w =< Target(t) /\ Target(t) \in First..latest /\ Target(t) \in Windows
    BY <1>1, <1>3, <1>4, <1>5, BoundsAssumption DEF Windows
  <1>7. CASE Target(t) = w
    <2>1. seen[t] = w
      BY <1>1, <1>3, <1>4, <1>5, <1>7
    <2>2. opened[t] # <<current[t], Target(t)>>
      <3>1. SUFFICES ASSUME opened[t] = <<current[t], w>> PROVE FALSE
        BY <1>7, Zenon
      <3>2. opened[t] # None /\ opened[t][1] = current[t] /\ opened[t][2] = w
        BY <3>1 DEF None
      <3>3. PICK x \in First..w - 1 : IsOf(current[t], x)
        BY <1>2, <3>2, Zenon DEF OpensLater
      <3>4. x \in First..latest /\ x # w
        BY <1>1, <3>3
      <3> QED
        BY <1>1, <1>3, <1>4, <3>3, <3>4, OneWindow, Zenon DEF IsOf
    <2>3. CountIn(Target(t), current[t], seen[t]) = state.count
      BY <1>7, <2>1, Zenon DEF CountIn, IsOf
    <2> QED
      BY <1>6, <1>7, <2>2, <2>3, Zenon DEF Base, Target
  <1>8. CASE Target(t) # w
    <2>1. Target(t) > w
      BY <1>1, <1>5, <1>6, <1>8
    <2>2. charged[Target(t)] = 0
      BY <1>6, <2>1, Zenon
    <2>3. CountIn(Target(t), current[t], seen[t]) = 0
      <3>1. current[t].index # LowBits(Target(t))
        BY <1>1, <1>6, <1>8, OneWindow, Zenon DEF IsOf
      <3> QED
        BY <3>1, Zenon DEF CountIn
    <2> QED
      BY <1>6, <2>2, <2>3, Zenon DEF Base, Target
  <1> QED
    BY <1>7, <1>8, Zenon

\* An admission: the word counts what its window is charged, and no more than
\* the limit.
LEMMA CasAdmitIInv == ASSUME IInv, NEW t \in Thread, CasAdmit(t) PROVE IInv'
  <1>1. /\ pc[t] = "cas" /\ state = current[t] /\ state' = Pack(Target(t), Total(t))
        /\ charged' = [charged EXCEPT ![Target(t)] = @ + need[t]]
        /\ Return(t) /\ TypeOK /\ WindowsOpened
        /\ UNCHANGED <<quota, clock, latest, excused, resets, spurious>>
    BY Zenon DEF IInv, CasAdmit
  <1>2. PICK w \in First..latest : /\ IsOf(state, w) /\ charged[w] = state.count
                                   /\ \A later \in Windows : later > w => charged[later] = 0
    BY Zenon DEF IInv, WordCounts
  <1>3. /\ w =< Target(t) /\ Target(t) \in First..latest
        /\ Base(t, seen[t]) = charged[Target(t)]
    BY <1>1, <1>2, BaseIsCharged, Zenon
  <1>4. /\ latest \in Nat /\ latest \in Windows /\ First \in Nat /\ need[t] \in Nat /\ First' = First
        /\ charged \in [Windows -> Nat]
    BY <1>1, Numbers, TypeIs, Zenon DEF First
  <1>5. Target(t) \in Nat /\ Target(t) \in Windows
    BY <1>3, <1>4, BoundsAssumption DEF Windows
  <1>6. Total(t) = charged[Target(t)] + need[t] /\ Total(t) \in Nat /\ Total(t) =< quota.limit
    <2>1. Judges(t)
      BY DEF IInv
    <2> QED
      BY <1>1, <1>3, <1>4, <1>5, <2>1 DEF Total, Judges
  <1>7. charged'[Target(t)] = Total(t) /\ \A v \in Windows \ {Target(t)} : charged'[v] = charged[v]
    BY <1>1, <1>4, <1>5, <1>6, Zenon
  <1>8. TypeOK'
    <2>1. state' \in Words
      BY <1>1, <1>5, <1>6, LowBitsType, Zenon DEF Pack, Words
    <2>2. charged' \in [Windows -> Nat]
      BY <1>1, <1>4, <1>5
    <2> QED
      BY <1>1, <2>1, <2>2, ReturnTypes, TypeIs, TypeIsNext, Zenon
  <1>9. WindowsOpened'
    <2>1. now'[t] = MinTime /\ OthersStand(t)
      BY <1>1, Returns, Zenon
    <2>2. MinTime =< clock
      BY <1>1, Numbers, Zenon
    <2> QED
      BY <1>1, <2>1, <2>2, Zenon DEF WindowsOpened, First, OthersStand
  <1>10. WordCounts'
    <2>1. PICK v \in First..latest : v = Target(t)
      BY <1>3, Zenon
    <2>2. state'.index = LowBits(v) /\ state'.count = Total(t) /\ charged'[v] = Total(t)
      BY <1>1, <1>7, <2>1, Zenon DEF Pack
    <2>3. ASSUME NEW later \in Windows, later > v PROVE charged'[later] = 0
      <3>1. later > w /\ later # Target(t)
        BY <1>3, <1>4, <1>5, <2>1, <2>3 DEF Windows
      <3> QED
        BY <1>2, <1>7, <3>1, Zenon
    <2>4. v \in (First..latest)'
      BY <1>1, <1>4, Zenon
    <2>5. IsOf(state, v)'
      BY <2>2 DEF IsOf
    <2> QED
      BY <2>2, <2>3, <2>4, <2>5, Zenon DEF WordCounts
  <1>11. NoOverAdmit'
    BY <1>1, <1>6, <1>7, Zenon DEF IInv, NoOverAdmit
  <1>12. Judges(t)' /\ OpensLater(t)'
    <2>1. pc'[t] = "idle" /\ opened'[t] = None
      BY <1>1, Returns, Zenon
    <2> QED
      BY <2>1, Zenon DEF Judges, OpensLater
  <1>13. \A u \in Thread \ {t} : Judges(u)' /\ OpensLater(u)'
    <2>1. OthersStand(t)
      BY <1>1, Returns, Zenon
    <2>2. quota' = quota /\ latest' \in Nat /\ latest' >= latest
      BY <1>1, <1>4
    <2> QED
      BY <2>1, <2>2, Unmoved, Zenon DEF OthersStand
  <1> QED
    BY <1>8, <1>9, <1>10, <1>11, <1>12, <1>13, Zenon DEF IInv

\* A reset, however late: nothing is charged, and the word counts nothing.
LEMMA ResetStoreIInv == ASSUME IInv, NEW t \in Thread, ResetStore(t) PROVE IInv'
  <1>1. /\ pc[t] = "reset" /\ state' = Pack(seen[t], 0) /\ charged' = NothingCharged
        /\ Return(t) /\ TypeOK /\ WindowsOpened /\ excused' \subseteq Thread
        /\ UNCHANGED <<quota, clock, latest, resets, spurious>>
    BY Zenon DEF IInv, ResetStore
  <1>2. /\ seen[t] \in First..latest /\ seen[t] \in Nat /\ seen[t] \in Windows
        /\ First \in Nat /\ latest \in Nat /\ quota.limit \in Nat /\ First' = First
    <2>1. Judges(t)
      BY DEF IInv
    <2>2. seen[t] \in First..latest
      BY <1>1, <2>1, Zenon DEF Judges
    <2>3. seen[t] \in Nat /\ First \in Nat /\ latest \in Nat /\ quota.limit \in Nat
      BY <1>1, Numbers, Zenon
    <2>4. seen[t] \in Windows
      BY <1>1, Zenon DEF TypeOK
    <2>5. First' = First
      BY <1>1, Zenon DEF First
    <2> QED
      BY <2>2, <2>3, <2>4, <2>5, Zenon
  <1>3. \A w \in Windows : charged'[w] = 0
    BY <1>1, Zenon DEF NothingCharged
  <1>4. TypeOK'
    <2>1. state' \in Words
      BY <1>1, <1>2, LowBitsType, Zenon DEF Pack, Words
    <2>2. charged' \in [Windows -> Nat]
      BY <1>1, Zenon DEF NothingCharged
    <2> QED
      BY <1>1, <2>1, <2>2, ReturnTypes, TypeIs, TypeIsNext, Zenon
  <1>5. WindowsOpened'
    <2>1. now'[t] = MinTime /\ OthersStand(t)
      BY <1>1, Returns, Zenon
    <2>2. MinTime =< clock
      BY <1>1, Numbers, Zenon
    <2> QED
      BY <1>1, <2>1, <2>2, Zenon DEF WindowsOpened, First, OthersStand
  <1>6. WordCounts'
    <2>1. state'.index = LowBits(seen[t]) /\ state'.count = 0
      BY <1>1, Zenon DEF Pack
    <2> QED
      BY <1>1, <1>2, <1>3, <2>1, Zenon DEF WordCounts, IsOf
  <1>7. NoOverAdmit'
    BY <1>1, <1>2, <1>3 DEF NoOverAdmit
  <1>8. Judges(t)' /\ OpensLater(t)'
    <2>1. pc'[t] = "idle" /\ opened'[t] = None
      BY <1>1, Returns, Zenon
    <2> QED
      BY <2>1, Zenon DEF Judges, OpensLater
  <1>9. \A u \in Thread \ {t} : Judges(u)' /\ OpensLater(u)'
    <2>1. OthersStand(t)
      BY <1>1, Returns, Zenon
    <2>2. quota' = quota /\ latest' \in Nat /\ latest' >= latest
      BY <1>1, <1>2
    <2> QED
      BY <2>1, <2>2, Unmoved, Zenon DEF OthersStand
  <1> QED
    BY <1>4, <1>5, <1>6, <1>7, <1>8, <1>9, InvIsNext, Zenon

\* Every step keeps the invariant.
LEMMA NextIInv == IInv /\ [Next]_vars => IInv'
  <1>1. SUFFICES ASSUME IInv, [Next]_vars PROVE IInv'
    OBVIOUS
  <1>2. CASE UNCHANGED vars
    BY <1>1, <1>2, Zenon DEF vars, IInv, TypeOK, Times, Windows, Words, WindowsOpened, First, WordCounts, IsOf, Judges,
                      OpensLater, NoOverAdmit, Target, Total, Base
  <1>3. ASSUME NEW t \in Thread, Step(t) PROVE IInv'
    BY <1>1, <1>3, ReturnIInv, LoadStateIInv, LoadLatestIInv, RaiseIInv, CasAdmitIInv, RetryIInv,
       ResetStoreIInv, Zenon DEF Step
  <1> QED
    BY <1>1, <1>2, <1>3, TickIInv, CallIInv, ResetLoadIInv, RetryIInv, Zenon DEF Next

-----------------------------------------------------------------------------
\* The theorems.

\* The inductive invariant of acquire and reset: words, windows and ledger agree
\* at every step of every thread.
THEOREM Invariance == Spec => []IInv
  BY InitIInv, NextIInv, PTL DEF Spec

\* No window admits more than its limit, for any number of threads, however
\* stale their readings and however resets race with them (acquire, reset).
THEOREM NeverOverAdmits == Spec => []NoOverAdmit
  <1>1. IInv => NoOverAdmit
    BY DEF IInv
  <1> QED
    BY <1>1, Invariance, PTL

-----------------------------------------------------------------------------
\* The answers.

\* What the two words say was admitted in the latest window.
Held == IF IsOf(state, latest) THEN state.count ELSE 0

\* Where the latest window ends.
End == (latest + 1) * quota.period

\* The word never counts more than the limit.
LEMMA HeldFits == ASSUME IInv PROVE Held \in Nat /\ Held =< quota.limit /\ End \in Nat
  <1>1. state.count \in Nat /\ quota.limit \in Nat /\ latest \in Nat /\ latest \in Windows /\ quota.period \in Nat
    BY Numbers, InvIs, TypeIs, Zenon
  <1>2. PICK w \in First..latest : charged[w] = state.count
    BY InvIs, Zenon DEF WordCounts
  <1>3. w \in Windows
    BY <1>1, <1>2, Numbers, BoundsAssumption DEF IInv, Windows
  <1>4. state.count =< quota.limit
    BY <1>2, <1>3 DEF IInv, NoOverAdmit
  <1> QED
    BY <1>1, <1>4 DEF Held, End

\* Until the latest window ends every reading is judged by it, and then by a
\* window of its own.
LEMMA JudgedByLatest ==
    ASSUME IInv, ~DenyAll(quota), NEW ns \in Nat
    PROVE  /\ ns < End => TargetWindow(quota, ns, latest) = latest
           /\ CountIn(TargetWindow(quota, ns, latest), state, latest) = IF ns < End THEN Held ELSE 0
  <1>1. /\ quota \in Quotas /\ quota.period # 0 /\ latest \in Nat /\ quota.period \in Nat
        /\ WindowOf(quota, ns) \in Nat /\ latest + 1 \in Nat
    BY Numbers, WindowType DEF IInv, DenyAll
  <1>2. latest + 1 =< WindowOf(quota, ns) <=> End =< ns
    BY <1>1, WindowReached, Zenon DEF End
  <1>3. End \in Nat
    BY HeldFits
  <1>4. CASE ns < End
    <2>1. WindowOf(quota, ns) =< latest
      BY <1>1, <1>2, <1>3, <1>4
    <2>2. TargetWindow(quota, ns, latest) = latest
      BY <1>1, <2>1 DEF TargetWindow, Later
    <2> QED
      BY <1>4, <2>2, Zenon DEF CountIn, Held, IsOf
  <1>5. CASE ~(ns < End)
    <2>1. WindowOf(quota, ns) > latest
      BY <1>1, <1>2, <1>3, <1>5
    <2>2. TargetWindow(quota, ns, latest) # latest
      BY <1>1, <2>1 DEF TargetWindow, Later
    <2> QED
      BY <1>5, <2>2, Zenon DEF CountIn
  <1> QED
    BY <1>4, <1>5, Zenon

\* A denial and what peek reports, in terms of the count that is held.
LEMMA JudgedByHeld ==
    ASSUME IInv, ~DenyAll(quota), NEW ns \in Nat
    PROVE  /\ \A n \in Nat : Denied(n, ns) <=> (IF ns < End THEN Held ELSE 0) + n > quota.limit
           /\ Used(ns) = IF ns < End THEN Held ELSE 0
           /\ ns < End => UntilEndOf(quota, TargetWindow(quota, ns, latest), ns) = End - ns
  <1>1. Held \in Nat /\ Held =< quota.limit /\ quota.limit \in Nat /\ End \in Nat
    BY HeldFits, Numbers, Zenon DEF IInv
  <1>2. CountIn(TargetWindow(quota, ns, latest), state, latest) = IF ns < End THEN Held ELSE 0
    BY JudgedByLatest, Zenon
  <1>3. Used(ns) = IF ns < End THEN Held ELSE 0
    BY <1>1, <1>2 DEF Used
  <1>4. ASSUME ns < End PROVE UntilEndOf(quota, TargetWindow(quota, ns, latest), ns) = End - ns
    <2>1. TargetWindow(quota, ns, latest) = latest
      BY <1>4, JudgedByLatest, Zenon
    <2>2. UntilEndOf(quota, latest, ns) = SatSub(End, ns)
      BY DEF UntilEndOf, End
    <2> QED
      BY <1>1, <1>4, <2>1, <2>2 DEF SatSub
  <1> QED
    BY <1>2, <1>3, <1>4, Zenon DEF Denied

\* The answers are exact in every state of the invariant.
LEMMA IInvAnswers == IInv => AnswersExact
  <1>1. SUFFICES ASSUME IInv, ~DenyAll(quota), NEW ns \in Times PROVE RetryExact(ns) /\ SnapshotExact(ns)
    BY DEF AnswersExact
  <1>2. ns \in Nat /\ Held \in Nat /\ Held =< quota.limit /\ quota.limit \in Nat /\ End \in Nat /\ MaxCost \in Nat
    BY <1>1, HeldFits, Numbers, BoundsAssumption, InvIs DEF Times
  <1>3. RetryExact(ns)
    <2>1. SUFFICES ASSUME NEW n \in 1..MaxCost, ~Impossible(quota, n), Denied(n, ns)
                   PROVE  LET wait == UntilEndOf(quota, TargetWindow(quota, ns, latest), ns)
                          IN  /\ ~Denied(n, ns + wait)
                              /\ \A early \in 0..wait - 1 : Denied(n, ns + early)
      BY Zenon DEF RetryExact
    <2>2. n \in Nat /\ n =< quota.limit
      BY <1>2, <2>1 DEF Impossible
    <2>3. ns < End /\ Held + n > quota.limit
      BY <1>1, <1>2, <2>1, <2>2, JudgedByHeld
    <2>4. UntilEndOf(quota, TargetWindow(quota, ns, latest), ns) = End - ns
      BY <1>1, <1>2, <2>3, JudgedByHeld, Zenon
    <2>5. ~Denied(n, ns + (End - ns))
      <3>1. ns + (End - ns) = End
        BY <1>2
      <3>2. Denied(n, End) <=> 0 + n > quota.limit
        BY <1>1, <1>2, <2>2, JudgedByHeld
      <3> QED
        BY <1>2, <2>2, <3>1, <3>2
    <2>6. ASSUME NEW early \in 0..(End - ns) - 1 PROVE Denied(n, ns + early)
      <3>1. ns + early \in Nat /\ ns + early < End
        BY <1>2, <2>3
      <3> QED
        BY <1>1, <2>2, <2>3, <3>1, JudgedByHeld, Zenon
    <2> QED
      BY <2>4, <2>5, <2>6, Zenon
  <1>4. SnapshotExact(ns)
    <2>1. ASSUME NEW n \in 1..quota.limit PROVE Denied(n, ns) <=> n > quota.limit - Used(ns)
      <3>1. n \in Nat
        BY <1>2
      <3>2. Denied(n, ns) <=> (IF ns < End THEN Held ELSE 0) + n > quota.limit
        BY <1>1, <1>2, <3>1, JudgedByHeld, Zenon
      <3>3. Used(ns) = IF ns < End THEN Held ELSE 0
        BY <1>1, <1>2, JudgedByHeld, Zenon
      <3> QED
        BY <1>2, <3>1, <3>2, <3>3
    <2>2. CASE Used(ns) = 0
      <3>1. ResetAfter(ns) = 0
        BY <2>2 DEF ResetAfter
      <3>2. ns + 0 = ns
        BY <1>2
      <3> QED
        BY <2>1, <2>2, <3>1, <3>2 DEF SnapshotExact
    <2>3. CASE Used(ns) # 0
      <3>1. ns < End /\ Held # 0
        BY <1>1, <1>2, <2>3, JudgedByHeld, Zenon
      <3>2. ResetAfter(ns) = End - ns
        BY <1>1, <1>2, <2>3, <3>1, JudgedByHeld, Zenon DEF ResetAfter
      <3>3. Used(ns + (End - ns)) = 0
        <4>1. ns + (End - ns) = End /\ ~(End < End)
          BY <1>2
        <4> QED
          BY <1>1, <1>2, <4>1, JudgedByHeld, Zenon
      <3>4. ASSUME NEW early \in 0..(End - ns) - 1 PROVE Used(ns + early) # 0
        <4>1. ns + early \in Nat /\ ns + early < End
          BY <1>2, <3>1
        <4> QED
          BY <1>1, <3>1, <4>1, JudgedByHeld, Zenon
      <3> QED
        BY <2>1, <3>2, <3>3, <3>4, Zenon DEF SnapshotExact
    <2> QED
      BY <2>2, <2>3
  <1> QED
    BY <1>3, <1>4

\* The retry_after of a denial is honest and tight and peek agrees with acquire,
\* in every state that threads can leave the words in and for a late caller too
\* (acquire, peek, until_end_of).
THEOREM AnswersAlwaysExact == Spec => []AnswersExact
  BY IInvAnswers, Invariance, PTL

-----------------------------------------------------------------------------
\* acquire and reset are steps of an atomic window.

IndexTells == \A w \in First..latest : IsOf(state, w) => WordWindow = w

\* The window of the state word is the one that its index tells.
LEMMA WordWindowIs == IInv => IndexTells
  <1>1. SUFFICES ASSUME IInv, NEW w \in First..latest, IsOf(state, w) PROVE WordWindow = w
    BY DEF IndexTells
  <1> DEFINE Is(v) == v =< latest /\ latest - v < IndexMod /\ LowBits(v) = state.index
  <1>2. /\ latest \in Nat /\ First \in Nat /\ latest \in Windows /\ w \in Nat /\ IndexMod \in Nat
        /\ First =< latest /\ TypeOK /\ WindowsOpened
    BY <1>1, Numbers, BoundsAssumption, InvIs, TypeIs DEF WindowsOpened
  <1>3. latest - First < IndexMod
    <2>1. WindowOf(quota, clock) =< WindowOf(quota, MaxTime) /\ WindowOf(quota, MaxTime) \in Nat
          /\ WindowOf(quota, clock) \in Nat
      BY <1>2, Numbers, WindowMonotone, WindowType
    <2>2. WindowOf(quota, MaxTime) - First < IndexMod
      BY <1>2, Numbers, WindowSpan DEF First
    <2> QED
      BY <1>2, <2>1, <2>2 DEF WindowsOpened
  <1>4. w \in Windows /\ Is(w)
    BY <1>1, <1>2, <1>3, BoundsAssumption DEF IsOf, Windows
  <1>5. ASSUME NEW v \in Windows, Is(v) PROVE v = w
    <2>1. v \in Nat /\ v - w < IndexMod /\ w - v < IndexMod /\ LowBits(v) = LowBits(w)
      BY <1>2, <1>4, <1>5, BoundsAssumption DEF Windows
    <2> QED
      BY <1>2, <2>1, LowBitsUnique
  <1> QED
    BY <1>4, <1>5, Zenon DEF WordWindow

\* A step that leaves the word of the state alone leaves the atomic window alone.
LEMMA SameWindow ==
    ASSUME IInv, IInv', UNCHANGED <<quota, state>>, latest' >= latest
    PROVE  Counted' = Counted
  <1>1. PICK w \in First..latest : IsOf(state, w)
    BY InvIs, Zenon DEF WordCounts
  <1>2. WordWindow = w
    BY <1>1, WordWindowIs DEF IndexTells
  <1>3. IndexTells'
    BY WordWindowIs, PTL
  <1>4. w \in (First..latest)' /\ IsOf(state, w)'
    <2>1. First' = First /\ First \in Nat /\ latest \in Nat
      BY Numbers, Zenon DEF IInv, First
    <2>2. latest' \in Nat
      BY BoundsAssumption, InvIsNext, TypeIsNext DEF Windows
    <2> QED
      BY <1>1, <2>1, <2>2 DEF IsOf
  <1>5. WordWindow' = w
    BY <1>3, <1>4 DEF IndexTells
  <1> QED
    BY <1>2, <1>5, Zenon DEF Counted

\* What a thread keeps of WordsGrow when neither word goes back.
LEMMA GrowsOn ==
    ASSUME IInv, IInv', WordsGrow, NEW u \in Thread, UNCHANGED <<quota, state>>, latest' >= latest,
           u \in excused' <=> u \in excused,
           pc'[u] = pc[u], current'[u] = current[u]
    PROVE  /\ u \in excused' => pc'[u] = "latest"
           /\ u \notin excused' /\ pc'[u] = "latest" =>
                \E v, w \in (First..latest)' :
                    /\ IsOf(current[u], v)' /\ IsOf(state, w)'
                    /\ v < w \/ (v = w /\ current'[u].count =< state'.count)
  <1>1. First' = First /\ First \in Nat /\ latest \in Nat /\ latest' \in Nat
    <2>1. First' = First /\ First \in Nat /\ latest \in Nat
      BY Numbers, Zenon DEF IInv, First
    <2>2. latest' \in Nat
      BY BoundsAssumption, InvIsNext, TypeIsNext DEF Windows
    <2> QED
      BY <2>1, <2>2
  <1>2. First..latest \subseteq (First..latest)'
    BY <1>1
  <1>3. ASSUME u \notin excused', pc'[u] = "latest"
        PROVE  \E v, w \in (First..latest)' :
                    /\ IsOf(current[u], v)' /\ IsOf(state, w)'
                    /\ v < w \/ (v = w /\ current'[u].count =< state'.count)
    <2>1. PICK v, w \in First..latest : /\ IsOf(current[u], v) /\ IsOf(state, w)
                                        /\ v < w \/ (v = w /\ current[u].count =< state.count)
      BY <1>3, Zenon DEF WordsGrow
    <2>2. IsOf(current[u], v)' /\ IsOf(state, w)'
      BY <2>1, Zenon DEF IsOf
    <2> QED
      BY <1>2, <2>1, <2>2, Zenon
  <1> QED
    BY <1>3, Zenon DEF WordsGrow

\* An admission moves the state word to a later window or to a higher count.
LEMMA GrowsByAdmission ==
    ASSUME IInv, WordsGrow, NEW t \in Thread, CasAdmit(t)
    PROVE  WordsGrow'
  <1>1. /\ pc[t] = "cas" /\ state = current[t] /\ state' = Pack(Target(t), Total(t))
        /\ Return(t) /\ TypeOK /\ WindowsOpened
        /\ UNCHANGED <<quota, clock, latest, excused>>
    BY Zenon DEF IInv, CasAdmit
  <1>2. PICK w \in First..latest : /\ IsOf(state, w) /\ charged[w] = state.count
                                   /\ \A later \in Windows : later > w => charged[later] = 0
    BY InvIs, Zenon DEF WordCounts
  <1>3. w =< Target(t) /\ Target(t) \in First..latest /\ Base(t, seen[t]) = charged[Target(t)]
    BY <1>1, <1>2, BaseIsCharged, Zenon
  <1>4. First' = First /\ First \in Nat /\ latest \in Nat /\ need[t] \in Nat /\ state.count \in Nat
    BY <1>1, Numbers, Zenon DEF First
  <1>5. PICK x \in First..latest : x = Target(t)
    BY <1>3, Zenon
  <1>6. state'.index = LowBits(x) /\ state'.count = Total(t)
    BY <1>1, <1>5, Zenon DEF Pack
  <1>7. x = w => state'.count = state.count + need[t]
    BY <1>2, <1>3, <1>5, <1>6, Zenon DEF Total
  <1>8. t \notin excused /\ pc'[t] = "idle"
    <2>1. pc'[t] = "idle"
      BY <1>1, Returns, Zenon
    <2> QED
      BY <1>1, <2>1, Zenon DEF WordsGrow
  <1>9. ASSUME NEW u \in Thread, u \notin excused', pc'[u] = "latest"
        PROVE  \E v, y \in (First..latest)' :
                    /\ IsOf(current[u], v)' /\ IsOf(state, y)'
                    /\ v < y \/ (v = y /\ current'[u].count =< state'.count)
    <2>1. u # t /\ pc[u] = "latest" /\ current'[u] = current[u] /\ u \notin excused
      <3>1. OthersStand(t)
        BY <1>1, Returns, Zenon
      <3> QED
        BY <1>1, <1>8, <1>9, <3>1, Zenon DEF OthersStand
    <2>2. PICK v, y \in First..latest : /\ IsOf(current[u], v) /\ IsOf(state, y)
                                        /\ v < y \/ (v = y /\ current[u].count =< state.count)
      BY <2>1, Zenon DEF WordsGrow
    <2>3. y = w
      BY <1>1, <1>2, <2>2, OneWindow, Zenon DEF IsOf
    <2>4. v < x \/ (v = x /\ current'[u].count =< state'.count)
      <3>1. current[u].count \in Nat
        BY <1>1, Numbers, Zenon
      <3> QED
        BY <1>3, <1>4, <1>5, <1>7, <2>1, <2>2, <2>3, <3>1
    <2>5. IsOf(current[u], v)' /\ IsOf(state, x)'
      BY <1>6, <2>1, <2>2, Zenon DEF IsOf
    <2>6. v \in (First..latest)' /\ x \in (First..latest)'
      BY <1>1, <1>4, Zenon
    <2> QED
      BY <2>4, <2>5, <2>6, Zenon
  <1>10. ASSUME NEW u \in Thread, u \in excused' PROVE pc'[u] = "latest"
    <2>1. OthersStand(t)
      BY <1>1, Returns, Zenon
    <2> QED
      BY <1>1, <1>8, <1>10, <2>1, Zenon DEF WordsGrow, OthersStand
  <1> QED
    BY <1>9, <1>10, Zenon DEF WordsGrow

\* Every step keeps WordsGrow.
LEMMA GrowsNext == IInv /\ IInv' /\ WordsGrow /\ [Next]_vars => WordsGrow'
  <1>1. SUFFICES ASSUME IInv, IInv', WordsGrow, [Next]_vars PROVE WordsGrow'
    OBVIOUS
  <1>2. latest \in Nat /\ TypeOK
    BY <1>1, Numbers, InvIs, Zenon
  <1>3. ASSUME UNCHANGED <<quota, state>>, latest' >= latest, excused' = excused, NEW t \in Thread,
               \A u \in Thread \ {t} : pc'[u] = pc[u] /\ current'[u] = current[u],
               pc[t] # "latest", pc'[t] # "latest"
        PROVE  WordsGrow'
    <2>1. t \notin excused
      BY <1>1, <1>3, Zenon DEF WordsGrow
    <2> QED
      BY <1>1, <1>3, <2>1, GrowsOn, Zenon DEF WordsGrow
  <1>4. CASE UNCHANGED <<quota, state, latest, pc, current, excused>>
    BY <1>1, <1>2, <1>4, GrowsOn DEF WordsGrow
  <1>5. ASSUME NEW t \in Thread, NEW n \in 0..MaxCost, Call(t, n) PROVE WordsGrow'
    BY <1>2, <1>3, <1>5 DEF Call, TypeOK
  <1>6. ASSUME NEW t \in Thread, ReturnEarly(t) PROVE WordsGrow'
    <2>1. pc[t] = "state" /\ Return(t) /\ UNCHANGED <<quota, state, latest, excused>>
      BY <1>6, Zenon DEF ReturnEarly
    <2>2. pc'[t] = "idle" /\ OthersStand(t)
      BY <1>2, <2>1, Returns, Zenon
    <2> QED
      BY <1>2, <1>3, <2>1, <2>2 DEF OthersStand
  <1>7. ASSUME NEW t \in Thread, LoadState(t) PROVE WordsGrow'
    <2>1. /\ pc[t] = "state" /\ current'[t] = state /\ UNCHANGED <<quota, state, latest, excused>>
          /\ \A u \in Thread \ {t} : pc'[u] = pc[u] /\ current'[u] = current[u]
          /\ t \notin excused
      BY <1>1, <1>2, <1>7, Zenon DEF LoadState, TypeOK, WordsGrow
    <2>2. PICK w \in First..latest : IsOf(state, w)
      BY <1>1, InvIs, Zenon DEF WordCounts
    <2>3. w \in (First..latest)' /\ IsOf(current[t], w)' /\ IsOf(state, w)' /\ current'[t].count =< state'.count
      BY <1>2, <2>1, <2>2, Numbers DEF First, IsOf
    <2> QED
      BY <1>1, <1>2, <2>1, <2>3, GrowsOn DEF WordsGrow
  <1>8. ASSUME NEW t \in Thread, LoadLatestDenied(t) \/ LoadLatestFits(t) PROVE WordsGrow'
    <2>1. /\ UNCHANGED <<quota, state, latest>> /\ excused' = excused \ {t}
          /\ \A u \in Thread \ {t} : pc'[u] = pc[u] /\ current'[u] = current[u]
          /\ pc'[t] # "latest"
      <3>1. CASE LoadLatestDenied(t)
        <4>1. Return(t) /\ UNCHANGED <<quota, state, latest>> /\ excused' = excused \ {t}
          BY <3>1, Zenon DEF LoadLatestDenied
        <4>2. pc'[t] = "idle" /\ OthersStand(t)
          BY <1>2, <4>1, Returns, Zenon
        <4> QED
          BY <4>1, <4>2, Zenon DEF OthersStand
      <3>2. CASE LoadLatestFits(t)
        BY <1>2, <3>2, Zenon DEF LoadLatestFits, TypeOK
      <3> QED
        BY <1>8, <3>1, <3>2, Zenon
    <2> QED
      BY <1>1, <1>2, <2>1, GrowsOn DEF WordsGrow
  <1>9. ASSUME NEW t \in Thread, RaiseLatest(t) PROVE WordsGrow'
    <2>1. latest' >= latest
      <3>1. Target(t) \in Nat
        BY <1>1, Numbers, TargetType, InvIs, Zenon DEF Target
      <3> QED
        BY <1>2, <1>9, <3>1 DEF RaiseLatest, Later
    <2> QED
      BY <1>2, <1>3, <1>9, <2>1, Zenon DEF RaiseLatest, TypeOK
  <1>10. ASSUME NEW t \in Thread, CasFail(t) \/ CasFailSpuriously(t) PROVE WordsGrow'
    BY <1>2, <1>3, <1>10 DEF CasFail, CasFailSpuriously, Retry, TypeOK
  <1>11. ASSUME NEW t \in Thread, ResetLoad(t) PROVE WordsGrow'
    BY <1>2, <1>3, <1>11 DEF ResetLoad, TypeOK
  <1>12. ASSUME NEW t \in Thread, ResetStore(t) PROVE WordsGrow'
    <2>1. /\ excused' = {u \in Thread : pc[u] = "latest"} /\ pc[t] # "latest" /\ pc'[t] = "idle"
          /\ \A u \in Thread \ {t} : pc'[u] = pc[u]
      <3>1. Return(t) /\ pc[t] = "reset" /\ excused' = {u \in Thread : pc[u] = "latest"}
        BY <1>12, Zenon DEF ResetStore
      <3>2. pc'[t] = "idle" /\ OthersStand(t)
        BY <1>2, <3>1, Returns, Zenon
      <3> QED
        BY <3>1, <3>2, Zenon DEF OthersStand
    <2> QED
      BY <2>1, Zenon DEF WordsGrow
  <1>13. CASE Tick \/ UNCHANGED vars
    BY <1>4, <1>13, Zenon DEF Tick, vars
  <1> QED
    BY <1>1, <1>5, <1>6, <1>7, <1>8, <1>9, <1>10, <1>11, <1>12, <1>13, GrowsByAdmission, Zenon DEF Next, Step

\* Time passes for the atomic window too.
LEMMA TickAtomic == ASSUME IInv, IInv', Tick PROVE Atomic!Tick
  <1>1. Counted' = Counted
    BY SameWindow, Numbers, InvIs DEF Tick
  <1>2. clock' > clock
    BY Numbers, InvIs DEF Tick
  <1>3. AtomicCall' = AtomicCall /\ excused' = excused
    BY Zenon DEF Tick, AtomicCall
  <1> QED
    BY <1>1, <1>2, <1>3 DEF Atomic!Tick

\* A thread that returns ends its check, and is excused no longer.
LEMMA ReturnAtomic ==
    ASSUME TypeOK, NEW t \in Thread, Return(t), excused' = excused \ {t}
    PROVE  Atomic!Return(t)
  <1>1. AtomicCall' = [AtomicCall EXCEPT ![t] = Atomic!NoCall]
    BY Returns, Zenon DEF AtomicCall, Atomic!NoCall, OthersStand
  <1> QED
    BY <1>1 DEF Atomic!Return

\* A thread inside acquire is in the middle of a check.
LEMMA CallingIs ==
    ASSUME TypeOK, NEW t \in Thread, pc[t] \notin {"idle", "reset"}
    PROVE  Atomic!Calling(t) /\ AtomicCall[t].n = need[t] /\ AtomicCall[t].now = now[t]
  <1>1. AtomicCall[t] = [n |-> need[t], now |-> now[t]]
    BY Zenon DEF AtomicCall
  <1>2. now[t] # -1
    BY Numbers
  <1> QED
    BY <1>1, <1>2 DEF Atomic!Calling, Atomic!NoCall

\* A check begins.
LEMMA CallAtomic ==
    ASSUME IInv, IInv', NEW t \in Thread, NEW n \in 0..MaxCost, Call(t, n)
    PROVE  Atomic!Call(t)
  <1>1. Counted' = Counted
    BY SameWindow, Numbers, InvIs DEF Call
  <1>2. pc[t] = "idle" /\ pc'[t] = "state" /\ need'[t] = n /\ now'[t] = clock
        /\ \A u \in Thread \ {t} : pc'[u] = pc[u] /\ need'[u] = need[u] /\ now'[u] = now[u]
    BY InvIs, TypeIs, Zenon DEF Call
  <1>3. AtomicCall' = [AtomicCall EXCEPT ![t] = [n |-> n, now |-> clock]]
    BY <1>2, Zenon DEF AtomicCall
  <1>4. AtomicCall'[t].n = n
    BY <1>3, Zenon DEF AtomicCall
  <1>5. ~Atomic!Calling(t)
    BY <1>2, Zenon DEF Atomic!Calling, AtomicCall, Atomic!NoCall
  <1> QED
    BY <1>1, <1>3, <1>4, <1>5, Zenon DEF Call, Atomic!Call

\* Zero units are admitted, and more than a window ever admits are denied.
LEMMA ReturnEarlyAtomic ==
    ASSUME RInv, IInv', NEW t \in Thread, ReturnEarly(t)
    PROVE  Atomic!Admit(t) \/ Atomic!Deny(t)
  <1>1. TypeOK /\ WindowsOpened /\ pc[t] = "state" /\ Return(t) /\ UNCHANGED <<quota, clock, state, latest, excused>>
    BY Zenon DEF RInv, IInv, ReturnEarly
  <1>2. Counted' = Counted
    BY <1>1, SameWindow, Numbers DEF RInv
  <1>3. Atomic!Return(t)
    <2>1. excused' = excused \ {t}
      BY <1>1, Zenon DEF RInv, WordsGrow
    <2> QED
      BY <1>1, <2>1, ReturnAtomic, Zenon
  <1>4. Atomic!Calling(t) /\ AtomicCall[t].n = need[t] /\ AtomicCall[t].now = now[t]
    BY <1>1, CallingIs, Zenon
  <1>5. now[t] \in Atomic!Instants(t)
    BY <1>1, <1>4, Numbers DEF Atomic!Instants, WindowsOpened
  <1>6. CASE need[t] = 0
    <2>1. AtomicAdmits(Counted, need[t], now[t]) /\ Counted' = AtomicCharged(Counted, need[t], now[t])
      BY <1>2, <1>6, Zenon DEF AtomicAdmits, AtomicCharged
    <2> QED
      BY <1>1, <1>3, <1>4, <1>5, <2>1, Zenon DEF Atomic!Admit
  <1>7. CASE need[t] # 0
    <2>1. Counted.quota = quota
      BY Zenon DEF Counted
    <2>2. ~AtomicAdmits(Counted, need[t], now[t])
      BY <1>7, <2>1, Zenon DEF AtomicAdmits, ReturnEarly
    <2> QED
      BY <1>1, <1>2, <1>3, <1>4, <1>5, <2>2, Zenon DEF Atomic!Deny
  <1> QED
    BY <1>6, <1>7

\* The window judged is that of an instant between the reading and the present.
LEMMA SomeInstant ==
    ASSUME TypeOK, WindowsOpened, NEW t \in Thread, pc[t] \notin {"idle", "reset"}, quota.period # 0,
           NEW newest \in Nat, newest =< latest
    PROVE  \E ns \in Atomic!Instants(t) : ns \in Nat /\ WindowOf(quota, ns) = TargetWindow(quota, now[t], newest)
  <1>1. Atomic!Instants(t) = now[t]..clock
    BY CallingIs, Zenon DEF Atomic!Instants
  <1>2. /\ quota \in Quotas /\ now[t] \in Nat /\ clock \in Nat /\ now[t] =< clock /\ quota.period \in Nat
        /\ WindowOf(quota, now[t]) \in Nat /\ WindowOf(quota, clock) \in Nat /\ latest \in Nat
        /\ latest =< WindowOf(quota, clock)
    BY Numbers, TargetType, Zenon DEF WindowsOpened
  <1>3. CASE TargetWindow(quota, now[t], newest) = WindowOf(quota, now[t])
    <2>1. now[t] \in now[t]..clock
      BY <1>2
    <2> QED
      BY <1>1, <1>2, <1>3, <2>1, Zenon
  <1>4. CASE TargetWindow(quota, now[t], newest) # WindowOf(quota, now[t])
    <2>1. TargetWindow(quota, now[t], newest) = newest /\ WindowOf(quota, now[t]) < newest
      BY <1>2, <1>4, Zenon DEF TargetWindow, Later
    <2> DEFINE ns == newest * quota.period
    <2>2. ns \in Nat
      BY <1>2
    <2>3. ns =< clock
      BY <1>2, WindowReached
    <2>4. now[t] < ns
      BY <1>2, <2>1, <2>2, WindowReached
    <2>5. WindowOf(quota, ns) = newest
      <3>1. newest =< WindowOf(quota, ns)
        BY <1>2, <2>2, WindowReached
      <3>2. ~(newest + 1 =< WindowOf(quota, ns))
        <4>1. (newest + 1) * quota.period = ns + quota.period
          BY <1>2, ProductNext, Zenon
        <4>2. ~((newest + 1) * quota.period =< ns)
          BY <1>2, <2>2, <4>1
        <4> QED
          BY <1>2, <2>2, <4>2, WindowReached, newest + 1 \in Nat, Zenon
      <3>3. WindowOf(quota, ns) \in Nat
        BY <1>2, <2>2, WindowType
      <3> QED
        BY <3>1, <3>2, <3>3
    <2>6. ns \in Atomic!Instants(t)
      BY <1>1, <1>2, <2>2, <2>3, <2>4
    <2> QED
      BY <2>1, <2>2, <2>5, <2>6, Zenon
  <1> QED
    BY <1>3, <1>4, Zenon

\* What the atomic window counts as of an instant.
LEMMA UsedIs ==
    ASSUME IInv, NEW w \in First..latest, IsOf(state, w), NEW ns \in Nat
    PROVE  /\ AtomicUsed(Counted, ns) = IF WindowOf(quota, ns) > w THEN 0 ELSE state.count
           /\ Counted.quota = quota /\ Counted.at \in {0, w}
  <1>1. WordWindow = w
    BY WordWindowIs DEF IndexTells
  <1>2. Counted.quota = quota /\ Counted.at \in {0, w} /\ Counted.count = state.count
    BY <1>1, Zenon DEF Counted
  <1>3. CASE state.count = 0
    BY <1>2, <1>3, Zenon DEF AtomicUsed
  <1>4. CASE state.count # 0
    BY <1>1, <1>2, <1>4, Zenon DEF AtomicUsed, Counted
  <1> QED
    BY <1>2, <1>3, <1>4, Zenon

\* A denial that no reset excuses is right as of some instant of the check: the
\* state word counts at least what the word judged by did.
LEMMA DenyAtomic ==
    ASSUME RInv, IInv', NEW t \in Thread, LoadLatestDenied(t)
    PROVE  Atomic!Deny(t)
  <1>1. /\ TypeOK /\ WindowsOpened /\ IInv /\ WordsGrow /\ pc[t] = "latest" /\ Return(t) /\ excused' = excused \ {t}
        /\ Base(t, latest) + need[t] > quota.limit
        /\ UNCHANGED <<quota, clock, state, latest>>
    BY InvIs, Zenon DEF RInv, LoadLatestDenied
  <1>2. Counted' = Counted
    BY <1>1, SameWindow, Numbers
  <1>3. Atomic!Return(t)
    BY <1>1, ReturnAtomic, Zenon
  <1>4. Atomic!Calling(t) /\ AtomicCall[t].n = need[t]
    BY <1>1, CallingIs, Zenon
  <1>5. ASSUME t \notin excused
        PROVE  \E ns \in Atomic!Instants(t) : ~AtomicAdmits(Counted, need[t], ns)
    <2>1. /\ need[t] \in Nat /\ need[t] # 0 /\ ~Impossible(quota, need[t]) /\ need[t] =< quota.limit
          /\ quota.limit \in Nat /\ latest \in Nat /\ First \in Nat /\ First =< latest /\ quota.period # 0
          /\ current[t].count \in Nat /\ state.count \in Nat
      <3>1. Judges(t) /\ pc[t] = "latest"
        BY <1>1, Zenon DEF IInv
      <3>2. /\ need[t] \in Nat /\ quota.limit \in Nat /\ latest \in Nat /\ First \in Nat
            /\ current[t].count \in Nat /\ state.count \in Nat
        BY <1>1, Numbers, Zenon
      <3>3. need[t] # 0 /\ ~Impossible(quota, need[t]) /\ need[t] =< quota.limit /\ quota.period # 0
        BY <3>1, <3>2 DEF Judges, Impossible, DenyAll
      <3>4. First =< latest
        BY <1>1, Zenon DEF WindowsOpened
      <3> QED
        BY <3>2, <3>3, <3>4, Zenon
    <2>2. Base(t, latest) # 0
      BY <1>1, <2>1
    <2>3. TargetWindow(quota, now[t], latest) = latest /\ IsOf(current[t], latest) /\ Base(t, latest) = current[t].count
      BY <2>2, Zenon DEF Base, CountIn, IsOf
    <2>4. PICK v, w \in First..latest : /\ IsOf(current[t], v) /\ IsOf(state, w)
                                        /\ v < w \/ (v = w /\ current[t].count =< state.count)
      BY <1>1, <1>5, Zenon DEF WordsGrow
    <2>5. v = latest
      <3>1. latest \in First..latest /\ LowBits(v) = LowBits(latest)
        BY <2>1, <2>3, <2>4 DEF IsOf
      <3> QED
        BY <1>1, <3>1, OneWindow, Zenon
    <2>6. w = latest /\ current[t].count =< state.count
      BY <2>1, <2>4, <2>5
    <2>7. PICK ns \in Atomic!Instants(t) : ns \in Nat /\ WindowOf(quota, ns) = latest
      BY <1>1, <2>1, <2>3, SomeInstant
    <2>8. AtomicUsed(Counted, ns) = state.count /\ Counted.quota = quota
      BY <1>1, <2>1, <2>4, <2>6, <2>7, UsedIs
    <2>9. ~AtomicAdmits(Counted, need[t], ns)
      <3>1. state.count + need[t] > quota.limit
        <4>1. current[t].count + need[t] > quota.limit
          BY <1>1, <2>3, Zenon
        <4> QED
          BY <2>1, <2>6, <4>1
      <3>2. ~(state.count + need[t] =< quota.limit)
        BY <2>1, <3>1
      <3> QED
        BY <2>1, <2>8, <3>2, Zenon DEF AtomicAdmits
    <2> QED
      BY <2>7, <2>9, Zenon
  <1> QED
    BY <1>1, <1>2, <1>3, <1>4, <1>5, Zenon DEF Atomic!Deny

\* An admission is charged once, to the window of an instant of the check.
LEMMA AdmitAtomic ==
    ASSUME RInv, IInv', NEW t \in Thread, CasAdmit(t)
    PROVE  Atomic!Admit(t)
  <1>1. /\ TypeOK /\ WindowsOpened /\ IInv /\ WordsGrow /\ pc[t] = "cas" /\ Return(t)
        /\ state = current[t] /\ state' = Pack(Target(t), Total(t))
        /\ UNCHANGED <<quota, clock, latest, excused>>
    BY InvIs, Zenon DEF RInv, CasAdmit
  <1>2. Atomic!Return(t)
    <2>1. excused' = excused \ {t}
      BY <1>1, Zenon DEF WordsGrow
    <2> QED
      BY <1>1, <2>1, ReturnAtomic, Zenon
  <1>3. Atomic!Calling(t) /\ AtomicCall[t].n = need[t]
    BY <1>1, CallingIs, Zenon
  <1>4. PICK w \in First..latest : /\ IsOf(state, w) /\ charged[w] = state.count
                                   /\ \A later \in Windows : later > w => charged[later] = 0
    BY InvIs, Zenon DEF RInv, WordCounts
  <1>5. w =< Target(t) /\ Target(t) \in First..latest /\ Base(t, seen[t]) = charged[Target(t)]
    BY <1>1, <1>4, BaseIsCharged, Zenon
  <1>6. /\ need[t] \in Nat /\ need[t] # 0 /\ ~Impossible(quota, need[t]) /\ quota.period # 0
        /\ Total(t) =< quota.limit /\ seen[t] \in Nat /\ seen[t] =< latest
        /\ First \in Nat /\ latest \in Nat /\ latest \in Windows /\ charged \in [Windows -> Nat]
    <2>1. Judges(t) /\ pc[t] = "cas"
      BY <1>1, Zenon DEF IInv
    <2>2. need[t] # 0 /\ ~Impossible(quota, need[t]) /\ quota.period # 0 /\ seen[t] \in First..latest /\ Total(t) =< quota.limit
      BY <2>1, Zenon DEF Judges, Impossible, DenyAll
    <2>3. need[t] \in Nat /\ seen[t] \in Nat /\ First \in Nat /\ latest \in Nat
      BY <1>1, Numbers, Zenon
    <2>4. latest \in Windows /\ charged \in [Windows -> Nat]
      BY <1>1, Zenon DEF TypeOK
    <2> QED
      BY <2>2, <2>3, <2>4
  <1>7. PICK x \in First..latest : x = Target(t)
    BY <1>5
  <1>8. PICK ns \in Atomic!Instants(t) : ns \in Nat /\ WindowOf(quota, ns) = x
    BY <1>1, <1>6, <1>7, SomeInstant, Zenon DEF Target
  <1>9. x \in Nat /\ x \in Windows /\ w \in Nat
    BY <1>6, BoundsAssumption DEF Windows
  <1>10. AtomicUsed(Counted, ns) = charged[x] /\ charged[x] \in Nat /\ Counted.quota = quota /\ Counted.at \in {0, w}
    <2>1. AtomicUsed(Counted, ns) = IF x > w THEN 0 ELSE state.count
      BY <1>1, <1>4, <1>8, UsedIs, Zenon
    <2>2. IF x > w THEN charged[x] = 0 ELSE x = w
      BY <1>4, <1>5, <1>7, <1>9
    <2> QED
      BY <1>1, <1>4, <1>6, <1>8, <1>9, <2>1, <2>2, UsedIs, Zenon
  <1>11. Total(t) = charged[x] + need[t]
    BY <1>5, <1>7, Zenon DEF Total
  <1>12. AtomicAdmits(Counted, need[t], ns)
    BY <1>6, <1>10, <1>11, Zenon DEF AtomicAdmits
  <1>13. Counted' = AtomicCharged(Counted, need[t], ns)
    <2>1. state'.index = LowBits(x) /\ state'.count = Total(t) /\ state'.count # 0
      BY <1>1, <1>6, <1>7, <1>10, <1>11 DEF Pack
    <2>2. IndexTells'
      BY WordWindowIs, PTL
    <2>3. x \in (First..latest)' /\ IsOf(state, x)'
      BY <1>1, <2>1, Zenon DEF First, IsOf
    <2>4. WordWindow' = x
      BY <2>2, <2>3 DEF IndexTells
    <2>5. Counted' = [quota |-> quota, at |-> x, count |-> Total(t)]
      BY <1>1, <2>1, <2>4, Zenon DEF Counted
    <2>6. Later(Counted.at, x) = x
      BY <1>5, <1>7, <1>9, <1>10 DEF Later
    <2> QED
      BY <1>6, <1>8, <1>10, <1>11, <2>5, <2>6, Zenon DEF AtomicCharged
  <1> QED
    BY <1>1, <1>2, <1>3, <1>8, <1>12, <1>13, Zenon DEF Atomic!Admit

\* A reset takes effect when it stores its word, and excuses the checks that
\* have loaded the old one.
LEMMA ResetAtomic ==
    ASSUME RInv, IInv', NEW t \in Thread, ResetStore(t)
    PROVE  Atomic!Reset
  <1>1. /\ TypeOK /\ pc[t] = "reset" /\ Return(t) /\ state' = Pack(seen[t], 0)
        /\ excused' = {u \in Thread : pc[u] = "latest"}
        /\ UNCHANGED <<quota, clock, latest>>
    BY InvIs, Zenon DEF RInv, ResetStore
  <1>2. AtomicCall' = AtomicCall
    <2>1. pc'[t] = "idle" /\ OthersStand(t)
      BY <1>1, Returns, Zenon
    <2> QED
      BY <1>1, <2>1, Zenon DEF AtomicCall, OthersStand
  <1>3. Counted' = AtomicReset(Counted)
    <2>1. Counted' = [quota |-> quota, at |-> 0, count |-> 0]
      BY <1>1, Zenon DEF Counted, Pack
    <2>2. Counted.quota = quota
      BY Zenon DEF Counted
    <2> QED
      BY <2>1, <2>2 DEF AtomicReset
  <1>4. excused' \in SUBSET {u \in Thread : Atomic!Calling(u)}
    BY <1>1, CallingIs, Zenon
  <1> QED
    BY <1>1, <1>2, <1>3, <1>4, Zenon DEF Atomic!Reset

\* The steps that the atomic window does not see: a load, a retry, the opening
\* of a window.
LEMMA StutterAtomic ==
    ASSUME RInv, IInv', NEW t \in Thread,
           LoadState(t) \/ RaiseLatest(t) \/ CasFail(t) \/ CasFailSpuriously(t) \/ ResetLoad(t)
    PROVE  UNCHANGED Atomic!vars
  <1>1. /\ TypeOK /\ latest \in Nat /\ Target(t) \in Nat
    BY Numbers, TargetType, InvIs, Zenon DEF RInv, Target
  <1>2. UNCHANGED <<quota, clock, state, excused, need, now>> /\ latest' >= latest
    BY <1>1 DEF LoadState, RaiseLatest, CasFail, CasFailSpuriously, ResetLoad, Later
  <1>3. Counted' = Counted
    BY <1>2, SameWindow, Zenon DEF RInv
  <1>4. pc'[t] \in {"idle", "reset"} <=> pc[t] \in {"idle", "reset"}
    BY <1>1, Zenon DEF LoadState, RaiseLatest, CasFail, CasFailSpuriously, Retry, ResetLoad, TypeOK
  <1>5. \A u \in Thread \ {t} : pc'[u] = pc[u]
    BY <1>1, Zenon DEF LoadState, RaiseLatest, CasFail, CasFailSpuriously, Retry, ResetLoad, TypeOK
  <1>6. AtomicCall' = AtomicCall
    BY <1>2, <1>4, <1>5, Zenon DEF AtomicCall
  <1> QED
    BY <1>2, <1>3, <1>6 DEF Atomic!vars

\* A check that has loaded latest is judged by what it loaded, and is excused no
\* longer.
LEMMA FitsAtomic ==
    ASSUME RInv, IInv', NEW t \in Thread, LoadLatestFits(t)
    PROVE  Atomic!Unexcuse(t) \/ UNCHANGED Atomic!vars
  <1>1. /\ TypeOK /\ latest \in Nat /\ UNCHANGED <<quota, clock, state, latest, need, now>>
        /\ excused' = excused \ {t}
    BY Numbers, InvIs, Zenon DEF RInv, LoadLatestFits
  <1>2. Counted' = Counted
    BY <1>1, SameWindow DEF RInv
  <1>3. AtomicCall' = AtomicCall
    <2>1. pc[t] \notin {"idle", "reset"} /\ pc'[t] \notin {"idle", "reset"} /\ \A u \in Thread \ {t} : pc'[u] = pc[u]
      BY <1>1, Zenon DEF LoadLatestFits, TypeOK
    <2> QED
      BY <1>1, <2>1, Zenon DEF AtomicCall
  <1> QED
    BY <1>1, <1>2, <1>3 DEF Atomic!Unexcuse, Atomic!vars

\* Every step is one of the atomic window, or leaves it alone.
LEMMA NextAtomic == RInv /\ RInv' /\ [Next]_vars => [Atomic!Next]_Atomic!vars
  <1>1. SUFFICES ASSUME RInv, IInv', [Next]_vars PROVE [Atomic!Next]_Atomic!vars
    BY DEF RInv
  <1>2. CASE UNCHANGED vars
    <2>1. Counted' = Counted /\ AtomicCall' = AtomicCall
      BY <1>2, Zenon DEF vars, Counted, WordWindow, AtomicCall
    <2> QED
      BY <1>2, <2>1 DEF vars, Atomic!vars
  <1>3. CASE Tick
    BY <1>1, <1>3, TickAtomic DEF RInv, Atomic!Next
  <1>4. ASSUME NEW t \in Thread, NEW n \in 0..MaxCost, Call(t, n) PROVE Atomic!Next
    BY <1>1, <1>4, CallAtomic DEF RInv, Atomic!Next
  <1>5. ASSUME NEW t \in Thread, ReturnEarly(t) \/ LoadLatestDenied(t) \/ CasAdmit(t) \/ ResetStore(t)
        PROVE  Atomic!Next
    BY <1>1, <1>5, ReturnEarlyAtomic, DenyAtomic, AdmitAtomic, ResetAtomic, Zenon DEF Atomic!Next
  <1>6. ASSUME NEW t \in Thread, LoadLatestFits(t) PROVE [Atomic!Next]_Atomic!vars
    BY <1>1, <1>6, FitsAtomic DEF Atomic!Next
  <1>7. ASSUME NEW t \in Thread,
               LoadState(t) \/ RaiseLatest(t) \/ CasFail(t) \/ CasFailSpuriously(t) \/ ResetLoad(t)
        PROVE  UNCHANGED Atomic!vars
    BY <1>1, <1>7, StutterAtomic
  <1> QED
    BY <1>1, <1>2, <1>3, <1>4, <1>5, <1>6, <1>7, Zenon DEF Next, Step

\* The initial states are those of the atomic window.
LEMMA InitAtomic == Init => WordsGrow /\ Atomic!Init
  BY Zenon DEF Init, WordsGrow, AtomicCall, Atomic!Init, Atomic!NoCall

\* Though it works on two words that are read and written apart, the fixed
\* window implements the atomic one: every acquire and every reset is one step,
\* for any number of threads (KeyState::acquire for FixedWindow).
THEOREM AcquireIsAtomic == Spec => ImplementsAtomic
  <1>1. Init => RInv /\ Atomic!Init
    BY InitIInv, InitAtomic DEF RInv
  <1>2. RInv /\ [Next]_vars => RInv'
    BY NextIInv, GrowsNext DEF RInv
  <1> QED
    BY <1>1, <1>2, NextAtomic, PTL DEF Spec, ImplementsAtomic, Atomic!Spec
=============================================================================
