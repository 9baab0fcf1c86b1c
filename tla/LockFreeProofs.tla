--------------------------- MODULE LockFreeProofs ---------------------------
(***************************************************************************)
(* Proofs about the parts of LockFree, for any number of threads: the      *)
(* coarse clock, the rate-limited warning and the idle stamp.  None reads  *)
(* a variable of another, so each has an inductive invariant of its own.   *)
(*                                                                         *)
(* Induction is by the least counterexample: the natural numbers and the   *)
(* subsets of a finite set are well founded.                               *)
(***************************************************************************)
EXTENDS LockFree, Lemmas

\* The time the provers have for a leaf, in seconds.
USE SMTT(30), ZenonT(30)

-----------------------------------------------------------------------------
\* The idle stamp.

\* A time is less than a millisecond after the start of its millisecond.
LEMMA MillisBounds ==
    ASSUME NEW n \in Nat
    PROVE  /\ Stamp!Millis(n) \in Nat
           /\ Stamp!Millis(n) * TicksPerMs =< n
           /\ n < (Stamp!Millis(n) + 1) * TicksPerMs
  BY StampAssumption, Quotient DEF Stamp!Millis

\* A later time has no earlier stamp.
LEMMA MillisMonotone ==
    ASSUME NEW m \in Nat, NEW n \in Nat, m =< n
    PROVE  Stamp!Millis(m) =< Stamp!Millis(n)
  <1>1. Stamp!Millis(m) \in Nat /\ Stamp!Millis(n) \in Nat /\ Stamp!Millis(n) + 1 \in Nat
    BY MillisBounds
  <1>2. Stamp!Millis(m) * TicksPerMs < (Stamp!Millis(n) + 1) * TicksPerMs
    <2>1. Stamp!Millis(m) * TicksPerMs =< m /\ n < (Stamp!Millis(n) + 1) * TicksPerMs
      BY MillisBounds, Zenon
    <2>2. Stamp!Millis(m) * TicksPerMs \in Nat /\ (Stamp!Millis(n) + 1) * TicksPerMs \in Nat
      BY <1>1, StampAssumption
    <2> QED
      BY <2>1, <2>2
  <1>3. Stamp!Millis(m) < Stamp!Millis(n) + 1
    BY <1>1, <1>2, ProductCancel, StampAssumption
  <1> QED
    BY <1>1, <1>3

\* The numbers of the stamp are natural numbers.
LEMMA StampNumbers ==
    ASSUME Stamp!TypeOK
    PROVE  /\ {ttl, lag, ticks, lastSeenMs, used} \subseteq Nat
           /\ used =< ticks
           /\ \A t \in Thread : read[t] \in Nat
  BY StampAssumption, MillisBounds DEF Stamp!TypeOK

\* A check that returns leaves the others alone.
LEMMA StampReturn ==
    ASSUME Stamp!TypeOK, NEW t \in Thread, Stamp!Return(t)
    PROVE  /\ at' \in [Thread -> {"idle", "load", "store"}]
           /\ read' \in [Thread -> 0..StampTime]
           /\ at'[t] = "idle"
           /\ \A u \in Thread \ {t} : at'[u] = at[u] /\ read'[u] = read[u]
  <1>1. 0 \in 0..StampTime
    BY StampAssumption
  <1> QED
    BY <1>1, Zenon DEF Stamp!TypeOK, Stamp!Return

\* A key is stored at time 0 with the stamp of time 0.
LEMMA StampInit == Stamp!Init => Stamp!IInv
  <1>1. SUFFICES ASSUME Stamp!Init PROVE Stamp!IInv
    BY Zenon
  <1>2. 0 \in 0..StampTime /\ 0 \in 0..Stamp!Millis(0) /\ 0 \in 0..0
    BY StampAssumption, MillisBounds
  <1>3. Stamp!TypeOK
    BY <1>1, <1>2, Zenon DEF Stamp!Init, Stamp!TypeOK
  <1>4. Stamp!ReadingsFresh
    BY <1>1, Zenon DEF Stamp!Init, Stamp!ReadingsFresh
  <1>5. (0 + 1) * TicksPerMs > 0 - lag
    BY <1>3, StampNumbers, StampAssumption
  <1>6. Stamp!StampFollows
    BY <1>1, <1>5, Zenon DEF Stamp!Init, Stamp!StampFollows
  <1> QED
    BY <1>3, <1>4, <1>6, Zenon DEF Stamp!IInv

\* Time passes, but not past what a check under way may take.
LEMMA StampElapse == ASSUME Stamp!IInv, Stamp!Elapse PROVE Stamp!IInv'
  <1>1. ticks' = ticks + 1 /\ UNCHANGED <<ttl, lag, lastSeenMs, at, read, used>> /\ ticks < StampTime
    BY Zenon DEF Stamp!Elapse
  <1>2. ticks \in Nat /\ lastSeenMs \in Nat /\ used \in Nat /\ used =< ticks
    BY StampNumbers, Zenon DEF Stamp!IInv
  <1>3. lastSeenMs =< Stamp!Millis(ticks) /\ Stamp!Millis(ticks) =< Stamp!Millis(ticks + 1)
    BY <1>2, MillisMonotone DEF Stamp!IInv, Stamp!TypeOK
  <1>4. lastSeenMs \in 0..Stamp!Millis(ticks + 1)
    BY <1>2, <1>3, MillisBounds
  <1>5. Stamp!Millis(ticks)' = Stamp!Millis(ticks + 1)
    BY <1>1, Zenon DEF Stamp!Millis
  <1>6. ticks' \in 0..StampTime /\ used \in 0..ticks'
    BY <1>1, <1>2, StampAssumption
  <1>7. Stamp!TypeOK'
    BY <1>1, <1>4, <1>5, <1>6, Zenon DEF Stamp!IInv, Stamp!TypeOK
  <1>8. Stamp!ReadingsFresh'
    BY <1>1, <1>2, StampNumbers DEF Stamp!IInv, Stamp!ReadingsFresh, Stamp!Elapse
  <1>9. Stamp!StampFollows'
    BY <1>1, Zenon DEF Stamp!IInv, Stamp!StampFollows
  <1> QED
    BY <1>7, <1>8, <1>9, Zenon DEF Stamp!IInv

\* A check that reads the clock is now the latest.
LEMMA StampReadClock == ASSUME Stamp!IInv, NEW t \in Thread, Stamp!ReadClock(t) PROVE Stamp!IInv'
  <1>1. /\ at'[t] = "load" /\ read'[t] = ticks /\ used' = ticks
        /\ \A u \in Thread \ {t} : at'[u] = at[u] /\ read'[u] = read[u]
        /\ UNCHANGED <<ttl, lag, ticks, lastSeenMs>>
    BY Zenon DEF Stamp!IInv, Stamp!TypeOK, Stamp!ReadClock
  <1>2. ticks \in Nat /\ lag \in Nat /\ used =< ticks /\ used \in Nat
    BY StampNumbers, Zenon DEF Stamp!IInv
  <1>3. Stamp!TypeOK'
    BY <1>1, <1>2 DEF Stamp!IInv, Stamp!TypeOK, Stamp!ReadClock, Stamp!Millis
  <1>4. Stamp!ReadingsFresh'
    BY <1>1, <1>2, StampNumbers DEF Stamp!IInv, Stamp!ReadingsFresh
  <1>5. Stamp!StampFollows'
    BY <1>1, Zenon DEF Stamp!StampFollows
  <1> QED
    BY <1>3, <1>4, <1>5, Zenon DEF Stamp!IInv

\* A check that returns with a stamp of its own millisecond or a later one
\* leaves a stamp that is not far behind the latest check.
LEMMA StampCovers ==
    ASSUME Stamp!IInv, NEW t \in Thread, at[t] # "idle", NEW stamp \in Nat, stamp >= Stamp!Millis(read[t])
    PROVE  (stamp + 1) * TicksPerMs > used - lag
  <1>1. /\ read[t] \in Nat /\ used \in Nat /\ lag \in Nat /\ ticks \in Nat
        /\ used =< ticks /\ ticks - read[t] =< lag
    BY StampNumbers, Zenon DEF Stamp!IInv, Stamp!ReadingsFresh
  <1>2. read[t] < (Stamp!Millis(read[t]) + 1) * TicksPerMs /\ Stamp!Millis(read[t]) + 1 \in Nat
    BY <1>1, MillisBounds
  <1>3. (Stamp!Millis(read[t]) + 1) * TicksPerMs =< (stamp + 1) * TicksPerMs
    BY <1>1, <1>2, MillisBounds, ProductMonotone, StampAssumption
  <1>4. (Stamp!Millis(read[t]) + 1) * TicksPerMs \in Nat /\ (stamp + 1) * TicksPerMs \in Nat
    BY <1>2, StampAssumption
  <1> QED
    BY <1>1, <1>2, <1>3, <1>4

\* The load: a check that finds a stamp no earlier than its own returns.
LEMMA StampLoad == ASSUME Stamp!IInv, NEW t \in Thread, Stamp!Load(t) PROVE Stamp!IInv'
  <1>1. at[t] = "load" /\ UNCHANGED <<ttl, lag, ticks, lastSeenMs, used>>
    BY Zenon DEF Stamp!Load
  <1>2. CASE Stamp!IsLater(t)
    <2>1. /\ at'[t] = "store" /\ \A u \in Thread \ {t} : at'[u] = at[u]
          /\ UNCHANGED read
      BY <1>2, Zenon DEF Stamp!IInv, Stamp!TypeOK, Stamp!Load
    <2>2. Stamp!TypeOK'
      BY <1>1, <1>2, Zenon DEF Stamp!IInv, Stamp!TypeOK, Stamp!Load, Stamp!Millis
    <2>3. Stamp!ReadingsFresh' /\ Stamp!StampFollows'
      BY <1>1, <2>1, Zenon DEF Stamp!IInv, Stamp!ReadingsFresh, Stamp!StampFollows
    <2> QED
      BY <2>2, <2>3, Zenon DEF Stamp!IInv
  <1>3. CASE ~Stamp!IsLater(t)
    <2>1. Stamp!Return(t) /\ Stamp!TypeOK
      BY <1>3, Zenon DEF Stamp!IInv, Stamp!Load
    <2>2. Stamp!TypeOK'
      BY <1>1, <2>1, StampReturn, Zenon DEF Stamp!TypeOK, Stamp!Millis
    <2>3. Stamp!ReadingsFresh'
      BY <1>1, <2>1, StampReturn, Zenon DEF Stamp!IInv, Stamp!ReadingsFresh
    <2>4. lastSeenMs \in Nat /\ lastSeenMs >= Stamp!Millis(read[t])
      BY <1>3, <2>1, StampNumbers, MillisBounds DEF Stamp!IsLater
    <2>5. (lastSeenMs + 1) * TicksPerMs > used - lag
      BY <1>1, <2>4, StampCovers, Zenon
    <2>6. Stamp!StampFollows'
      BY <1>1, <2>5, Zenon DEF Stamp!StampFollows
    <2> QED
      BY <2>2, <2>3, <2>6, Zenon DEF Stamp!IInv
  <1> QED
    BY <1>2, <1>3, Zenon

\* The store: even one that takes the stamp back takes it no further than `lag'.
LEMMA StampStore == ASSUME Stamp!IInv, NEW t \in Thread, Stamp!Store(t) PROVE Stamp!IInv'
  <1>1. /\ at[t] = "store" /\ lastSeenMs' = Stamp!Millis(read[t]) /\ UNCHANGED <<ttl, lag, ticks, used>>
        /\ Stamp!Return(t) /\ Stamp!TypeOK
    BY Zenon DEF Stamp!IInv, Stamp!Store
  <1>2. read[t] \in Nat /\ ticks \in Nat /\ read[t] =< ticks
    BY <1>1, StampNumbers DEF Stamp!IInv, Stamp!ReadingsFresh
  <1>3. Stamp!Millis(read[t]) \in 0..Stamp!Millis(ticks)
    BY <1>2, MillisBounds, MillisMonotone
  <1>4. Stamp!TypeOK'
    BY <1>1, <1>3, StampReturn, Zenon DEF Stamp!TypeOK, Stamp!Millis
  <1>5. Stamp!ReadingsFresh'
    BY <1>1, StampReturn, Zenon DEF Stamp!IInv, Stamp!ReadingsFresh
  <1>6. (Stamp!Millis(read[t]) + 1) * TicksPerMs > used - lag
    BY <1>1, <1>2, StampCovers, MillisBounds
  <1>7. Stamp!StampFollows'
    BY <1>1, <1>6, Zenon DEF Stamp!StampFollows
  <1> QED
    BY <1>4, <1>5, <1>7, Zenon DEF Stamp!IInv

\* Every step of the checks keeps the invariant of the stamp.
LEMMA StampNext == Stamp!IInv /\ [Stamp!Next]_stampVars => Stamp!IInv'
  <1>1. SUFFICES ASSUME Stamp!IInv, [Stamp!Next]_stampVars PROVE Stamp!IInv'
    BY Zenon
  <1>2. CASE UNCHANGED stampVars
    BY <1>1, <1>2, Zenon DEF stampVars, Stamp!IInv, Stamp!TypeOK, Stamp!ReadingsFresh, Stamp!StampFollows,
       Stamp!Millis
  <1> QED
    BY <1>1, <1>2, StampElapse, StampReadClock, StampLoad, StampStore, Zenon DEF Stamp!Next

\* The millisecond that the stamp and the reading may lose is the one that
\* idle_ttl_ms adds.
LEMMA StampIdle == Stamp!IInv => Stamp!IdleForTtl
  <1>1. SUFFICES ASSUME Stamp!IInv, \A t \in Thread : at[t] = "idle", Stamp!IsExpired(ticks)
                 PROVE  ticks - used >= ttl - lag
    BY Zenon DEF Stamp!IdleForTtl
  <1> DEFINE ceil == Stamp!CeilMillis(ttl)
             seen == lastSeenMs
             expired == seen + 1 + ceil
  <1>2. {ttl, lag, ticks, seen, used} \subseteq Nat
    BY <1>1, StampNumbers, Zenon DEF Stamp!IInv
  <1>3. (seen + 1) * TicksPerMs > used - lag
    BY <1>1, Zenon DEF Stamp!IInv, Stamp!StampFollows
  <1>4. ceil \in Nat /\ ttl =< ceil * TicksPerMs
    <2>1. ttl + TicksPerMs - 1 \in Nat
      BY <1>2, StampAssumption
    <2>2. ceil \in Nat /\ ttl + TicksPerMs - 1 < (ceil + 1) * TicksPerMs
      BY <2>1, StampAssumption, Quotient DEF Stamp!CeilMillis
    <2> HIDE DEF ceil
    <2>3. (ceil + 1) * TicksPerMs = ceil * TicksPerMs + TicksPerMs /\ ceil * TicksPerMs \in Nat
      BY <2>2, StampAssumption
    <2> QED
      BY <1>2, <2>2, <2>3, StampAssumption
  <1>5. Stamp!Millis(ticks) \in Nat /\ Stamp!Millis(ticks) * TicksPerMs =< ticks
    BY <1>2, MillisBounds, Zenon
  <1>6. expired \in Nat /\ expired =< Stamp!Millis(ticks)
    BY <1>1, <1>2, <1>4, <1>5 DEF Stamp!IsExpired, Stamp!IdleTtlMs
  <1> HIDE DEF ceil
  <1>7. expired * TicksPerMs =< Stamp!Millis(ticks) * TicksPerMs
    BY <1>5, <1>6, ProductMonotone, StampAssumption, Zenon
  <1>8. expired * TicksPerMs = (seen + 1) * TicksPerMs + ceil * TicksPerMs
    BY <1>2, <1>4, StampAssumption
  <1>9. {expired * TicksPerMs, (seen + 1) * TicksPerMs, ceil * TicksPerMs, Stamp!Millis(ticks) * TicksPerMs} \subseteq Nat
    BY <1>2, <1>4, <1>5, <1>6, StampAssumption
  <1> HIDE DEF expired
  <1> QED
    BY <1>2, <1>3, <1>4, <1>5, <1>7, <1>8, <1>9

-----------------------------------------------------------------------------
\* The rate-limited warning.

\* The numbers that a warning is about.
LEMMA WarnNumbers ==
    ASSUME Warn!TypeOK
    PROVE  /\ time \in Nat /\ pending \in Nat /\ noted \in Nat /\ MaxNoted \in Nat
           /\ Interval \in Nat /\ NoteLag \in Nat /\ NoteLag < Interval
           /\ lastMs \in Int /\ (lastMs # Warn!Never => lastMs \in Nat)
           /\ \A t \in Thread : /\ now[t] \in Nat /\ sum[t] \in Nat /\ last[t] \in Int
                                /\ now[t] # Warn!Never
  BY WarnAssumption DEF Warn!TypeOK, Warn!Times, Warn!Never

\* A call under way is not overtaken by a whole interval: two readings of calls
\* under way are less than one apart.
LEMMA ReadingsClose ==
    ASSUME Warn!TypeOK, Warn!ReadingsFresh, NEW t \in Thread, NEW u \in Thread,
           notePc[t] # "idle", notePc[u] # "idle"
    PROVE  now[t] - now[u] < Interval
  <1>1. now[t] =< time /\ time - now[u] =< NoteLag
    BY Zenon DEF Warn!ReadingsFresh
  <1> QED
    BY <1>1, WarnNumbers

\* The call of a thread is over.
LEMMA ForgetTypes ==
    ASSUME Warn!TypeOK, NEW t \in Thread, Warn!Forget(t), notePc' = [notePc EXCEPT ![t] = "idle"]
    PROVE  /\ notePc' \in [Thread -> {"idle", "load", "cas", "take"}]
           /\ now' \in [Thread -> Warn!Times] /\ sum' \in [Thread -> 0..MaxNoted]
           /\ last' \in [Thread -> Warn!Times \cup {Warn!Never}]
           /\ notePc'[t] = "idle"
           /\ \A u \in Thread \ {t} : /\ notePc'[u] = notePc[u] /\ now'[u] = now[u]
                                      /\ sum'[u] = sum[u] /\ last'[u] = last[u]
  <1>1. 0 \in Warn!Times /\ 0 \in 0..MaxNoted
    BY WarnAssumption DEF Warn!Times
  <1> QED
    BY <1>1, Zenon DEF Warn!TypeOK, Warn!Forget

\* A call that ends without a warning leaves everything to the others.
LEMMA WarnReturn ==
    ASSUME Warn!IInv, NEW t \in Thread, Warn!Forget(t), notePc' = [notePc EXCEPT ![t] = "idle"],
           UNCHANGED <<kind, time, pending, lastMs, noted>>
    PROVE  Warn!IInv'
  <1>1. Warn!TypeOK'
    BY ForgetTypes, Zenon DEF Warn!IInv, Warn!TypeOK, Warn!Times
  <1>2. Warn!ReadingsFresh' /\ Warn!LoadedDue'
    BY ForgetTypes, Zenon DEF Warn!IInv, Warn!ReadingsFresh, Warn!LoadedDue, Warn!Due
  <1>3. Warn!OneWarning'
    <2>1. SUFFICES ASSUME NEW u \in Thread, notePc'[u] = "take"
                   PROVE  /\ lastMs' = now'[u]
                          /\ sum'[u] =< pending'
                          /\ \A v \in Thread : notePc'[v] = "take" => v = u
      BY Zenon DEF Warn!OneWarning
    <2>2. notePc[u] = "take" /\ now'[u] = now[u] /\ sum'[u] = sum[u]
      BY <2>1, ForgetTypes, Zenon DEF Warn!IInv
    <2>3. \A v \in Thread : notePc'[v] = "take" => notePc[v] = "take"
      BY ForgetTypes, Zenon DEF Warn!IInv
    <2> QED
      BY <2>2, <2>3, Zenon DEF Warn!IInv, Warn!OneWarning
  <1>4. Warn!LateCallsLose'
    BY ForgetTypes, Zenon DEF Warn!IInv, Warn!LateCallsLose
  <1> QED
    BY <1>1, <1>2, <1>3, <1>4, Zenon DEF Warn!IInv

\* A warning counter that has reported nothing.
LEMMA WarnInit == Warn!Init => Warn!IInv
  <1>1. SUFFICES ASSUME Warn!Init PROVE Warn!IInv
    BY Zenon
  <1>2. Warn!TypeOK
    BY <1>1, WarnAssumption DEF Warn!Init, Warn!TypeOK, Warn!Times
  <1>3. Warn!ReadingsFresh /\ Warn!LoadedDue /\ Warn!OneWarning /\ Warn!LateCallsLose
    BY <1>1 DEF Warn!Init, Warn!ReadingsFresh, Warn!LoadedDue, Warn!OneWarning, Warn!LateCallsLose, Warn!Never
  <1> QED
    BY <1>2, <1>3, Zenon DEF Warn!IInv

\* Time passes, but not so that a call under way grows older than it may.
LEMMA WarnElapse == ASSUME Warn!IInv, Warn!Elapse PROVE Warn!IInv'
  <1>1. Warn!TypeOK'
    BY WarnAssumption DEF Warn!IInv, Warn!TypeOK, Warn!Elapse, Warn!Times
  <1>2. Warn!ReadingsFresh'
    BY WarnNumbers DEF Warn!IInv, Warn!ReadingsFresh, Warn!Elapse
  <1>3. Warn!LoadedDue' /\ Warn!OneWarning' /\ Warn!LateCallsLose'
    BY Zenon DEF Warn!IInv, Warn!LoadedDue, Warn!OneWarning, Warn!LateCallsLose, Warn!Elapse, Warn!Due
  <1> QED
    BY <1>1, <1>2, <1>3, Zenon DEF Warn!IInv

\* Events are noted: they are pending, and the call knows of no more than are.
LEMMA WarnNote ==
    ASSUME Warn!IInv, NEW t \in Thread, NEW n \in Nat, NEW ms \in Warn!Times, Warn!Note(t, n, ms)
    PROVE  Warn!IInv'
  <1>1. /\ notePc[t] = "idle" /\ notePc'[t] = "load"
        /\ now'[t] = ms /\ sum'[t] = pending' /\ pending' = pending + n /\ noted' = noted + n
        /\ \A u \in Thread \ {t} : notePc'[u] = notePc[u] /\ now'[u] = now[u] /\ sum'[u] = sum[u]
    BY Zenon DEF Warn!IInv, Warn!TypeOK, Warn!Note
  <1>2. /\ pending' \in 0..MaxNoted /\ noted' \in 0..MaxNoted /\ pending =< pending' /\ pending' =< noted'
        /\ pending + n \in 0..MaxNoted
    BY <1>1, WarnNumbers DEF Warn!IInv, Warn!ReadingsFresh, Warn!Note
  <1>3. Warn!TypeOK'
    BY <1>2, Zenon DEF Warn!IInv, Warn!TypeOK, Warn!Note, Warn!Times
  <1>4. Warn!ReadingsFresh'
    BY <1>1, <1>2, Zenon DEF Warn!IInv, Warn!ReadingsFresh, Warn!Note
  <1>5. Warn!LoadedDue'
    BY <1>1, Zenon DEF Warn!IInv, Warn!LoadedDue, Warn!Note, Warn!Due
  <1>6. Warn!OneWarning'
    BY <1>1, <1>2, WarnNumbers DEF Warn!IInv, Warn!OneWarning, Warn!Note
  <1>7. Warn!LateCallsLose'
    <2>1. ~(sum'[t] > pending')
      BY <1>1, <1>2
    <2>2. \A u \in Thread \ {t} : sum'[u] > pending' => sum[u] > pending
      BY <1>1, <1>2, WarnNumbers DEF Warn!IInv
    <2> QED
      BY <1>1, <2>1, <2>2, Zenon DEF Warn!IInv, Warn!LateCallsLose, Warn!Note
  <1> QED
    BY <1>3, <1>4, <1>5, <1>6, <1>7, Zenon DEF Warn!IInv

\* A call that finds a warning due by its reading still has its events pending.
LEMMA WarnLoadDue == ASSUME Warn!IInv, NEW t \in Thread, Warn!LoadDue(t) PROVE Warn!IInv'
  <1>1. /\ notePc[t] = "load" /\ notePc'[t] = "cas" /\ last'[t] = lastMs
        /\ \A u \in Thread \ {t} : notePc'[u] = notePc[u] /\ last'[u] = last[u]
    BY Zenon DEF Warn!IInv, Warn!TypeOK, Warn!LoadDue
  <1>2. Warn!TypeOK'
    BY Zenon DEF Warn!IInv, Warn!TypeOK, Warn!LoadDue, Warn!Times
  <1>3. Warn!ReadingsFresh' /\ Warn!LoadedDue'
    BY <1>1, Zenon DEF Warn!IInv, Warn!ReadingsFresh, Warn!LoadedDue, Warn!LoadDue, Warn!Due
  <1>4. Warn!OneWarning'
    BY <1>1 DEF Warn!IInv, Warn!OneWarning, Warn!LoadDue
  <1>5. ~(sum[t] > pending)
    <2>1. SUFFICES ASSUME sum[t] > pending PROVE FALSE
      BY Zenon
    <2>2. lastMs # Warn!Never /\ now[t] - lastMs < Interval
      BY <1>1, <2>1, Zenon DEF Warn!IInv, Warn!LateCallsLose
    <2> QED
      BY <2>2, WarnNumbers DEF Warn!IInv, Warn!LoadDue, Warn!Due
  <1>6. Warn!LateCallsLose'
    BY <1>1, <1>5, Zenon DEF Warn!IInv, Warn!LateCallsLose, Warn!LoadDue
  <1> QED
    BY <1>2, <1>3, <1>4, <1>6, Zenon DEF Warn!IInv

\* No call claims a warning while another is under way: it would have to be an
\* interval later.
LEMMA ClaimsAlone ==
    ASSUME Warn!IInv, NEW t \in Thread, Warn!Claim(t), NEW u \in Thread
    PROVE  notePc[u] # "take"
  <1>1. SUFFICES ASSUME notePc[u] = "take" PROVE FALSE
    BY Zenon
  <1>2. lastMs = now[u] /\ lastMs = last[t] /\ notePc[t] = "cas"
    BY <1>1, Zenon DEF Warn!IInv, Warn!OneWarning, Warn!Claim
  <1>3. Warn!Due(now[u], now[t])
    BY <1>2, Zenon DEF Warn!IInv, Warn!LoadedDue
  <1>4. now[t] - now[u] >= Interval
    BY <1>3, WarnNumbers, Zenon DEF Warn!IInv, Warn!Due
  <1>5. now[t] - now[u] < Interval
    BY <1>1, <1>2, ReadingsClose, Zenon DEF Warn!IInv
  <1> QED
    BY <1>4, <1>5, WarnNumbers DEF Warn!IInv

\* A call that another warning came before, by a reading of a call that was under
\* way with it, is not due by its own, and has not loaded that warning's time.
LEMMA ComesTooLate ==
    ASSUME Warn!IInv, NEW u \in Thread, NEW t \in Thread, notePc[t] # "idle", notePc[u] # "idle"
    PROVE  /\ now[t] # Warn!Never
           /\ now[u] - now[t] < Interval
           /\ notePc[u] = "cas" => last[u] # now[t]
  <1>1. now[u] - now[t] < Interval /\ now[t] # Warn!Never
    BY ReadingsClose, WarnNumbers, Zenon DEF Warn!IInv
  <1>2. ASSUME notePc[u] = "cas", last[u] = now[t] PROVE FALSE
    <2>1. Warn!Due(now[t], now[u])
      BY <1>2, Zenon DEF Warn!IInv, Warn!LoadedDue
    <2> QED
      BY <1>1, <2>1, WarnNumbers DEF Warn!IInv, Warn!Due
  <1> QED
    BY <1>1, <1>2, Zenon

\* The claim of a warning: the call's events are pending, or it would have lost.
LEMMA WarnClaim == ASSUME Warn!IInv, NEW t \in Thread, Warn!Claim(t) PROVE Warn!IInv'
  <1>1. /\ notePc[t] = "cas" /\ notePc'[t] = "take" /\ lastMs = last[t] /\ lastMs' = now[t]
        /\ \A u \in Thread \ {t} : notePc'[u] = notePc[u]
        /\ UNCHANGED <<kind, time, pending, now, sum, last, noted>>
    BY Zenon DEF Warn!IInv, Warn!TypeOK, Warn!Claim
  <1>2. Warn!TypeOK'
    BY Zenon DEF Warn!IInv, Warn!TypeOK, Warn!Claim, Warn!Times
  <1>3. now[t] =< time
    BY <1>1, Zenon DEF Warn!IInv, Warn!ReadingsFresh
  <1>4. Warn!ReadingsFresh'
    BY <1>1, <1>3, Zenon DEF Warn!IInv, Warn!ReadingsFresh
  <1>5. Warn!LoadedDue'
    BY <1>1, Zenon DEF Warn!IInv, Warn!LoadedDue, Warn!Due
  <1>6. sum[t] =< pending
    <2>1. ~(sum[t] > pending)
      BY <1>1, Zenon DEF Warn!IInv, Warn!LateCallsLose
    <2> QED
      BY <2>1, WarnNumbers DEF Warn!IInv
  <1>7. Warn!OneWarning'
    <2>1. \A u \in Thread : notePc'[u] = "take" => u = t
      BY <1>1, ClaimsAlone, Zenon
    <2> QED
      BY <1>1, <1>6, <2>1, Zenon DEF Warn!OneWarning
  <1>8. Warn!LateCallsLose'
    <2>1. ASSUME NEW u \in Thread, notePc'[u] \in {"load", "cas"}
          PROVE  now[t] # Warn!Never /\ now[u] - now[t] < Interval /\ (notePc'[u] = "cas" => last[u] # now[t])
      <3>1. notePc[u] = notePc'[u] /\ notePc[u] # "idle" /\ notePc[t] # "idle"
        BY <1>1, <2>1, Zenon
      <3> QED
        BY <3>1, ComesTooLate, Zenon
    <2> QED
      BY <1>1, <2>1, Zenon DEF Warn!LateCallsLose
  <1> QED
    BY <1>2, <1>4, <1>5, <1>7, <1>8, Zenon DEF Warn!IInv

\* The warning takes from the pending count what it reports, which is there; the
\* calls whose events were among it come too late.
LEMMA WarnTake == ASSUME Warn!IInv, NEW t \in Thread, Warn!Take(t) PROVE Warn!IInv'
  <1>1. /\ notePc[t] = "take" /\ pending' = pending - sum[t] /\ lastMs = now[t] /\ sum[t] =< pending
        /\ UNCHANGED <<kind, time, lastMs, noted>>
    BY Zenon DEF Warn!IInv, Warn!OneWarning, Warn!Take
  <1>2. /\ notePc'[t] = "idle"
        /\ \A u \in Thread \ {t} : /\ notePc'[u] = notePc[u] /\ now'[u] = now[u]
                                   /\ sum'[u] = sum[u] /\ last'[u] = last[u]
    BY ForgetTypes, Zenon DEF Warn!IInv, Warn!Take
  <1>3. pending' \in 0..MaxNoted /\ pending' =< noted
    <2>1. pending \in 0..MaxNoted /\ pending =< noted
      BY Zenon DEF Warn!IInv, Warn!TypeOK, Warn!ReadingsFresh
    <2> QED
      BY <1>1, <2>1, WarnNumbers DEF Warn!IInv
  <1>4. Warn!TypeOK'
    BY <1>1, <1>3, ForgetTypes, Zenon DEF Warn!IInv, Warn!TypeOK, Warn!Take, Warn!Times
  <1>5. Warn!ReadingsFresh' /\ Warn!LoadedDue'
    BY <1>1, <1>2, <1>3, Zenon DEF Warn!IInv, Warn!ReadingsFresh, Warn!LoadedDue, Warn!Due
  <1>6. \A u \in Thread : notePc'[u] # "take"
    BY <1>1, <1>2, Zenon DEF Warn!IInv, Warn!OneWarning
  <1>7. Warn!OneWarning'
    BY <1>6, Zenon DEF Warn!OneWarning
  <1>8. Warn!LateCallsLose'
    <2>1. ASSUME NEW u \in Thread, notePc'[u] \in {"load", "cas"}
          PROVE  now[t] # Warn!Never /\ now'[u] - now[t] < Interval /\ (notePc'[u] = "cas" => last'[u] # now[t])
      <3>1. u # t /\ notePc[u] = notePc'[u] /\ notePc[u] # "idle" /\ notePc[t] # "idle"
        BY <1>1, <1>2, <2>1, Zenon
      <3> QED
        BY <1>2, <3>1, ComesTooLate, Zenon
    <2> QED
      BY <1>1, <2>1, Zenon DEF Warn!LateCallsLose
  <1> QED
    BY <1>4, <1>5, <1>7, <1>8, Zenon DEF Warn!IInv

\* Every step of the warning keeps its invariant.
LEMMA WarnNext == Warn!IInv /\ [Warn!Next]_warnVars => Warn!IInv'
  <1>1. SUFFICES ASSUME Warn!IInv, [Warn!Next]_warnVars PROVE Warn!IInv'
    BY Zenon
  <1>2. ASSUME NEW t \in Thread, NEW ms \in Warn!Times, Warn!Refused(t, ms) PROVE Warn!IInv'
    BY <1>1, <1>2, WarnNote, Zenon DEF Warn!Refused
  <1>3. ASSUME NEW t \in Thread, NEW n \in Counts, NEW ms \in Warn!Times, Warn!Reclaimed(t, n, ms)
        PROVE  Warn!IInv'
    BY <1>1, <1>3, WarnNote, WarnAssumption, Zenon DEF Warn!Reclaimed
  <1>4. ASSUME NEW t \in Thread, Warn!LoadEarly(t) \/ Warn!ClaimLost(t) PROVE Warn!IInv'
    BY <1>1, <1>4, WarnReturn, Zenon DEF Warn!LoadEarly, Warn!ClaimLost
  <1>5. CASE UNCHANGED warnVars
    BY <1>1, <1>5, Zenon DEF warnVars, Warn!IInv, Warn!TypeOK, Warn!ReadingsFresh, Warn!LoadedDue,
       Warn!OneWarning, Warn!LateCallsLose, Warn!Times, Warn!Due
  <1> QED
    BY <1>1, <1>2, <1>3, <1>4, <1>5, WarnElapse, WarnLoadDue, WarnClaim, WarnTake, Zenon DEF Warn!Next

\* A new warning is an interval after the last one.
LEMMA WarnSpacing ==
    ASSUME Warn!IInv, [Warn!Next]_warnVars, lastMs # Warn!Never
    PROVE  lastMs' = lastMs \/ lastMs' - lastMs >= Interval
  <1>1. CASE \E t \in Thread : Warn!Claim(t)
    <2>1. PICK t \in Thread : Warn!Claim(t)
      BY <1>1, Zenon
    <2>2. Warn!Due(lastMs, now[t]) /\ lastMs' = now[t]
      BY <2>1, Zenon DEF Warn!IInv, Warn!LoadedDue, Warn!Claim
    <2> QED
      BY <2>2, WarnNumbers, Zenon DEF Warn!IInv, Warn!Due
  <1>2. CASE ~\E t \in Thread : Warn!Claim(t)
    BY <1>2, Zenon DEF Warn!Next, warnVars, Warn!Elapse, Warn!Refused, Warn!Reclaimed, Warn!Note, Warn!LoadDue,
       Warn!LoadEarly, Warn!ClaimLost, Warn!Take
  <1> QED
    BY <1>1, <1>2, Zenon

-----------------------------------------------------------------------------
\* Sums over a finite set.

INSTANCE FiniteSetTheorems

\* Every nonempty set of natural numbers has a least element.
LEMMA LeastNat ==
    ASSUME NEW T, T \subseteq Nat, T # {}
    PROVE  \E m \in T : \A k \in T : m =< k
  <1>1. PICK m \in T : \A k \in T : ~(<<k, m>> \in OpToRel(<, Nat))
    BY WFMin, NatLessThanWellFounded, Zenon
  <1>2. \A k \in T : ~(k < m)
    BY <1>1, Zenon DEF OpToRel
  <1> QED
    BY <1>2

\* Every nonempty set of subsets of a finite set has one of which no other is a
\* subset.
LEMMA SmallestSubset ==
    ASSUME NEW S, IsFiniteSet(S), NEW T, T \subseteq SUBSET S, T # {}
    PROVE  \E m \in T : \A k \in T : k \subseteq m => k = m
  <1>1. IsWellFoundedOn(StrictSubsetOrdering(S), SUBSET S)
    BY FS_StrictSubsetOrderingWellFounded, FS_FiniteSubsetsOfFinite, Zenon
  <1>2. PICK m \in T : \A k \in T : ~(<<k, m>> \in StrictSubsetOrdering(S))
    BY <1>1, WFMin, Zenon
  <1>3. \A k \in T : ~(k \subseteq m /\ k # m)
    BY <1>2, Zenon DEF StrictSubsetOrdering
  <1> QED
    BY <1>3, Zenon

\* SumFunction adds the values of a function in an order of its own choice: some
\* element of a set first, and then the rest of the set.
Rest(s) == s \ {CHOOSE x \in s : TRUE}

SumStep(f, g, s) == IF s = {} THEN 0 ELSE f[CHOOSE x \in s : TRUE] + g[Rest(s)]

IsSum(f, g) == g = [s \in SUBSET DOMAIN f |-> SumStep(f, g, s)]

\* The sum is the last value of the recursive function that adds up the subsets.
LEMMA SumUnfold ==
    ASSUME NEW f
    PROVE  SumFunction(f) = (CHOOSE g : IsSum(f, g))[DOMAIN f]
  BY Zenon DEF SumFunction, SumFunctionOnSet, FoldFunctionOnSet, MapThenFoldSet, IsSum, SumStep, Rest

\* The rest of a set is smaller by one.
LEMMA RestSmaller ==
    ASSUME NEW s, IsFiniteSet(s), s # {}
    PROVE  /\ (CHOOSE x \in s : TRUE) \in s
           /\ Rest(s) \subseteq s /\ Rest(s) # s
           /\ IsFiniteSet(Rest(s))
           /\ Cardinality(Rest(s)) = Cardinality(s) - 1
  <1>1. (CHOOSE x \in s : TRUE) \in s
    BY Zenon
  <1> QED
    BY <1>1, FS_RemoveElement, Zenon DEF Rest

\* That recursive function exists for a finite domain, and its values are natural
\* numbers if those of f are.
LEMMA SumExists ==
    ASSUME NEW S, IsFiniteSet(S), NEW f \in [S -> Nat]
    PROVE  \E g : IsSum(f, g) /\ g \in [SUBSET S -> Nat]
  <1> DEFINE Upto(n) == {s \in SUBSET S : Cardinality(s) =< n}
             Good(n, g) == \A s \in Upto(n) : g[s] = SumStep(f, g, s)
             Bad == {n \in Nat : ~\E g \in [Upto(n) -> Nat] : Good(n, g)}
  <1>1. \A s \in SUBSET S : IsFiniteSet(s) /\ Cardinality(s) \in Nat /\ Cardinality(s) =< Cardinality(S)
    BY FS_Subset, FS_CardinalityType, Zenon
  <1>2. Cardinality(S) \in Nat
    BY FS_CardinalityType, Zenon
  <1>3. Bad = {}
    <2>1. SUFFICES ASSUME Bad # {} PROVE FALSE
      BY Zenon
    <2>2. PICK m \in Bad : \A k \in Bad : m =< k
      <3>1. Bad \subseteq Nat
        BY Zenon
      <3> QED
        BY <2>1, <3>1, LeastNat, Zenon
    <2>3. m \in Nat /\ ~\E g \in [Upto(m) -> Nat] : Good(m, g)
      BY Zenon
    <2>4. CASE m = 0
      <3>1. \A s \in Upto(m) : s = {}
        BY <1>1, <2>4, FS_EmptySet
      <3>2. [s \in Upto(m) |-> 0] \in [Upto(m) -> Nat] /\ Good(m, [s \in Upto(m) |-> 0])
        BY <3>1, Zenon DEF SumStep
      <3> QED
        BY <2>3, <3>2, Zenon
    <2>5. CASE m # 0
      <3>1. m - 1 \in Nat /\ m - 1 \notin Bad
        <4>1. m - 1 \in Nat /\ ~(m =< m - 1)
          BY <2>3, <2>5
        <4> QED
          BY <2>2, <4>1, Zenon
      <3>2. PICK g \in [Upto(m - 1) -> Nat] : Good(m - 1, g)
        BY <3>1, Zenon
      <3> DEFINE h == [s \in Upto(m) |-> SumStep(f, g, s)]
      <3>3. ASSUME NEW s \in Upto(m), s # {}
            PROVE  /\ (CHOOSE x \in s : TRUE) \in S
                   /\ Rest(s) \in Upto(m - 1) /\ Rest(s) \in Upto(m)
        <4>1. IsFiniteSet(s) /\ Cardinality(s) \in Nat /\ Cardinality(s) =< m
          BY <1>1, <3>3, Zenon
        <4>2. /\ (CHOOSE x \in s : TRUE) \in s
              /\ Rest(s) \in SUBSET S
              /\ Cardinality(Rest(s)) = Cardinality(s) - 1
          BY <3>3, <4>1, RestSmaller, Zenon
        <4> QED
          BY <2>3, <4>1, <4>2
      <3>4. h \in [Upto(m) -> Nat]
        <4>1. SUFFICES ASSUME NEW s \in Upto(m) PROVE SumStep(f, g, s) \in Nat
          BY Zenon
        <4>2. CASE s = {}
          BY <4>2, Zenon DEF SumStep
        <4>3. CASE s # {}
          BY <3>3, <4>3 DEF SumStep
        <4> QED
          BY <4>2, <4>3, Zenon
      <3>5. \A s \in Upto(m - 1) : s \in Upto(m) /\ h[s] = g[s]
        <4>1. \A s \in Upto(m - 1) : s \in Upto(m)
          BY <1>1, <2>3
        <4> QED
          BY <3>2, <4>1, Zenon
      <3>6. Good(m, h)
        <4>1. SUFFICES ASSUME NEW s \in Upto(m) PROVE SumStep(f, g, s) = SumStep(f, h, s)
          BY Zenon
        <4>2. CASE s = {}
          BY <4>2, Zenon DEF SumStep
        <4>3. CASE s # {}
          <5>1. h[Rest(s)] = g[Rest(s)]
            BY <3>3, <3>5, <4>3, Zenon
          <5> QED
            BY <4>3, <5>1 DEF SumStep
        <4> QED
          BY <4>2, <4>3, Zenon
      <3> QED
        BY <2>3, <3>4, <3>6, Zenon
    <2> QED
      BY <2>4, <2>5, Zenon
  <1>4. Upto(Cardinality(S)) = SUBSET S
    BY <1>1, Zenon
  <1>5. PICK g \in [Upto(Cardinality(S)) -> Nat] : Good(Cardinality(S), g)
    BY <1>2, <1>3, Zenon
  <1>6. g \in [SUBSET S -> Nat] /\ \A s \in SUBSET S : g[s] = SumStep(f, g, s)
    BY <1>4, <1>5, Zenon
  <1>7. g = [s \in SUBSET S |-> SumStep(f, g, s)]
    BY <1>6, Zenon
  <1> QED
    BY <1>6, <1>7, Zenon DEF IsSum

\* The sums over the subsets of S, the last of which is the sum of f.
AreSums(S, f, g) ==
    /\ g \in [SUBSET S -> Nat]
    /\ SumFunction(f) = g[S]
    /\ \A s \in SUBSET S : g[s] = SumStep(f, g, s)

\* A sum of natural numbers is the last of the sums over the subsets.
LEMMA SumParts ==
    ASSUME NEW S, IsFiniteSet(S), NEW f \in [S -> Nat]
    PROVE  \E g : AreSums(S, f, g)
  <1>1. PICK e : IsSum(f, e) /\ e \in [SUBSET S -> Nat]
    BY SumExists, Zenon
  <1> DEFINE g == CHOOSE g : IsSum(f, g)
  <1>2. IsSum(f, g)
    BY <1>1, Zenon
  <1>3. SumFunction(f) = g[S]
    BY SumUnfold, Zenon
  <1>4. /\ g = [s \in SUBSET S |-> SumStep(f, g, s)]
        /\ e = [s \in SUBSET S |-> SumStep(f, e, s)]
    BY <1>1, <1>2, Zenon DEF IsSum
  <1> HIDE DEF g
  <1>5. g = e
    <2> DEFINE Bad == {s \in SUBSET S : g[s] # e[s]}
    <2>1. SUFFICES ASSUME Bad # {} PROVE FALSE
      BY <1>4, Zenon
    <2>2. PICK m \in Bad : \A k \in Bad : k \subseteq m => k = m
      <3>1. Bad \subseteq SUBSET S
        BY Zenon
      <3> HIDE DEF Bad
      <3> QED
        BY <2>1, <3>1, SmallestSubset
    <2>3. m \in SUBSET S /\ SumStep(f, g, m) # SumStep(f, e, m)
      BY <1>4, Zenon
    <2>4. m # {}
      BY <2>3, Zenon DEF SumStep
    <2>5. Rest(m) \in SUBSET S /\ Rest(m) \subseteq m /\ Rest(m) # m
      BY <2>3, <2>4, RestSmaller, FS_Subset
    <2>6. g[Rest(m)] = e[Rest(m)]
      BY <2>2, <2>5, Zenon
    <2> QED
      BY <2>3, <2>4, <2>6 DEF SumStep
  <1>6. \A s \in SUBSET S : g[s] = SumStep(f, g, s)
    BY <1>4, Zenon
  <1> QED
    BY <1>1, <1>3, <1>5, <1>6 DEF AreSums

\* The sum of natural numbers is one.
LEMMA SumType ==
    ASSUME NEW S, IsFiniteSet(S), NEW f \in [S -> Nat]
    PROVE  SumFunction(f) \in Nat
  <1>1. PICK g : AreSums(S, f, g)
    BY SumParts, Zenon
  <1>2. S \in SUBSET S
    BY Zenon
  <1> QED
    BY <1>1, <1>2 DEF AreSums

\* A sum of zeros is zero.
LEMMA SumZero ==
    ASSUME NEW S, IsFiniteSet(S), NEW f \in [S -> Nat], \A x \in S : f[x] = 0
    PROVE  SumFunction(f) = 0
  <1>1. PICK g : AreSums(S, f, g)
    BY SumParts, Zenon
  <1> DEFINE Bad == {s \in SUBSET S : g[s] # 0}
  <1>2. SUFFICES ASSUME Bad # {} PROVE FALSE
    BY <1>1, Zenon DEF AreSums
  <1>3. PICK m \in Bad : \A k \in Bad : k \subseteq m => k = m
    <2>1. Bad \subseteq SUBSET S
      BY Zenon
    <2> HIDE DEF Bad
    <2> QED
      BY <1>2, <2>1, SmallestSubset
  <1>4. m \in SUBSET S /\ SumStep(f, g, m) # 0
    BY <1>1, Zenon DEF AreSums
  <1>5. m # {}
    BY <1>4, Zenon DEF SumStep
  <1>6. (CHOOSE x \in m : TRUE) \in S /\ Rest(m) \in SUBSET S /\ Rest(m) \subseteq m /\ Rest(m) # m
    BY <1>4, <1>5, RestSmaller, FS_Subset
  <1>7. g[Rest(m)] = 0
    BY <1>3, <1>6, Zenon
  <1> QED
    BY <1>4, <1>5, <1>6, <1>7 DEF SumStep

\* A sum changes by as much as the one value that changes.
LEMMA SumUpdate ==
    ASSUME NEW S, IsFiniteSet(S), NEW f \in [S -> Nat], NEW h \in [S -> Nat], NEW x \in S,
           \A y \in S \ {x} : h[y] = f[y]
    PROVE  SumFunction(h) = SumFunction(f) + h[x] - f[x]
  <1>1. PICK g : AreSums(S, f, g)
    BY SumParts, Zenon
  <1>2. PICK e : AreSums(S, h, e)
    BY SumParts, Zenon
  <1> DEFINE Good(s) == e[s] = g[s] + IF x \in s THEN h[x] - f[x] ELSE 0
             Bad == {s \in SUBSET S : ~Good(s)}
  <1>3. SUFFICES ASSUME Bad # {} PROVE FALSE
    <2>1. S \in SUBSET S
      BY Zenon
    <2> QED
      BY <1>1, <1>2, <2>1, Zenon DEF AreSums
  <1>4. PICK m \in Bad : \A k \in Bad : k \subseteq m => k = m
    <2>1. Bad \subseteq SUBSET S
      BY Zenon
    <2> HIDE DEF Bad
    <2> QED
      BY <1>3, <2>1, SmallestSubset
  <1> DEFINE y == CHOOSE z \in m : TRUE
  <1>5. m \in SUBSET S /\ e[m] = SumStep(h, e, m) /\ g[m] = SumStep(f, g, m) /\ ~Good(m)
    BY <1>1, <1>2, Zenon DEF AreSums
  <1>6. m # {}
    <2>1. SUFFICES ASSUME m = {} PROVE FALSE
      BY Zenon
    <2>2. e[m] = 0 /\ g[m] = 0 /\ x \notin m
      BY <1>5, <2>1, Zenon DEF SumStep
    <2> QED
      BY <1>5, <2>2
  <1>7. y \in m /\ Rest(m) \in SUBSET S /\ Rest(m) \subseteq m /\ Rest(m) # m
    BY <1>5, <1>6, RestSmaller, FS_Subset
  <1>8. Good(Rest(m))
    BY <1>4, <1>7, Zenon
  <1>9. e[m] = h[y] + e[Rest(m)] /\ g[m] = f[y] + g[Rest(m)]
    BY <1>5, <1>6, Zenon DEF SumStep
  <1>10. Rest(m) = m \ {y}
    BY Zenon DEF Rest
  <1>11. /\ y \in S
         /\ e[Rest(m)] \in Nat /\ g[Rest(m)] \in Nat /\ e[m] \in Nat /\ g[m] \in Nat
         /\ h[y] \in Nat /\ f[y] \in Nat /\ h[x] \in Nat /\ f[x] \in Nat
    BY <1>1, <1>2, <1>5, <1>7, Zenon DEF AreSums
  <1> HIDE DEF y
  <1>12. CASE y = x
    <2>1. x \in m /\ x \notin Rest(m)
      BY <1>7, <1>10, <1>12
    <2>2. e[Rest(m)] = g[Rest(m)] + 0
      BY <1>8, <2>1, Zenon
    <2>3. e[m] = h[x] + e[Rest(m)] /\ g[m] = f[x] + g[Rest(m)]
      BY <1>9, <1>12, Zenon
    <2>4. e[m] = g[m] + (h[x] - f[x])
      BY <1>11, <2>2, <2>3
    <2> QED
      BY <1>5, <2>1, <2>4, Zenon
  <1>13. CASE y # x
    <2>1. h[y] = f[y] /\ (x \in m <=> x \in Rest(m))
      BY <1>10, <1>11, <1>13
    <2> DEFINE d == IF x \in m THEN h[x] - f[x] ELSE 0
    <2>2. d \in Int
      BY <1>11
    <2>3. e[Rest(m)] = g[Rest(m)] + d
      BY <1>8, <2>1, Zenon
    <2>4. e[m] # g[m] + d
      BY <1>5, Zenon
    <2> HIDE DEF d
    <2> QED
      BY <1>9, <1>11, <2>1, <2>2, <2>3, <2>4
  <1> QED
    BY <1>12, <1>13, Zenon

\* The sums of the instances are the sums of the lemmas.
LEMMA SameSums ==
    ASSUME NEW f
    PROVE  Clock!SumFunction(f) = SumFunction(f) /\ Warn!SumFunction(f) = SumFunction(f)
  BY Zenon DEF SumFunction, SumFunctionOnSet, FoldFunctionOnSet, MapThenFoldSet, Clock!SumFunction,
     Clock!SumFunctionOnSet, Clock!FoldFunctionOnSet, Clock!MapThenFoldSet, Warn!SumFunction,
     Warn!SumFunctionOnSet, Warn!FoldFunctionOnSet, Warn!MapThenFoldSet

\* At most one warning is under way, so what all of them report is pending.
LEMMA WarnReports == Warn!IInv => Warn!ReportedOnce
  <1>1. SUFFICES ASSUME Warn!IInv PROVE SumFunction(Warn!Reporting) =< pending
    BY SameSums, Zenon DEF Warn!ReportedOnce
  <1>2. Warn!Reporting \in [Thread -> Nat]
    BY <1>1, WarnNumbers, Zenon DEF Warn!IInv, Warn!Reporting
  <1>3. CASE \A t \in Thread : notePc[t] # "take"
    <2>1. \A t \in Thread : Warn!Reporting[t] = 0
      BY <1>3, Zenon DEF Warn!Reporting
    <2>2. SumFunction(Warn!Reporting) = 0
      BY <1>2, <2>1, SumZero, ThreadAssumption
    <2> QED
      BY <1>1, <2>2, WarnNumbers DEF Warn!IInv
  <1>4. CASE \E t \in Thread : notePc[t] = "take"
    <2>1. PICK t \in Thread : notePc[t] = "take"
      BY <1>4, Zenon
    <2> DEFINE none == [u \in Thread |-> 0]
    <2>2. \A u \in Thread \ {t} : Warn!Reporting[u] = none[u]
      BY <1>1, <2>1, Zenon DEF Warn!IInv, Warn!OneWarning, Warn!Reporting
    <2>3. none \in [Thread -> Nat] /\ none[t] = 0 /\ \A u \in Thread : none[u] = 0
      BY Zenon
    <2> HIDE DEF none
    <2>4. SumFunction(none) = 0
      BY <2>3, SumZero, ThreadAssumption, Zenon
    <2>5. SumFunction(Warn!Reporting) = SumFunction(none) + Warn!Reporting[t] - none[t]
      BY <1>2, <2>2, <2>3, SumUpdate, ThreadAssumption
    <2>6. Warn!Reporting[t] = sum[t] /\ sum[t] =< pending /\ sum[t] \in Nat
      BY <1>1, <2>1, WarnNumbers DEF Warn!IInv, Warn!OneWarning, Warn!Reporting
    <2> QED
      BY <2>3, <2>4, <2>5, <2>6
  <1> QED
    BY <1>3, <1>4, Zenon

-----------------------------------------------------------------------------
\* The coarse clock.

\* The spans that threads own are natural numbers, finitely many.
LEMMA OwnedType ==
    ASSUME Clock!TypeOK
    PROVE  /\ IsFiniteSet(Clock!Running)
           /\ Clock!Owned \in [Clock!Running -> Nat]
           /\ Clock!Unapplied \in Nat
  <1>1. IsFiniteSet(Clock!Running)
    BY ThreadAssumption, FS_AddElement, Zenon DEF Clock!Running
  <1>2. \A t \in Clock!Running : claim[t] \in Nat
    BY ClockAssumption DEF Clock!TypeOK, Clock!Times
  <1>3. Clock!Owned \in [Clock!Running -> Nat]
    BY <1>2, Zenon DEF Clock!Owned
  <1> QED
    BY <1>1, <1>3, SumType, SameSums DEF Clock!Unapplied

\* What threads own together changes by what the one thread that moves owns.
LEMMA UnappliedMoves ==
    ASSUME Clock!TypeOK, Clock!TypeOK', NEW t \in Clock!Running,
           \A u \in Clock!Running \ {t} : clockPc'[u] = clockPc[u] /\ claim'[u] = claim[u]
    PROVE  Clock!Unapplied' = Clock!Unapplied + Clock!Owned'[t] - Clock!Owned[t]
  <1>1. /\ IsFiniteSet(Clock!Running)
        /\ Clock!Owned \in [Clock!Running -> Nat]
    BY OwnedType, Zenon
  <1>2. \A u \in Clock!Running : claim'[u] \in Nat
    BY ClockAssumption DEF Clock!TypeOK, Clock!Times, Clock!Running
  <1>3. Clock!Owned' \in [Clock!Running -> Nat]
    BY <1>2, Zenon DEF Clock!Owned, Clock!Running
  <1>4. \A u \in Clock!Running \ {t} : Clock!Owned'[u] = Clock!Owned[u]
    BY Zenon DEF Clock!Owned, Clock!Running
  <1>5. SumFunction(Clock!Owned') = SumFunction(Clock!Owned) + Clock!Owned'[t] - Clock!Owned[t]
    BY <1>1, <1>3, <1>4, SumUpdate
  <1> QED
    BY <1>5, SameSums, Zenon DEF Clock!Unapplied

\* The clock begins with nothing claimed and nothing owned.
LEMMA ClockInit == Clock!Init => Clock!IInv
  <1>1. SUFFICES ASSUME Clock!Init PROVE Clock!IInv
    BY Zenon
  <1>2. Clock!TypeOK
    <2>1. clockPc \in [Clock!Running -> {"idle", "check", "load", "cas", "advance", "read", "asleep", "ended"}]
      BY <1>1, Zenon DEF Clock!Init
    <2>2. reads \in [Thread -> 0..ReadsPerRefresh - 1]
      BY <1>1, ClockAssumption DEF Clock!Init
    <2> QED
      BY <1>1, <2>1, <2>2, ClockAssumption DEF Clock!Init, Clock!TypeOK, Clock!Times
  <1>3. \A t \in Clock!Running : clockPc[t] \notin {"cas", "advance"} /\ target[t] = 0
    BY <1>1, Zenon DEF Clock!Init
  <1>4. Clock!TargetsPassed
    BY <1>1, <1>3 DEF Clock!Init, Clock!TargetsPassed
  <1>5. Clock!Unapplied = 0
    <2>1. \A t \in Clock!Running : Clock!Owned[t] = 0
      BY <1>3, Zenon DEF Clock!Owned
    <2>2. SumFunction(Clock!Owned) = 0
      BY <1>2, <2>1, OwnedType, SumZero
    <2> QED
      BY <2>2, SameSums, Zenon DEF Clock!Unapplied
  <1>6. Clock!SpansClaimedOnce
    BY <1>1, <1>5 DEF Clock!Init, Clock!SpansClaimedOnce
  <1> QED
    BY <1>2, <1>4, <1>6, Zenon DEF Clock!IInv

\* A step of one thread keeps the account if it moves as much from what is owned
\* to the offset, or from what is unclaimed to what is owned, as it takes.
LEMMA AccountKept ==
    ASSUME Clock!IInv, Clock!TypeOK', NEW t \in Clock!Running,
           \A u \in Clock!Running \ {t} : clockPc'[u] = clockPc[u] /\ claim'[u] = claim[u],
           (offset' - offset) + (Clock!Owned'[t] - Clock!Owned[t]) = appliedNs' - appliedNs,
           appliedNs' =< real'
    PROVE  Clock!SpansClaimedOnce'
  <1>0. Clock!TypeOK
    BY Zenon DEF Clock!IInv
  <1>1. Clock!Unapplied' = Clock!Unapplied + Clock!Owned'[t] - Clock!Owned[t]
    BY UnappliedMoves, Zenon DEF Clock!IInv
  <1>2. offset + Clock!Unapplied = appliedNs
    BY Zenon DEF Clock!IInv, Clock!SpansClaimedOnce
  <1>3. /\ Clock!Unapplied \in Nat /\ Clock!Owned[t] \in Nat
        /\ offset \in Nat /\ appliedNs \in Nat /\ offset' \in Nat /\ appliedNs' \in Nat
    BY <1>0, OwnedType, ClockAssumption DEF Clock!TypeOK, Clock!Times
  <1>4. Clock!Owned'[t] \in Nat
    BY ClockAssumption DEF Clock!TypeOK, Clock!Times, Clock!Owned, Clock!Running
  <1>5. offset' + Clock!Unapplied' = appliedNs'
    BY <1>1, <1>2, <1>3, <1>4
  <1> QED
    BY <1>5, Zenon DEF Clock!SpansClaimedOnce

\* A step of thread t that leaves the offset, the claims applied and what t owns alone.
LEMMA AccountUntouched ==
    ASSUME Clock!IInv, Clock!TypeOK', NEW t \in Clock!Running,
           \A u \in Clock!Running \ {t} : clockPc'[u] = clockPc[u] /\ claim'[u] = claim[u],
           Clock!Owned'[t] = Clock!Owned[t],
           offset' = offset, appliedNs' = appliedNs, appliedNs =< real'
    PROVE  Clock!SpansClaimedOnce'
  <1>0. Clock!TypeOK
    BY Zenon DEF Clock!IInv
  <1>1. /\ Clock!Owned[t] \in Nat /\ offset \in Nat /\ appliedNs \in Nat
    BY <1>0, OwnedType, ClockAssumption DEF Clock!TypeOK, Clock!Times
  <1>2. (offset' - offset) + (Clock!Owned'[t] - Clock!Owned[t]) = appliedNs' - appliedNs
    BY <1>1
  <1> QED
    BY <1>2, AccountKept, Zenon

\* A step in which no thread claims or applies anything.
LEMMA ClockIdleStep ==
    ASSUME Clock!IInv, Clock!TypeOK', NEW t \in Clock!Running,
           \A u \in Clock!Running \ {t} : clockPc'[u] = clockPc[u],
           clockPc[t] # "advance" /\ clockPc'[t] # "advance",
           claim' = claim \/ claim' = [claim EXCEPT ![t] = 0],
           UNCHANGED <<real, offset, appliedNs>>
    PROVE  Clock!SpansClaimedOnce'
  <1>0. Clock!TypeOK
    BY Zenon DEF Clock!IInv
  <1>1. \A u \in Clock!Running \ {t} : claim'[u] = claim[u]
    BY <1>0, Zenon DEF Clock!TypeOK
  <1>2. Clock!Owned'[t] = Clock!Owned[t]
    BY Zenon DEF Clock!Owned, Clock!Running
  <1> QED
    BY <1>1, <1>2, AccountUntouched, Zenon DEF Clock!IInv, Clock!SpansClaimedOnce

\* The target of a tick is the real time, which does not go back.
LEMMA TickTargets ==
    ASSUME Clock!IInv, NEW t \in Clock!Running, NEW v \in {0, real},
           target' = [target EXCEPT ![t] = v],
           \A u \in Clock!Running \ {t} : clockPc'[u] = clockPc[u],
           clockPc'[t] # "cas",
           UNCHANGED <<claim, real>>
    PROVE  Clock!TargetsPassed'
  <1>0. Clock!TypeOK
    BY Zenon DEF Clock!IInv
  <1>1. real \in Nat /\ 0 =< real
    BY <1>0, ClockAssumption DEF Clock!TypeOK, Clock!Times
  <1>2. target'[t] =< real /\ \A u \in Clock!Running \ {t} : target'[u] = target[u]
    BY <1>0, <1>1 DEF Clock!TypeOK
  <1> QED
    BY <1>2, Zenon DEF Clock!IInv, Clock!TargetsPassed, Clock!Running

\* Where a thread may go, and where it returns to.
LEMMA AfterType ==
    ASSUME NEW t \in Clock!Running
    PROVE  Clock!After(t) \in {"read", "asleep", "idle"}
  BY Zenon DEF Clock!After

\* Time passes, clones are dropped, and the ticker wakes.
LEMMA ClockTimeStep ==
    ASSUME Clock!IInv, Clock!Elapse \/ Clock!Drop \/ Clock!Wake
    PROVE  Clock!IInv'
  <1>0. Clock!TypeOK
    BY Zenon DEF Clock!IInv
  <1>1. Ticker \in Clock!Running
    BY Zenon DEF Clock!Running
  <1>2. CASE Clock!Elapse
    <2>1. real \in Nat /\ real' = real + 1 /\ real' \in Clock!Times
      BY <1>0, <1>2, ClockAssumption DEF Clock!TypeOK, Clock!Times, Clock!Elapse
    <2>2. Clock!TypeOK'
      BY <1>0, <1>2, <2>1 DEF Clock!TypeOK, Clock!Elapse, Clock!Times, Clock!Running
    <2>3. \A t \in Clock!Running : target[t] \in Nat
      BY <1>0, ClockAssumption DEF Clock!TypeOK, Clock!Times
    <2>4. Clock!TargetsPassed'
      BY <1>2, <2>1, <2>3 DEF Clock!IInv, Clock!TargetsPassed, Clock!Elapse, Clock!Running
    <2>5. appliedNs =< real'
      BY <2>1, ClockAssumption DEF Clock!IInv, Clock!TypeOK, Clock!Times, Clock!SpansClaimedOnce
    <2>6. UNCHANGED <<clockPc, claim, offset, appliedNs>>
      BY <1>2, Zenon DEF Clock!Elapse
    <2>7. Clock!Owned' = Clock!Owned
      BY <2>6, Zenon DEF Clock!Owned, Clock!Running
    <2>8. Clock!SpansClaimedOnce'
      BY <1>1, <2>2, <2>5, <2>6, <2>7, AccountUntouched
    <2> QED
      BY <2>2, <2>4, <2>8, Zenon DEF Clock!IInv
  <1>3. CASE Clock!Drop
    <2>1. Clock!TypeOK'
      BY <1>0, <1>3, Zenon DEF Clock!TypeOK, Clock!Drop, Clock!Times, Clock!Running
    <2>2. Clock!TargetsPassed'
      BY <1>3, Zenon DEF Clock!IInv, Clock!TargetsPassed, Clock!Drop, Clock!Running
    <2>3. Clock!Unapplied' = Clock!Unapplied
      BY <1>3, Zenon DEF Clock!Unapplied, Clock!Owned, Clock!Drop, Clock!Running
    <2> QED
      BY <1>3, <2>1, <2>2, <2>3 DEF Clock!IInv, Clock!SpansClaimedOnce, Clock!Drop
  <1>4. CASE Clock!Wake
    <2>1. clockPc'[Ticker] \in {"load", "ended"} /\ \A u \in Clock!Running \ {Ticker} : clockPc'[u] = clockPc[u]
      BY <1>0, <1>1, <1>4, Zenon DEF Clock!TypeOK, Clock!Wake
    <2>2. Clock!TypeOK'
      BY <1>0, <1>4, ClockAssumption DEF Clock!TypeOK, Clock!Wake, Clock!Times, Clock!Running
    <2>3. Clock!TargetsPassed'
      BY <1>1, <1>4, <2>1, TickTargets, Zenon DEF Clock!Wake
    <2>4. Clock!SpansClaimedOnce'
      BY <1>1, <1>4, <2>1, <2>2, ClockIdleStep DEF Clock!Wake
    <2> QED
      BY <2>2, <2>3, <2>4, Zenon DEF Clock!IInv
  <1> QED
    BY <1>2, <1>3, <1>4, Zenon

\* A caller ticks or reads the clock.
LEMMA ClockCallStep ==
    ASSUME Clock!IInv, NEW t \in Thread, Clock!Tick(t) \/ Clock!Read(t) \/ Clock!ReadDue(t)
    PROVE  Clock!IInv'
  <1>0. Clock!TypeOK
    BY Zenon DEF Clock!IInv
  <1>1. t \in Clock!Running
    BY Zenon DEF Clock!Running
  <1>2. CASE Clock!Tick(t)
    <2>1. clockPc'[t] = "load" /\ \A u \in Clock!Running \ {t} : clockPc'[u] = clockPc[u]
      BY <1>0, <1>1, <1>2, Zenon DEF Clock!TypeOK, Clock!Tick
    <2>2. Clock!TypeOK'
      BY <1>0, <1>2, Zenon DEF Clock!TypeOK, Clock!Tick, Clock!Times, Clock!Running
    <2>3. Clock!TargetsPassed'
      BY <1>1, <1>2, <2>1, TickTargets, Zenon DEF Clock!Tick
    <2>4. Clock!SpansClaimedOnce'
      BY <1>1, <1>2, <2>1, <2>2, ClockIdleStep DEF Clock!Tick
    <2> QED
      BY <2>2, <2>3, <2>4, Zenon DEF Clock!IInv
  <1>3. CASE Clock!Read(t)
    <2>1. clockPc'[t] = "read" /\ \A u \in Clock!Running \ {t} : clockPc'[u] = clockPc[u]
      BY <1>0, <1>1, <1>3, Zenon DEF Clock!TypeOK, Clock!Read
    <2>2. reads' \in [Thread -> 0..ReadsPerRefresh - 1]
      <3>1. reads[t] \in 0..ReadsPerRefresh - 1 /\ ReadsPerRefresh \in Nat \ {0}
        BY <1>0, ClockAssumption, Zenon DEF Clock!TypeOK
      <3>2. ReadsPerRefresh % ReadsPerRefresh = 0
        BY <3>1
      <3>3. refreshAfter # 0 => reads[t] + 1 \in 0..ReadsPerRefresh - 1
        BY <1>3, <3>1, <3>2 DEF Clock!Read
      <3> QED
        BY <1>0, <1>3, <3>3, Zenon DEF Clock!TypeOK, Clock!Read
    <2>3. Clock!TypeOK'
      BY <1>0, <1>3, <2>2, Zenon DEF Clock!TypeOK, Clock!Read, Clock!Times, Clock!Running
    <2>4. Clock!TargetsPassed'
      BY <1>3, <2>1, Zenon DEF Clock!IInv, Clock!TargetsPassed, Clock!Read, Clock!Running
    <2>5. Clock!SpansClaimedOnce'
      BY <1>1, <1>3, <2>1, <2>3, ClockIdleStep DEF Clock!Read
    <2> QED
      BY <2>3, <2>4, <2>5, Zenon DEF Clock!IInv
  <1>4. CASE Clock!ReadDue(t)
    <2>1. clockPc'[t] = "check" /\ \A u \in Clock!Running \ {t} : clockPc'[u] = clockPc[u]
      BY <1>0, <1>1, <1>4, Zenon DEF Clock!TypeOK, Clock!ReadDue
    <2>2. reads' \in [Thread -> 0..ReadsPerRefresh - 1]
      BY <1>0, <1>4, ClockAssumption DEF Clock!TypeOK, Clock!ReadDue
    <2>3. Clock!TypeOK'
      BY <1>0, <1>4, <2>2 DEF Clock!TypeOK, Clock!ReadDue, Clock!Times, Clock!Running
    <2>4. Clock!TargetsPassed'
      BY <1>1, <1>4, <2>1, TickTargets, Zenon DEF Clock!ReadDue
    <2>5. Clock!SpansClaimedOnce'
      BY <1>1, <1>4, <2>1, <2>3, ClockIdleStep DEF Clock!ReadDue
    <2> QED
      BY <2>3, <2>4, <2>5 DEF Clock!IInv
  <1> QED
    BY <1>2, <1>3, <1>4

\* A tick claims the span from what was applied to its target, all of which has
\* passed: it owns what the claimed time grows by.
LEMMA ClockClaimStep ==
    ASSUME Clock!IInv, NEW t \in Clock!Running, Clock!Claim(t)
    PROVE  Clock!IInv'
  <1>0. Clock!TypeOK
    BY Zenon DEF Clock!IInv
  <1>1. /\ clockPc[t] = "cas" /\ clockPc'[t] = "advance"
        /\ claim'[t] = target[t] - claim[t] /\ appliedNs' = target[t] /\ appliedNs = claim[t]
        /\ \A u \in Clock!Running \ {t} : clockPc'[u] = clockPc[u] /\ claim'[u] = claim[u]
    BY <1>0, Zenon DEF Clock!TypeOK, Clock!Claim
  <1>2. /\ claim[t] \in Nat /\ target[t] \in Nat /\ claim[t] < target[t]
        /\ target[t] =< real /\ real \in Nat /\ real =< ClockTime /\ ClockTime \in Nat
    <2>1. claim[t] \in Clock!Times /\ target[t] \in Clock!Times /\ real \in Clock!Times
      BY <1>0, Zenon DEF Clock!TypeOK
    <2>2. claim[t] < target[t] /\ target[t] =< real
      BY <1>1, Zenon DEF Clock!IInv, Clock!TargetsPassed
    <2>3. ClockTime \in Nat
      BY ClockAssumption, Zenon
    <2> QED
      BY <2>1, <2>2, <2>3 DEF Clock!Times
  <1>3. target[t] - claim[t] \in Clock!Times /\ target[t] \in Clock!Times
    <2> DEFINE span == target[t] - claim[t]
    <2>1. span \in Nat /\ span =< ClockTime /\ target[t] =< ClockTime
      BY <1>2
    <2> HIDE DEF span
    <2>2. span \in Clock!Times /\ target[t] \in Clock!Times
      BY <1>2, <2>1 DEF Clock!Times
    <2> QED
      BY <2>2, Zenon DEF span
  <1>4. Clock!TypeOK'
    BY <1>0, <1>3, Zenon DEF Clock!TypeOK, Clock!Claim, Clock!Times, Clock!Running
  <1>5. Clock!TargetsPassed'
    BY <1>1, Zenon DEF Clock!IInv, Clock!TargetsPassed, Clock!Claim, Clock!Running
  <1>6. Clock!Owned[t] = 0 /\ Clock!Owned'[t] = target[t] - claim[t]
    BY <1>1, Zenon DEF Clock!Owned, Clock!Running
  <1>7. offset' = offset /\ offset \in Nat
    BY <1>0, ClockAssumption DEF Clock!TypeOK, Clock!Times, Clock!Claim
  <1>8. (offset' - offset) + (Clock!Owned'[t] - Clock!Owned[t]) = appliedNs' - appliedNs
    BY <1>1, <1>2, <1>6, <1>7
  <1>9. appliedNs' =< real'
    BY <1>1, <1>2, Zenon DEF Clock!Claim
  <1>10. Clock!SpansClaimedOnce'
    BY <1>1, <1>4, <1>8, <1>9, AccountKept
  <1> QED
    BY <1>4, <1>5, <1>10, Zenon DEF Clock!IInv

\* A tick applies the span it owns: the offset grows by it, within what was claimed.
LEMMA ClockAdvanceStep ==
    ASSUME Clock!IInv, NEW t \in Clock!Running, Clock!Advance(t)
    PROVE  Clock!IInv'
  <1>0. Clock!TypeOK
    BY Zenon DEF Clock!IInv
  <1>1. /\ clockPc[t] = "advance" /\ clockPc'[t] = Clock!After(t)
        /\ offset' = offset + claim[t] /\ claim'[t] = 0
        /\ \A u \in Clock!Running \ {t} : clockPc'[u] = clockPc[u] /\ claim'[u] = claim[u]
    BY <1>0, Zenon DEF Clock!TypeOK, Clock!Advance
  <1>2. clockPc'[t] \in {"read", "asleep", "idle"}
    BY <1>1, AfterType, Zenon
  <1>3. /\ Clock!Owned[t] = claim[t]
        /\ claim[t] \in Nat /\ offset \in Nat /\ appliedNs \in Nat
        /\ appliedNs =< ClockTime /\ ClockTime \in Nat
    BY <1>0, <1>1, ClockAssumption DEF Clock!TypeOK, Clock!Times, Clock!Owned
  <1>4. offset + claim[t] =< appliedNs
    <2> DEFINE others == [Clock!Owned EXCEPT ![t] = 0]
    <2>1. IsFiniteSet(Clock!Running) /\ Clock!Owned \in [Clock!Running -> Nat]
      BY OwnedType, Zenon DEF Clock!IInv
    <2>2. others \in [Clock!Running -> Nat] /\ others[t] = 0
      BY <2>1, Zenon
    <2>3. \A u \in Clock!Running \ {t} : others[u] = Clock!Owned[u]
      BY <2>1, Zenon
    <2> HIDE DEF others
    <2>4. SumFunction(others) = SumFunction(Clock!Owned) + others[t] - Clock!Owned[t] /\ SumFunction(others) \in Nat
      BY <2>1, <2>2, <2>3, SumUpdate, SumType
    <2>5. SumFunction(Clock!Owned) = Clock!Unapplied /\ Clock!Unapplied \in Nat
      BY SameSums, OwnedType, Zenon DEF Clock!Unapplied, Clock!IInv
    <2>6. offset + Clock!Unapplied = appliedNs
      BY Zenon DEF Clock!IInv, Clock!SpansClaimedOnce
    <2> QED
      BY <1>3, <2>2, <2>4, <2>5, <2>6
  <1>5. offset' \in Clock!Times
    BY <1>1, <1>3, <1>4 DEF Clock!Times
  <1>6. 0 \in Clock!Times
    BY ClockAssumption DEF Clock!Times
  <1>7. Clock!TypeOK'
    BY <1>0, <1>1, <1>2, <1>5, <1>6 DEF Clock!TypeOK, Clock!Advance, Clock!Times, Clock!Running
  <1>8. Clock!TargetsPassed'
    BY <1>1, <1>2, Zenon DEF Clock!IInv, Clock!TargetsPassed, Clock!Advance, Clock!Running
  <1>9. Clock!Owned'[t] = 0
    BY <1>1, <1>2, Zenon DEF Clock!Owned, Clock!Running
  <1>10. appliedNs' = appliedNs /\ real' = real /\ appliedNs =< real
    BY Zenon DEF Clock!Advance, Clock!IInv, Clock!SpansClaimedOnce
  <1>11. (offset' - offset) + (Clock!Owned'[t] - Clock!Owned[t]) = appliedNs' - appliedNs
    <2>1. offset' = offset + claim[t]
      BY <1>1, Zenon
    <2> QED
      BY <1>3, <1>9, <1>10, <2>1
  <1>12. Clock!SpansClaimedOnce'
    BY <1>1, <1>7, <1>10, <1>11, AccountKept, Zenon
  <1> QED
    BY <1>7, <1>8, <1>12 DEF Clock!IInv

\* The other steps of tick and now.
LEMMA ClockOtherStep ==
    ASSUME Clock!IInv, NEW t \in Clock!Running,
           Clock!CheckStale(t) \/ Clock!Load(t) \/ Clock!ClaimLost(t) \/ Clock!ReadOffset(t)
    PROVE  Clock!IInv'
  <1>0. Clock!TypeOK
    BY Zenon DEF Clock!IInv
  <1>1. 0 \in Clock!Times
    BY ClockAssumption DEF Clock!Times
  <1>2. CASE Clock!CheckStale(t)
    <2>1. clockPc[t] = "check" /\ clockPc'[t] \in {"load", "read"} /\ \A u \in Clock!Running \ {t} : clockPc'[u] = clockPc[u]
      BY <1>0, <1>2, Zenon DEF Clock!TypeOK, Clock!CheckStale
    <2>2. Clock!TypeOK'
      BY <1>0, <1>2, Zenon DEF Clock!TypeOK, Clock!CheckStale, Clock!Times, Clock!Running
    <2>3. Clock!TargetsPassed'
      BY <1>2, <2>1, Zenon DEF Clock!IInv, Clock!TargetsPassed, Clock!CheckStale, Clock!Running
    <2>4. Clock!SpansClaimedOnce'
      BY <1>2, <2>1, <2>2, ClockIdleStep DEF Clock!CheckStale
    <2> QED
      BY <2>2, <2>3, <2>4, Zenon DEF Clock!IInv
  <1>3. CASE Clock!Load(t)
    <2>1. /\ clockPc[t] = "load" /\ clockPc'[t] \in {"cas", "read", "asleep", "idle"}
          /\ clockPc'[t] = "cas" => claim'[t] = appliedNs /\ appliedNs < target[t]
          /\ \A u \in Clock!Running \ {t} : clockPc'[u] = clockPc[u] /\ claim'[u] = claim[u]
      <3>1. target[t] > appliedNs <=> appliedNs < target[t]
        BY <1>0, ClockAssumption, Zenon DEF Clock!TypeOK, Clock!Times
      <3> QED
        BY <1>0, <1>3, <3>1, AfterType DEF Clock!TypeOK, Clock!Load
    <2>2. Clock!TypeOK'
      BY <1>0, <1>1, <1>3, <2>1 DEF Clock!TypeOK, Clock!Load, Clock!Times, Clock!Running
    <2>3. Clock!TargetsPassed'
      BY <1>3, <2>1, Zenon DEF Clock!IInv, Clock!TargetsPassed, Clock!Load, Clock!Running
    <2>4. Clock!Owned'[t] = Clock!Owned[t]
      BY <2>1, Zenon DEF Clock!Owned, Clock!Running
    <2>5. Clock!SpansClaimedOnce'
      <3>1. offset' = offset /\ appliedNs' = appliedNs /\ real' = real
        BY <1>3, Zenon DEF Clock!Load
      <3>2. appliedNs =< real
        BY Zenon DEF Clock!IInv, Clock!SpansClaimedOnce
      <3> QED
        BY <2>1, <2>2, <2>4, <3>1, <3>2, AccountUntouched
    <2> QED
      BY <2>2, <2>3, <2>5, Zenon DEF Clock!IInv
  <1>4. CASE Clock!ClaimLost(t)
    <2>1. clockPc[t] = "cas" /\ clockPc'[t] = "load" /\ \A u \in Clock!Running \ {t} : clockPc'[u] = clockPc[u] /\ claim'[u] = claim[u]
      BY <1>0, <1>4, Zenon DEF Clock!TypeOK, Clock!ClaimLost
    <2>2. spurious' \in 0..MaxSpurious
      BY <1>0, <1>4, ClockAssumption DEF Clock!TypeOK, Clock!ClaimLost
    <2>3. Clock!TypeOK'
      BY <1>0, <1>1, <1>4, <2>2 DEF Clock!TypeOK, Clock!ClaimLost, Clock!Times, Clock!Running
    <2>4. Clock!TargetsPassed'
      BY <1>4, <2>1, Zenon DEF Clock!IInv, Clock!TargetsPassed, Clock!ClaimLost, Clock!Running
    <2>5. Clock!SpansClaimedOnce'
      BY <1>4, <2>1, <2>3, ClockIdleStep, Zenon DEF Clock!ClaimLost
    <2> QED
      BY <2>3, <2>4, <2>5, Zenon DEF Clock!IInv
  <1>5. CASE Clock!ReadOffset(t)
    <2>1. clockPc[t] = "read" /\ clockPc'[t] = "idle" /\ \A u \in Clock!Running \ {t} : clockPc'[u] = clockPc[u]
      BY <1>0, <1>5, Zenon DEF Clock!TypeOK, Clock!ReadOffset
    <2>2. Clock!TypeOK'
      BY <1>0, <1>1, <1>5 DEF Clock!TypeOK, Clock!ReadOffset, Clock!Times, Clock!Running
    <2>3. Clock!TargetsPassed'
      BY <1>5, <2>1, TickTargets, Zenon DEF Clock!ReadOffset
    <2>4. Clock!SpansClaimedOnce'
      BY <1>5, <2>1, <2>2, ClockIdleStep DEF Clock!ReadOffset
    <2> QED
      BY <2>2, <2>3, <2>4, Zenon DEF Clock!IInv
  <1> QED
    BY <1>2, <1>3, <1>4, <1>5, Zenon

\* Every step of the clock keeps its invariant.
LEMMA ClockNext == Clock!IInv /\ [Clock!Next]_clockVars => Clock!IInv'
  <1>1. SUFFICES ASSUME Clock!IInv, [Clock!Next]_clockVars PROVE Clock!IInv'
    BY Zenon
  <1>2. ASSUME NEW t \in Clock!Running, Clock!Step(t) PROVE Clock!IInv'
    BY <1>1, <1>2, ClockClaimStep, ClockAdvanceStep, ClockOtherStep DEF Clock!Step
  <1>3. CASE UNCHANGED clockVars
    <2>1. Clock!Unapplied' = Clock!Unapplied
      BY <1>3, Zenon DEF Clock!Unapplied, Clock!Owned, clockVars, Clock!Running
    <2> QED
      <3>1. Clock!TypeOK'
        BY <1>1, <1>3, Zenon DEF Clock!IInv, Clock!TypeOK, clockVars, Clock!Times, Clock!Running
      <3>2. Clock!TargetsPassed'
        BY <1>1, <1>3, Zenon DEF Clock!IInv, Clock!TargetsPassed, clockVars, Clock!Running
      <3>3. Clock!SpansClaimedOnce'
        BY <1>1, <1>3, <2>1, Zenon DEF Clock!IInv, Clock!SpansClaimedOnce, clockVars
      <3> QED
        BY <3>1, <3>2, <3>3, Zenon DEF Clock!IInv
  <1> QED
    BY <1>1, <1>2, <1>3, ClockTimeStep, ClockCallStep DEF Clock!Next

-----------------------------------------------------------------------------
\* The parts together.

\* The invariants of the three parts.
PartsIInv == Clock!IInv /\ Warn!IInv /\ Stamp!IInv

\* A step is a step of each part or leaves it as it is.
LEMMA PartsStep ==
    [Next]_vars => [Clock!Next]_clockVars /\ [Warn!Next]_warnVars /\ [Stamp!Next]_stampVars
  BY Zenon DEF Next, vars, ClockStep, WarnStep, StampStep, SweepStep

\* The inductive invariants of the coarse clock, of a warning and of the idle
\* stamp hold in every state, for any number of threads.
THEOREM Invariance == Spec => []PartsIInv
  <1>1. Init => PartsIInv
    BY ClockInit, WarnInit, StampInit, Zenon DEF Init, PartsIInv
  <1>2. PartsIInv /\ [Next]_vars => PartsIInv'
    BY PartsStep, ClockNext, WarnNext, StampNext DEF PartsIInv
  <1> QED
    BY <1>1, <1>2, PTL DEF Spec

\* However ticks of the coarse clock interleave, what is applied and what is
\* claimed and not yet applied make up what was claimed, and that has passed
\* (CoarseClock::advance_to).
THEOREM NoSpanTwice == Spec => []SpansClaimedOnce
  <1>1. PartsIInv => SpansClaimedOnce
    BY Zenon DEF PartsIInv, Clock!IInv, SpansClaimedOnce
  <1> QED
    BY <1>1, Invariance, PTL

\* No event is reported by two warnings, in whatever order the calls arrive
\* (WarnEvery::note).
THEOREM NoEventTwice == Spec => []ReportedOnce
  <1>1. PartsIInv => ReportedOnce
    BY WarnReports, Zenon DEF PartsIInv, ReportedOnce
  <1> QED
    BY <1>1, Invariance, PTL

\* Two warnings of one kind are an interval apart, by the readings of the calls
\* that issue them (WarnEvery::note).
THEOREM WarningsSpaced == Spec => Spaced
  <1>1. PartsIInv /\ [Next]_vars
            => [ lastMs # Warn!Never => lastMs' = lastMs \/ lastMs' - lastMs >= Interval ]_lastMs
    BY PartsStep, WarnSpacing, Zenon DEF PartsIInv
  <1> QED
    BY <1>1, Invariance, PTL DEF Spec, Spaced, Warn!Spaced

\* A slot that a holder of the write lock finds expired was idle for the TTL,
\* less the time of the slowest check (touch_idle, Store::new).
THEOREM ExpiredWasIdle == Spec => []IdleForTtl
  <1>1. PartsIInv => IdleForTtl
    BY StampIdle, Zenon DEF PartsIInv, IdleForTtl
  <1> QED
    BY <1>1, Invariance, PTL
=============================================================================
