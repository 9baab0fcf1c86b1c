----------------------------- MODULE WaitProofs -----------------------------
(***************************************************************************)
(* Proofs about the wait loop of src/async_limiter.rs, for any number of   *)
(* tasks, any limit, any requests, budgets and jitter: a bounded call      *)
(* never sleeps past its deadline, and a task that nobody got ahead of is  *)
(* admitted when it wakes.                                                 *)
(***************************************************************************)
EXTENDS Wait, Lemmas

\* The time the provers have for a leaf, in seconds.
USE SMTT(30), ZenonT(30)

-----------------------------------------------------------------------------
\* The minimum that clips a sleep is one of its two arguments and exceeds neither.
LEMMA MinOfTwo ==
    ASSUME NEW a \in Nat, NEW b \in Nat
    PROVE  /\ Min({a, b}) \in {a, b}
           /\ Min({a, b}) =< a
           /\ Min({a, b}) =< b
  <1>1. \E x \in {a, b} : \A y \in {a, b} : x =< y
    <2>1. CASE a =< b
      BY <2>1
    <2>2. CASE b =< a
      BY <2>2
    <2>3. QED
      BY <2>1, <2>2
  <1>2. QED
    BY <1>1 DEF Min

-----------------------------------------------------------------------------
\* What Less does to a delay: it counts down to zero and no further, and leaves
\* the markers for "none" alone.
LEMMA LessType ==
    ASSUME NEW d \in Nat \cup {-1}
    PROVE  /\ Less(d) \in Nat \cup {-1}
           /\ Less(d) = -1 <=> d = -1
           /\ d \in Nat => Less(d) \in Nat
           /\ Less(d) =< d
    BY DEF Less

\* Two delays that count down together keep their order.
LEMMA LessMonotone ==
    ASSUME NEW c \in Nat, NEW d \in Nat, c =< d
    PROVE  Less(c) =< Less(d)
    BY DEF Less

\* The constants and what they make of a request.
LEMMA FullType ==
    /\ Full \in Nat
    /\ Interval \in Nat
    /\ \A n \in Requests \cup {0} : n \in Nat /\ n * Interval \in Nat
    BY WaitAssumption DEF Full

\* The locals of a task that its call is over with.
LEMMA ReturnTypes ==
    ASSUME TypeOK, NEW w \in Waiter, Return(w)
    PROVE  /\ pc' \in [Waiter -> {"idle", "check", "decide", "sleep"}]
           /\ units' \in [Waiter -> Requests \cup {0}]
           /\ left' \in [Waiter -> Nat \cup {Unbounded}]
           /\ retry' \in [Waiter -> Nat]
           /\ sleep' \in [Waiter -> Nat]
           /\ pc'[w] = "idle"
           /\ \A v \in Waiter \ {w} : /\ pc'[v] = pc[v]
                                      /\ units'[v] = units[v]
                                      /\ left'[v] = left[v]
                                      /\ retry'[v] = retry[v]
                                      /\ sleep'[v] = sleep[v]
    BY DEF TypeOK, Return, Unbounded

\* A call that returns, its promise withdrawn, leaves the invariant of the others alone.
LEMMA ReturnIInv ==
    ASSUME IInv, NEW w \in Waiter, Return(w),
           due' = [due EXCEPT ![w] = Disturbed],
           UNCHANGED <<debt, jitter, traffic>>
    PROVE  IInv'
  <1>1. TypeOK'
    BY ReturnTypes DEF IInv, TypeOK, Disturbed
  <1>2. due'[w] = Disturbed /\ \A v \in Waiter \ {w} : due'[v] = due[v]
    BY DEF IInv, TypeOK
  <1>3. BudgetKept'
    BY ReturnTypes DEF IInv, BudgetKept
  <1>4. PromiseStands'
    BY ReturnTypes, <1>2 DEF IInv, PromiseStands, Full
  <1>5. WaitCoversPromise'
    BY ReturnTypes, <1>2 DEF IInv, WaitCoversPromise
  <1>6. QED
    BY <1>1, <1>3, <1>4, <1>5 DEF IInv

\* The admission of n units keeps the debt within the burst and withdraws every promise.
LEMMA ChargeType ==
    ASSUME TypeOK, NEW n \in Requests \cup {0}, Fits(n), Charge(n)
    PROVE  /\ debt' \in 0..Full'
           /\ due' \in [Waiter -> Nat \cup {Disturbed}]
           /\ \A v \in Waiter : due'[v] = Disturbed
  <1>1. n * Interval \in Nat /\ Full \in Nat
    BY FullType
  <1>2. debt + n * Interval \in 0..Full
    BY <1>1 DEF TypeOK, Fits
  <1>3. QED
    BY <1>2 DEF Charge, Full

\* Time passes: every delay counts down, and a promise is due no later than before.
LEMMA TickIInv == ASSUME IInv, Tick PROVE IInv'
  <1>1. TypeOK'
    <2>1. debt' \in 0..Full'
      BY FullType DEF IInv, TypeOK, Tick, Less, Full
    <2>2. left' \in [Waiter -> Nat \cup {Unbounded}] /\ due' \in [Waiter -> Nat \cup {Disturbed}]
      BY LessType DEF IInv, TypeOK, Tick, CountDown, Unbounded, Disturbed
    <2>3. sleep' \in [Waiter -> Nat]
      BY LessType DEF IInv, TypeOK, Tick, CountDown
    <2>4. QED
      BY <2>1, <2>2, <2>3 DEF IInv, TypeOK, Tick
  <1>2. \A w \in Waiter : /\ left'[w] = Less(left[w])
                          /\ sleep'[w] = Less(sleep[w])
                          /\ due'[w] = Less(due[w])
                          /\ left[w] \in Nat \cup {-1}
                          /\ sleep[w] \in Nat
                          /\ due[w] \in Nat \cup {-1}
                          /\ retry[w] \in Nat
    BY DEF IInv, TypeOK, Tick, CountDown, Unbounded, Disturbed
  <1>3. BudgetKept'
    <2>1. SUFFICES ASSUME NEW w \in Waiter, pc'[w] = "sleep", left'[w] # Unbounded
                   PROVE  sleep'[w] =< left'[w]
      BY DEF BudgetKept
    <2>2. left[w] \in Nat /\ pc[w] = "sleep"
      BY <1>2, <2>1, LessType DEF Unbounded, Tick
    <2>3. sleep[w] =< left[w]
      BY <2>2 DEF IInv, BudgetKept, Unbounded
    <2>4. QED
      BY <1>2, <2>2, <2>3, LessMonotone
  <1>4. ASSUME NEW w \in Waiter, due'[w] # Disturbed
        PROVE  due[w] # Disturbed /\ due[w] \in Nat /\ due'[w] \in Nat
    BY <1>2, <1>4, LessType DEF Disturbed
  <1>5. PromiseStands'
    <2>1. SUFFICES ASSUME NEW w \in Waiter, due'[w] # Disturbed
                   PROVE  /\ units'[w] * Interval =< Full'
                          /\ debt' + units'[w] * Interval - Full' =< due'[w]
      BY DEF PromiseStands
    <2>2. units[w] * Interval =< Full /\ debt + units[w] * Interval - Full =< due[w]
      BY <1>4, <2>1 DEF IInv, PromiseStands
    <2>3. units'[w] = units[w] /\ Full' = Full
      BY DEF Tick, Full
    <2>4. units[w] * Interval \in Nat /\ Full \in Nat /\ debt \in Nat
      BY FullType DEF IInv, TypeOK
    <2>5. debt' = Less(debt) /\ due'[w] = Less(due[w]) /\ due[w] \in Nat
      BY <1>2, <1>4, <2>1 DEF Tick
    <2>6. \A p, f \in Nat : p =< f /\ debt + p - f =< due[w] => Less(debt) + p - f =< Less(due[w])
      BY <2>4, <2>5 DEF Less
    <2>7. QED
      BY <2>2, <2>3, <2>4, <2>5, <2>6
  <1>6. WaitCoversPromise'
    <2>1. SUFFICES ASSUME NEW w \in Waiter, due'[w] # Disturbed
                   PROVE  /\ pc'[w] # "idle"
                          /\ pc'[w] = "check" => due'[w] = 0
                          /\ pc'[w] = "decide" => due'[w] =< retry'[w]
                          /\ pc'[w] = "sleep" => due'[w] =< sleep'[w]
      BY DEF WaitCoversPromise
    <2>2. /\ pc[w] # "idle"
          /\ pc[w] = "check" => due[w] = 0
          /\ pc[w] = "decide" => due[w] =< retry[w]
          /\ pc[w] = "sleep" => due[w] =< sleep[w]
      BY <1>4, <2>1 DEF IInv, WaitCoversPromise
    <2>3. pc'[w] = pc[w] /\ retry'[w] = retry[w] /\ due[w] \in Nat
      BY <1>4, <2>1 DEF Tick
    <2>4. Less(due[w]) =< due[w] /\ (due[w] = 0 => Less(due[w]) = 0)
      BY <2>3 DEF Less
    <2>5. pc[w] = "sleep" => Less(due[w]) =< Less(sleep[w])
      BY <1>2, <2>2, <2>3, LessMonotone
    <2>6. QED
      BY <1>2, <2>2, <2>3, <2>4, <2>5 DEF Less
  <1>7. QED
    BY <1>1, <1>3, <1>5, <1>6 DEF IInv

\* A caller that does not wait, and an admitted task, withdraw what others were told.
LEMMA PassIInv == ASSUME IInv, NEW n \in Requests, Pass(n) PROVE IInv'
  <1>1. TypeOK'
    BY ChargeType DEF IInv, TypeOK, Pass
  <1>2. \A v \in Waiter : due'[v] = Disturbed
    BY ChargeType DEF IInv, Pass
  <1>3. BudgetKept' /\ PromiseStands' /\ WaitCoversPromise'
    BY <1>2 DEF IInv, Pass, BudgetKept, PromiseStands, WaitCoversPromise
  <1>4. QED
    BY <1>1, <1>3 DEF IInv

\* A waiter that is admitted.
LEMMA AdmitIInv == ASSUME IInv, NEW w \in Waiter, Admit(w) PROVE IInv'
  <1>1. units[w] \in Requests \cup {0}
    BY DEF IInv, TypeOK
  <1>2. \A v \in Waiter : due'[v] = Disturbed
    BY <1>1, ChargeType DEF IInv, Admit
  <1>3. TypeOK'
    BY <1>1, ChargeType, ReturnTypes DEF IInv, TypeOK, Admit
  <1>4. BudgetKept' /\ PromiseStands' /\ WaitCoversPromise'
    BY <1>2, ReturnTypes DEF IInv, Admit, BudgetKept, PromiseStands, WaitCoversPromise
  <1>5. QED
    BY <1>3, <1>4 DEF IInv

\* A call begins with no promise: the task was told nothing yet.
LEMMA CallIInv ==
    ASSUME IInv, NEW w \in Waiter, NEW n \in Requests, NEW budget \in Nat \cup {Unbounded},
           Call(w, n, budget)
    PROVE  IInv'
  <1>1. TypeOK'
    BY DEF IInv, TypeOK, Call, Full
  <1>2. due[w] = Disturbed
    BY DEF IInv, WaitCoversPromise, Call
  <1>3. \A v \in Waiter \ {w} : pc'[v] = pc[v] /\ units'[v] = units[v] /\ left'[v] = left[v]
    BY DEF IInv, TypeOK, Call
  <1>4. pc'[w] = "check"
    BY DEF IInv, TypeOK, Call
  <1>5. BudgetKept'
    BY <1>3, <1>4 DEF IInv, BudgetKept, Call
  <1>6. PromiseStands' /\ WaitCoversPromise'
    BY <1>2, <1>3 DEF IInv, PromiseStands, WaitCoversPromise, Call, Full
  <1>7. QED
    BY <1>1, <1>5, <1>6 DEF IInv

\* A denial promises what the debt makes of the request, which is possible.
LEMMA DenyIInv == ASSUME IInv, NEW w \in Waiter, Deny(w) PROVE IInv'
  <1> DEFINE wait == debt + units[w] * Interval - Full
  <1>1. units[w] \in Nat /\ units[w] * Interval \in Nat /\ Full \in Nat /\ debt \in Nat
    BY FullType DEF IInv, TypeOK
  <1>2. wait \in Nat
    BY <1>1 DEF Deny, Fits
  <1>3. units[w] * Interval =< Full
    BY <1>1, ProductMonotone, WaitAssumption DEF Deny, Full
  <1>4. TypeOK'
    BY <1>2 DEF IInv, TypeOK, Deny, Full
  <1>5. pc'[w] = "decide" /\ retry'[w] = wait /\ due'[w] = wait
    BY DEF IInv, TypeOK, Deny
  <1>6. \A v \in Waiter \ {w} : pc'[v] = pc[v] /\ retry'[v] = retry[v] /\ due'[v] = due[v]
    BY DEF IInv, TypeOK, Deny
  <1>7. BudgetKept'
    BY <1>5, <1>6 DEF IInv, BudgetKept, Deny
  <1>8. PromiseStands'
    <2>1. UNCHANGED <<debt, units, Full>>
      BY DEF Deny, Full
    <2>2. wait =< wait
      BY <1>2
    <2>3. QED
      BY <1>3, <1>5, <1>6, <2>1, <2>2 DEF IInv, PromiseStands
  <1>9. WaitCoversPromise'
    <2>1. wait =< wait /\ sleep' = sleep
      BY <1>2 DEF Deny
    <2>2. QED
      BY <1>5, <1>6, <2>1 DEF IInv, WaitCoversPromise
  <1>10. QED
    BY <1>4, <1>7, <1>8, <1>9 DEF IInv

\* The sleep: at least the reported wait, and within the deadline of a bounded call.
LEMMA SleepForBounds ==
    ASSUME TypeOK, NEW w \in Waiter, NEW j \in Jitters, ~TooLate(w)
    PROVE  /\ SleepFor(w, j) \in Nat
           /\ retry[w] =< SleepFor(w, j)
           /\ left[w] # Unbounded => SleepFor(w, j) =< left[w]
  <1>1. j \in Nat /\ retry[w] \in Nat /\ retry[w] + j \in Nat
    BY DEF TypeOK, Jitters
  <1>2. CASE left[w] = Unbounded
    BY <1>1, <1>2 DEF SleepFor
  <1>3. CASE left[w] # Unbounded
    <2>1. left[w] \in Nat /\ retry[w] =< left[w]
      BY <1>1, <1>3 DEF TypeOK, TooLate
    <2>2. SleepFor(w, j) = Min({retry[w] + j, left[w]})
      BY <1>3 DEF SleepFor
    <2>3. QED
      BY <1>1, <2>1, <2>2, MinOfTwo
  <1>4. QED
    BY <1>2, <1>3

\* A waiter that is denied and sleeps for the wait it was told, and a jitter.
LEMMA SleepIInv == ASSUME IInv, NEW w \in Waiter, NEW j \in Jitters, Sleep(w, j) PROVE IInv'
  <1>1. /\ SleepFor(w, j) \in Nat
        /\ retry[w] =< SleepFor(w, j)
        /\ left[w] # Unbounded => SleepFor(w, j) =< left[w]
    BY SleepForBounds DEF IInv, Sleep
  <1>2. TypeOK'
    BY <1>1 DEF IInv, TypeOK, Sleep, Full
  <1>3. pc'[w] = "sleep" /\ sleep'[w] = SleepFor(w, j)
    BY DEF IInv, TypeOK, Sleep
  <1>4. \A v \in Waiter \ {w} : pc'[v] = pc[v] /\ sleep'[v] = sleep[v]
    BY DEF IInv, TypeOK, Sleep
  <1>5. BudgetKept'
    BY <1>1, <1>3, <1>4 DEF IInv, BudgetKept, Sleep
  <1>6. PromiseStands'
    BY DEF IInv, PromiseStands, Sleep, Full
  <1>7. WaitCoversPromise'
    <2>1. due[w] # Disturbed => due[w] \in Nat /\ due[w] =< retry[w] /\ retry[w] \in Nat
      BY DEF IInv, TypeOK, WaitCoversPromise, Sleep
    <2>2. due[w] # Disturbed => due[w] =< SleepFor(w, j)
      BY <1>1, <2>1
    <2>3. QED
      BY <1>3, <1>4, <2>2 DEF IInv, WaitCoversPromise, Sleep
  <1>8. QED
    BY <1>2, <1>5, <1>6, <1>7 DEF IInv

\* A waiter whose timer fires.
LEMMA WakeIInv == ASSUME IInv, NEW w \in Waiter, Wake(w) PROVE IInv'
  <1>1. TypeOK'
    BY DEF IInv, TypeOK, Wake, Full
  <1>2. pc'[w] = "check" /\ \A v \in Waiter \ {w} : pc'[v] = pc[v]
    BY DEF IInv, TypeOK, Wake
  <1>3. due[w] # Disturbed => due[w] = 0
    BY DEF IInv, TypeOK, WaitCoversPromise, Wake, Disturbed
  <1>4. BudgetKept' /\ PromiseStands'
    BY <1>2 DEF IInv, BudgetKept, PromiseStands, Wake, Full
  <1>5. WaitCoversPromise'
    BY <1>2, <1>3 DEF IInv, WaitCoversPromise, Wake
  <1>6. QED
    BY <1>1, <1>4, <1>5 DEF IInv

-----------------------------------------------------------------------------
\* Before any waiter has called.
LEMMA InitIInv == Init => IInv
  <1>1. SUFFICES ASSUME Init PROVE IInv
    OBVIOUS
  <1>2. TypeOK
    BY <1>1, FullType, WaitAssumption DEF Init, TypeOK, Unbounded, Disturbed
  <1>3. BudgetKept /\ PromiseStands /\ WaitCoversPromise
    BY <1>1 DEF Init, BudgetKept, PromiseStands, WaitCoversPromise
  <1>4. QED
    BY <1>2, <1>3 DEF IInv

\* Every step.
LEMMA NextIInv == IInv /\ [Next]_vars => IInv'
  <1>1. SUFFICES ASSUME IInv, [Next]_vars PROVE IInv'
    OBVIOUS
  <1>2. CASE Tick
    BY <1>1, <1>2, TickIInv
  <1>3. CASE Quiet
    BY <1>1, <1>3, Zenon DEF IInv, TypeOK, BudgetKept, PromiseStands, WaitCoversPromise, Quiet, Full
  <1>4. CASE \E n \in Requests : Pass(n)
    BY <1>1, <1>4, PassIInv
  <1>5. CASE \E max \in 0..MaxJitter : WithJitter(max)
    BY <1>1, <1>5 DEF IInv, TypeOK, BudgetKept, PromiseStands, WaitCoversPromise, WithJitter, Full
  <1>6. ASSUME NEW w \in Waiter, NEW n \in Requests,
               TryUntilReadyN(w, n) \/ UntilReadyN(w, n) \/ DirectTryUntilReadyN(w, n)
        PROVE  IInv'
    BY <1>1, <1>6, CallIInv, Zenon DEF TryUntilReadyN, UntilReadyN, DirectTryUntilReadyN
  <1>7. ASSUME NEW w \in Waiter, NEW n \in Requests, NEW maxWait \in Budgets,
               UntilReadyNWithin(w, n, maxWait) \/ DirectUntilReadyNWithin(w, n, maxWait)
        PROVE  IInv'
    BY <1>1, <1>7, CallIInv, WaitAssumption DEF UntilReadyNWithin, DirectUntilReadyNWithin
  <1>8. ASSUME NEW w \in Waiter, Step(w) PROVE IInv'
    <2>1. CASE Impossible(w)
      BY <1>1, <2>1, ReturnIInv, Zenon DEF Impossible
    <2>2. CASE GiveUp(w)
      BY <1>1, <2>2, ReturnIInv, Zenon DEF GiveUp
    <2>3. QED
      BY <1>1, <1>8, <2>1, <2>2, AdmitIInv, DenyIInv, SleepIInv, WakeIInv DEF Step
  <1>9. ASSUME NEW w \in Waiter, Cancel(w) PROVE IInv'
    BY <1>1, <1>9, ReturnIInv, Zenon DEF Cancel
  <1>10. CASE UNCHANGED vars
    BY <1>1, <1>10 DEF IInv, TypeOK, BudgetKept, PromiseStands, WaitCoversPromise, vars, Full
  <1>11. QED
    BY <1>1, <1>2, <1>3, <1>4, <1>5, <1>6, <1>7, <1>8, <1>9, <1>10 DEF Next

\* The invariant of the wait loop, of any number of tasks.
THEOREM Invariance == Spec => []IInv
    BY InitIInv, NextIInv, PTL DEF Spec

\* A bounded call never sleeps past its deadline: whatever jitter is drawn, the
\* sleep that wait starts ends within the time that is left.
THEOREM NeverSleepsPastDeadline == Spec => []BudgetKept
  <1>1. IInv => BudgetKept
    BY DEF IInv
  <1>2. QED
    BY <1>1, Invariance, PTL

\* The check that follows a sleep admits the task, unless another caller was
\* admitted since its denial: retry_after is long enough, the jitter only adds to
\* it, and the clip to the deadline does not cut into it.
THEOREM WakesToBeAdmitted == Spec => []SleepsOnceUndisturbed
  <1>1. IInv => SleepsOnceUndisturbed
    <2>1. SUFFICES ASSUME IInv, NEW w \in Waiter, pc[w] = "check", due[w] # Disturbed
                   PROVE  Fits(units[w])
      BY DEF SleepsOnceUndisturbed
    <2>2. debt + units[w] * Interval - Full =< 0
      BY <2>1 DEF IInv, PromiseStands, WaitCoversPromise
    <2>3. units[w] * Interval \in Nat /\ Full \in Nat /\ debt \in Nat
      BY <2>1, FullType DEF IInv, TypeOK
    <2>4. QED
      BY <2>2, <2>3 DEF Fits
  <1>2. QED
    BY <1>1, Invariance, PTL
=============================================================================
