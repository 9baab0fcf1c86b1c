-------------------------------- MODULE Wait --------------------------------
(***************************************************************************)
(* The wait loop of src/async_limiter.rs: check, and on a denial sleep for *)
(* the reported time plus a jitter and check again.  Several tasks wait on *)
(* one key, or on a direct limiter, and other callers check it too without *)
(* waiting.                                                                *)
(*                                                                         *)
(* Times are relative: every delay counts down as Tick passes, so no       *)
(* instant bounds a behaviour.  A check is one step here, judged like the  *)
(* leaky bucket that Gcra models in detail: the key owes `debt' ticks, a   *)
(* unit costs Interval, and a denial reports exactly when the units fit.   *)
(***************************************************************************)
EXTENDS Integers, FiniteSetsExt

CONSTANTS
    Waiter,     \* the tasks that wait
    Limit,      \* the burst of the key
    Interval,   \* the ticks it takes to recover one unit
    Requests,   \* the units a call may ask for
    Budgets,    \* the max_wait of a bounded call
    MaxJitter   \* the greatest jitter a limiter is given

\* The max_wait of a call that waits for as long as it takes.
Unbounded == -1

ASSUME WaitAssumption ==
    /\ {Limit, Interval} \subseteq Nat \ {0}
    /\ MaxJitter \in Nat
    /\ Requests \subseteq Nat \ {0}
    /\ Budgets \subseteq Nat

VARIABLES
    debt,       \* the ticks until the key has its whole allowance
    jitter,     \* the limiter's jitter
    traffic,    \* whether callers that do not wait still come
    pc,         \* where each task is in wait
    units,      \* the units it asks for
    left,       \* the time to its deadline
    retry,      \* the retry_after of its last denial
    sleep,      \* the rest of its sleep
    due         \* the time until that denial's units fit, or Disturbed (the model's own)

vars == <<debt, jitter, traffic, pc, units, left, retry, sleep, due>>

\* Another caller was admitted since the denial.
Disturbed == -1

Full == Limit * Interval

TypeOK ==
    /\ debt \in 0..Full
    /\ jitter \in 0..MaxJitter
    /\ traffic \in BOOLEAN
    /\ pc \in [Waiter -> {"idle", "check", "decide", "sleep"}]
    /\ units \in [Waiter -> Requests \cup {0}]
    /\ left \in [Waiter -> Nat \cup {Unbounded}]
    /\ retry \in [Waiter -> Nat]
    /\ sleep \in [Waiter -> Nat]
    /\ due \in [Waiter -> Nat \cup {Disturbed}]

Init ==
    /\ debt = 0
    /\ jitter = 0
    /\ traffic = TRUE
    /\ pc = [w \in Waiter |-> "idle"]
    /\ units = [w \in Waiter |-> 0]
    /\ left = [w \in Waiter |-> Unbounded]
    /\ retry = [w \in Waiter |-> 0]
    /\ sleep = [w \in Waiter |-> 0]
    /\ due = [w \in Waiter |-> Disturbed]

Less(d) == IF d > 0 THEN d - 1 ELSE d

CountDown(f) == [w \in Waiter |-> Less(f[w])]

\* Time passes for everyone at once, also between a check and what follows it.
Tick ==
    /\ debt' = Less(debt)
    /\ left' = CountDown(left)
    /\ sleep' = CountDown(sleep)
    /\ due' = CountDown(due)
    /\ UNCHANGED <<jitter, traffic, pc, units, retry>>

Fits(n) == debt + n * Interval =< Full

\* n units are admitted, and what other tasks were told no longer holds.
Charge(n) ==
    /\ debt' = debt + n * Interval
    /\ due' = [v \in Waiter |-> Disturbed]

\* A caller that does not wait is admitted.
Pass(n) ==
    /\ traffic
    /\ Fits(n)
    /\ Charge(n)
    /\ UNCHANGED <<jitter, traffic, pc, units, left, retry, sleep>>

\* No such caller comes any more.
Quiet ==
    /\ traffic
    /\ traffic' = FALSE
    /\ UNCHANGED <<debt, jitter, pc, units, left, retry, sleep, due>>

\* with_jitter consumes the limiter, so no call of it is under way.
WithJitter(max) ==
    /\ \A w \in Waiter : pc[w] = "idle"
    /\ jitter' = max
    /\ UNCHANGED <<debt, traffic, pc, units, left, retry, sleep, due>>

\* wait is entered: the deadline is fixed at the start.
Call(w, n, budget) ==
    /\ pc[w] = "idle"
    /\ pc' = [pc EXCEPT ![w] = "check"]
    /\ units' = [units EXCEPT ![w] = n]
    /\ left' = [left EXCEPT ![w] = budget]
    /\ UNCHANGED <<debt, jitter, traffic, retry, sleep, due>>

\* Waits for as long as it takes; an impossible request is an error at once.
TryUntilReadyN(w, n) == Call(w, n, Unbounded)

UntilReadyNWithin(w, n, maxWait) == Call(w, n, maxWait)

\* Deprecated: the outcome is dropped, so that an error looks like an admission.
UntilReadyN(w, n) == TryUntilReadyN(w, n)

\* The same two waits of a direct limiter.
DirectTryUntilReadyN(w, n) == Call(w, n, Unbounded)

DirectUntilReadyNWithin(w, n, maxWait) == Call(w, n, maxWait)

\* The call is over, and its locals are gone.
Return(w) ==
    /\ pc' = [pc EXCEPT ![w] = "idle"]
    /\ units' = [units EXCEPT ![w] = 0]
    /\ left' = [left EXCEPT ![w] = Unbounded]
    /\ retry' = [retry EXCEPT ![w] = 0]
    /\ sleep' = [sleep EXCEPT ![w] = 0]

Admit(w) ==
    /\ pc[w] = "check"
    /\ Fits(units[w])
    /\ Charge(units[w])
    /\ Return(w)
    /\ UNCHANGED <<jitter, traffic>>

\* A denial that no wait can help ends the call.
Impossible(w) ==
    /\ pc[w] = "check"
    /\ units[w] > Limit
    /\ Return(w)
    /\ due' = [due EXCEPT ![w] = Disturbed]
    /\ UNCHANGED <<debt, jitter, traffic>>

Deny(w) ==
    /\ pc[w] = "check"
    /\ ~Fits(units[w]) /\ units[w] =< Limit
    /\ retry' = [retry EXCEPT ![w] = debt + units[w] * Interval - Full]
    /\ due' = [due EXCEPT ![w] = debt + units[w] * Interval - Full]
    /\ pc' = [pc EXCEPT ![w] = "decide"]
    /\ UNCHANGED <<debt, jitter, traffic, units, left, sleep>>

\* The deadline is not looked at before the sleep: a mutant of TooLate.
TooLateNever(w) == FALSE

\* A bounded call gives up when the reported wait does not fit what is left.
TooLate(w) == left[w] # Unbounded /\ retry[w] > left[w]

GiveUp(w) ==
    /\ pc[w] = "decide"
    /\ TooLate(w)
    /\ Return(w)
    /\ due' = [due EXCEPT ![w] = Disturbed]
    /\ UNCHANGED <<debt, jitter, traffic>>

\* The jitter is added after the clip: a mutant of SleepFor.
SleepForUnclipped(w, j) == retry[w] + j

\* The jitter is taken off the wait: a mutant of SleepFor.
SleepForEarly(w, j) == IF j > retry[w] THEN 0 ELSE retry[w] - j

SleepFor(w, j) ==
    IF left[w] = Unbounded THEN retry[w] + j ELSE Min({retry[w] + j, left[w]})

\* random_jitter: any delay up to the greatest.
Jitters == 0..jitter

Sleep(w, j) ==
    /\ pc[w] = "decide"
    /\ ~TooLate(w)
    /\ sleep' = [sleep EXCEPT ![w] = SleepFor(w, j)]
    /\ pc' = [pc EXCEPT ![w] = "sleep"]
    /\ UNCHANGED <<debt, jitter, traffic, units, left, retry, due>>

\* The timer has fired and the loop checks again.
Wake(w) ==
    /\ pc[w] = "sleep"
    /\ sleep[w] = 0
    /\ pc' = [pc EXCEPT ![w] = "check"]
    /\ UNCHANGED <<debt, jitter, traffic, units, left, retry, sleep, due>>

\* The future is dropped at its only await point.
Cancel(w) ==
    /\ pc[w] = "sleep"
    /\ Return(w)
    /\ due' = [due EXCEPT ![w] = Disturbed]
    /\ UNCHANGED <<debt, jitter, traffic>>

\* What the runtime does for a task without being asked.
Step(w) ==
    \/ Admit(w)
    \/ Impossible(w)
    \/ Deny(w)
    \/ GiveUp(w)
    \/ \E j \in Jitters : Sleep(w, j)
    \/ Wake(w)

Next ==
    \/ Tick
    \/ Quiet
    \/ \E n \in Requests : Pass(n)
    \/ \E max \in 0..MaxJitter : WithJitter(max)
    \/ \E w \in Waiter :
        \/ \E n \in Requests : TryUntilReadyN(w, n) \/ UntilReadyN(w, n) \/ DirectTryUntilReadyN(w, n)
        \/ \E n \in Requests, maxWait \in Budgets :
            UntilReadyNWithin(w, n, maxWait) \/ DirectUntilReadyNWithin(w, n, maxWait)
        \/ Step(w)
        \/ Cancel(w)

Spec == Init /\ [][Next]_vars

\* Time passes, and the runtime polls every task that can go on.
FairSpec == Spec /\ WF_vars(Tick) /\ \A w \in Waiter : WF_vars(Step(w))

-----------------------------------------------------------------------------
\* A bounded call never sleeps past its deadline, whatever the jitter (wait).
BudgetKept ==
    \A w \in Waiter : pc[w] = "sleep" /\ left[w] # Unbounded => sleep[w] =< left[w]

\* A task woken from its sleep is admitted unless another caller was admitted
\* since its denial: neither the jitter nor the clip to the deadline wakes it
\* before the units it was promised fit (wait).
SleepsOnceUndisturbed ==
    \A w \in Waiter : pc[w] = "check" /\ due[w] # Disturbed => Fits(units[w])

\* What a task was told stays true of the key until another caller is admitted:
\* the units it asked for are possible, and fit by the time it was given.
PromiseStands ==
    \A w \in Waiter :
        due[w] # Disturbed =>
            /\ units[w] * Interval =< Full
            /\ debt + units[w] * Interval - Full =< due[w]

\* The wait that is left of a denial, where the task keeps it: in retry_after
\* until it goes to sleep, in the sleep until it wakes, and none after that.
WaitCoversPromise ==
    \A w \in Waiter :
        due[w] # Disturbed =>
            /\ pc[w] # "idle"
            /\ pc[w] = "check" => due[w] = 0
            /\ pc[w] = "decide" => due[w] =< retry[w]
            /\ pc[w] = "sleep" => due[w] =< sleep[w]

\* The inductive invariant of the wait loop.
IInv == TypeOK /\ BudgetKept /\ PromiseStands /\ WaitCoversPromise

\* A bounded call returns, however many callers keep the key exhausted, and an
\* unbounded one if from some time on nobody else checks the key; an impossible
\* request returns too (wait, try_until_ready_n).
WaitReturns ==
    \A w \in Waiter :
        /\ left[w] # Unbounded ~> pc[w] = "idle"
        /\ <>[](~traffic /\ \A v \in Waiter \ {w} : pc[v] = "idle") =>
            [](pc[w] # "idle" => <>(pc[w] = "idle"))
=============================================================================
