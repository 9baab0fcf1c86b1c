----------------------------- MODULE FixedWindow -----------------------------
(***************************************************************************)
(* The fixed-window counter of src/algo/fixed_window.rs: a state word that *)
(* packs a truncated window index with a count, and a second word, latest, *)
(* that keeps the full number of the newest window any thread has opened.  *)
(* Each load, fetch_max, store and compare-and-swap is a step of its own,  *)
(* and a thread may be arbitrarily late with the clock reading it carries. *)
(*                                                                         *)
(* IndexMod stands for the 2^32 of the packed index.  The index turns over *)
(* within the time modelled, which is shorter than a turn: no two of its   *)
(* windows have the same index.                                            *)
(***************************************************************************)
EXTENDS Integers

CONSTANTS
    Thread,         \* the threads that share one key
    Quotas,         \* the quotas a window may be built from
    MinTime,        \* bound: the first instant of the clock
    MaxTime,        \* bound: its last instant
    MaxCost,        \* bound: the most units a call asks for
    MaxResets,      \* bound: how often the key is reset
    MaxSpurious,    \* bound: how often a weak compare-and-swap fails for nothing
    IndexMod        \* how many window numbers the packed index tells apart

ASSUME BoundsAssumption ==
    /\ MinTime \in Nat
    /\ MaxTime \in Nat
    /\ MaxCost \in Nat
    /\ MaxResets \in Nat
    /\ MaxSpurious \in Nat
    /\ IndexMod \in Nat \ {0}

ASSUME IndexAssumption == MaxTime - MinTime < IndexMod

ASSUME QuotasAssumption == Quotas \subseteq [limit : Nat, period : Nat]

Times == MinTime..MaxTime

\* With a period of at least one nanosecond no window number exceeds the time.
Windows == 0..MaxTime

\* No word: the opened_over of a thread that has opened nothing.
None == <<>>

-----------------------------------------------------------------------------
SatSub(a, b) == IF a < b THEN 0 ELSE a - b

Later(a, b) == IF a < b THEN b ELSE a

LowBits(window) == window % IndexMod

Pack(window, count) == [index |-> LowBits(window), count |-> count]

DenyAll(q) == q.limit = 0 \/ q.period = 0

WindowOf(q, ns) == IF q.period = 0 THEN 0 ELSE ns \div q.period

\* The wait to the start of the window, not its end: a mutant of UntilEndOf.
UntilStartOf(q, window, ns) == SatSub(window * q.period, ns)

UntilEndOf(q, window, ns) == SatSub((window + 1) * q.period, ns)

\* `newest` decides alone, whether the word has switched or not: a mutant of CountIn.
CountInByLatest(window, word, newest) ==
    IF newest = window THEN word.count ELSE 0

\* The count already admitted in a window, by a state word and the latest
\* loaded after it.
CountIn(window, word, newest) ==
    IF newest = window /\ word.index = LowBits(window) THEN word.count ELSE 0

\* A late thread judges its own, older window: a mutant of TargetWindow.
OwnWindow(q, ns, newest) == WindowOf(q, ns)

\* A late thread counts against the newer window, never its own.
TargetWindow(q, ns, newest) == Later(WindowOf(q, ns), newest)

\* Requests that no state admits.
Impossible(q, n) == DenyAll(q) \/ n > q.limit

-----------------------------------------------------------------------------
VARIABLES
    quota,      \* what the window was built from
    clock,      \* the time
    state,      \* the packed word
    latest,     \* the newest window opened
    pc,         \* where each thread is in acquire, or in reset
    need,       \* the units it asks for
    now,        \* the clock reading it carries
    current,    \* the state word it loaded
    seen,       \* the latest it loaded
    opened,     \* opened_over: the word over which it opened a window, and that window
    charged,    \* ledger: the units admitted against each window, since the last reset
    excused,    \* ledger: the threads that loaded the state word before the last reset stored its own
    resets,     \* resets so far
    spurious    \* compare-and-swaps that failed for nothing so far

vars == <<quota, clock, state, latest, pc, need, now, current, seen, opened, charged, excused, resets, spurious>>

Words == [index : 0..IndexMod - 1, count : Nat]

TypeOK ==
    /\ quota \in Quotas
    /\ clock \in Times
    /\ state \in Words
    /\ latest \in Windows
    /\ pc \in [Thread -> {"idle", "state", "latest", "raise", "cas", "reset"}]
    /\ need \in [Thread -> 0..MaxCost]
    /\ now \in [Thread -> Times]
    /\ current \in [Thread -> Words]
    /\ seen \in [Thread -> Windows]
    /\ opened \in [Thread -> {None} \union (Words \X Windows)]
    /\ charged \in [Windows -> Nat]
    /\ excused \subseteq Thread
    /\ resets \in 0..MaxResets
    /\ spurious \in 0..MaxSpurious

Target(t) == TargetWindow(quota, now[t], seen[t])

\* The count a thread adds to, with `newest` the latest it has just loaded.
Base(t, newest) ==
    LET window == TargetWindow(quota, now[t], newest)
    IN  IF opened[t] = <<current[t], window>> THEN 0 ELSE CountIn(window, current[t], newest)

NothingCharged == [w \in Windows |-> 0]

Blank == Pack(0, 0)

\* FixedWindow::new, at any time.
Init ==
    /\ quota \in Quotas
    /\ clock \in Times
    /\ state = Pack(WindowOf(quota, clock), 0)
    /\ latest = WindowOf(quota, clock)
    /\ pc = [t \in Thread |-> "idle"]
    /\ need = [t \in Thread |-> 0]
    /\ now = [t \in Thread |-> MinTime]
    /\ current = [t \in Thread |-> Blank]
    /\ seen = [t \in Thread |-> 0]
    /\ opened = [t \in Thread |-> None]
    /\ charged = NothingCharged
    /\ excused = {}
    /\ resets = 0
    /\ spurious = 0

Tick ==
    /\ clock < MaxTime
    /\ clock' = clock + 1
    /\ UNCHANGED <<quota, state, latest, pc, need, now, current, seen, opened, charged, excused, resets, spurious>>

\* The caller reads the clock and calls acquire.
Call(t, n) ==
    /\ pc[t] = "idle"
    /\ pc' = [pc EXCEPT ![t] = "state"]
    /\ need' = [need EXCEPT ![t] = n]
    /\ now' = [now EXCEPT ![t] = clock]
    /\ UNCHANGED <<quota, clock, state, latest, current, seen, opened, charged, excused, resets, spurious>>

Return(t) ==
    /\ pc' = [pc EXCEPT ![t] = "idle"]
    /\ need' = [need EXCEPT ![t] = 0]
    /\ now' = [now EXCEPT ![t] = MinTime]
    /\ current' = [current EXCEPT ![t] = Blank]
    /\ seen' = [seen EXCEPT ![t] = 0]
    /\ opened' = [opened EXCEPT ![t] = None]

\* Zero units are allowed and more than a window ever admits are denied
\* without looking at the words.
ReturnEarly(t) ==
    /\ pc[t] = "state"
    /\ need[t] = 0 \/ Impossible(quota, need[t])
    /\ Return(t)
    /\ UNCHANGED <<quota, clock, state, latest, charged, excused, resets, spurious>>

LoadState(t) ==
    /\ pc[t] = "state"
    /\ need[t] # 0
    /\ ~Impossible(quota, need[t])
    /\ current' = [current EXCEPT ![t] = state]
    /\ pc' = [pc EXCEPT ![t] = "latest"]
    /\ UNCHANGED <<quota, clock, state, latest, need, now, seen, opened, charged, excused, resets, spurious>>

\* Load latest and judge the request: it is denied here, or goes on to open
\* its window, or to the compare-and-swap at once.
LoadLatestDenied(t) ==
    /\ pc[t] = "latest"
    /\ Base(t, latest) + need[t] > quota.limit
    /\ Return(t)
    /\ excused' = excused \ {t}
    /\ UNCHANGED <<quota, clock, state, latest, charged, resets, spurious>>

LoadLatestFits(t) ==
    /\ pc[t] = "latest"
    /\ Base(t, latest) + need[t] =< quota.limit
    /\ seen' = [seen EXCEPT ![t] = latest]
    /\ pc' = [pc EXCEPT ![t] = IF TargetWindow(quota, now[t], latest) > latest
                               THEN "raise" ELSE "cas"]
    /\ excused' = excused \ {t}
    /\ UNCHANGED <<quota, clock, state, latest, need, now, current, opened, charged, resets, spurious>>

\* Publish the new window before the state word is switched to it.
RaiseLatest(t) ==
    /\ pc[t] = "raise"
    /\ latest' = Later(latest, Target(t))
    /\ opened' = [opened EXCEPT ![t] = <<current[t], Target(t)>>]
    /\ pc' = [pc EXCEPT ![t] = "cas"]
    /\ UNCHANGED <<quota, clock, state, need, now, current, seen, charged, excused, resets, spurious>>

\* What LoadLatestFits judged: opening a window since has not changed it, for
\* the base of a window past `seen` is 0.
Total(t) == Base(t, seen[t]) + need[t]

CasAdmit(t) ==
    /\ pc[t] = "cas"
    /\ state = current[t]
    /\ state' = Pack(Target(t), Total(t))
    /\ charged' = [charged EXCEPT ![Target(t)] = @ + need[t]]
    /\ Return(t)
    /\ UNCHANGED <<quota, clock, latest, excused, resets, spurious>>

\* The loop begins again, and loads both words anew.
Retry(t) ==
    /\ pc' = [pc EXCEPT ![t] = "state"]
    /\ current' = [current EXCEPT ![t] = Blank]
    /\ seen' = [seen EXCEPT ![t] = 0]

\* The loop spins on the word it loaded: a mutant of CasFail.
CasFailSpins(t) ==
    /\ pc[t] = "cas"
    /\ state # current[t]
    /\ UNCHANGED vars

CasFail(t) ==
    /\ pc[t] = "cas"
    /\ state # current[t]
    /\ Retry(t)
    /\ UNCHANGED <<quota, clock, state, latest, need, now, opened, charged, excused, resets, spurious>>

CasFailSpuriously(t) ==
    /\ pc[t] = "cas"
    /\ state = current[t]
    /\ spurious < MaxSpurious
    /\ spurious' = spurious + 1
    /\ Retry(t)
    /\ UNCHANGED <<quota, clock, state, latest, need, now, opened, charged, excused, resets>>

\* reset loads latest, and then stores an empty count for that window.
ResetLoad(t) ==
    /\ pc[t] = "idle"
    /\ resets < MaxResets
    /\ resets' = resets + 1
    /\ seen' = [seen EXCEPT ![t] = latest]
    /\ pc' = [pc EXCEPT ![t] = "reset"]
    /\ UNCHANGED <<quota, clock, state, latest, need, now, current, opened, charged, excused, spurious>>

ResetStore(t) ==
    /\ pc[t] = "reset"
    /\ state' = Pack(seen[t], 0)
    /\ charged' = NothingCharged
    /\ excused' = {u \in Thread : pc[u] = "latest"}
    /\ Return(t)
    /\ UNCHANGED <<quota, clock, latest, resets, spurious>>

\* A step that a thread inside acquire or reset takes by itself.
Step(t) ==
    \/ ReturnEarly(t)
    \/ LoadState(t)
    \/ LoadLatestDenied(t)
    \/ LoadLatestFits(t)
    \/ RaiseLatest(t)
    \/ CasAdmit(t)
    \/ CasFail(t)
    \/ ResetStore(t)

Next ==
    \/ Tick
    \/ \E t \in Thread :
        \/ \E n \in 0..MaxCost : Call(t, n)
        \/ ResetLoad(t)
        \/ Step(t)
        \/ CasFailSpuriously(t)

Spec == Init /\ [][Next]_vars

\* A thread inside acquire or reset keeps running; nobody is obliged to call.
FairSpec == Spec /\ \A t \in Thread : WF_vars(Step(t))

-----------------------------------------------------------------------------
\* No window admits more than the limit, whatever stale windows its callers
\* carry and however opening it races with them (acquire's late threads).
NoOverAdmit == \A w \in Windows : charged[w] =< quota.limit

\* What an acquire that ran alone would decide, and what peek reports.
Denied(n, ns) ==
    CountIn(TargetWindow(quota, ns, latest), state, latest) + n > quota.limit

Used(ns) ==
    LET used == CountIn(TargetWindow(quota, ns, latest), state, latest)
    IN  IF used > quota.limit THEN quota.limit ELSE used

ResetAfter(ns) ==
    IF Used(ns) = 0 THEN 0 ELSE UntilEndOf(quota, TargetWindow(quota, ns, latest), ns)

\* With no other traffic a denied request is admitted after the wait and not before.
RetryExact(ns) ==
    \A n \in 1..MaxCost :
        ~Impossible(quota, n) /\ Denied(n, ns) =>
            LET wait == UntilEndOf(quota, TargetWindow(quota, ns, latest), ns)
            IN  /\ ~Denied(n, ns + wait)
                /\ \A early \in 0..wait - 1 : Denied(n, ns + early)

\* What is reported as remaining is what a check admits, and the whole limit is
\* back when reset_after ends, not before.
SnapshotExact(ns) ==
    /\ \A n \in 1..quota.limit : Denied(n, ns) <=> n > quota.limit - Used(ns)
    /\ Used(ns + ResetAfter(ns)) = 0
    /\ \A early \in 0..ResetAfter(ns) - 1 : Used(ns + early) # 0

\* In every state the threads can leave the two words in, and for a late caller
\* too, the retry_after of a denial is honest and tight, and peek agrees with
\* acquire (acquire, peek, until_end_of).
AnswersExact == ~DenyAll(quota) => \A ns \in Times : RetryExact(ns) /\ SnapshotExact(ns)

\* The window that the state word is of: the newest with its index.
WordWindow == CHOOSE w \in Windows : /\ w =< latest
                                     /\ latest - w < IndexMod
                                     /\ LowBits(w) = state.index

\* The window as the store sees it: the window last charged and its count.
Counted ==
    IF state.count = 0
    THEN [quota |-> quota, at |-> 0, count |-> 0]
    ELSE [quota |-> quota, at |-> WordWindow, count |-> state.count]

AtomicUsed(s, ns) == IF WindowOf(s.quota, ns) > s.at THEN 0 ELSE s.count

AtomicAdmits(s, n, ns) == n = 0 \/ (~Impossible(s.quota, n) /\ AtomicUsed(s, ns) + n =< s.quota.limit)

AtomicCharged(s, n, ns) ==
    IF n = 0
    THEN s
    ELSE [quota |-> s.quota, at |-> Later(s.at, WindowOf(s.quota, ns)), count |-> AtomicUsed(s, ns) + n]

AtomicReset(s) == [quota |-> s.quota, at |-> 0, count |-> 0]

\* The check each thread is in the middle of.
AtomicCall ==
    [t \in Thread |-> IF pc[t] \in {"idle", "reset"} THEN [n |-> 0, now |-> -1] ELSE [n |-> need[t], now |-> now[t]]]

Atomic ==
    INSTANCE AtomicKey WITH
        state     <- Counted,
        call      <- AtomicCall,
        Admits    <- AtomicAdmits,
        Charged   <- AtomicCharged,
        ResetOf   <- AtomicReset

\* Though it works on two words that are read and written apart, acquire is one
\* step of an atomic window: every admission is charged, once, to the window of
\* an instant between the caller's reading and the present, never to one older
\* than was already charged, and a denial that does not overlap a reset is right
\* (KeyState::acquire for FixedWindow).
ImplementsAtomic == Atomic!Spec

First == WindowOf(quota, MinTime)

IsOf(word, w) == word.index = LowBits(w)

\* The windows opened so far are those of readings of the clock.
WindowsOpened ==
    /\ First =< latest /\ latest =< WindowOf(quota, clock)
    /\ \A t \in Thread : now[t] =< clock

\* The state word counts what was charged to its window, and nothing was
\* charged to a later one.
WordCounts ==
    \E w \in First..latest :
        /\ IsOf(state, w)
        /\ charged[w] = state.count
        /\ \A later \in Windows : later > w => charged[later] = 0

\* A thread has loaded a word of a window no later than the latest it loads
\* after it, and has judged the request by both.
Judges(t) ==
    /\ pc[t] \in {"latest", "raise", "cas"} =>
        /\ need[t] # 0 /\ ~Impossible(quota, need[t])
        /\ \E w \in First..latest : IsOf(current[t], w) /\ (pc[t] # "latest" => w =< seen[t])
    /\ pc[t] \in {"raise", "cas", "reset"} => seen[t] \in First..latest
    /\ pc[t] \in {"raise", "cas"} => Total(t) =< quota.limit
    /\ pc[t] = "raise" => Target(t) > seen[t]
    /\ pc[t] = "cas" => Target(t) =< latest

\* A window that a thread has opened is later than that of the word it was
\* opened over.
OpensLater(t) ==
    opened[t] # None =>
        /\ opened[t][2] \in First..latest
        /\ \E w \in First..opened[t][2] - 1 : IsOf(opened[t][1], w)

\* The inductive invariant.
IInv ==
    /\ TypeOK
    /\ WindowsOpened
    /\ WordCounts
    /\ \A t \in Thread : Judges(t) /\ OpensLater(t)
    /\ NoOverAdmit

\* Only a thread that has loaded the state word, and not yet latest, is excused.
\* The word it has loaded, if no reset has replaced it since, is of an earlier
\* window than the state word or counts no more.
WordsGrow ==
    \A t \in Thread :
        /\ t \in excused => pc[t] = "latest"
        /\ t \notin excused /\ pc[t] = "latest" =>
            \E v, w \in First..latest :
                /\ IsOf(current[t], v) /\ IsOf(state, w)
                /\ v < w \/ (v = w /\ current[t].count =< state.count)

\* What the refinement needs of a state.
RInv == IInv /\ WordsGrow

\* Every acquire and reset returns.
EveryCallReturns == \A t \in Thread : pc[t] # "idle" ~> pc[t] = "idle"
=============================================================================
