----------------------------- MODULE RateLimited -----------------------------
(***************************************************************************)
(* The HTTP layer of src/tower.rs over a shared limiter.  A program makes  *)
(* a layer, setting by setting, and the layer makes the service.  A        *)
(* request is charged to the key its extractor finds, an admitted one goes *)
(* to the inner service, a denied one is answered with the limiter's       *)
(* advice.  A call checks the key and then looks at it again for the       *)
(* headers, and time passes, other requests come, and the store evicts in  *)
(* between.                                                                *)
(***************************************************************************)
EXTENDS KeyedLimiter

CONSTANTS
    Task,           \* the tasks that serve requests
    Services,       \* the layers a program asks for, with the limiter's options and the requests that come
    Second,         \* the ticks in a second
    MaxSfInteger,   \* MAX_SF_INTEGER
    Costs,          \* bound: the units the application checks for itself
    MaxTime         \* bound: the last tick of the clock

ASSUME ServiceAssumption ==
    /\ {Second, MaxSfInteger} \subseteq Nat \ {0}
    /\ Costs \subseteq Nat
    /\ MaxTime \in Nat

VARIABLES
    clock,      \* the time
    service,    \* which layer is asked for
    todo,       \* the settings the program has yet to make
    config,     \* the layer's Config, but for the extractor
    requests,   \* the two requests that come to its service, again and again
    store,      \* the limiter's store
    task,       \* the call, and then the response future, of each task
    ledger      \* what the client of each request has in use

vars == <<clock, service, todo, config, requests, store, task, ledger>>

Layer == Services[service]

\* RateLimitLayer::shared and new.
Defaults ==
    [cost |-> 1, policy |-> {}, headersOnSuccess |-> FALSE, impossibleStatus |-> 429, anonymous |-> "shared"]

\* with_cost: a cost of none is a cost of one.
CostOf(cost) == IF cost < 1 THEN 1 ELSE cost

Extracted == [i \in DOMAIN Services |->
                [r \in DOMAIN Services[i].requests |-> Extract(Services[i].extractor, Services[i].requests[r])]]

\* The key a request is charged to: its own, or what Anonymous says.
KeyOf(r) ==
    IF Extracted[service][r] # {}
    THEN Extracted[service][r]
    ELSE CASE config.anonymous = "shared" -> {AnonymousKey}
           [] config.anonymous = "key"    -> {IdKey(0)}
           [] config.anonymous = "reject" -> {}

-----------------------------------------------------------------------------
\* Whole seconds.

\* Rounded down: a mutant of CeilSecs.
FloorSecs(wait) == wait \div Second

CeilSecs(wait) == (wait + Second - 1) \div Second

\* retry_after_secs: at least one, and none for a request that can never be admitted.
RetryAfterSecs(d) ==
    IF d.allow \/ d.retry = Never
    THEN {}
    ELSE {IF CeilSecs(d.retry) < 1 THEN 1 ELSE CeilSecs(d.retry)}

\* reset_header_secs: none for a key that admits nothing.
ResetSecs(snapshot) == IF snapshot.limit = 0 THEN 0 ELSE CeilSecs(snapshot.reset)

SfInteger(n) == IF n < MaxSfInteger THEN n ELSE MaxSfInteger

RateLimitValue(name, remaining, reset) == [name |-> name, r |-> SfInteger(remaining), t |-> SfInteger(reset)]

RateLimitPolicyValue(name, quota, window) == [name |-> name, q |-> SfInteger(quota), w |-> SfInteger(window)]

LegacyHeaders(snapshot) == [limit |-> snapshot.limit, remaining |-> snapshot.remaining, reset |-> ResetSecs(snapshot)]

\* Snapshot::ratelimit: what is left and in how many seconds it is whole.
RateLimitField(name, snapshot) == RateLimitValue(name, snapshot.remaining, ResetSecs(snapshot))

\* Quota::ratelimit_policy: the limit and its period, in which a leaky bucket drains it.
RateLimitPolicy(name, limit) == RateLimitPolicyValue(name, limit, CeilSecs(limit * Period))

\* write_headers: the structured fields only if the policy has a name.
WriteHeaders(snapshot, limit) ==
    [legacy    |-> LegacyHeaders(snapshot),
     ratelimit |-> {RateLimitField(name, snapshot) : name \in config.policy},
     policy    |-> {RateLimitPolicy(name, limit) : name \in config.policy}]

-----------------------------------------------------------------------------
\* Who is the same client: stated over the addresses, not over keys.

V4Numbers == 0..2^V4Bits - 1

\* The addresses that stand for an IPv4 host: its own, the mapped and the compatible one.
V4Forms(n) ==
    {[family |-> 4, bits |-> n], [family |-> 6, bits |-> MappedPrefix * 2^V4Bits + n]}
        \cup {[family |-> 6, bits |-> m] : m \in {n} \ {0, 1}}

NativeV6 == {a \in Address : a.family = 6} \ UNION {V4Forms(n) : n \in V4Numbers}

Agree(m, n, len, width) == m \div 2^(width - len) = n \div 2^(width - len)

SameNetwork(a, b, v4, v6) ==
    \/ \E m, n \in V4Numbers : a \in V4Forms(m) /\ b \in V4Forms(n) /\ Agree(m, n, v4, V4Bits)
    \/ {a, b} \subseteq NativeV6 /\ Agree(a.bits, b.bits, v6, V6Bits)

\* A network of only_from: one of no bits holds every address, an embedded one is
\* the IPv4 network of its last bits, any other holds IPv6 hosts alone.
HoldsV4(n, len, a) == len = 0 \/ \E m \in V4Numbers : a \in V4Forms(m) /\ Agree(m, n, len, V4Bits)

HoldsV6(n, len, a) == len = 0 \/ (a \in NativeV6 /\ Agree(a.bits, n, len, V6Bits))

Holds(addr, len, a) ==
    LET before == V6Bits - V4Bits
    IN  IF addr.family = 4
        THEN HoldsV4(addr.bits, len, a)
        ELSE IF addr \notin NativeV6 /\ len >= before
        THEN HoldsV4(addr.bits % 2^V4Bits, len - before, a)
        ELSE HoldsV6(addr.bits, len, a)

\* Whose address a request comes with, as far as it is to be believed.
Sender(x, r) ==
    LET hops == FlattenSeq(r.lines)
        direct == x.proxies # {} /\ ~\E p \in x.proxies, a \in r.peer : Holds(p[1], p[2], a)
    IN  IF x.by # "forwarded" \/ x.trusted = 0 \/ direct
        THEN r.peer
        ELSE {hops[i].addr : i \in {j \in 1..Len(hops) : j = Len(hops) + 1 - x.trusted /\ hops[j].form # "other"}}

SameSender(x, q, r, v4, v6) ==
    \/ Sender(x, q) = {} /\ Sender(x, r) = {}
    \/ \E a \in Sender(x, q), b \in Sender(x, r) : SameNetwork(a, b, v4, v6)

\* All that Key::from sees of a number, a text or an address is its bytes.
Spelled(r) ==
    IF r.user # {}
    THEN {[bytes |-> id, len |-> 8] : id \in r.user}
    ELSE IF r.value # {}
    THEN r.value
    ELSE {[bytes |-> a.bits, len |-> IF a.family = 4 THEN 4 ELSE 16] : a \in r.peer}

SameClient(x, q, r) ==
    CASE x.by = "header" -> q.value = r.value
      [] x.by = "raw"    -> Spelled(q) = Spelled(r)
      [] x.by = "tagged" ->
            /\ q.user = r.user
            /\ q.user # {} \/ (q.value = r.value /\ (q.value # {} \/ SameSender(x, q, r, V4Bits, V6Bits)))
      [] OTHER -> SameSender(x, q, r, x.prefixes.v4, x.prefixes.v6)

\* The requests of each layer that come from the client of a request.
Clients ==
    [i \in DOMAIN Services |->
        LET s == Services[i]
        IN  [q \in DOMAIN s.requests |->
                {r \in DOMAIN s.requests : SameClient(s.extractor, s.requests[q], s.requests[r])}]]

-----------------------------------------------------------------------------
\* A task, with the request it serves, whether its client was charged for no other
\* since, when the last step of the call was, and what the response says.
Idle ==
    [pc |-> "idle", request |-> 0, alone |-> TRUE, decision |-> Allow, at |-> 0,
     status |-> 0, retryAt |-> {}, headers |-> {}]

Unused == State(1)!Fresh(0)

Init ==
    /\ clock = 0
    /\ service \in DOMAIN Services
    /\ todo = {f \in DOMAIN Defaults : Layer[f] # Defaults[f]}
    /\ config = Defaults
    /\ requests = {}
    /\ store = EmptyStore
    /\ task = [t \in Task |-> Idle]
    /\ ledger = <<>>

\* Config::clone_from.
CloneFrom(c) ==
    [cost |-> c.cost, policy |-> c.policy, headersOnSuccess |-> c.headersOnSuccess,
     impossibleStatus |-> c.impossibleStatus, anonymous |-> c.anonymous]

\* map_config: the layer is replaced by one with a copy of its settings, one changed.
MapConfig(f, value) ==
    /\ f \in todo
    /\ todo' = todo \ {f}
    /\ config' = [CloneFrom(config) EXCEPT ![f] = value]
    /\ UNCHANGED <<clock, service, requests, store, task, ledger>>

WithCost == MapConfig("cost", CostOf(Layer.cost))

WithAnonymous == MapConfig("anonymous", Layer.anonymous)

WithPolicy == MapConfig("policy", Layer.policy)

WithHeadersOnSuccess == MapConfig("headersOnSuccess", Layer.headersOnSuccess)

WithImpossibleStatus == MapConfig("impossibleStatus", Layer.impossibleStatus)

\* layer: the service shares the limiter and the settings, and requests come.
MakeService ==
    /\ requests = {} /\ todo = {}
    /\ \E q, r \in DOMAIN Layer.requests : requests' = {q, r}
    /\ ledger' = [r \in requests' |-> Unused]
    /\ UNCHANGED <<clock, service, todo, config, store, task>>

\* What no request changes.
made == <<service, todo, config, requests>>

Tick ==
    /\ clock < MaxTime /\ requests # {}
    /\ clock' = clock + 1
    /\ UNCHANGED <<made, store, task, ledger>>

\* The ledger with a request's client set to a state.
Booked(r, state) == [q \in requests |-> IF q \in Clients[service][r] THEN state ELSE ledger[q]]

\* The other calls, of which those of a client that is charged are no longer alone.
Overtaken(r, allow) ==
    [t \in Task |-> IF allow /\ task[t].request \in Clients[service][r] THEN [task[t] EXCEPT !.alone = FALSE] ELSE task[t]]

\* What a check for n units leaves of the store and the ledgers.
Book(r, n, result) ==
    /\ store' = result.store
    /\ ledger' = IF n > 0 /\ result.decision.allow
                 THEN Booked(r, State(1)!Acquired(ledger[r], n, clock))
                 ELSE ledger

\* The check of a call, whose client expects the cost that was asked for.
Decide(t, r, result) ==
    /\ Book(r, CostOf(Layer.cost), result)
    /\ task' = [Overtaken(r, result.decision.allow) EXCEPT ![t] =
                    [Idle EXCEPT !.pc = "checked", !.request = r, !.decision = result.decision, !.at = clock]]

\* call: the key is found and checked.
Call(t, r) ==
    /\ task[t].pc = "idle"
    /\ \E key \in KeyOf(r) : Decide(t, r, CheckRef(Layer.options, store, key, config.cost, clock))
    /\ UNCHANGED <<clock, made>>

\* call: a request nobody can be charged for is answered, with no advice.
Reject(t, r) ==
    /\ task[t].pc = "idle"
    /\ KeyOf(r) = {}
    /\ task' = [task EXCEPT ![t].pc = "limited", ![t].request = r, ![t].status = 400]
    /\ UNCHANGED <<clock, made, store, ledger>>

\* The headers of the key as it is by now.
Headers(c) ==
    {WriteHeaders(PeekRef(Layer.options, store, key, clock), QuotaOf(Layer.options, key)) : key \in KeyOf(c.request)}

\* call: an admitted request is handed to the inner service, its headers kept.
Forward(t) ==
    /\ task[t].pc = "checked"
    /\ task[t].decision.allow
    /\ task' = [task EXCEPT ![t].pc = "inner", ![t].at = clock,
                            ![t].headers = IF config.headersOnSuccess THEN Headers(task[t]) ELSE {}]
    /\ UNCHANGED <<clock, made, store, ledger>>

\* call: a denied request's response is made, with when to try again.
Limit(t) ==
    LET d == task[t].decision
    IN  /\ task[t].pc = "checked"
        /\ ~d.allow
        /\ task' = [task EXCEPT ![t].pc = "limited", ![t].at = clock,
                                ![t].status = IF d.retry = Never THEN config.impossibleStatus ELSE 429,
                                ![t].retryAt = {task[t].at + secs * Second : secs \in RetryAfterSecs(d)},
                                ![t].headers = Headers(task[t])]
        /\ UNCHANGED <<clock, made, store, ledger>>

\* The future is polled until it is ready: the inner service's answer, with the
\* headers if it is a response, or the response that was made.
Poll(t) ==
    /\ task[t].pc \in {"inner", "limited"}
    /\ task' = [task EXCEPT ![t] = Idle]
    /\ UNCHANGED <<clock, made, store, ledger>>

\* The application, which shares the limiter, checks, resets or removes the key of
\* a request (check_n, reset, remove).
CheckClient(r, n) ==
    /\ \E key \in KeyOf(r) :
        \E result \in {CheckRef(Layer.options, store, key, n, clock)} :
            /\ Book(r, n, result)
            /\ task' = Overtaken(r, n > 0 /\ result.decision.allow)
    /\ UNCHANGED <<clock, made>>

ResetClient(r) ==
    /\ \E key \in KeyOf(r) : store' = ResetKey(Layer.options, store, key, clock)
    /\ ledger' = Booked(r, Unused)
    /\ UNCHANGED <<clock, made, task>>

RemoveClient(r) ==
    /\ \E key \in KeyOf(r) : store' = RemoveKey(Layer.options, store, key)
    /\ ledger' = Booked(r, Unused)
    /\ UNCHANGED <<clock, made, task>>

\* It clears the limiter, or lets it forget the keys that are whole (clear,
\* retain_recent, whose steps are in Sweeps).
ClearAll ==
    /\ store # EmptyStore
    /\ store' = EmptyStore
    /\ ledger' = [r \in requests |-> Unused]
    /\ UNCHANGED <<clock, made, task>>

Retain ==
    /\ store' = Retained(store, clock)
    /\ UNCHANGED <<clock, made, task, ledger>>

\* The store makes room.
Evict(stored) ==
    /\ store' = Evicted(store, stored, clock)
    /\ UNCHANGED <<clock, made, task, ledger>>

Next ==
    \/ WithCost \/ WithAnonymous \/ WithPolicy \/ WithHeadersOnSuccess \/ WithImpossibleStatus \/ MakeService
    \/ Tick
    \/ \E t \in Task : (\E r \in requests : Call(t, r) \/ Reject(t, r)) \/ Forward(t) \/ Limit(t) \/ Poll(t)
    \/ \E r \in requests : (\E n \in Costs : CheckClient(r, n)) \/ ResetClient(r) \/ RemoveClient(r)
    \/ ClearAll \/ Retain
    \/ \E stored \in DOMAIN store.tracked : Evict(stored)

Spec == Init /\ [][Next]_vars

-----------------------------------------------------------------------------
\* Every client has one allowance and has it alone: whatever form its address
\* comes in, through whichever proxies, however long its header, and though its
\* key is digested, evicted and restored or has a quota of its own, the limiter
\* finds in use for a request just what its client was charged, at the layer's
\* cost, since it was last reset ("so one client never has two identities", canonical_ip; the anonymous
\* key "which no extracted key can equal").
OneAllowanceEach ==
    \A r \in requests : \A key \in KeyOf(r) :
        LET tooLong  == \E max \in Layer.options.maxKeyLen : KeyLen(key) > max
            snapshot == PeekRef(Layer.options, store, key, clock)
        IN  /\ snapshot.limit = IF tooLong THEN 0 ELSE QuotaOf(Layer.options, key)
            /\ snapshot.limit > 0 =>
                snapshot.limit - snapshot.remaining = State(snapshot.limit)!Used(ledger[r], clock)

\* What a response promises is kept, whatever happened between the check, the
\* second look for the headers and the response: a client that waits as long as
\* Retry-After says, while nothing else is charged to it, is admitted, its
\* allowance is whole after RateLimit-Reset, or t of the structured field, and
\* holds q units after w; and it is told to try again unless no waiting would
\* help, and then gets the status asked for, in whichever order the layer's
\* settings were made (RateLimited::call, retry_after_secs, ceil_secs, map_config).
PromisesKept ==
    \A t \in Task : task[t].pc # "idle" => \A key \in KeyOf(task[t].request) :
        LET c             == task[t]
            admits(s, at) == CheckRef(Layer.options, s, key, CostOf(Layer.cost), at).decision.allow
            left(secs)    == PeekRef(Layer.options, store, key, c.at + secs * Second).remaining
        IN  /\ c.alone =>
                /\ \A at \in c.retryAt : admits(store, at)
                /\ \A h \in c.headers :
                    /\ left(h.legacy.reset) = h.legacy.limit
                    /\ \A f \in h.ratelimit : left(f.t) = h.legacy.limit
                    /\ \A f \in h.policy : h.legacy.limit > 0 => left(f.w) = f.q
            /\ c.pc = "limited" =>
                IF admits(EmptyStore, clock)
                THEN c.retryAt # {} /\ c.status = 429
                ELSE c.retryAt = {} /\ c.status = Layer.impossibleStatus
=============================================================================
