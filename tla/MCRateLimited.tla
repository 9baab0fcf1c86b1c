---------------------------- MODULE MCRateLimited ----------------------------
(* IPv4 addresses of two bits, IPv6 addresses of four, of which those that    *)
(* begin with 01 carry an IPv4 address, and those that begin with 00 too but  *)
(* for the first two.                                                         *)
EXTENDS RateLimited

V4(n) == [family |-> 4, bits |-> n]

V6(n) == [family |-> 6, bits |-> n]

FromNobody == [peer |-> {}, lines |-> <<>>, value |-> {}, user |-> {}]

From(a) == [FromNobody EXCEPT !.peer = {a}]

Hop(a) == [form |-> "address", addr |-> a]

NotAnAddress == [form |-> "other", addr |-> V4(0)]

Through(a, hops) == [From(a) EXCEPT !.lines = hops]

WithValue(bytes, len) == [From(V4(2)) EXCEPT !.value = {[bytes |-> bytes, len |-> len]}]

OfUser(id) == [From(V4(2)) EXCEPT !.user = {id}]

\* A pro key has a quota of its own, a banned one an invalid one.
ResolveTiers(key) ==
    CASE key = RawKey([bytes |-> 2, len |-> 3]) -> {2}
      [] key = RawKey([bytes |-> 3, len |-> 6]) -> {0}
      [] key = IdKey(0) -> {3}
      [] OTHER -> {}

Unlimited == KeyOptions({}, {}, FALSE)

Strict == KeyOptions({9}, {2}, TRUE)

Service(x, those) ==
    [extractor |-> x, cost |-> 1, policy |-> {}, headersOnSuccess |-> TRUE, impossibleStatus |-> 429,
     anonymous |-> "shared", options |-> Unlimited, requests |-> those]

\* One host in three forms, its neighbour, and two hosts of one IPv6 subnet.
Peers == <<From(V4(2)), From(V6(2)), From(V6(6)), From(V4(3)), From(V6(8)), From(V6(9)), FromNobody>>

\* The proxy is at 3; what stands before the entry it wrote is the client's own.
Forwards ==
    <<Through(V4(3), <<<<Hop(V4(2))>>>>),
     Through(V6(7), <<<<Hop(V4(0)), Hop(V4(1))>>, <<Hop(V6(6))>>>>),
     Through(V4(3), <<<<Hop(V4(2)), NotAnAddress>>>>),
     Through(V4(3), <<>>),
     Through(V4(1), <<<<Hop(V4(2))>>>>),
     Through(V6(1), <<<<Hop(V4(2))>>>>),
     FromNobody>>

\* A short value, a pro key, a banned one, and ever longer ones.
Values == <<WithValue(1, 1), WithValue(2, 3), WithValue(3, 6), WithValue(4, 8), WithValue(5, 11), FromNobody>>

\* A user, an address, the texts that spell the same bytes, and other forms of the address.
Alike == <<OfUser(2), WithValue(2, 8), From(V4(2)), WithValue(2, 4), From(V6(6)), From(V6(2))>>

SomeServices == <<
    Service(PeerIp, Peers),
    [Service(Closure("tagged"), Alike) EXCEPT !.cost = 2, !.headersOnSuccess = FALSE, !.impossibleStatus = 403],
    [Service(Closure("raw"), SubSeq(Alike, 1, 5)) EXCEPT !.headersOnSuccess = FALSE],
    [Service(OnlyFrom(OnlyFrom(Trusting(1), V4(3), 2), V6(7), 4), Forwards)
        EXCEPT !.anonymous = "reject", !.headersOnSuccess = FALSE],
    [Service(WithPrefixes(Trusting(2), V4Bits, 4), SubSeq(Forwards, 1, 4)) EXCEPT !.headersOnSuccess = FALSE],
    [Service(HeaderKey, Values) EXCEPT !.options = Strict, !.anonymous = "key", !.cost = 0, !.policy = {"tiers"}],
    [Service(WithDigestOver(HeaderKey, 9), SubSeq(Values, 2, 5))
        EXCEPT !.options = Strict, !.cost = 2, !.policy = {"tiers"}, !.impossibleStatus = 403]
>>
=============================================================================
