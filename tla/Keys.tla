-------------------------------- MODULE Keys --------------------------------
(***************************************************************************)
(* The keys of src/key.rs, and who a request is charged to by the          *)
(* extractors of src/tower.rs.  Addresses are numbers of as many bits as   *)
(* their family has; the widths are parameters, and so is the prefix of    *)
(* the IPv6 addresses that carry an IPv4 address.  A key is its kind and   *)
(* its bytes, kept as how many there are and the number that they spell.   *)
(***************************************************************************)
EXTENDS Integers, Sequences, SequencesExt

CONSTANTS
    V4Bits,         \* the bits of an IPv4 address
    V6Bits,         \* the bits of an IPv6 address
    MappedPrefix,   \* what stands before the IPv4 bits of an IPv4-mapped address
    V6Subnet,       \* the bits of a client's IPv6 network (64 in the code)
    LongValue       \* the length over which a HeaderKey digests (64 in the code)

ASSUME WidthsAssumption ==
    /\ {V4Bits, V6Bits, MappedPrefix, V6Subnet, LongValue} \subseteq Nat \ {0}
    /\ MappedPrefix < 2^(V6Bits - V4Bits)

Address == [family : {4}, bits : 0..2^V4Bits - 1] \cup [family : {6}, bits : 0..2^V6Bits - 1]

Width(family) == IF family = 4 THEN V4Bits ELSE V6Bits

\* Clamped to the width of the family.
PrefixLen(family, len) == IF len < Width(family) THEN len ELSE Width(family)

\* The first len bits of an address, the rest cleared.
Masked(a, len) == a.bits - (a.bits % 2^(Width(a.family) - PrefixLen(a.family, len)))

-----------------------------------------------------------------------------
\* Addresses.

\* The loopback and the unspecified address count as compatible: a mutant of EmbeddedV4.
EmbeddedV4Any(a) ==
    IF a.family = 6 /\ a.bits \div 2^V4Bits \in {0, MappedPrefix}
    THEN {[family |-> 4, bits |-> a.bits % 2^V4Bits]}
    ELSE {}

\* embedded_ipv4: of a mapped address, and of a compatible one but :: and ::1.
EmbeddedV4(a) ==
    IF /\ a.family = 6
       /\ \/ a.bits \div 2^V4Bits = MappedPrefix
          \/ a.bits \div 2^V4Bits = 0 /\ a.bits > 1
    THEN {[family |-> 4, bits |-> a.bits % 2^V4Bits]}
    ELSE {}

\* canonical_ip.
CanonicalIp(a) == CHOOSE c \in IF EmbeddedV4(a) = {} THEN {a} ELSE EmbeddedV4(a) : TRUE

-----------------------------------------------------------------------------
\* Keys.

\* with_kind; keys are equal if their kinds and their bytes are.
MakeKey(kind, bytes, len) == <<kind, len, bytes>>

\* The number of bytes of a key.
KeyLen(key) == key[2]

OctetsOf(family) == IF family = 4 THEN 4 ELSE 16

\* Key::from, of text or bytes, of a number, and of an address as it stands.
RawKey(value) == MakeKey("Raw", value.bytes, value.len)

RawIdKey(id) == RawKey([bytes |-> id, len |-> 8])

RawIpKey(a) == RawKey([bytes |-> a.bits, len |-> OctetsOf(a.family)])

IdKey(id) == MakeKey("Id", id, 8)

IpKey(a) == MakeKey("Ip", CanonicalIp(a).bits, OctetsOf(CanonicalIp(a).family))

\* ipv4_prefix and ipv6_prefix of a canonical address: the masked octets and the length.
MaskedKey(c, len) ==
    MakeKey("IpPrefix", <<Masked(c, len), PrefixLen(c.family, len)>>, OctetsOf(c.family) + 1)

IpPrefixKey(a, v4, v6) ==
    LET c == CanonicalIp(a)
    IN  MaskedKey(c, IF c.family = 4 THEN v4 ELSE v6)

\* Digester::digest of a header's or a limiter's digester, two hashes with seeds of
\* its own: distinct keys, and distinct digesters, are taken to give distinct digests.
Digest(digester, key) == MakeKey("Digest", <<digester, key>>, 16)

\* The key of requests that cannot be told apart: a digest of no bytes.
AnonymousKey == MakeKey("Digest", <<>>, 0)

-----------------------------------------------------------------------------
\* Extractors.  A request has the peer's address, if the server recorded it, the
\* lines of X-Forwarded-For, each the entries between its commas, the value of
\* the header a HeaderKey reads, if there is one, and the number of the user that
\* the application found, if it did.

DefaultPrefixes == [v4 |-> V4Bits, v6 |-> V6Subnet]

PeerIp == [by |-> "peer", prefixes |-> DefaultPrefixes]

Trusting(hops) == [by |-> "forwarded", trusted |-> hops, prefixes |-> DefaultPrefixes, proxies |-> {}]

\* only_from; which network that is, Network says.
OnlyFrom(x, addr, len) == [x EXCEPT !.proxies = @ \cup {<<addr, len>>}]

WithPrefixes(x, v4, v6) == [x EXCEPT !.prefixes = [v4 |-> v4, v6 |-> v6]]

HeaderKey == [by |-> "header", digestOver |-> LongValue]

WithDigestOver(x, len) == [x EXCEPT !.digestOver = len]

\* A closure that makes keys by Key::from, or by the constructors of each kind.
Closure(constructors) == [by |-> constructors]

ClosureKeys(users, values, addresses) ==
    IF users # {} THEN users ELSE IF values # {} THEN {RawKey(v) : v \in values} ELSE addresses

Forms == {"address", "socket", "bracketed", "zoned"}

\* parse_addr: an address bare, with a port, in brackets or with a zone.
ParseAddr(entry) == IF entry.form \in Forms THEN {entry.addr} ELSE {}

\* network: an embedded network becomes the IPv4 network of its last bits.
Network(a, len) ==
    LET before == V6Bits - V4Bits
    IN  IF EmbeddedV4(a) # {} /\ len >= before
        THEN [addr |-> CanonicalIp(a), len |-> PrefixLen(4, len - before)]
        ELSE [addr |-> a, len |-> PrefixLen(a.family, len)]

InNetwork(a, net) ==
    \/ net.len = 0
    \/ /\ CanonicalIp(a).family = net.addr.family
       /\ Masked(CanonicalIp(a), net.len) = Masked(net.addr, net.len)

PrefixKeys(x, addrs) == {IpPrefixKey(a, x.prefixes.v4, x.prefixes.v6) : a \in addrs}

\* The entry that many places from the right, across all of the lines.
TrustedHop(x, lines) ==
    LET hops == FlattenSeq(lines)
    IN  IF x.trusted =< Len(hops) THEN ParseAddr(hops[Len(hops) + 1 - x.trusted]) ELSE {}

\* ForwardedFor::extract: whose address the request is keyed by.
ForwardedAddr(x, r) ==
    LET networks  == {Network(p[1], p[2]) : p \in x.proxies}
        fromProxy == \E a \in r.peer, net \in networks : InNetwork(a, net)
    IN  IF x.trusted = 0 \/ (networks # {} /\ ~fromProxy)
        THEN r.peer
        ELSE TrustedHop(x, r.lines)

\* HeaderKey::extract: a long value by its digest.
HeaderKeys(x, values) == {IF v.len > x.digestOver THEN Digest("header", RawKey(v)) ELSE RawKey(v) : v \in values}

\* KeyExtractor::extract.
Extract(x, r) ==
    CASE x.by = "peer"      -> PrefixKeys(x, r.peer)
      [] x.by = "forwarded" -> PrefixKeys(x, ForwardedAddr(x, r))
      [] x.by = "header"    -> HeaderKeys(x, r.value)
      [] x.by = "raw"       -> ClosureKeys({RawIdKey(id) : id \in r.user}, r.value, {RawIpKey(a) : a \in r.peer})
      [] x.by = "tagged"    -> ClosureKeys({IdKey(id) : id \in r.user}, r.value, {IpKey(a) : a \in r.peer})
=============================================================================
