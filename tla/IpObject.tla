------------------------------- MODULE IpObject -------------------------------
(***************************************************************************)
(* An IpAddress in the hands of a caller: its order, its operators, the    *)
(* calls that change it, and the tests of its class, which compare 32-bit  *)
(* words of data_ with constants in the order of the processor.            *)
(***************************************************************************)
EXTENDS Addresses

CONSTANTS
    SomeIps,        \* addresses that callers have
    SomeOperands,   \* addresses they combine them with
    SomeMasks,      \* masks
    MaxIpCalls,     \* bound of the model: calls on one object
    BitAnd(_, _), BitOr(_, _), BitXor(_, _)     \* the operators of C++ on bytes

ASSUME IpsAssumption == SomeIps \cup SomeOperands \cup SomeMasks \subseteq Ips
ASSUME BitsAssumption ==
    \A x, y \in Byte : BitAnd(x, y) \in Byte /\ BitOr(x, y) \in Byte /\ BitXor(x, y) \in Byte
\* Masks of leading ones, which is all that is known of the operators.
ASSUME MasksAssumption ==
    \A x \in Byte, n \in {1, 2, 4, 8, 16, 32, 64, 128, 256} : BitAnd(x, 256 - n) = x - (x % n)

VARIABLES
    ip,             \* the object; NoIp when there is none
    ipCalled,       \* history: the last call and its arguments
    ipCalls         \* bound: calls so far

ipVars == <<ip, ipCalled, ipCalls>>

-----------------------------------------------------------------------------
Length(a) == IF a.family = "V6" THEN 16 ELSE 4
Bytewise(Op(_, _), a, b) == Ip(a.family, [i \in 1 .. Length(a) |-> Op(a.data[i], b.data[i])])

\* operators &, | and ~; the first two throw for different families.
IpAnd(a, b) == Bytewise(BitAnd, a, b)
IpOr(a, b)  == Bytewise(BitOr, a, b)
IpXor(a, b) == Bytewise(BitXor, a, b)
IpNot(a)    == Ip(a.family, [i \in 1 .. Length(a) |-> 255 - a.data[i]])

\* memcmp()
LessBytes(s, t) == \E i \in 1 .. Len(s) : s[i] < t[i] /\ \A j \in 1 .. i - 1 : s[j] = t[j]

\* operator<: families first (AF_INET is less than AF_INET6).
Less(a, b) ==
    IF a.family = b.family THEN LessBytes(a.data, b.data) ELSE a.family = "V4"

\* Variant with a bug: the carry runs to the end of data_, not to its beginning.
CarriedTo(a) == {i \in 1 .. Length(a) : \A j \in 1 .. i - 1 : a.data[j] = 255}
\* The bytes that increment() changes: the last one, and on as they overflow.
CarriedFrom(a) == {i \in 1 .. Length(a) : \A j \in i + 1 .. Length(a) : a.data[j] = 255}
Incremented(a) ==
    Ip(a.family, [i \in 1 .. Length(a) |->
        IF i \in CarriedFrom(a) THEN (a.data[i] + 1) % 256 ELSE a.data[i]])

\* mask(mask_ip, set_ip): IPv4 only, anything else changes nothing.
Masked(a, mask, set) ==
    IF {a.family, mask.family, set.family} = {"V4"}
    THEN Ip("V4", [i \in 1 .. 4 |->
            BitOr(BitAnd(a.data[i], mask.data[i]), BitAnd(set.data[i], 255 - mask.data[i]))])
    ELSE a

\* The third word is 0x0000ffff in the order of the processor.
Mapped(a) == Ip("V6", [i \in 1 .. 8 |-> 0] \o <<255, 255, 0, 0>> \o a.data)
Unmapped(a) == Ip("V4", SubSeq(a.data, 13, 16))

-----------------------------------------------------------------------------
(* The classes.  Words are sequences of bytes, the highest first.          *)
Zero4(n) == [i \in 1 .. 4 |-> IF i <= n THEN 255 ELSE 0]

\* Variant with a bug: the octets are compared in the order of the memory.
WordOfMemory(a, k) == SubSeq(a.data, 4 * k - 3, 4 * k)
TestedWord(a, k) == Word(a, k)

\* A class, its address and its mask.
Blocks4 ==
    {<<"wildcard", <<0, 0, 0, 0>>, Zero4(4)>>, <<"broadcast", Zero4(4), Zero4(4)>>,
     <<"multicast", <<224, 0, 0, 0>>, <<240, 0, 0, 0>>>>, <<"loopback", <<127, 0, 0, 0>>, Zero4(1)>>,
     <<"linklocal", <<169, 254, 0, 0>>, Zero4(2)>>, <<"sitelocal", <<10, 0, 0, 0>>, Zero4(1)>>,
     <<"sitelocal", <<192, 168, 0, 0>>, Zero4(2)>>, <<"reserved", <<240, 0, 0, 0>>, <<240, 0, 0, 0>>>>,
     <<"documentation", <<198, 51, 100, 0>>, Zero4(3)>>,
     <<"documentation", <<203, 0, 113, 0>>, Zero4(3)>>, <<"documentation", <<192, 0, 2, 0>>, Zero4(3)>>}
\* Those of IPv6 are decided by the first word.
Blocks6 ==
    {<<"multicast", <<255, 0, 0, 0>>, Zero4(1)>>, <<"linklocal", <<254, 128, 0, 0>>, <<255, 192, 0, 0>>>>,
     <<"sitelocal", <<254, 192, 0, 0>>, <<255, 192, 0, 0>>>>,
     <<"sitelocal", <<252, 0, 0, 0>>, <<254, 0, 0, 0>>>>,
     <<"documentation", <<32, 1, 13, 184>>, Zero4(4)>>}

InBlocks(word, blocks) ==
    {b[1] : b \in {c \in blocks : \A i \in 1 .. 4 : BitAnd(word[i], c[3][i]) = c[2][i]}}
PrivateRange(word) == ~LessBytes(word, <<172, 16, 0, 0>>) /\ ~LessBytes(<<172, 31, 255, 255>>, word)

\* is_loopback() of a mapped address reads the word behind data_: `behind` says
\* whether what is found there begins with 127.
Tested(a, behind) ==
    IF a.family = "V4"
    THEN InBlocks(TestedWord(a, 1), Blocks4)
         \cup (IF PrivateRange(TestedWord(a, 1)) THEN {"sitelocal"} ELSE {})
    ELSE InBlocks(TestedWord(a, 1), Blocks6)
         \cup (IF \A k \in 1 .. 4 : TestedWord(a, k) = Zero THEN {"wildcard"} ELSE {})
         \cup (IF IF IsIpv4Mapped(a) THEN behind ELSE IsLoopback(a) THEN {"loopback"} ELSE {})
\* is_unicast()
Classes(a, behind) ==
    Tested(a, behind)
    \cup (IF Tested(a, behind) \cap {"wildcard", "broadcast", "multicast"} = {} THEN {"unicast"} ELSE {})

-----------------------------------------------------------------------------
(* The calls.                                                              *)
NoIpObject == ip = NoIp /\ ipCalled = <<"none">> /\ ipCalls = 0
IpInit == ip \in SomeIps /\ ipCalled = <<"none">> /\ ipCalls = 0

Becomes(a, call) ==
    /\ ip # NoIp /\ ipCalls < MaxIpCalls
    /\ ip' = a /\ ipCalled' = call /\ ipCalls' = ipCalls + 1

Increment == Becomes(Incremented(ip), <<"increment">>)
InverseIp == Becomes(IpNot(ip), <<"inverse">>)
Mask(mask, set) == Becomes(Masked(ip, mask, set), <<"mask", mask, set>>)
\* ip = *ip.get_ipv4_mapped_from_ipv4(), and back.
MapV4 == ip.family = "V4" /\ Becomes(Mapped(ip), <<"map">>)
UnmapV4 == ip.family = "V6" /\ IsIpv4Mapped(ip) /\ Becomes(Unmapped(ip), <<"unmap">>)
\* ip.set_ntohl_v4(addr), with the address of a sockaddr.
SetNtohl(a) == a.family = "V4" /\ Becomes(FromSockaddr(a), <<"set", a>>)
Combine(a) ==
    /\ a.family = ip.family /\ ipCalls < MaxIpCalls
    /\ \E b \in {IpAnd(ip, a), IpOr(ip, a), IpXor(ip, a)} : Becomes(b, <<"combine", a>>)
ClearIp == Becomes(Ip("V4", Zero), <<"clear">>)

IpNext ==
    \/ Increment \/ InverseIp \/ MapV4 \/ UnmapV4 \/ ClearIp
    \/ \E mask \in SomeMasks, set \in SomeOperands : Mask(mask, set)
    \/ \E a \in SomeOperands : SetNtohl(a) \/ Combine(a)
IpSpec == IpInit /\ [][IpNext]_ipVars

-----------------------------------------------------------------------------
\* The calls that change an address agree with the operators of its class:
\* increment() moves to the next address in the order of operator< (behind the
\* last one to the first), mask() is the formula of ip_address.h:109 written with
\* operators, and a mapped address gives back the one it was made of.
CallsAgreeWithOperators ==
    [][/\ ipCalled'[1] = "increment" =>
             IF \A i \in 1 .. Length(ip) : ip.data[i] = 255
             THEN \A i \in 1 .. Length(ip) : ip'.data[i] = 0
             ELSE Less(ip, ip') /\ \A a \in SomeIps : ~(Less(ip, a) /\ Less(a, ip'))
       /\ ipCalled'[1] = "mask" =>
             ip' = IF {ip.family, ipCalled'[2].family, ipCalled'[3].family} = {"V4"}
                   THEN IpOr(IpAnd(ip, ipCalled'[2]), IpAnd(ipCalled'[3], IpNot(ipCalled'[2])))
                   ELSE ip
       /\ ipCalled'[1] = "map" => IsIpv4Mapped(ip') /\ Unmapped(ip') = ip
       /\ ipCalled'[1] = "unmap" => Mapped(ip') = ip]_ipVars

\* The blocks of addresses in network order: the first octets of their first
\* and of their last address.
Within(octets, first, last) == \A i \in 1 .. Len(first) : octets[i] \in first[i] .. last[i]
Blocks(family) ==
    CASE family = "V4" ->
            {<<"wildcard", <<0, 0, 0, 0>>, <<0, 0, 0, 0>>>>, <<"broadcast", <<255, 255, 255, 255>>, <<255, 255, 255, 255>>>>,
             <<"multicast", <<224>>, <<239>>>>, <<"loopback", <<127>>, <<127>>>>,
             <<"linklocal", <<169, 254>>, <<169, 254>>>>, <<"reserved", <<240>>, <<255>>>>,
             <<"sitelocal", <<10>>, <<10>>>>, <<"sitelocal", <<172, 16>>, <<172, 31>>>>,
             <<"sitelocal", <<192, 168>>, <<192, 168>>>>,
             <<"documentation", <<198, 51, 100>>, <<198, 51, 100>>>>,
             <<"documentation", <<203, 0, 113>>, <<203, 0, 113>>>>, <<"documentation", <<192, 0, 2>>, <<192, 0, 2>>>>}
      [] family = "V6" ->
            {<<"wildcard", [i \in 1 .. 16 |-> 0], [i \in 1 .. 16 |-> 0]>>,
             <<"loopback", [i \in 1 .. 16 |-> IF i = 16 THEN 1 ELSE 0], [i \in 1 .. 16 |-> IF i = 16 THEN 1 ELSE 0]>>,
             <<"multicast", <<255>>, <<255>>>>, <<"linklocal", <<254, 128>>, <<254, 191>>>>,
             <<"sitelocal", <<254, 192>>, <<254, 255>>>>, <<"sitelocal", <<252>>, <<253>>>>,
             <<"documentation", <<32, 1, 13, 184>>, <<32, 1, 13, 184>>>>}
ClassesOfNetwork(family, octets) ==
    {b[1] : b \in {c \in Blocks(family) : Within(octets, c[2], c[3])}}

\* The tests of the class are right for an IPv4 address that was taken from a
\* sockaddr, whose octets FromSockaddr turned around, and answer for the address
\* with its words turned around in every other case: that of an IPv4 text and of
\* any IPv6 address.  (Nothing can be said of a mapped one being a loopback.)
ClassesOfTurnedWords ==
    ip # NoIp =>
        LET turned == [i \in 1 .. Length(ip) |-> Word(ip, (i + 3) \div 4)[1 + ((i - 1) % 4)]]
            unsaid == IF ip.family = "V6" /\ IsIpv4Mapped(ip) THEN {"loopback"} ELSE {}
        IN  \A behind \in BOOLEAN :
                (Classes(ip, behind) \ {"unicast"}) \ unsaid
                    = ClassesOfNetwork(ip.family, turned) \ unsaid

===============================================================================
