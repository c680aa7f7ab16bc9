------------------------------- MODULE Addresses -------------------------------
(***************************************************************************)
(* NetHelpers::IpAddress and SocketAddress: an address that is read from a *)
(* text or a name, put into a sockaddr, taken out of it and printed again. *)
(* data_ is a sequence of bytes; the processor is little-endian, as the    *)
(* builds of the service are, so ntohl() on data_ turns its bytes around.  *)
(***************************************************************************)
EXTENDS Integers, FiniteSetsExt, SequencesExt

Ip(family, data) == [family |-> family, data |-> data]
NoIp == Ip("none", <<>>)
Byte == 0 .. 255
Ips == [family : {"V4"}, data : [1 .. 4 -> Byte]] \cup [family : {"V6"}, data : [1 .. 16 -> Byte]]

\* Texts: four octets; groups of hexadecimal digits with colons in between (an
\* empty group where two colons meet), and four octets behind them or none; a
\* name, for which DNS knows a sequence of addresses, in network order.
Dotted(octets) == [form |-> "dotted", octets |-> octets]
Colons(groups, tail) == [form |-> "colons", groups |-> groups, tail |-> tail]
Name(answers) == [form |-> "name", answers |-> answers]

Blank == 16     \* a "digit" that is none

-----------------------------------------------------------------------------
(* inet_pton() for IPv6: eight groups, or fewer with one "::" for the rest. *)
Gap(groups) == {i \in 1 .. Len(groups) : groups[i] = <<>>}
OneGap(text) ==
    LET n == Len(text.groups) + (IF text.tail = <<>> THEN 0 ELSE 1)
    IN  \/ \E k \in 2 .. n - 1 : Gap(text.groups) = {k}
        \/ n > 2 /\ Gap(text.groups) \in {{1, 2}, {n - 1, n}}
        \/ n = 3 /\ Gap(text.groups) = {1, 2, 3}
Number(group) == FoldLeft(LAMBDA n, d : 16 * n + d, 0, group)
Bytes(numbers) ==
    [i \in 1 .. 2 * Len(numbers) |->
        IF i % 2 = 1 THEN numbers[(i + 1) \div 2] \div 256 ELSE numbers[i \div 2] % 256]

\* The bytes that a text stands for; <<>> when it is not one of an address.
InetPton6(text) ==
    LET groups == text.groups
        wanted == IF text.tail = <<>> THEN 8 ELSE 6
        given  == Len(groups) - Cardinality(Gap(groups))
        first  == IF Gap(groups) = {} THEN given ELSE Min(Gap(groups)) - 1
        Numbers(from, to) == [i \in 1 .. to - from + 1 |-> Number(groups[from + i - 1])]
    IN  IF /\ \A i \in 1 .. Len(groups) : Len(groups[i]) <= 4 /\ ~Contains(groups[i], Blank)
           /\ \/ Gap(groups) = {} /\ given = wanted
              \/ OneGap(text) /\ given < wanted
        THEN Bytes(Numbers(1, first)
                   \o [i \in 1 .. wanted - given |-> 0]
                   \o Numbers(Len(groups) - (given - first) + 1, Len(groups)))
             \o text.tail
        ELSE <<>>

\* getaddrinfo() takes every literal, too, and answers in network order.
GetAddrInfo(text) ==
    CASE text.form = "dotted" -> <<Ip("V4", text.octets)>>
      [] text.form = "colons" ->
            IF InetPton6(text) = <<>> THEN <<>> ELSE <<Ip("V6", InetPton6(text))>>
      [] text.form = "name" -> text.answers

-----------------------------------------------------------------------------
(* IpAddress.                                                              *)

\* Variant with a bug fixed: the bytes stay in the order of the network.
FromSockaddrInOrder(sin) == sin
\* The constructors from sockaddr, in_addr and hostent: ntohl() for IPv4.
FromSockaddr(sin) == IF sin.family = "V4" THEN Ip("V4", Reverse(sin.data)) ELSE sin

\* Variant with a bug: the zeros behind other digits go, too.
WithoutZeros(group) == SelectSeq(group, LAMBDA d : d # 0)
WithoutLeading(digit, group) ==
    SubSeq(group, 1 + Cardinality({i \in 1 .. Len(group) : \A j \in 1 .. i : group[j] = digit}), Len(group))
WithoutLeadingZeros(group) == WithoutLeading(0, group)

\* More than two colons in a row become two.
Squeezed(groups) ==
    LET Kept(i) == ~(i > 2 /\ i < Len(groups) /\ groups[i] = <<>> /\ groups[i - 1] = <<>>)
    IN  FoldLeftDomain(LAMBDA kept, i : IF Kept(i) THEN Append(kept, groups[i]) ELSE kept, <<>>, groups)

\* trim_v6_string(): a text that ends in one colon stays as it is.  (So does one
\* with several "::", which inet_pton() takes in neither form.)
TrimV6(groups) ==
    LET n == Len(groups)
    IN  IF n > 1 /\ groups[n] = <<>> /\ groups[n - 1] # <<>> THEN groups
        ELSE Squeezed([i \in 1 .. n |-> WithoutLeadingZeros(groups[i])])

\* is_v4_format() counts three dots, is_v6_format() seven colons, or fewer and a
\* "::"; try_family() wants one of the two.  trim() takes the outer blanks off.
IsV6Format(text) ==
    Len(text.groups) = 8 \/ (Len(text.groups) < 8 /\ Gap(text.groups) # {})
Trimmed(text) ==
    Colons([text.groups EXCEPT ![1] = WithoutLeading(Blank, @)], <<>>)

TryParse(text) ==
    CASE text.form = "dotted" -> Ip("V4", text.octets)
      [] text.form = "colons" /\ text.tail = <<>> /\ IsV6Format(text) ->
            LET data == InetPton6(Colons(TrimV6(Trimmed(text).groups), <<>>))
            IN  IF data = <<>> THEN NoIp ELSE Ip("V6", data)
      [] OTHER -> NoIp

Group(ip, i) == 256 * ip.data[2 * i - 1] + ip.data[2 * i]
\* The k-th 32 bits of data_ as a number: its bytes, from the highest on.
Word(ip, k) == Reverse(SubSeq(ip.data, 4 * k - 3, 4 * k))
Zero == <<0, 0, 0, 0>>

IsIpv4Compatible(ip) == \A k \in 1 .. 3 : Word(ip, k) = Zero
IsIpv4Mapped(ip) == Word(ip, 1) = Zero /\ Word(ip, 2) = Zero /\ Word(ip, 3) = <<0, 0, 255, 255>>
\* The case of a mapped address reads behind data_; to_string() does not ask then.
IsLoopback(ip) == IsIpv4Compatible(ip) /\ Word(ip, 4) = <<0, 0, 0, 1>>

\* The digits of a number.
HexDigits(n) ==
    WithoutLeadingZeros(<<n \div 4096, (n \div 256) % 16, (n \div 16) % 16>>) \o <<n % 16>>
\* "{:4x}" fills with blanks.
HexWidth4(n) ==
    LET digits == HexDigits(n) IN [i \in 1 .. 4 - Len(digits) |-> Blank] \o digits

\* The first run of two zero groups or more is printed as "::".
PrintedGroups(ip) ==
    LET ZeroFrom(i) == \A j \in i .. i + 1 : Group(ip, j) = 0
        starts == {i \in 1 .. 7 : ZeroFrom(i)}
        first  == Min(starts)
        behind == Min({j \in first .. 8 : Group(ip, j) # 0} \cup {9})
        Printed(from, to) == [i \in 1 .. to - from + 1 |-> HexWidth4(Group(ip, from + i - 1))]
    IN  IF starts = {} THEN Printed(1, 8)
        ELSE (IF first = 1 THEN <<<<>>>> ELSE Printed(1, first - 1)) \o <<<<>>>>
             \o (IF behind = 9 THEN <<<<>>>> ELSE Printed(behind, 8))

IpText(ip) ==
    CASE ip.family = "V4" -> Dotted(ip.data)
      [] ip.family = "V6" /\ ((IsIpv4Compatible(ip) /\ ~IsLoopback(ip)) \/ IsIpv4Mapped(ip)) ->
            LET colons == IF Group(ip, 6) = 0 THEN <<<<>>, <<>>>> ELSE <<<<>>, <<>>, <<15, 15, 15, 15>>>>
            IN  IF ip.data[13] = 0 THEN Colons(colons, SubSeq(ip.data, 13, 16))
                ELSE Colons(colons \o <<<<>>>>, <<>>)
      [] OTHER -> Colons(PrintedGroups(ip), <<>>)

-----------------------------------------------------------------------------
(* SocketAddress: a sockaddr, which is an Ip in network order here.        *)

HostByName(text) ==
    LET infos == GetAddrInfo(text) IN [i \in 1 .. Len(infos) |-> FromSockaddr(infos[i])]

\* IPv4 before IPv6 and the first of them; none is an exception.
Resolve(text) ==
    LET ips == HostByName(text)
        v4  == {i \in 1 .. Len(ips) : ips[i].family = "V4"}
    IN  IF ips = <<>> THEN NoIp ELSE ips[IF v4 # {} THEN Min(v4) ELSE 1]

\* init() copies data_ into the sockaddr as it is.
Socket(text) == IF TryParse(text) # NoIp THEN TryParse(text) ELSE Resolve(text)
Host(sin) == FromSockaddr(sin)

================================================================================
