----------------------------- MODULE MCEndpoints -----------------------------
(* URLs and addresses for TLC: those of the configuration on their way, or  *)
(* a Url, or an IpAddress, that a caller changes.                           *)
EXTENDS Endpoints, UrlObject, IpObject, Bitwise

Schemes == {<<>>, <<"postgresql", ":", "/", "/">>, <<"http", ":", "/", "/">>, <<":", "/", "/">>}
Users == {<<>>, <<"user", "@">>, <<"user", ":", "password", "@">>,
          <<"user", ":", "password", "@", "password", "@">>}
Hosts == {<<>>, <<"host">>, <<"host", ":">>, <<"host", ":", "6543">>, <<"host", ":", "70000">>,
          <<"[", "a", ":", "b", "]">>, <<"[", "a", ":", "6543", "]">>, <<"[", "a">>,
          <<"[", "a", ":", "0", "]", ":", "6543">>,
          <<"[", ":", ":", "]", ":", "6543">>}
Paths == {<<>>, <<"/">>, <<"/", "/">>, <<"/", "db">>, <<"/", "/", "db">>, <<"/", "%3f", "db">>,
          <<"/", "%25", "3f">>, <<"/", "db", "%zz">>, <<"/", "a", "@", "b", ":", "/", "/">>}
Ends == {<<>>, <<"?", "q">>, <<"?", "%23", "#", "f">>, <<"#", "f">>}

SomeNodes == {s \o u \o h \o p \o e : s \in Schemes, u \in Users, h \in Hosts, p \in Paths, e \in Ends}

-----------------------------------------------------------------------------
Octets == {<<0, 0, 0, 0>>, <<127, 0, 0, 1>>, <<10, 1, 1, 10>>, <<192, 168, 0, 7>>}
Six == Ip("V6", Bytes(<<8193, 3512, 0, 0, 0, 0, 0, 1>>))
Answers == {<<>>, <<Ip("V4", <<10, 0, 0, 7>>)>>, <<Six>>, <<Six, Ip("V4", <<10, 0, 0, 7>>)>>,
            <<Ip("V4", <<127, 0, 0, 1>>), Ip("V4", <<10, 0, 0, 7>>)>>}

\* IPv6 addresses of few values, and how each may be written: all groups, with
\* and without leading zeros, or one run of zero groups left out.
Addresses6 ==
    [1 .. 8 -> {0, 16}]
    \cup {<<8193, 3512, 0, 0, 0, 0, 0, 4097>>, <<8193, 3512, 0, 4096, 0, 0, 0, 4097>>,
          <<65152, 0, 0, 0, 4096, 4096, 4096, 4096>>, <<0, 0, 0, 0, 0, 65535, 258, 772>>,
          <<0, 0, 0, 0, 0, 0, 258, 772>>, <<0, 0, 0, 0, 0, 0, 0, 1>>, <<0, 0, 0, 0, 0, 0, 256, 0>>,
          <<0, 0, 0, 0, 65535, 0, 258, 772>>, <<0, 0, 0, 0, 65535, 0, 1, 772>>}
Padded(n) == <<n \div 4096, (n \div 256) % 16, (n \div 16) % 16, n % 16>>
Written(g, from, to, Digits(_)) ==
    LET Part(a, b) == [i \in 1 .. b - a + 1 |-> Digits(g[a + i - 1])]
    IN  IF from > to THEN Part(1, 8)
        ELSE (IF from = 1 THEN <<<<>>>> ELSE Part(1, from - 1)) \o <<<<>>>>
             \o (IF to = 8 THEN <<<<>>>> ELSE Part(to + 1, 8))
Runs(g) == {<<a, b>> \in (1 .. 8) \X (1 .. 8) : a <= b /\ \A i \in a .. b : g[i] = 0}
Texts6 ==
    UNION {{Colons(Written(g, 1, 0, Padded), <<>>), Colons(Written(g, 1, 0, HexDigits), <<>>)}
           \cup {Colons(Written(g, r[1], r[2], HexDigits), <<>>) : r \in Runs(g)} : g \in Addresses6}

SomeListenings ==
    {[host |-> Dotted(o), port |-> p] : o \in Octets, p \in {0, 6001}}
    \cup {[host |-> Name(a), port |-> 6001] : a \in Answers}
    \cup {[host |-> Name(a), port |-> 0] :
              a \in {b \in Answers : \A i \in 1 .. Len(b) : b[i].family = "V4"}}
    \cup {[host |-> t, port |-> 6001] : t \in Texts6}

\* The address that the finding of README.md is about, as a literal with a port.
LoopbackListening == {[host |-> Dotted(<<127, 0, 0, 1>>), port |-> 6001]}

-----------------------------------------------------------------------------
\* Paths of up to three segments, and whole URLs, as texts of a Url.
Slashed(segments) == Tail(FlattenSeq([i \in 1 .. Len(segments) |-> <<"/">> \o segments[i]]))
SegmentLists ==
    UNION {[1 .. n -> {<<"a">>, <<"..">>, <<".">>, <<"b", ":", "c">>}] : n \in 1 .. 2}
    \cup [1 .. 3 -> {<<"a">>, <<"..">>}]
FullUrl == <<"http", ":", "/", "/", "user", "@", "host", ":", "6543", "/", "a", "?", "a", "=", "b", "#", "f">>
AssignedUrls == {FullUrl, <<"http", ":">>, <<"http", ":", "/", "/", "[", "a">>}
ObjectUrls ==
    {start \o Slashed(ss) \o end : start \in {<<>>, <<"/">>, <<"http", ":", "/", "/", "host", "/">>},
                                   ss \in SegmentLists, end \in {<<>>, <<"/">>}}
    \cup {FullUrl, <<>>, <<"/">>}
ObjectSchemes == {<<>>, <<"http">>, <<"file">>}
ObjectAuthorities == {<<>>, <<"user", "@", "host", ":", "6543", "/">>, <<"[", "a">>, <<"host", ":", "70000">>}
ObjectHosts == {<<>>, <<"a", ":", "b">>, <<"a", "?", "b">>}
ObjectUsers == {<<>>, <<"user", "%40">>, <<"%zz">>}
ObjectPaths == {<<>>, <<"/", "%2f", "a">>, <<"a", ":", "b">>, <<"/", "/", "a", "?", "x", "=", "%26">>}
ObjectQueries == {<<>>, <<"a", "=", "+", "&", "b">>, <<"&", "?", "#">>, <<"%">>}
ObjectRawQueries == {<<"a", "&">>, <<"a", "=", "%26", "+", "&", "b", "=", "=">>, <<"%zz", "=", "a">>}
ObjectParameters ==
    {<<<<"&", "=">>, <<"a", "+", " ">>>>, <<<<>>, <<"%", "#", "?">>>>, <<<<>>, <<>>>>}

-----------------------------------------------------------------------------
\* Addresses at both ends of the blocks of each class, in both orders of bytes.
Edges == {<<0, 0, 0, 0>>, <<255, 255, 255, 255>>, <<127, 0, 0, 1>>, <<10, 1, 1, 10>>, <<192, 168, 0, 255>>,
          <<172, 31, 255, 255>>, <<172, 16, 0, 0>>, <<172, 15, 255, 255>>, <<172, 32, 0, 0>>,
          <<169, 254, 0, 0>>, <<224, 0, 0, 240>>, <<239, 0, 0, 224>>, <<192, 0, 2, 0>>,
          <<198, 51, 100, 7>>, <<203, 0, 113, 7>>}
Edges6 == {<<0, 0, 0, 0, 0, 0, 0, 0>>, <<0, 0, 0, 0, 0, 0, 0, 1>>, <<0, 0, 0, 0, 0, 0, 256, 0>>,
           <<0, 0, 0, 0, 0, 0, 65535, 65535>>, <<0, 0, 0, 0, 0, 65535, 258, 772>>,
           <<0, 0, 0, 0, 65535, 0, 258, 772>>, <<65280, 0, 0, 0, 0, 0, 0, 1>>, <<65152, 0, 0, 0, 0, 0, 0, 1>>,
           <<0, 33022, 0, 0, 0, 0, 0, 1>>, <<0, 255, 0, 0, 0, 0, 0, 0>>, <<0, 49406, 0, 0, 0, 0, 0, 0>>,
           <<0, 252, 0, 0, 0, 0, 0, 0>>, <<8193, 3512, 0, 0, 0, 0, 0, 1>>, <<47117, 288, 0, 0, 0, 0, 0, 1>>}
ObjectIps ==
    {Ip("V4", o) : o \in Edges} \cup {Ip("V4", Reverse(o)) : o \in Edges}
    \cup {Ip("V6", Bytes(g)) : g \in Edges6}
ObjectOperands ==
    {Ip("V4", <<10, 1, 1, 10>>), Ip("V4", <<0, 255, 16, 172>>), Ip("V6", Bytes(<<65280, 0, 0, 0, 0, 0, 0, 1>>))}
ObjectMasks ==
    {Ip("V4", <<255, 255, 255, 0>>), Ip("V4", <<255, 240, 0, 0>>), Ip("V6", Bytes(<<65535, 0, 0, 0, 0, 0, 0, 0>>))}

AndOfBits(x, y) == x & y
OrOfBits(x, y)  == x | y
XorOfBits(x, y) == x ^^ y

-----------------------------------------------------------------------------
\* One of the three: the others do not exist.
NoEndpoint == stage = "none" /\ text = Nothing /\ stored = text /\ verdict = "unread" /\ used = Nothing
HelpersInit ==
    \/ Init /\ NoUrlObject /\ NoIpObject
    \/ UrlInit /\ NoEndpoint /\ NoIpObject
    \/ IpInit /\ NoEndpoint /\ NoUrlObject
HelpersNext ==
    \/ Next /\ UNCHANGED <<urlVars, ipVars>>
    \/ UrlNext /\ UNCHANGED <<vars, ipVars>>
    \/ IpNext /\ UNCHANGED <<vars, urlVars>>
HelpersSpec == HelpersInit /\ [][HelpersNext]_<<vars, urlVars, ipVars>>

===============================================================================
