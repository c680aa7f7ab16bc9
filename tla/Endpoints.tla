------------------------------- MODULE Endpoints -------------------------------
(***************************************************************************)
(* What becomes of an endpoint on its way from the configuration to the    *)
(* call that uses it: a node of the cluster, which validate() reads as a   *)
(* URL, prints and stores and db_start() reads again; and the listening    *)
(* address, which both validate() and http_start() read.                   *)
(***************************************************************************)
EXTENDS Url, Addresses

CONSTANTS
    NodeTexts,      \* URLs that are configured for a node
    Listenings      \* [host |-> a text of Addresses, port |-> a number]

ASSUME NodesAssumption == NodeTexts \subseteq Seq(STRING)

\* What must not be kept is in the user information only: in front of an "@",
\* with nothing that ends an authority between it and the authority's start.
Secrets == {"user", "password"}
InUserInfo(s, i) ==
    \E start \in 1 .. i, at \in i + 1 .. Len(s) :
        /\ s[at] = "@" /\ \A k \in start .. at : s[k] \notin {"/", "?", "#"}
        /\ \/ start = 1
           \/ /\ start > 3 /\ s[start - 3] = ":" /\ s[start - 2] = "/" /\ s[start - 1] = "/"
              /\ \A k \in 1 .. start - 4 : s[k] \notin {":", "/", "?", "#"}
ASSUME SecretsAssumption ==
    \A s \in NodeTexts : \A i \in 1 .. Len(s) : s[i] \in Secrets => InUserInfo(s, i)

ASSUME ListeningsAssumption ==
    \A l \in Listenings :
        CASE l.host.form = "dotted" -> l.host.octets \in [1 .. 4 -> Byte]
          [] l.host.form = "name"   -> l.host.answers \in Seq(Ips)
          [] OTHER ->
                /\ l.host.form = "colons" /\ l.host.groups \in Seq(Seq(0 .. Blank))
                /\ l.host.tail \in {<<>>} \cup [1 .. 4 -> Byte]

\* The port is never printed behind an IPv6 address without brackets: such a
\* text falls apart at its first colon, which is not followed here.
ASSUME PrintedAssumption ==
    \A l \in Listenings :
        l.port = 0 =>
            /\ l.host.form # "colons"
            /\ l.host.form = "name" =>
                   \A i \in 1 .. Len(l.host.answers) : l.host.answers[i].family = "V4"

VARIABLES
    stage,
    text,       \* what is configured
    stored,     \* the value after validate()
    verdict,    \* how validate() ended for a node: "stored", "default", "kept"
    used        \* a node: where db_start() connects; listening: what is bound

vars == <<stage, text, stored, verdict, used>>

Nothing == [family |-> "none", data |-> <<>>]

Init ==
    /\ \/ stage = "url" /\ text \in NodeTexts
       \/ stage = "listening" /\ text \in Listenings
    /\ stored = text /\ verdict = "unread" /\ used = Nothing

-----------------------------------------------------------------------------
(* A node.                                                                 *)

DefaultUrl == <<"postgresql", ":", "/", "/", "localhost", ":", "5432", "/", "postgres">>
HasScheme(s) ==
    \E i \in 1 .. Len(s) - 2 : s[i] = ":" /\ s[i + 1] = "/" /\ s[i + 2] = "/"
Completed(s) == IF HasScheme(s) THEN s ELSE <<"postgresql", ":", "/", "/">> \o s

\* split_to_host_and_port() of "host:port", where the host may hold a colon.
SplitHost(s) == IF StartsWith(s, "[") THEN Before(Tail(s), {"]"}) ELSE Before(s, {":"})
SplitPort(s) ==
    LET rest == IF StartsWith(s, "[") THEN Tail(Rest(Tail(s), {"]"})) ELSE Rest(s, {":"})
    IN  IF StartsWith(rest, ":") THEN Tail(rest) ELSE <<>>
Malformed(s) ==
    \/ StartsWith(s, "[") /\ ~Contains(Tail(s), "]")
    \/ SplitHost(s) = <<>> \/ SplitPort(s) = <<>>
\* stoul() reads the number a text begins with; any other text is looked up.
ServicePort(s) ==
    IF s[1] \in DOMAIN Numerals /\ Numerals[s[1]] <= 65535 THEN Numerals[s[1]] ELSE -1

\* Variant with a bug: the user stays.
RepackedWithUser(u, port) == [u EXCEPT !.port = IF port = 0 THEN 5432 ELSE @]
\* What validate() changes in a URL that it accepts.
Repacked(u, port) ==
    [u EXCEPT !.port = IF port = 0 THEN 5432 ELSE @,
              !.fragment = <<>>,
              !.path = IF HasSegments(u) THEN @ ELSE <<"postgres">>,
              !.user = <<>>]

Read(s) == Parse(Completed(s))
Address(u) == u.host \o <<":", Numeral(u.port)>>
Acceptable(u) == u.scheme \in {<<>>, <<"postgresql">>} /\ ~Malformed(Address(u))

\* Any exception but that of DNS: the default takes its place.
RefuseNode ==
    /\ ~Acceptable(Read(text))
    /\ stored' = DefaultUrl /\ verdict' = "default"

\* DnsException: the URL stays, with all that is in it.
KeepNode ==
    /\ Acceptable(Read(text))
    /\ stored' = Completed(text) /\ verdict' = "kept"

StoreNode ==
    LET port == ServicePort(SplitPort(Address(Read(text))))
    IN  /\ Acceptable(Read(text)) /\ port >= 0
        /\ stored' = UrlText(Repacked(Read(text), port)) /\ verdict' = "stored"

ValidateNode ==
    /\ stage = "url" /\ stage' = "stored url"
    /\ RefuseNode \/ KeepNode \/ StoreNode
    /\ UNCHANGED <<text, used>>

\* db_start(): substr(1) of an empty path throws.
DbStart ==
    /\ stage = "stored url" /\ stage' = "connected"
    /\ LET u == Parse(stored)
       IN  used' = IF Throws(u) \/ u.path = <<>> THEN Nothing
                   ELSE [family |-> "node", host |-> u.host, port |-> Port(u), dbname |-> Tail(u.path)]
    /\ UNCHANGED <<text, stored, verdict>>

-----------------------------------------------------------------------------
(* The listening address.  A lookup of a name may fail each time.          *)

Sockets(host) ==
    {Socket(host)} \cup (IF host.form = "name" THEN {NoIp} ELSE {})

ValidateListening ==
    /\ stage = "listening" /\ stage' = "stored listening"
    /\ \E sin \in Sockets(text.host) :
          stored' = IF sin # NoIp /\ text.port = 0
                    THEN [host |-> IpText(Host(sin)), port |-> 6000] ELSE text
    /\ UNCHANGED <<text, verdict, used>>

\* bind_to_port() looks up the text that is printed; without a result it fails,
\* which http_start() does not notice.
Bound(answers) == IF answers = <<>> THEN Nothing ELSE answers[1]

HttpStart ==
    /\ stage = "stored listening" /\ stage' = "bound"
    /\ \E sin \in Sockets(stored.host) :
          used' = IF sin = NoIp THEN Nothing ELSE Bound(GetAddrInfo(IpText(Host(sin))))
    /\ UNCHANGED <<text, stored, verdict>>

Done == stage \in {"connected", "bound"} /\ UNCHANGED vars

Next == ValidateNode \/ DbStart \/ ValidateListening \/ HttpStart \/ Done
Spec == Init /\ [][Next]_vars

-----------------------------------------------------------------------------
(* Properties.                                                             *)

\* What db_start() reads of a URL that validate() has printed is what was read
\* of the configured one, with its defaults for port and database; but a URL
\* whose scheme is empty is printed without its authority, and the port is lost
\* of a host in brackets that has 0 behind its first colon.
NodeSurvives ==
    stage = "connected" /\ verdict = "stored" =>
        LET u == Read(text)
            behind == Rest(u.host, {":"})
            zero   == Len(behind) > 1 /\ behind[2] = "0"
        IN  u.scheme # <<>> =>
                used = [family |-> "node", host |-> u.host,
                        port |-> IF u.port = 0 \/ zero THEN 5432 ELSE u.port,
                        dbname |-> IF HasSegments(u) THEN Tail(u.path) ELSE <<"postgres">>]

\* Nothing of user and password remains in the value that is kept, and printed
\* in logs, unless the host did not resolve.
CredentialsRemoved ==
    verdict = "stored" => \A secret \in Secrets : ~Contains(stored, secret)

\* The addresses that the configured text stands for.
Told(host) ==
    CASE host.form = "dotted" -> {Ip("V4", host.octets)}
      [] host.form = "colons" -> {Ip("V6", InetPton6(host))}
      [] host.form = "name" -> ToSet(host.answers)

\* README.md:1081: HTTP_LISTENING is the IP address to listen on.
ListensWhereTold ==
    stage = "bound" /\ used # Nothing => used \in Told(text.host)

\* Each reading of an IPv4 literal turns its octets around, and nothing else does: a
\* literal comes out right if validate() has printed it in between (it is read twice),
\* a name if validate() has not put a literal in its place.
TurnedByEachReading ==
    stage = "bound" /\ used.family = "V4" =>
        LET Reading(read) == IF read THEN 1 ELSE 0
            readings == Reading(stored # text /\ text.host.form = "dotted")
                        + Reading(stored.host.form = "dotted")
        IN  \E ip \in Told(text.host) :
                used.data = IF readings = 1 THEN Reverse(ip.data) ELSE ip.data

\* An IPv6 address is listened on if all its groups print with four digits, but
\* for one run of zeros, and is not listened on at all if not: another address
\* is bound only for those that are taken to embed an IPv4 address.
EightGroups(told) == [i \in 1 .. 8 |-> 256 * told[2 * i - 1] + told[2 * i]]
ZerosAmong(group) == {i \in 1 .. 8 : group[i] = 0}
TakenToEmbed(group) ==
    /\ 1 .. 4 \subseteq ZerosAmong(group) /\ 6 \in ZerosAmong(group) /\ group[5] \in {0, 65535}
    /\ ~(5 \in ZerosAmong(group) /\ group[7] = 256 /\ group[8] = 0)
PrintsUnchanged(group) ==
    LET zeros == ZerosAmong(group)
    IN  /\ \A i \in 1 .. 8 : group[i] = 0 \/ group[i] >= 4096
        /\ zeros # {} => zeros = Min(zeros) .. Max(zeros) /\ Cardinality(zeros) > 1
ListenedOn(told) ==
    CASE TakenToEmbed(EightGroups(told)) ->
             Ip("V6", [i \in 1 .. 16 |-> IF i > 13 /\ told[13] = 0 THEN told[i] ELSE 0])
      [] ~TakenToEmbed(EightGroups(told)) /\ PrintsUnchanged(EightGroups(told))  -> Ip("V6", told)
      [] ~TakenToEmbed(EightGroups(told)) /\ ~PrintsUnchanged(EightGroups(told)) -> Nothing
SixListening ==
    stage = "bound" /\ text.host.form = "colons" /\ InetPton6(text.host) # <<>> =>
        used = ListenedOn(InetPton6(text.host))

================================================================================
