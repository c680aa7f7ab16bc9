---------------------------------- MODULE Url ----------------------------------
(***************************************************************************)
(* UrlHelpers::Url: parsing a text, and printing it again.  A text is a    *)
(* sequence of symbols: a delimiter, an escape, a numeral, or a word for   *)
(* any characters that need no escape.                                     *)
(***************************************************************************)
EXTENDS Integers, SequencesExt

\* Numerals and escapes that occur, and what they mean.
Numerals == [w \in {"0", "80", "5432", "6543", "70000"} |->
    CASE w = "0" -> 0 [] w = "80" -> 80 [] w = "5432" -> 5432 [] w = "6543" -> 6543 [] w = "70000" -> 70000]
Numeral(n) == CHOOSE w \in DOMAIN Numerals : Numerals[w] = n
Escapes == [w \in {"%23", "%25", "%26", "%2b", "%2f", "%3a", "%3d", "%3f", "%40", "%5b", "%5d", "%20"} |->
    CASE w = "%23" -> "#" [] w = "%25" -> "%" [] w = "%26" -> "&" [] w = "%2b" -> "+"
      [] w = "%2f" -> "/" [] w = "%3a" -> ":" [] w = "%3d" -> "=" [] w = "%3f" -> "?"
      [] w = "%40" -> "@" [] w = "%5b" -> "[" [] w = "%5d" -> "]" [] w = "%20" -> " "]
Broken == "%zz"

Decode(s) ==
    IF Contains(s, Broken) \/ Contains(s, "%") THEN <<>>
    ELSE [i \in 1 .. Len(s) |-> IF s[i] \in DOMAIN Escapes THEN Escapes[s[i]] ELSE s[i]]

Illegal == {"%", "[", "]", " "}
ReservedPath == {"?", "#"}
ReservedQuery == {"?", "#", "/", ":", "+", "@"}
\* Variant with a bug: the delimiters of parameters are no reserved characters.
ReservedAsInQuery == ReservedQuery
ReservedQueryParam == ReservedQuery \cup {"&", "="}

Encode(s, reserved) ==
    [i \in 1 .. Len(s) |->
        IF s[i] \in Illegal \cup reserved THEN CHOOSE w \in DOMAIN Escapes : Escapes[w] = s[i] ELSE s[i]]

\* The part of s before the first of some delimiters, and the part from there on.
Before(s, delimiters) ==
    LET i == SelectInSeq(s, LAMBDA c : c \in delimiters)
    IN  IF i = 0 THEN s ELSE SubSeq(s, 1, i - 1)
Rest(s, delimiters) == SubSeq(s, Len(Before(s, delimiters)) + 1, Len(s))
StartsWith(s, c) == s # <<>> /\ s[1] = c
AfterLast(s, c) == SubSeq(s, SelectLastInSeq(s, LAMBDA x : x = c) + 1, Len(s))

NoUrl == [scheme |-> <<>>, user |-> <<>>, host |-> <<>>, port |-> 0,
          path |-> <<>>, query |-> <<>>, fragment |-> <<>>]
\* An exception, in the place of a result.
Thrown == [NoUrl EXCEPT !.scheme = <<"thrown">>]
Throws(u) == u = Thrown

\* stoi() reads the number a text begins with, whatever comes behind it.
ValidPorts == 1 .. 65535
PortNumber(s) ==
    IF s = <<>> THEN 0
    ELSE IF s[1] \in DOMAIN Numerals /\ Numerals[s[1]] \in ValidPorts THEN Numerals[s[1]] ELSE -1

WithPort(u, s) == IF PortNumber(s) < 0 THEN Thrown ELSE [u EXCEPT !.port = PortNumber(s)]

\* In brackets, a host may hold colons.
HostAndPort(s) ==
    LET bracket == StartsWith(s, "[")
        host == IF bracket THEN Before(Tail(s), {"]"}) ELSE Before(s, {":"})
        rest == IF bracket THEN Tail(Rest(Tail(s), {"]"})) ELSE Rest(s, {":"})
    IN  CASE s = <<>> -> NoUrl
          [] s # <<>> /\ bracket /\ ~Contains(Tail(s), "]") -> Thrown
          [] OTHER -> WithPort([NoUrl EXCEPT !.host = host],
                               IF StartsWith(rest, ":") THEN Tail(rest) ELSE <<>>)

\* Each '@' starts again: only what is between the last two is the user.
Authority(s) ==
    LET at == SelectLastInSeq(s, LAMBDA c : c = "@")
        u  == HostAndPort(AfterLast(s, "@"))
    IN  IF at = 0 \/ Throws(u) THEN u
        ELSE [u EXCEPT !.user = AfterLast(SubSeq(s, 1, at - 1), "@")]

WithPathQueryFragment(u, s) ==
    LET behind == Rest(s, {"?", "#"})
        query  == IF StartsWith(behind, "?") THEN Before(Tail(behind), {"#"}) ELSE <<>>
        hash   == Rest(behind, {"#"})
    IN  [u EXCEPT !.path = Decode(Before(s, {"?", "#"})), !.query = query,
                  !.fragment = IF hash = <<>> THEN <<>> ELSE Tail(hash)]

Parse(text) ==
    LET scheme == Before(text, {":", "?", "#", "/"})
        rest   == Tail(Rest(text, {":", "?", "#", "/"}))
        local  == SubSeq(rest, 3, Len(rest))    \* behind "//"
        parsed == Authority(Before(local, {"/", "?", "#"}))
        named  == StartsWith(Rest(text, {":", "?", "#", "/"}), ":") /\ text[1] \notin {".", ".."}
    IN  CASE ~named -> WithPathQueryFragment(NoUrl, text)
          [] named /\ rest = <<>> -> Thrown
          [] OTHER ->
                IF IsPrefix(<<"/", "/">>, rest)
                THEN IF Throws(parsed) THEN Thrown
                     ELSE WithPathQueryFragment([parsed EXCEPT !.scheme = scheme],
                                                Rest(local, {"/", "?", "#"}))
                ELSE WithPathQueryFragment([NoUrl EXCEPT !.scheme = scheme], rest)

-----------------------------------------------------------------------------
WellKnownPort(scheme) ==
    CASE scheme = <<"postgresql">> -> 5432
      [] scheme = <<"http">> -> 80
      [] OTHER -> 0
Port(u) == IF u.port # 0 THEN u.port ELSE WellKnownPort(u.scheme)

\* Variant with a bug: a host is printed as it is.
Bare(host) == host
Bracketed(host) == IF Contains(host, ":") THEN <<"[">> \o host \o <<"]">> ELSE host
AuthorityOf(u) ==
    (IF u.user = <<>> THEN <<>> ELSE u.user \o <<"@">>)
    \o Bracketed(u.host)
    \o (IF Port(u) = 0 THEN <<>> ELSE <<":", Numeral(Port(u))>>)

\* The first line is a relative URL: its path only.
UrlText(u) ==
    LET authority == AuthorityOf(u)
        slash == IF u.path = <<>> THEN u.query # <<>> \/ u.fragment # <<>>
                 ELSE authority # <<>> /\ ~StartsWith(u.path, "/")
    IN  (IF u.scheme = <<>> THEN Encode(u.path, ReservedPath)
         ELSE u.scheme \o <<":">>
              \o (IF authority = <<>> /\ u.scheme # <<"file">> THEN <<>> ELSE <<"/", "/">> \o authority)
              \o (IF slash THEN <<"/">> ELSE <<>>) \o Encode(u.path, ReservedPath))
        \o (IF u.query = <<>> THEN <<>> ELSE <<"?">> \o u.query)
        \o (IF u.fragment = <<>> THEN <<>> ELSE <<"#">> \o u.fragment)

\* A text cut at each delimiter.
Between(s, delimiter) ==
    LET Cut(parts, c) ==
            IF c = delimiter THEN Append(parts, <<>>)
            ELSE Append(Front(parts), Append(Last(parts), c))
    IN  FoldLeft(Cut, <<<<>>>>, s)

\* get_path_segments(): nothing is between two slashes that meet.
Segments(path) ==
    LET Taken(segments, part) == IF part = <<>> THEN segments ELSE Append(segments, part)
    IN  FoldLeft(Taken, <<>>, Between(path, "/"))
HasSegments(u) == \E i \in 1 .. Len(u.path) : u.path[i] # "/"

================================================================================
