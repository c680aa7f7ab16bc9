------------------------------ MODULE UrlObject ------------------------------
(***************************************************************************)
(* A Url in the hands of a caller: the calls that change it, of which some *)
(* throw half done, the parameters of its query, and normalize().          *)
(***************************************************************************)
EXTENDS Url

CONSTANTS
    SomeUrls,           \* texts of which objects are made
    SomeAssigned,       \* texts that are assigned to them
    SomeSchemes, SomeAuthorities, SomeHosts, SomeUsers,
    SomePorts,
    SomePaths,          \* given to set_path() and set_path_query_fragment()
    SomeQueries,        \* given to set_query() and set_fragment()
    SomeRawQueries,     \* given to set_raw_query() and set_raw_fragment(), encoded
    SomeParameters,     \* pairs of a name and a value
    MaxUrlCalls         \* bound of the model: calls on one object

ASSUME UrlTextsAssumption ==
    SomeUrls \cup SomeAssigned \cup SomeSchemes \cup SomeAuthorities \cup SomeHosts \cup SomeUsers
    \cup SomePaths \cup SomeQueries \cup SomeRawQueries \subseteq Seq(STRING)

\* Those of which there is a numeral.
ASSUME PortsAssumption == SomePorts \subseteq {0, 80, 5432, 6543}

\* What is to be encoded is given character by character: an escape there is a
\* "%" and what follows it.
NoEscapes(s) == \A i \in 1 .. Len(s) : s[i] \notin DOMAIN Escapes \cup {Broken}
ASSUME PlainAssumption ==
    /\ \A s \in SomeQueries : NoEscapes(s)
    /\ SomeParameters \subseteq {p \in Seq(STRING) \X Seq(STRING) : NoEscapes(p[1]) /\ NoEscapes(p[2])}
\* A query that the caller has encoded ends at no "#".
ASSUME EncodedAssumption == \A s \in SomeRawQueries : ~Contains(s, "#")

VARIABLES
    url,            \* the object; Thrown when there is none
    parameters,     \* history: what the callers made the query of
    lastCall,       \* history: the last call
    urlCalls        \* bound: calls so far

urlVars == <<url, parameters, lastCall, urlCalls>>

-----------------------------------------------------------------------------
(* The query.                                                              *)

\* What is between the ampersands; nothing behind the last one is nothing.
Pieces(query) ==
    LET parts == Between(query, "&")
    IN  IF Last(parts) = <<>> THEN Front(parts) ELSE parts
Parameters(query, Convert(_)) ==
    [i \in 1 .. Len(Pieces(query)) |->
        LET rest == Rest(Pieces(query)[i], {"="})
        IN  <<Convert(Before(Pieces(query)[i], {"="})), IF rest = <<>> THEN <<>> ELSE Convert(Tail(rest))>>]

PlusIsSpace(s) == [i \in 1 .. Len(s) |-> IF s[i] = "+" THEN " " ELSE s[i]]
GetQueryParameters(u) == Parameters(u.query, LAMBDA s : Decode(PlusIsSpace(s)))

WithParameter(u, p) ==
    [u EXCEPT !.query = (IF @ = <<>> THEN <<>> ELSE Append(@, "&"))
        \o Encode(p[1], ReservedQueryParam) \o <<"=">> \o Encode(p[2], ReservedQueryParam)]

-----------------------------------------------------------------------------
(* The path.                                                               *)

\* Variant with a bug: the segments of a path are popped, whatever they are.
PoppedAlways(done) == done # <<>>
Popped(done) == done # <<>> /\ Last(done) # <<"..">>

NormalizedSegments(u) ==
    LET Step(done, s) ==
            CASE s = <<".">> -> done
              [] s = <<"..">> /\ Popped(done) -> Front(done)
              [] s = <<"..">> /\ done = <<>> /\ u.scheme # <<>> -> done
              [] OTHER -> Append(done, s)
    IN  FoldLeft(Step, <<>>, Segments(u.path))

\* build_path(): what looks like a scheme is not left in front.
BuildPath(u, segments, leading, trailing) ==
    LET start == CASE leading -> <<"/">>
                   [] ~leading /\ u.scheme = <<>> /\ Contains(segments[1], ":") -> <<".", "/">>
                   [] OTHER -> <<>>
        Joined(path, i) == path \o (IF i = 1 THEN start ELSE <<"/">>) \o segments[i]
    IN  FoldLeftDomain(Joined, <<>>, segments)
        \o (IF trailing THEN <<"/">> ELSE <<>>)

Normalized(u) ==
    IF u.path = <<>> THEN u
    ELSE [u EXCEPT !.path =
            BuildPath(u, NormalizedSegments(u), StartsWith(@, "/"), Last(@) = "/")]

-----------------------------------------------------------------------------
(* The calls.                                                              *)
NoUrlObject == url = Thrown /\ parameters = <<>> /\ lastCall = "none" /\ urlCalls = 0
UrlInit ==
    /\ url \in {Parse(t) : t \in SomeUrls} \ {Thrown}
    /\ parameters = GetQueryParameters(url) /\ lastCall = "none" /\ urlCalls = 0

Called(name, u, ps) ==
    /\ url # Thrown /\ urlCalls < MaxUrlCalls
    /\ url' = u /\ parameters' = ps /\ lastCall' = name /\ urlCalls' = urlCalls + 1
\* A call that leaves the query alone.
Changed(name, u) == Called(name, u, parameters)

SetScheme(s) == Changed("set_scheme", [url EXCEPT !.scheme = s])
SetHost(s) == Changed("set_host", [url EXCEPT !.host = s])
SetPort(n) == Changed("set_port", [url EXCEPT !.port = n])
SetUserInfo(s) == Changed("set_user_info", [url EXCEPT !.user = Decode(s)])
SetPath(s) == Changed("set_path", [url EXCEPT !.path = Decode(s)])
SetFragment(s) == Changed("set_fragment", [url EXCEPT !.fragment = Encode(s, {})])
SetRawFragment(s) == Changed("set_raw_fragment", [url EXCEPT !.fragment = s])
Normalize == Changed("normalize", Normalized(url))

\* When the text is refused, user, host and port are cleared before.
SetAuthority(s) ==
    LET parsed  == Authority(Before(s, {"/", "?", "#"}))
        From(u) == [url EXCEPT !.user = u.user, !.host = u.host, !.port = u.port]
    IN  Changed("set_authority", From(IF Throws(parsed) THEN NoUrl ELSE parsed))

SetPathQueryFragment(s) ==
    LET u == WithPathQueryFragment(url, s)
    IN  Called("set_path_query_fragment", u, GetQueryParameters(u))

\* set_query() escapes a plus, which stands for itself then.
SetQuery(s) ==
    Called("set_query", [url EXCEPT !.query = Encode(s, ReservedQuery)], Parameters(s, LAMBDA x : x))
SetRawQuery(s) ==
    Called("set_raw_query", [url EXCEPT !.query = s], Parameters(s, LAMBDA x : Decode(PlusIsSpace(x))))

\* Behind an ampersand there is a parameter without a name first.
AddQueryParameter(p) ==
    LET unnamed == url.query # <<>> /\ Last(url.query) = "&"
    IN  Called("add_query_parameter", WithParameter(url, p),
               parameters \o (IF unnamed THEN <<<<<<>>, <<>>>>>> ELSE <<>>) \o <<p>>)
SetQueryParameters(ps) ==
    Called("set_query_parameters", FoldLeft(WithParameter, [url EXCEPT !.query = <<>>], ps), ps)

\* operator= clears all; a refused text leaves the scheme, if it has one with
\* something behind.
Assign(text) ==
    LET u == Parse(text)
        scheme == Before(text, {":", "?", "#", "/"})
        left == IF Len(text) = Len(scheme) + 1 THEN NoUrl ELSE [NoUrl EXCEPT !.scheme = scheme]
    IN  IF Throws(u) THEN Called("assign", left, <<>>) ELSE Called("assign", u, GetQueryParameters(u))
\* url = url.to_string(), when this does not throw.  User and host are printed as
\* they are: a question mark in them begins the query.
Reprint ==
    LET u == Parse(UrlText(url))
        cut == url.scheme # <<>> /\ \E c \in {"?", "#"} : Contains(url.scheme \o url.user \o url.host, c)
    IN  /\ ~Throws(u)
        /\ Called("reprint", u, IF cut THEN GetQueryParameters(u) ELSE parameters)
ClearUrl == Called("clear", NoUrl, <<>>)

UrlNext ==
    \/ Normalize \/ Reprint \/ ClearUrl
    \/ \E s \in SomeSchemes : SetScheme(s)
    \/ \E s \in SomeHosts : SetHost(s)
    \/ \E n \in SomePorts : SetPort(n)
    \/ \E s \in SomeUsers : SetUserInfo(s)
    \/ \E s \in SomePaths : SetPath(s) \/ SetPathQueryFragment(s)
    \/ \E s \in SomeAuthorities : SetAuthority(s)
    \/ \E s \in SomeQueries : SetQuery(s) \/ SetFragment(s)
    \/ \E s \in SomeRawQueries : SetRawQuery(s) \/ SetRawFragment(s)
    \/ \E p, q \in SomeParameters : AddQueryParameter(p) \/ SetQueryParameters(<<p, q>>)
    \/ \E text \in SomeAssigned : Assign(text)

UrlSpec == UrlInit /\ [][UrlNext]_urlVars

-----------------------------------------------------------------------------
(* Properties.                                                             *)

\* get_query_parameters() gives back the names and values that callers have put
\* into the query, whatever characters they are of, and whatever other calls, or
\* printing and parsing, came in between.
ParametersComeBack == url # Thrown => GetQueryParameters(url) = parameters

\* Where a path leads: from the root or from here, how many directories up, and
\* down which names.  Above the root is the root.
Where(u) ==
    LET root == u.scheme # <<>> \/ StartsWith(u.path, "/")
        Walk(w, s) ==
            CASE s = <<".">> -> w
              [] s = <<"..">> /\ w.down # <<>> -> [w EXCEPT !.down = Front(@)]
              [] s = <<"..">> /\ w.down = <<>> -> [w EXCEPT !.up = IF root THEN 0 ELSE @ + 1]
              [] OTHER -> [w EXCEPT !.down = Append(@, s)]
    IN  FoldLeft(Walk, [root |-> root, up |-> 0, down |-> <<>>], Segments(u.path))

\* normalize() leads to the same place by a path without detours that is not read
\* as a scheme.  (The path of a relative URL of which nothing is left becomes "/"
\* or empty, as the last character was, wherever it led.)
NormalizedLeadsThere ==
    [][lastCall' = "normalize" =>
        LET before == Where(url)
            after  == Segments(url'.path)
        IN  /\ IF url.scheme = <<>> /\ url.path # <<>> /\ before.up = 0 /\ before.down = <<>> /\ after = <<>>
               THEN url'.path = IF Last(url.path) = "/" THEN <<"/">> ELSE <<>>
               ELSE Where(url') = before
            /\ \A i \in 1 .. Len(after) :
                  /\ after[i] = <<"..">> => url.scheme = <<>> /\ \A j \in 1 .. i : after[j] = <<"..">>
                  /\ after[i] = <<".">> => i = 1 /\ Contains(after[2], ":")
            /\ url.scheme = <<>> => Parse(UrlText(url')).scheme = <<>>]_urlVars

==============================================================================
