------------------------------- MODULE UrlProofs -------------------------------
(* What TLAPS proves of URLs: of those that are configured for the nodes, and *)
(* of one in the hands of a caller.  The lemmas about least elements and      *)
(* induction are those of AddressesProofs.                                    *)
EXTENDS UrlObject, AddressesProofs

-----------------------------------------------------------------------------
(* Where a text is cut.                                                    *)

EscapeSymbols == {"%23", "%25", "%26", "%2b", "%2f", "%3a", "%3d", "%3f", "%40", "%5b", "%5d", "%20"}
EscapedSymbols == {"#", "%", "&", "+", "/", ":", "=", "?", "@", "[", "]", " "}
\* The strings; the provers are not told that those of a module are some of them.
Symbols ==
    STRING \cup EscapeSymbols \cup EscapedSymbols \cup DOMAIN Numerals \cup {"postgresql", "postgres", "."}

LEMMA FirstSelected ==
    ASSUME NEW S, NEW s \in Seq(S), NEW D, NEW n \in 0 .. Len(s),
           \A i \in 1 .. n : s[i] \notin D, n < Len(s) => s[n + 1] \in D
    PROVE  /\ SelectInSeq(s, LAMBDA c : c \in D) = IF n < Len(s) THEN n + 1 ELSE 0
           /\ Before(s, D) = SubSeq(s, 1, n)
           /\ Rest(s, D) = SubSeq(s, n + 1, Len(s))
<1> DEFINE I == {i \in 1 .. Len(s) : s[i] \in D}
           first == SelectInSeq(s, LAMBDA c : c \in D)
<1>0. Len(s) \in Nat
  BY LenProperties
<1>1. first = IF I # {} THEN Min(I) ELSE 0
  BY Zenon DEF SelectInSeq
<1>2. first = IF n < Len(s) THEN n + 1 ELSE 0
  <2>1. CASE n < Len(s)
    <3>1. I \subseteq Nat /\ n + 1 \in I /\ \A i \in I : i >= n + 1
      BY <1>0, <2>1
    <3>2. Min(I) \in I /\ Min(I) <= n + 1
      <4> HIDE DEF I
      <4> QED BY <3>1, MinOfNaturals
    <3>3. Min(I) = n + 1
      <4> DEFINE m == Min(I)
      <4> HIDE DEF I
      <4>1. m \in Nat /\ m <= n + 1 /\ m >= n + 1
        BY <3>1, <3>2
      <4> HIDE DEF m
      <4>2. m = n + 1
        BY <1>0, <4>1
      <4> QED BY <4>2 DEF m
    <3> QED BY <1>1, <2>1, <3>1, <3>3
  <2>2. CASE ~(n < Len(s))
    <3>1. I = {}
      BY <1>0, <2>2
    <3> QED BY <1>1, <2>2, <3>1
  <2> QED BY <2>1, <2>2
<1>3. Before(s, D) = IF first = 0 THEN s ELSE SubSeq(s, 1, first - 1)
  BY Zenon DEF Before
<1>4. Before(s, D) = SubSeq(s, 1, n)
  <2>1. CASE n < Len(s)
    <3>1. first = n + 1 /\ first - 1 = n /\ first # 0
      BY <1>2, <2>1
    <3> QED BY <1>3, <3>1, Zenon
  <2>2. CASE ~(n < Len(s))
    <3>1. n = Len(s) /\ first = 0
      BY <1>0, <1>2, <2>2
    <3>2. SubSeq(s, 1, Len(s)) = s
      BY SubSeqFull
    <3> QED BY <1>3, <3>1, <3>2, Zenon
  <2> QED BY <2>1, <2>2
<1>5. Len(Before(s, D)) = n
  BY <1>0, <1>4
<1> HIDE DEF I, first
<1> QED BY <1>2, <1>4, <1>5, Zenon DEF Rest, first

LEMMA SomeFirst ==
    ASSUME NEW s \in Seq(Symbols), NEW D
    PROVE  \E n \in 0 .. Len(s) :
               (\A i \in 1 .. n : s[i] \notin D) /\ (n < Len(s) => s[n + 1] \in D)
<1> DEFINE I == {i \in 1 .. Len(s) : s[i] \in D}
<1>0. Len(s) \in Nat
  BY LenProperties
<1>1. CASE I = {}
  <2>1. \A i \in 1 .. Len(s) : s[i] \notin D
    BY <1>1
  <2>2. Len(s) \in 0 .. Len(s) /\ ~(Len(s) < Len(s))
    BY <1>0
  <2> QED BY <2>1, <2>2
<1>2. CASE I # {}
  <2>1. Min(I) \in I /\ \A i \in I : Min(I) <= i
    <3>1. I \subseteq Nat
      OBVIOUS
    <3> HIDE DEF I
    <3> QED BY <1>2, <3>1, MinOfNaturals
  <2>2. PICK m \in I : \A i \in I : m <= i
    BY <2>1
  <2>3. m \in 1 .. Len(s) /\ s[m] \in D
    OBVIOUS
  <2>4. m - 1 \in 0 .. Len(s) /\ (m - 1) + 1 = m
    BY <1>0, <2>3
  <2>5. \A i \in 1 .. m - 1 : s[i] \notin D
    BY <1>0, <2>2, <2>3
  <2> QED BY <2>3, <2>4, <2>5
<1> QED BY <1>1, <1>2

\* A text is put together again by the parts it is cut into, and two parts are
\* found again where the cut falls between them.
LEMMA CutApart ==
    ASSUME NEW s \in Seq(Symbols), NEW D
    PROVE  /\ Before(s, D) \in Seq(Symbols) /\ Rest(s, D) \in Seq(Symbols)
           /\ Len(Before(s, D)) <= Len(s)
           /\ Len(Rest(s, D)) = Len(s) - Len(Before(s, D))
           /\ \A i \in 1 .. Len(Before(s, D)) : Before(s, D)[i] = s[i] /\ s[i] \notin D
           /\ \A i \in 1 .. Len(Rest(s, D)) : Rest(s, D)[i] = s[Len(Before(s, D)) + i]
           /\ Rest(s, D) # <<>> => Rest(s, D)[1] \in D
<1>0. Len(s) \in Nat
  BY LenProperties
<1>1. PICK n \in 0 .. Len(s) : (\A i \in 1 .. n : s[i] \notin D) /\ (n < Len(s) => s[n + 1] \in D)
  BY SomeFirst
<1>2. Before(s, D) = SubSeq(s, 1, n) /\ Rest(s, D) = SubSeq(s, n + 1, Len(s))
  BY <1>1, FirstSelected
<1>3. \A i \in 1 .. Len(s) : s[i] \in Symbols
  BY ElementOfSeq
<1>4. /\ SubSeq(s, 1, n) \in Seq(Symbols) /\ Len(SubSeq(s, 1, n)) = n
      /\ \A i \in 1 .. n : SubSeq(s, 1, n)[i] = s[i]
  BY <1>0, <1>3, SubSeqProperties
<1>5. /\ SubSeq(s, n + 1, Len(s)) \in Seq(Symbols) /\ Len(SubSeq(s, n + 1, Len(s))) = Len(s) - n
      /\ \A i \in 1 .. Len(s) - n : SubSeq(s, n + 1, Len(s))[i] = s[n + i]
  BY <1>0, <1>3, SubSeqProperties
<1>6. SubSeq(s, n + 1, Len(s)) # <<>> => n < Len(s)
  BY <1>0, <1>5, EmptySeq
<1> DEFINE head == Before(s, D)
           tail == Rest(s, D)
<1>7. /\ head \in Seq(Symbols) /\ tail \in Seq(Symbols) /\ Len(head) = n /\ Len(tail) = Len(s) - n
      /\ \A i \in 1 .. n : head[i] = s[i]
      /\ \A i \in 1 .. Len(s) - n : tail[i] = s[n + i]
      /\ tail # <<>> => n < Len(s)
  BY <1>2, <1>4, <1>5, <1>6
<1>8. tail # <<>> => tail[1] \in D
  BY <1>0, <1>1, <1>7
<1> HIDE DEF head, tail
<1>9. /\ Len(head) <= Len(s) /\ Len(tail) = Len(s) - Len(head)
      /\ \A i \in 1 .. Len(head) : head[i] = s[i] /\ s[i] \notin D
      /\ \A i \in 1 .. Len(tail) : tail[i] = s[Len(head) + i]
  BY <1>0, <1>1, <1>7
<1> QED BY <1>7, <1>8, <1>9 DEF head, tail

LEMMA CutTogether ==
    ASSUME NEW a \in Seq(Symbols), NEW b \in Seq(Symbols), NEW D,
           \A i \in 1 .. Len(a) : a[i] \notin D, b # <<>> => b[1] \in D
    PROVE  Before(a \o b, D) = a /\ Rest(a \o b, D) = b
<1> DEFINE s == a \o b
<1>0. Len(a) \in Nat /\ Len(b) \in Nat /\ (b # <<>> => Len(b) > 0) /\ (b = <<>> => Len(b) = 0)
  BY LenProperties, EmptySeq
<1>1. /\ s \in Seq(Symbols) /\ Len(s) = Len(a) + Len(b)
      /\ \A i \in 1 .. Len(s) : s[i] = IF i <= Len(a) THEN a[i] ELSE b[i - Len(a)]
  BY ConcatProperties
<1>2. \A i \in 1 .. Len(a) : s[i] \notin D
  BY <1>0, <1>1
<1>3. Len(a) < Len(s) => s[Len(a) + 1] \in D
  BY <1>0, <1>1
<1>4. Before(s, D) = SubSeq(s, 1, Len(a)) /\ Rest(s, D) = SubSeq(s, Len(a) + 1, Len(s))
  <2> HIDE DEF s
  <2>1. Len(a) \in 0 .. Len(s)
    BY <1>0, <1>1
  <2> QED BY <1>1, <1>2, <1>3, <2>1, FirstSelected
<1>5. SubSeq(s, 1, Len(a)) = a
  <2>1. /\ SubSeq(s, 1, Len(a)) \in Seq(Symbols) /\ Len(SubSeq(s, 1, Len(a))) = Len(a)
        /\ \A i \in 1 .. Len(a) : SubSeq(s, 1, Len(a))[i] = a[i]
    BY <1>0, <1>1, ElementOfSeq, SubSeqProperties
  <2> QED BY <2>1, SeqEqual
<1>6. SubSeq(s, Len(a) + 1, Len(s)) = b
  <2>1. /\ SubSeq(s, Len(a) + 1, Len(s)) \in Seq(Symbols) /\ Len(SubSeq(s, Len(a) + 1, Len(s))) = Len(b)
        /\ \A i \in 1 .. Len(b) : SubSeq(s, Len(a) + 1, Len(s))[i] = b[i]
    BY <1>0, <1>1, ElementOfSeq, SubSeqProperties
  <2> QED BY <2>1, SeqEqual
<1> QED BY <1>4, <1>5, <1>6

LastOf(s, c) == SelectLastInSeq(s, LAMBDA x : x = c)
LEMMA LastSelected ==
    ASSUME NEW s \in Seq(Symbols), NEW c
    PROVE  /\ LastOf(s, c) \in 0 .. Len(s)
           /\ AfterLast(s, c) = SubSeq(s, LastOf(s, c) + 1, Len(s))
           /\ LastOf(s, c) = 0 <=> \A i \in 1 .. Len(s) : s[i] # c
           /\ LastOf(s, c) # 0 => s[LastOf(s, c)] = c
           /\ \A i \in LastOf(s, c) + 1 .. Len(s) : s[i] # c
<1> DEFINE I == {i \in 1 .. Len(s) : s[i] = c}
<1>0. Len(s) \in Nat
  BY LenProperties
<1>1. PICK n : n = LastOf(s, c)
  OBVIOUS
<1>2. n = IF I # {} THEN Max(I) ELSE 0
  BY <1>1, Zenon DEF LastOf, SelectLastInSeq
<1>3. AfterLast(s, c) = SubSeq(s, n + 1, Len(s))
  BY <1>1, Zenon DEF LastOf, AfterLast
<1>4. CASE I = {}
  <2>1. n = 0 /\ \A i \in 1 .. Len(s) : s[i] # c
    BY <1>2, <1>4
  <2>2. n \in 0 .. Len(s) /\ (\A i \in n + 1 .. Len(s) : s[i] # c)
    BY <1>0, <2>1
  <2> QED BY <1>1, <1>3, <2>1, <2>2
<1>5. CASE I # {}
  <2>1. n \in I /\ \A i \in I : i <= n
    <3>1. I \subseteq 0 .. Len(s)
      BY <1>0
    <3> HIDE DEF I
    <3> QED BY <1>0, <1>2, <1>5, <3>1, MaxOfBounded
  <2>2. n \in 1 .. Len(s) /\ s[n] = c
    BY <2>1
  <2>3. \A i \in n + 1 .. Len(s) : s[i] # c
    <3> SUFFICES ASSUME NEW i \in n + 1 .. Len(s), s[i] = c PROVE FALSE
      OBVIOUS
    <3>1. i \in 1 .. Len(s) /\ i > n
      BY <1>0, <2>2
    <3>2. i <= n
      BY <2>1, <3>1
    <3> QED BY <1>0, <2>2, <3>1, <3>2
  <2>4. n \in 0 .. Len(s) /\ n # 0
    BY <1>0, <2>2
  <2> QED BY <1>1, <1>3, <2>2, <2>3, <2>4
<1> QED BY <1>4, <1>5

-----------------------------------------------------------------------------
(* Symbols: numerals, and what is escaped.                                 *)

LEMMA NumeralsAre ==
    /\ DOMAIN Numerals = {"0", "80", "5432", "6543", "70000"}
    /\ Numerals["0"] = 0 /\ Numerals["80"] = 80 /\ Numerals["5432"] = 5432
    /\ Numerals["6543"] = 6543 /\ Numerals["70000"] = 70000
BY DEF Numerals

\* The ports that a URL can have.
Ports == {0, 80, 5432, 6543}
LEMMA NumeralOfPort ==
    ASSUME NEW n \in Ports
    PROVE  Numeral(n) \in DOMAIN Numerals /\ Numerals[Numeral(n)] = n /\ Numeral(n) \in Symbols
<1>1. \E w \in DOMAIN Numerals : Numerals[w] = n
  BY NumeralsAre DEF Ports
<1>2. Numeral(n) \in DOMAIN Numerals /\ Numerals[Numeral(n)] = n
  BY <1>1 DEF Numeral
<1> QED BY <1>2 DEF Symbols

LEMMA EscapesAre ==
    DOMAIN Escapes = EscapeSymbols /\ \A w \in EscapeSymbols : Escapes[w] \in EscapedSymbols
<1>1. DOMAIN Escapes = EscapeSymbols
  BY DEF Escapes, EscapeSymbols
<1>2. \A w \in EscapeSymbols : Escapes[w] \in EscapedSymbols
  BY DEF Escapes, EscapeSymbols, EscapedSymbols
<1> QED BY <1>1, <1>2

LEMMA EscapeOf ==
    ASSUME NEW c \in Illegal \cup ReservedPath
    PROVE  \E w \in EscapeSymbols : Escapes[w] = c
<1>1. /\ Escapes["%23"] = "#" /\ Escapes["%25"] = "%" /\ Escapes["%3f"] = "?"
      /\ Escapes["%5b"] = "[" /\ Escapes["%5d"] = "]" /\ Escapes["%20"] = " "
  BY DEF Escapes
<1> QED BY <1>1 DEF Illegal, ReservedPath, EscapeSymbols

\* Decoded, a text holds no escape.  A text without any is found again when it is
\* encoded, which takes out what would end a path.
Unescaped(s) == s \in Seq(Symbols) /\ \A i \in 1 .. Len(s) : s[i] \notin EscapeSymbols \cup {Broken}

LEMMA Decoded ==
    ASSUME NEW s \in Seq(Symbols)
    PROVE  /\ Unescaped(Decode(s))
           /\ Len(Decode(s)) <= Len(s)
           /\ \A i \in 1 .. Len(Decode(s)) :
                  Decode(s)[i] = s[i] \/ (s[i] \in EscapeSymbols /\ Decode(s)[i] \in EscapedSymbols)
<1>0. Len(s) \in Nat /\ \A i \in 1 .. Len(s) : s[i] \in Symbols
  BY LenProperties, ElementOfSeq
<1>1. CASE Contains(s, Broken) \/ Contains(s, "%")
  BY <1>0, <1>1, EmptySeq DEF Decode, Unescaped
<1>2. CASE ~Contains(s, Broken) /\ ~Contains(s, "%")
  <2> DEFINE d == [i \in 1 .. Len(s) |-> IF s[i] \in EscapeSymbols THEN Escapes[s[i]] ELSE s[i]]
  <2>1. Decode(s) = d
    BY <1>2, EscapesAre DEF Decode
  <2>2. \A i \in 1 .. Len(s) : d[i] \in Symbols
    BY <1>0, EscapesAre DEF Symbols
  <2>3. d \in Seq(Symbols)
    BY <1>0, <2>2, SeqDef
  <2>4. Len(d) = Len(s)
    BY <1>0
  <2>5. \A i \in 1 .. Len(s) : d[i] \notin EscapeSymbols \cup {Broken}
    <3> TAKE i \in 1 .. Len(s)
    <3>1. s[i] # Broken
      BY <1>2 DEF Contains
    <3>2. EscapedSymbols \cap (EscapeSymbols \cup {Broken}) = {}
      BY DEF EscapedSymbols, EscapeSymbols, Broken
    <3> QED BY <3>1, <3>2, EscapesAre
  <2>6. \A i \in 1 .. Len(s) : d[i] = s[i] \/ (s[i] \in EscapeSymbols /\ d[i] \in EscapedSymbols)
    BY EscapesAre
  <2> HIDE DEF d
  <2> QED BY <1>0, <2>1, <2>3, <2>4, <2>5, <2>6 DEF Unescaped
<1> QED BY <1>1, <1>2

LEMMA EncodedAndDecoded ==
    ASSUME NEW p, Unescaped(p)
    PROVE  /\ Encode(p, ReservedPath) \in Seq(Symbols)
           /\ \A i \in 1 .. Len(Encode(p, ReservedPath)) : Encode(p, ReservedPath)[i] \notin ReservedPath
           /\ Decode(Encode(p, ReservedPath)) = p
<1> DEFINE e == Encode(p, ReservedPath)
<1>0. p \in Seq(Symbols) /\ Len(p) \in Nat /\ \A i \in 1 .. Len(p) : p[i] \in Symbols
  BY LenProperties, ElementOfSeq DEF Unescaped
<1>1. /\ e = [i \in 1 .. Len(p) |-> e[i]] /\ DOMAIN e = 1 .. Len(p)
      /\ \A i \in 1 .. Len(p) :
             IF p[i] \in Illegal \cup ReservedPath THEN e[i] \in EscapeSymbols /\ Escapes[e[i]] = p[i]
                                                   ELSE e[i] = p[i]
  <2>1. ASSUME NEW i \in 1 .. Len(p), p[i] \in Illegal \cup ReservedPath
        PROVE  LET w == CHOOSE x \in DOMAIN Escapes : Escapes[x] = p[i]
               IN  w \in EscapeSymbols /\ Escapes[w] = p[i]
    BY <2>1, EscapeOf, EscapesAre
  <2>2. e = [i \in 1 .. Len(p) |-> IF p[i] \in Illegal \cup ReservedPath
                                  THEN CHOOSE x \in DOMAIN Escapes : Escapes[x] = p[i] ELSE p[i]]
    BY Zenon DEF Encode
  <2> HIDE DEF e
  <2>3. DOMAIN e = 1 .. Len(p) /\ e = [i \in 1 .. Len(p) |-> e[i]]
    BY <2>2
  <2>4. ASSUME NEW i \in 1 .. Len(p), p[i] \in Illegal \cup ReservedPath
        PROVE  e[i] \in EscapeSymbols /\ Escapes[e[i]] = p[i]
    <3>1. e[i] = CHOOSE x \in DOMAIN Escapes : Escapes[x] = p[i]
      BY <2>2, <2>4
    <3> QED BY <2>1, <2>4, <3>1
  <2>5. ASSUME NEW i \in 1 .. Len(p), p[i] \notin Illegal \cup ReservedPath PROVE e[i] = p[i]
    BY <2>2, <2>5
  <2> QED BY <2>3, <2>4, <2>5
<1> HIDE DEF e
<1>2. e \in Seq(Symbols) /\ Len(e) = Len(p)
  <2>1. \A i \in 1 .. Len(p) : e[i] \in Symbols
    BY <1>0, <1>1 DEF Symbols
  <2>2. e \in [1 .. Len(p) -> Symbols]
    BY <1>1, <2>1
  <2>3. e \in Seq(Symbols)
    BY <1>0, <2>2, SeqDef
  <2> QED BY <1>0, <1>1, <2>3, LenProperties
<1>3. \A i \in 1 .. Len(e) : e[i] \notin ReservedPath \cup {"%", Broken}
  <2> TAKE i \in 1 .. Len(e)
  <2>1. EscapeSymbols \cap (ReservedPath \cup {"%", Broken}) = {}
    BY DEF EscapeSymbols, ReservedPath, Broken
  <2>2. p[i] # Broken
    BY <1>2 DEF Unescaped
  <2> QED BY <1>1, <1>2, <2>1, <2>2 DEF Illegal
<1>4. Decode(e) = [i \in 1 .. Len(p) |-> IF e[i] \in EscapeSymbols THEN Escapes[e[i]] ELSE e[i]]
  BY <1>2, <1>3, EscapesAre DEF Decode, Contains
<1>5. \A i \in 1 .. Len(p) : (IF e[i] \in EscapeSymbols THEN Escapes[e[i]] ELSE e[i]) = p[i]
  BY <1>1 DEF Unescaped
<1>6. Decode(e) = [i \in 1 .. Len(p) |-> p[i]]
  BY <1>4, <1>5
<1>7. p = [i \in 1 .. Len(p) |-> p[i]]
  BY <1>0, LenProperties
<1> QED BY <1>2, <1>3, <1>6, <1>7 DEF e

-----------------------------------------------------------------------------
(* Parsing.                                                                *)

\* Of which symbols a part of a text is made.
MadeOf(part, s) == \A i \in 1 .. Len(part) : \E j \in 1 .. Len(s) : part[i] = s[j]

LEMMA PortNumbersAre ==
    ASSUME NEW s
    PROVE  PortNumber(s) \in Ports \cup {-1}
<1>1. /\ 0 \notin ValidPorts /\ 70000 \notin ValidPorts
      /\ 80 \in Ports /\ 5432 \in Ports /\ 6543 \in Ports /\ 0 \in Ports
  BY DEF ValidPorts, Ports
<1>2. \A c \in DOMAIN Numerals : Numerals[c] \in ValidPorts => Numerals[c] \in Ports
  BY <1>1, NumeralsAre
<1> QED BY <1>1, <1>2 DEF PortNumber

\* A host: in brackets, or without a colon.
LEMMA HostIs ==
    ASSUME NEW s \in Seq(Symbols), s # <<>>, ~Throws(HostAndPort(s))
    PROVE  \E host \in Seq(Symbols), port \in Ports :
               /\ HostAndPort(s) = [NoUrl EXCEPT !.host = host, !.port = port]
               /\ MadeOf(host, s)
               /\ Contains(host, "]") => ~Contains(host, ":") /\ ~StartsWith(host, "[")
<1>0. Len(s) \in Nat /\ (s # <<>> => Len(s) > 0)
  BY LenProperties, EmptySeq
<1> DEFINE bracket == StartsWith(s, "[")
           host == IF bracket THEN Before(Tail(s), {"]"}) ELSE Before(s, {":"})
           rest == IF bracket THEN Tail(Rest(Tail(s), {"]"})) ELSE Rest(s, {":"})
           digits == IF StartsWith(rest, ":") THEN Tail(rest) ELSE <<>>
<1>1. HostAndPort(s) = WithPort([NoUrl EXCEPT !.host = host], digits)
  BY DEF HostAndPort, Throws
<1>2. PortNumber(digits) >= 0 /\ PortNumber(digits) \in Ports
  <2> HIDE DEF host, digits
  <2>1. ~(PortNumber(digits) < 0)
    BY <1>1 DEF WithPort, Throws
  <2>2. PortNumber(digits) \in Ports \cup {-1}
    BY PortNumbersAre
  <2> QED BY <2>1, <2>2 DEF Ports
<1>3. HostAndPort(s) = [NoUrl EXCEPT !.host = host, !.port = PortNumber(digits)]
  <2> HIDE DEF host, digits
  <2> QED BY <1>1, <1>2 DEF WithPort, NoUrl, Ports
<1>4. host \in Seq(Symbols) /\ MadeOf(host, s)
  <2>1. CASE bracket
    <3>1. Tail(s) \in Seq(Symbols) /\ Len(Tail(s)) = Len(s) - 1 /\ \A i \in 1 .. Len(Tail(s)) : Tail(s)[i] = s[i + 1]
      BY HeadTailProperties
    <3>2. PICK t : t = Tail(s)
      OBVIOUS
    <3>3. /\ host \in Seq(Symbols) /\ Len(host) <= Len(s) - 1
          /\ \A i \in 1 .. Len(host) : host[i] = Tail(s)[i]
      <4>1. host = Before(t, {"]"}) /\ t \in Seq(Symbols)
        BY <2>1, <3>1, <3>2
      <4> HIDE DEF host
      <4>2. host \in Seq(Symbols) /\ Len(host) <= Len(t) /\ \A i \in 1 .. Len(host) : host[i] = t[i]
        BY <4>1, CutApart
      <4> QED BY <3>1, <3>2, <4>2
    <3> HIDE DEF host
    <3>4. Len(host) \in Nat
      BY <3>3, LenProperties
    <3>5. \A i \in 1 .. Len(host) : i + 1 \in 1 .. Len(s) /\ host[i] = s[i + 1]
      BY <1>0, <3>1, <3>3, <3>4
    <3> QED BY <3>3, <3>5 DEF MadeOf
  <2>2. CASE ~bracket
    <3>1. host = Before(s, {":"})
      BY <2>2
    <3> HIDE DEF host
    <3>2. host \in Seq(Symbols) /\ Len(host) <= Len(s) /\ \A i \in 1 .. Len(host) : host[i] = s[i]
      BY <3>1, CutApart
    <3>3. Len(host) \in Nat
      BY <3>2, LenProperties
    <3> QED BY <1>0, <3>2, <3>3 DEF MadeOf
  <2> QED BY <2>1, <2>2
<1>5. Contains(host, "]") => ~Contains(host, ":") /\ ~StartsWith(host, "[")
  <2>1. CASE bracket
    <3>1. Tail(s) \in Seq(Symbols)
      BY HeadTailProperties
    <3>2. PICK t : t = Tail(s)
      OBVIOUS
    <3>3. host = Before(t, {"]"}) /\ t \in Seq(Symbols)
      BY <2>1, <3>1, <3>2
    <3> HIDE DEF host
    <3>4. \A i \in 1 .. Len(host) : host[i] # "]"
      BY <3>3, CutApart
    <3> QED BY <3>4 DEF Contains
  <2>2. CASE ~bracket
    <3>1. host = Before(s, {":"})
      BY <2>2
    <3> HIDE DEF host
    <3>2. host \in Seq(Symbols) /\ \A i \in 1 .. Len(host) : host[i] = s[i] /\ host[i] # ":"
      BY <3>1, CutApart
    <3>3. host # <<>> => host[1] = s[1]
      BY <3>2, EmptySeq, LenProperties
    <3> QED BY <2>2, <3>2, <3>3 DEF Contains, StartsWith
  <2> QED BY <2>1, <2>2
<1> HIDE DEF host, digits
<1> QED BY <1>2, <1>3, <1>4, <1>5

\* What is read of a URL, when nothing was thrown.
Parts ==
    [scheme : Seq(Symbols), user : Seq(Symbols), host : Seq(Symbols), port : Ports,
     path : Seq(Symbols), query : Seq(Symbols), fragment : Seq(Symbols)]
LEMMA NoUrlIs == NoUrl \in Parts
<1>1. <<>> \in Seq(Symbols) /\ 0 \in Ports
  BY EmptySeq DEF Ports
<1> QED BY <1>1 DEF NoUrl, Parts

\* What is behind the last of some symbols.
LEMMA BehindLast ==
    ASSUME NEW s \in Seq(Symbols), NEW c
    PROVE  /\ AfterLast(s, c) \in Seq(Symbols)
           /\ MadeOf(AfterLast(s, c), s) /\ \A i \in 1 .. Len(AfterLast(s, c)) : AfterLast(s, c)[i] # c
<1>0. Len(s) \in Nat /\ \A i \in 1 .. Len(s) : s[i] \in Symbols
  BY LenProperties, ElementOfSeq
<1>1. PICK n \in 0 .. Len(s) :
          AfterLast(s, c) = SubSeq(s, n + 1, Len(s)) /\ \A i \in n + 1 .. Len(s) : s[i] # c
  BY LastSelected
<1>2. /\ SubSeq(s, n + 1, Len(s)) \in Seq(Symbols) /\ Len(SubSeq(s, n + 1, Len(s))) = Len(s) - n
      /\ \A i \in 1 .. Len(s) - n : SubSeq(s, n + 1, Len(s))[i] = s[n + i]
  BY <1>0, SubSeqProperties
<1>3. \A i \in 1 .. Len(s) - n : n + i \in n + 1 .. Len(s) /\ n + i \in 1 .. Len(s)
  BY <1>0
<1> QED BY <1>1, <1>2, <1>3 DEF MadeOf

LEMMA AuthorityIs ==
    ASSUME NEW s \in Seq(Symbols), ~Throws(Authority(s))
    PROVE  /\ Authority(s) \in Parts
           /\ Authority(s).scheme = <<>>
           /\ MadeOf(Authority(s).host, AfterLast(s, "@"))
           /\ Contains(Authority(s).host, "]") =>
                  ~Contains(Authority(s).host, ":") /\ ~StartsWith(Authority(s).host, "[")
<1> DEFINE behind == AfterLast(s, "@")
           at == LastOf(s, "@")
           u == HostAndPort(behind)
           user == AfterLast(SubSeq(s, 1, at - 1), "@")
<1>0. behind \in Seq(Symbols)
  BY BehindLast
<1>1. Authority(s) = IF at = 0 \/ Throws(u) THEN u ELSE [u EXCEPT !.user = user]
  BY Zenon DEF Authority, LastOf
<1>2. at \in 0 .. Len(s)
  BY LastSelected
<1>3. user \in Seq(Symbols)
  <2> HIDE DEF at
  <2>1. Len(s) \in Nat /\ \A i \in 1 .. Len(s) : s[i] \in Symbols
    BY LenProperties, ElementOfSeq
  <2>2. \A i \in 1 .. at - 1 : s[i] \in Symbols
    BY <1>2, <2>1
  <2>3. SubSeq(s, 1, at - 1) \in Seq(Symbols)
    BY <1>2, <2>1, <2>2, SubSeqProperties
  <2> QED BY <2>3, BehindLast
<1> HIDE DEF at, user
<1>4. ~Throws(u)
  BY <1>1
<1>5. /\ u \in Parts /\ u.scheme = <<>> /\ MadeOf(u.host, behind)
      /\ Contains(u.host, "]") => ~Contains(u.host, ":") /\ ~StartsWith(u.host, "[")
  <2>1. CASE behind = <<>>
    <3>1. u = NoUrl
      BY <2>1 DEF HostAndPort
    <3>2. NoUrl.host = <<>> /\ NoUrl.scheme = <<>> /\ Len(<<>>) = 0
      BY EmptySeq DEF NoUrl
    <3> HIDE DEF u
    <3> QED BY <3>1, <3>2, NoUrlIs DEF MadeOf, Contains
  <2>2. CASE behind # <<>>
    <3> HIDE DEF behind
    <3>1. PICK host \in Seq(Symbols), port \in Ports :
              /\ u = [NoUrl EXCEPT !.host = host, !.port = port]
              /\ MadeOf(host, behind)
              /\ Contains(host, "]") => ~Contains(host, ":") /\ ~StartsWith(host, "[")
      BY <1>0, <1>4, <2>2, HostIs
    <3>2. u \in Parts /\ u.host = host /\ u.scheme = <<>>
      BY <3>1, NoUrlIs DEF Parts, NoUrl
    <3> QED BY <3>1, <3>2
  <2> QED BY <2>1, <2>2
<1> HIDE DEF u, behind
<1>6. Authority(s) \in Parts /\ Authority(s).host = u.host /\ Authority(s).scheme = <<>>
  BY <1>1, <1>3, <1>5 DEF Parts
<1> QED BY <1>5, <1>6 DEF behind

\* Two texts in one, and both ends of a text.
LEMMA Joined ==
    ASSUME NEW a \in Seq(Symbols), NEW b \in Seq(Symbols)
    PROVE  /\ a \o b \in Seq(Symbols) /\ Len(a \o b) = Len(a) + Len(b)
           /\ Len(a) \in Nat /\ Len(b) \in Nat
           /\ \A i \in 1 .. Len(a) : (a \o b)[i] = a[i]
           /\ \A i \in 1 .. Len(b) : (a \o b)[Len(a) + i] = b[i]
<1>1. Len(a) \in Nat /\ Len(b) \in Nat
  BY LenProperties
<1>2. PICK t : t = a \o b
  OBVIOUS
<1>3. /\ t \in Seq(Symbols) /\ Len(t) = Len(a) + Len(b)
      /\ \A i \in 1 .. Len(a) + Len(b) : t[i] = IF i <= Len(a) THEN a[i] ELSE b[i - Len(a)]
  BY <1>2, ConcatProperties
<1>4. \A i \in 1 .. Len(a) : t[i] = a[i]
  BY <1>1, <1>3
<1>5. \A i \in 1 .. Len(b) : t[Len(a) + i] = b[i]
  BY <1>1, <1>3, SMTT(40)
<1> QED BY <1>1, <1>2, <1>3, <1>4, <1>5

LEMMA Ends ==
    ASSUME NEW s \in Seq(Symbols), NEW n \in 0 .. Len(s)
    PROVE  /\ SubSeq(s, 1, n) \in Seq(Symbols) /\ Len(SubSeq(s, 1, n)) = n
           /\ \A i \in 1 .. n : SubSeq(s, 1, n)[i] = s[i]
           /\ SubSeq(s, n + 1, Len(s)) \in Seq(Symbols) /\ Len(SubSeq(s, n + 1, Len(s))) = Len(s) - n
           /\ \A i \in 1 .. Len(s) - n : SubSeq(s, n + 1, Len(s))[i] = s[n + i]
<1>1. Len(s) \in Nat /\ \A i \in 1 .. Len(s) : s[i] \in Symbols
  BY LenProperties, ElementOfSeq
<1>2. n \in Int /\ n + 1 \in Int /\ Len(s) \in Int
  BY <1>1
<1>3. /\ SubSeq(s, 1, n) \in Seq(Symbols) /\ Len(SubSeq(s, 1, n)) = n
      /\ \A i \in 1 .. n : SubSeq(s, 1, n)[i] = s[i]
  BY <1>1, <1>2, SubSeqProperties
<1>4. /\ SubSeq(s, n + 1, Len(s)) \in Seq(Symbols) /\ Len(SubSeq(s, n + 1, Len(s))) = Len(s) - n
      /\ \A i \in 1 .. Len(s) - n : SubSeq(s, n + 1, Len(s))[i] = s[n + i]
  BY <1>1, <1>2, SubSeqProperties
<1> QED BY <1>3, <1>4

LEMMA Behind ==
    ASSUME NEW s \in Seq(Symbols), s # <<>>
    PROVE  /\ Tail(s) \in Seq(Symbols) /\ Len(Tail(s)) = Len(s) - 1 /\ Len(s) \in Nat \ {0}
           /\ \A i \in 1 .. Len(s) - 1 : Tail(s)[i] = s[i + 1]
           /\ MadeOf(Tail(s), s)
<1>1. /\ Tail(s) \in Seq(Symbols) /\ Len(Tail(s)) = Len(s) - 1 /\ Len(s) \in Nat \ {0}
      /\ \A i \in 1 .. Len(s) - 1 : Tail(s)[i] = s[i + 1]
  BY HeadTailProperties, EmptySeq
<1>2. \A i \in 1 .. Len(s) - 1 : i + 1 \in 1 .. Len(s)
  BY <1>1
<1> QED BY <1>1, <1>2 DEF MadeOf

LEMMA PartsAreMadeOf ==
    ASSUME NEW s \in Seq(Symbols), NEW D
    PROVE  MadeOf(Before(s, D), s) /\ MadeOf(Rest(s, D), s)
<1> DEFINE head == Before(s, D)
           tail == Rest(s, D)
<1>1. /\ head \in Seq(Symbols) /\ tail \in Seq(Symbols) /\ Len(head) <= Len(s) /\ Len(tail) = Len(s) - Len(head)
      /\ \A i \in 1 .. Len(head) : head[i] = s[i]
      /\ \A i \in 1 .. Len(tail) : tail[i] = s[Len(head) + i]
  BY CutApart
<1> HIDE DEF head, tail
<1>2. Len(s) \in Nat /\ Len(head) \in Nat
  BY <1>1, LenProperties
<1>3. \A i \in 1 .. Len(tail) : Len(head) + i \in 1 .. Len(s)
  BY <1>1, <1>2
<1>4. \A i \in 1 .. Len(head) : i \in 1 .. Len(s)
  BY <1>1, <1>2
<1>5. MadeOf(head, s) /\ MadeOf(tail, s)
  BY <1>1, <1>3, <1>4 DEF MadeOf
<1> QED BY <1>5 DEF head, tail

\* Path, query and fragment leave alone what is in front of them.
LEMMA PathQueryFragment ==
    ASSUME NEW u \in Parts, NEW s \in Seq(Symbols)
    PROVE  LET w == WithPathQueryFragment(u, s)
           IN  /\ w \in Parts
               /\ w.scheme = u.scheme /\ w.user = u.user /\ w.host = u.host /\ w.port = u.port
               /\ w.path = Decode(Before(s, {"?", "#"}))
               /\ MadeOf(w.query, s) /\ \A i \in 1 .. Len(w.query) : w.query[i] # "#"
<1> DEFINE path == Decode(Before(s, {"?", "#"}))
           behind == Rest(s, {"?", "#"})
           query == IF StartsWith(behind, "?") THEN Before(Tail(behind), {"#"}) ELSE <<>>
           hash == Rest(behind, {"#"})
           fragment == IF hash = <<>> THEN <<>> ELSE Tail(hash)
<1>0. <<>> \in Seq(Symbols) /\ Len(<<>>) = 0
  BY EmptySeq
<1>1. path \in Seq(Symbols)
  BY CutApart, Decoded DEF Unescaped
<1>2. behind \in Seq(Symbols) /\ MadeOf(behind, s)
  BY CutApart, PartsAreMadeOf
<1>3. hash \in Seq(Symbols)
  <2> HIDE DEF behind
  <2> QED BY <1>2, CutApart
<1>4. fragment \in Seq(Symbols)
  <2> HIDE DEF hash
  <2> QED BY <1>0, <1>3, Behind
<1>5. query \in Seq(Symbols) /\ MadeOf(query, s) /\ \A i \in 1 .. Len(query) : query[i] # "#"
  <2> HIDE DEF behind
  <2>1. CASE StartsWith(behind, "?")
    <3>1. PICK t \in Seq(Symbols) : t = Tail(behind) /\ MadeOf(t, behind)
      BY <1>2, <2>1, Behind DEF StartsWith
    <3>2. query = Before(t, {"#"})
      BY <2>1, <3>1
    <3> HIDE DEF query
    <3>3. query \in Seq(Symbols) /\ (\A i \in 1 .. Len(query) : query[i] = t[i] /\ query[i] # "#") /\ MadeOf(query, t)
      BY <3>2, CutApart, PartsAreMadeOf
    <3>4. MadeOf(query, s)
      BY <1>2, <3>1, <3>3 DEF MadeOf
    <3> QED BY <3>3, <3>4
  <2>2. CASE ~StartsWith(behind, "?")
    <3>1. query = <<>>
      BY <2>2
    <3> HIDE DEF query
    <3> QED BY <1>0, <3>1 DEF MadeOf
  <2> QED BY <2>1, <2>2
<1>6. WithPathQueryFragment(u, s) = [u EXCEPT !.path = path, !.query = query, !.fragment = fragment]
  BY Zenon DEF WithPathQueryFragment
<1> HIDE DEF path, query, fragment
<1> QED BY <1>1, <1>4, <1>5, <1>6 DEF Parts, path

\* A URL with an authority, and what is read of it.
Scheme == <<"postgresql", ":", "/", "/">>
Delimiters == {"/", "?", "#"}
ReadOf(local) ==
    IF Throws(Authority(Before(local, Delimiters))) THEN Thrown
    ELSE WithPathQueryFragment([Authority(Before(local, Delimiters)) EXCEPT !.scheme = <<"postgresql">>],
                               Rest(local, Delimiters))

LEMMA SchemeIs ==
    /\ Scheme \in Seq(Symbols) /\ Len(Scheme) = 4
    /\ Scheme[1] = "postgresql" /\ Scheme[2] = ":" /\ Scheme[3] = "/" /\ Scheme[4] = "/"
    /\ <<"postgresql">> \in Seq(Symbols) /\ Len(<<"postgresql">>) = 1
BY DEF Scheme, Symbols, EscapedSymbols

\* The parts of a text that begins like such a URL.
LEMMA SchemeFound ==
    ASSUME NEW s \in Seq(Symbols), Len(s) >= 4,
           s[1] = "postgresql", s[2] = ":", s[3] = "/", s[4] = "/"
    PROVE  /\ SubSeq(s, 5, Len(s)) \in Seq(Symbols)
           /\ s = Scheme \o SubSeq(s, 5, Len(s))
           /\ Parse(s) = ReadOf(SubSeq(s, 5, Len(s)))
<1> DEFINE D == {":", "?", "#", "/"}
           local == SubSeq(s, 5, Len(s))
           marked == Rest(s, D)
           rest == Tail(marked)
<1>0. Len(s) \in Nat
  BY LenProperties
<1>1. Before(s, D) = SubSeq(s, 1, 1) /\ marked = SubSeq(s, 2, Len(s))
  <2>1. 1 \in 0 .. Len(s) /\ 1 + 1 = 2 /\ 1 < Len(s)
    BY <1>0
  <2>2. s[2] \in D /\ \A i \in 1 .. 1 : s[i] \notin D
    OBVIOUS
  <2> QED BY <2>1, <2>2, FirstSelected
<1>2. Before(s, D) = <<"postgresql">>
  <2>1. 1 \in 0 .. Len(s)
    BY <1>0
  <2>2. SubSeq(s, 1, 1) \in Seq(Symbols) /\ Len(SubSeq(s, 1, 1)) = 1 /\ SubSeq(s, 1, 1)[1] = s[1]
    BY <2>1, Ends
  <2>3. PICK t : t = SubSeq(s, 1, 1)
    OBVIOUS
  <2>4. t = <<"postgresql">>
    <3>1. \A i \in 1 .. Len(t) : t[i] = <<"postgresql">>[i]
      BY <2>2, <2>3
    <3> QED BY <2>2, <2>3, <3>1, SchemeIs, SeqEqual
  <2> QED BY <1>1, <2>3, <2>4
<1>3. /\ marked \in Seq(Symbols) /\ Len(marked) = Len(s) - 1
      /\ \A i \in 1 .. Len(s) - 1 : marked[i] = s[i + 1]
  <2>1. 1 \in 0 .. Len(s) /\ 1 + 1 = 2
    BY <1>0
  <2>2. /\ SubSeq(s, 2, Len(s)) \in Seq(Symbols) /\ Len(SubSeq(s, 2, Len(s))) = Len(s) - 1
        /\ \A i \in 1 .. Len(s) - 1 : SubSeq(s, 2, Len(s))[i] = s[1 + i]
    BY <2>1, Ends
  <2> HIDE DEF marked
  <2>3. \A i \in 1 .. Len(s) - 1 : 1 + i = i + 1
    BY <1>0
  <2> QED BY <1>1, <2>2, <2>3
<1> HIDE DEF marked
<1>4. /\ rest \in Seq(Symbols) /\ Len(rest) = Len(s) - 2
      /\ \A i \in 1 .. Len(s) - 2 : rest[i] = s[i + 2]
  <2>1. marked # <<>>
    BY <1>0, <1>3, EmptySeq
  <2>2. /\ Tail(marked) \in Seq(Symbols) /\ Len(Tail(marked)) = Len(marked) - 1
        /\ \A i \in 1 .. Len(marked) - 1 : Tail(marked)[i] = marked[i + 1]
    BY <1>3, <2>1, Behind
  <2> QED BY <1>0, <1>3, <2>2
<1> HIDE DEF rest
<1>5. /\ local \in Seq(Symbols) /\ Len(local) = Len(s) - 4
      /\ \A i \in 1 .. Len(s) - 4 : local[i] = s[4 + i]
  <2>1. 4 \in 0 .. Len(s) /\ 4 + 1 = 5
    BY <1>0
  <2> QED BY <2>1, Ends
<1>6. SubSeq(rest, 3, Len(rest)) = local
  <2>1. 2 \in 0 .. Len(rest) /\ 2 + 1 = 3
    BY <1>0, <1>4
  <2>2. /\ SubSeq(rest, 3, Len(rest)) \in Seq(Symbols) /\ Len(SubSeq(rest, 3, Len(rest))) = Len(rest) - 2
        /\ \A i \in 1 .. Len(rest) - 2 : SubSeq(rest, 3, Len(rest))[i] = rest[2 + i]
    BY <1>4, <2>1, Ends
  <2>3. PICK t : t = SubSeq(rest, 3, Len(rest))
    OBVIOUS
  <2> HIDE DEF local
  <2>4. Len(t) = Len(local) /\ \A i \in 1 .. Len(t) : t[i] = local[i]
    BY <1>0, <1>4, <1>5, <2>2, <2>3, SMTT(40)
  <2> QED BY <1>5, <2>2, <2>3, <2>4, SeqEqual
<1>7. s = Scheme \o local
  <2> HIDE DEF local
  <2>1. PICK t : t = Scheme \o local
    OBVIOUS
  <2>2. /\ t \in Seq(Symbols) /\ Len(t) = 4 + Len(local)
        /\ \A i \in 1 .. 4 : t[i] = Scheme[i]
        /\ \A i \in 1 .. Len(local) : t[4 + i] = local[i]
    <3>1. PICK a : a = Scheme
      OBVIOUS
    <3>2. a \in Seq(Symbols) /\ Len(a) = 4 /\ t = a \o local
      BY <2>1, <3>1, SchemeIs
    <3>3. /\ t \in Seq(Symbols) /\ Len(t) = Len(a) + Len(local)
          /\ \A i \in 1 .. Len(a) : t[i] = a[i]
          /\ \A i \in 1 .. Len(local) : t[Len(a) + i] = local[i]
      BY <1>5, <3>2, Joined
    <3> QED BY <3>1, <3>2, <3>3
  <2>3. Len(t) = Len(s) /\ \A i \in 1 .. Len(s) : t[i] = s[i]
    <3>1. \A i \in 1 .. 4 : t[i] = s[i]
      BY <2>2, SchemeIs
    <3>2. \A i \in 1 .. Len(s) - 4 : t[4 + i] = s[4 + i]
      BY <1>5, <2>2
    <3>3. \A i \in 1 .. Len(s) : i \in 1 .. 4 \/ (i - 4 \in 1 .. Len(s) - 4 /\ 4 + (i - 4) = i)
      BY <1>0
    <3>4. \A i \in 1 .. Len(s) : t[i] = s[i]
      <4> TAKE i \in 1 .. Len(s)
      <4>1. CASE i \in 1 .. 4
        BY <3>1, <4>1
      <4>2. CASE i \notin 1 .. 4
        <5>1. i - 4 \in 1 .. Len(s) - 4 /\ 4 + (i - 4) = i
          BY <3>3, <4>2
        <5>2. t[4 + (i - 4)] = s[4 + (i - 4)]
          BY <3>2, <5>1
        <5> QED BY <5>1, <5>2
      <4> QED BY <4>1, <4>2
    <3> QED BY <1>0, <1>5, <2>2, <3>4
  <2> QED BY <2>1, <2>2, <2>3, SeqEqual
<1>8. Parse(s) = ReadOf(local)
  <2>1. IsPrefix(<<"/", "/">>, rest)
    <3> DEFINE slashes == <<"/", "/">>
    <3>0. "/" \in Symbols
      BY DEF Symbols, EscapedSymbols
    <3>1. slashes \in Seq(Symbols) /\ Len(slashes) = 2 /\ slashes[1] = "/" /\ slashes[2] = "/"
      BY <3>0
    <3>2. SubSeq(slashes, 1, Len(slashes)) = slashes
      BY <3>1, SubSeqFull
    <3>3. 2 \in 0 .. Len(rest)
      BY <1>0, <1>4
    <3>4. PICK t : t = SubSeq(rest, 1, 2)
      OBVIOUS
    <3>5. t \in Seq(Symbols) /\ Len(t) = 2 /\ t[1] = rest[1] /\ t[2] = rest[2]
      BY <1>4, <3>3, <3>4, Ends
    <3>6. rest[1] = "/" /\ rest[2] = "/"
      BY <1>0, <1>4
    <3> HIDE DEF slashes
    <3>7. \A i \in 1 .. Len(t) : t[i] = slashes[i]
      BY <3>1, <3>5, <3>6
    <3>8. t = slashes
      BY <3>1, <3>5, <3>7, SeqEqual
    <3>9. IsPrefix(slashes, rest)
      BY <1>0, <1>4, <3>1, <3>2, <3>4, <3>8 DEF IsPrefix
    <3> QED BY <3>9 DEF slashes
  <2>2. StartsWith(marked, ":") /\ s[1] \notin {".", ".."}
    BY <1>0, <1>3, EmptySeq DEF StartsWith
  <2>3. rest # <<>>
    BY <1>0, <1>4, EmptySeq
  <2> HIDE DEF local
  <2> DEFINE parsed == Authority(Before(local, Delimiters))
  <2>4. Parse(s) = IF Throws(parsed) THEN Thrown
                   ELSE WithPathQueryFragment([parsed EXCEPT !.scheme = Before(s, D)], Rest(local, Delimiters))
    BY <1>6, <2>1, <2>2, <2>3, Zenon DEF Parse, marked, rest, Delimiters
  <2> QED BY <1>2, <2>4, Zenon DEF ReadOf
<1> QED BY <1>5, <1>7, <1>8

\* A text that is read as a URL with a host: the scheme, "://", and the rest.
MadeOfParts(s, scheme, local) ==
    /\ scheme \in Seq(Symbols) /\ local \in Seq(Symbols)
    /\ Len(scheme) \in Nat /\ Len(local) \in Nat /\ Len(s) = Len(scheme) + 3 + Len(local)
    /\ \A i \in 1 .. Len(scheme) : s[i] = scheme[i] /\ s[i] \notin {":", "/", "?", "#"}
    /\ s[Len(scheme) + 1] = ":" /\ s[Len(scheme) + 2] = "/" /\ s[Len(scheme) + 3] = "/"
    /\ \A i \in 1 .. Len(local) : s[Len(scheme) + 3 + i] = local[i]
LEMMA PartsFound ==
    ASSUME NEW s \in Seq(Symbols), Parse(s).host # <<>>
    PROVE  \E scheme, local :
               /\ MadeOfParts(s, scheme, local)
               /\ ~Throws(Authority(Before(local, Delimiters)))
               /\ Parse(s) = WithPathQueryFragment([Authority(Before(local, Delimiters)) EXCEPT !.scheme = scheme],
                                                   Rest(local, Delimiters))
               /\ Parse(s).scheme = scheme
<1> DEFINE D == {":", "?", "#", "/"}
           scheme == Before(s, D)
           marked == Rest(s, D)
           rest == Tail(marked)
           local == SubSeq(rest, 3, Len(rest))
           parsed == Authority(Before(local, Delimiters))
           named == StartsWith(marked, ":") /\ s[1] \notin {".", ".."}
<1>0. Thrown.host = <<>> /\ NoUrl.host = <<>>
  BY DEF Thrown, NoUrl
<1>1. Parse(s) = CASE ~named -> WithPathQueryFragment(NoUrl, s)
                   [] named /\ rest = <<>> -> Thrown
                   [] OTHER ->
                        IF IsPrefix(<<"/", "/">>, rest)
                        THEN IF Throws(parsed) THEN Thrown
                             ELSE WithPathQueryFragment([parsed EXCEPT !.scheme = scheme], Rest(local, Delimiters))
                        ELSE WithPathQueryFragment([NoUrl EXCEPT !.scheme = scheme], rest)
  BY Zenon DEF Parse, Delimiters
<1>2. /\ scheme \in Seq(Symbols) /\ marked \in Seq(Symbols) /\ Len(marked) = Len(s) - Len(scheme)
      /\ \A i \in 1 .. Len(scheme) : scheme[i] = s[i] /\ s[i] \notin D
      /\ \A i \in 1 .. Len(marked) : marked[i] = s[Len(scheme) + i]
  BY CutApart
<1> HIDE DEF scheme, marked
<1>3. named /\ rest # <<>>
  <2>1. CASE ~named
    <3>1. Parse(s) = WithPathQueryFragment(NoUrl, s)
      BY <1>1, <2>1
    <3> QED BY <1>0, <3>1, NoUrlIs, PathQueryFragment
  <2>2. CASE named /\ rest = <<>>
    <3>1. Parse(s) = Thrown
      BY <1>1, <2>2
    <3> QED BY <1>0, <3>1
  <2> QED BY <2>1, <2>2
<1>4. /\ rest \in Seq(Symbols) /\ Len(rest) = Len(marked) - 1 /\ Len(marked) \in Nat \ {0}
      /\ \A i \in 1 .. Len(marked) - 1 : rest[i] = marked[i + 1]
  BY <1>2, <1>3, Behind DEF StartsWith
<1>5. marked[1] = ":"
  BY <1>3 DEF StartsWith
<1> HIDE DEF rest, named
<1>6. IsPrefix(<<"/", "/">>, rest) /\ ~Throws(parsed)
  <2>1. CASE ~IsPrefix(<<"/", "/">>, rest)
    <3>1. Parse(s) = WithPathQueryFragment([NoUrl EXCEPT !.scheme = scheme], rest)
      BY <1>1, <1>3, <2>1
    <3>2. [NoUrl EXCEPT !.scheme = scheme] \in Parts /\ [NoUrl EXCEPT !.scheme = scheme].host = <<>>
      BY <1>0, <1>2, NoUrlIs DEF Parts
    <3>3. PICK v \in Parts : v = [NoUrl EXCEPT !.scheme = scheme]
      BY <3>2
    <3>4. Parse(s) = WithPathQueryFragment(v, rest) /\ v.host = <<>>
      BY <3>1, <3>2, <3>3
    <3> QED BY <1>4, <3>4, PathQueryFragment
  <2>2. CASE IsPrefix(<<"/", "/">>, rest) /\ Throws(parsed)
    <3>1. Parse(s) = Thrown
      BY <1>1, <1>3, <2>2
    <3> QED BY <1>0, <3>1
  <2> QED BY <2>1, <2>2
<1>7. Len(rest) >= 2 /\ rest[1] = "/" /\ rest[2] = "/"
  <2> DEFINE slashes == <<"/", "/">>
  <2>0. "/" \in Symbols
    BY DEF Symbols, EscapedSymbols
  <2>1. slashes \in Seq(Symbols) /\ Len(slashes) = 2 /\ slashes[1] = "/" /\ slashes[2] = "/"
    BY <2>0
  <2>2. SubSeq(slashes, 1, Len(slashes)) = slashes
    BY <2>1, SubSeqFull
  <2>3. IsPrefix(slashes, rest)
    BY <1>6
  <2> HIDE DEF slashes
  <2>4. Len(rest) >= 2 /\ SubSeq(rest, 1, 2) = slashes
    BY <2>1, <2>2, <2>3 DEF IsPrefix
  <2>5. 2 \in 0 .. Len(rest)
    BY <1>4, <2>4
  <2>6. \A i \in 1 .. 2 : SubSeq(rest, 1, 2)[i] = rest[i]
    BY <1>4, <2>5, Ends
  <2>7. \A i \in 1 .. 2 : slashes[i] = rest[i]
    BY <2>4, <2>6
  <2> QED BY <2>1, <2>4, <2>7
<1>8. /\ local \in Seq(Symbols) /\ Len(local) = Len(rest) - 2
      /\ \A i \in 1 .. Len(rest) - 2 : local[i] = rest[2 + i]
  <2>1. 2 \in 0 .. Len(rest) /\ 2 + 1 = 3
    BY <1>4, <1>7
  <2> QED BY <1>4, <2>1, Ends
<1> HIDE DEF local
<1>9. /\ Parse(s) = WithPathQueryFragment([parsed EXCEPT !.scheme = scheme], Rest(local, Delimiters))
      /\ Parse(s).scheme = scheme
  <2>2. Before(local, Delimiters) \in Seq(Symbols) /\ Rest(local, Delimiters) \in Seq(Symbols)
    BY <1>8, CutApart
  <2>3. parsed \in Parts
    BY <1>6, <2>2, AuthorityIs
  <2>4. Parse(s) = WithPathQueryFragment([parsed EXCEPT !.scheme = scheme], Rest(local, Delimiters))
    BY <1>1, <1>3, <1>6
  <2> HIDE DEF parsed
  <2>5. [parsed EXCEPT !.scheme = scheme] \in Parts /\ [parsed EXCEPT !.scheme = scheme].scheme = scheme
    BY <1>2, <2>3 DEF Parts
  <2>6. PICK v \in Parts : v = [parsed EXCEPT !.scheme = scheme]
    BY <2>5
  <2>7. Parse(s) = WithPathQueryFragment(v, Rest(local, Delimiters)) /\ v.scheme = scheme
    BY <2>4, <2>5, <2>6
  <2>8. Parse(s).scheme = v.scheme
    <3>1. PICK b \in Seq(Symbols) : b = Rest(local, Delimiters)
      BY <2>2
    <3>2. WithPathQueryFragment(v, b).scheme = v.scheme
      BY PathQueryFragment
    <3> QED BY <2>7, <3>1, <3>2
  <2> QED BY <2>4, <2>7, <2>8
<1>10. MadeOfParts(s, scheme, local)
  <2>1. Len(s) \in Nat /\ Len(scheme) \in Nat /\ Len(local) \in Nat
    BY <1>2, <1>8, LenProperties
  <2>2. Len(local) = Len(marked) - 3 /\ \A i \in 1 .. Len(local) : local[i] = marked[3 + i]
    BY <1>4, <1>7, <1>8, <2>1
  <2>3. marked[2] = "/" /\ marked[3] = "/" /\ Len(marked) >= 3
    BY <1>4, <1>7
  <2>4. /\ s[Len(scheme) + 1] = marked[1] /\ s[Len(scheme) + 2] = marked[2]
        /\ s[Len(scheme) + 3] = marked[3]
    <3>1. 1 \in 1 .. Len(marked) /\ 2 \in 1 .. Len(marked) /\ 3 \in 1 .. Len(marked)
      BY <1>4, <2>3
    <3> QED BY <1>2, <3>1
  <2>5. \A i \in 1 .. Len(local) : s[Len(scheme) + 3 + i] = local[i]
    <3> TAKE i \in 1 .. Len(local)
    <3>1. 3 + i \in 1 .. Len(marked) /\ Len(scheme) + 3 + i = Len(scheme) + (3 + i)
      BY <2>1, <2>2
    <3> QED BY <1>2, <2>2, <3>1
  <2>6. Len(s) = Len(scheme) + 3 + Len(local)
    BY <1>2, <2>1, <2>2
  <2> QED BY <1>2, <1>5, <1>8, <2>1, <2>3, <2>4, <2>5, <2>6 DEF MadeOfParts
<1> HIDE DEF parsed
<1> QED BY <1>6, <1>9, <1>10 DEF parsed

\* What is known of a URL of a node that was read.
Readable(u) ==
    /\ u \in Parts /\ u.host # <<>>
    /\ \A i \in 1 .. Len(u.host) : u.host[i] \notin Delimiters \cup {"@"}
    /\ Contains(u.host, "]") => ~Contains(u.host, ":") /\ ~StartsWith(u.host, "[")
    /\ Unescaped(u.path) /\ (u.path # <<>> => u.path[1] = "/")
    /\ \A i \in 1 .. Len(u.query) : u.query[i] # "#"

LEMMA WhatIsRead ==
    ASSUME NEW s \in Seq(Symbols), Parse(s).host # <<>>
    PROVE  /\ Readable(Parse(s))
           /\ \E local : LET behind == Rest(local, Delimiters)
                         IN  /\ MadeOfParts(s, Parse(s).scheme, local)
                             /\ MadeOf(Parse(s).host, AfterLast(Before(local, Delimiters), "@"))
                             /\ Parse(s).path = Decode(Before(behind, {"?", "#"}))
                             /\ MadeOf(Parse(s).query, behind)
<1>1. PICK scheme, local :
          /\ MadeOfParts(s, scheme, local)
          /\ ~Throws(Authority(Before(local, Delimiters)))
          /\ Parse(s) = WithPathQueryFragment([Authority(Before(local, Delimiters)) EXCEPT !.scheme = scheme],
                                              Rest(local, Delimiters))
          /\ Parse(s).scheme = scheme
  BY PartsFound
<1> DEFINE behind == Rest(local, Delimiters)
           front == Before(local, Delimiters)
           u == Parse(s)
<1>2. /\ front \in Seq(Symbols) /\ behind \in Seq(Symbols) /\ (behind # <<>> => behind[1] \in Delimiters)
      /\ \A i \in 1 .. Len(front) : front[i] = local[i] /\ front[i] \notin Delimiters
  BY <1>1, CutApart, SMTT(40) DEF MadeOfParts
<1>3. /\ ~Throws(Authority(front))
      /\ u = WithPathQueryFragment([Authority(front) EXCEPT !.scheme = scheme], behind)
      /\ scheme \in Seq(Symbols) /\ u.scheme = scheme
  BY <1>1 DEF MadeOfParts
<1> HIDE DEF front, behind, u
<1>4. PICK a : a = Authority(front)
  OBVIOUS
<1>5. /\ a \in Parts /\ MadeOf(a.host, AfterLast(front, "@"))
      /\ Contains(a.host, "]") => ~Contains(a.host, ":") /\ ~StartsWith(a.host, "[")
  BY <1>2, <1>3, <1>4, AuthorityIs
<1>6. PICK v \in Parts : v = [a EXCEPT !.scheme = scheme] /\ v.host = a.host
  <2>1. [a EXCEPT !.scheme = scheme] \in Parts /\ [a EXCEPT !.scheme = scheme].host = a.host
    BY <1>3, <1>5 DEF Parts
  <2> QED BY <2>1
<1>7. u = WithPathQueryFragment(v, behind)
  BY <1>3, <1>4, <1>6
<1>8. /\ u \in Parts /\ u.host = a.host
      /\ u.path = Decode(Before(behind, {"?", "#"}))
      /\ MadeOf(u.query, behind) /\ \A i \in 1 .. Len(u.query) : u.query[i] # "#"
  BY <1>2, <1>6, <1>7, PathQueryFragment, ZenonT(40)
<1>9. \A i \in 1 .. Len(u.host) : u.host[i] \notin Delimiters \cup {"@"}
  <2> TAKE i \in 1 .. Len(u.host)
  <2> DEFINE named == AfterLast(front, "@")
  <2>1. MadeOf(named, front) /\ \A j \in 1 .. Len(named) : named[j] # "@"
    BY <1>2, BehindLast
  <2> HIDE DEF named
  <2>2. PICK j \in 1 .. Len(named) : u.host[i] = named[j]
    BY <1>5, <1>8 DEF MadeOf, named
  <2>3. PICK k \in 1 .. Len(front) : named[j] = front[k]
    BY <2>1 DEF MadeOf
  <2> QED BY <1>2, <2>1, <2>2, <2>3
<1>10. Unescaped(u.path) /\ (u.path # <<>> => u.path[1] = "/")
  <2> DEFINE p == Before(behind, {"?", "#"})
  <2>1. /\ p \in Seq(Symbols) /\ Len(p) <= Len(behind)
        /\ \A i \in 1 .. Len(p) : p[i] = behind[i] /\ behind[i] \notin {"?", "#"}
    BY <1>2, CutApart
  <2> HIDE DEF p
  <2>2. /\ Unescaped(Decode(p)) /\ Len(Decode(p)) <= Len(p)
        /\ \A i \in 1 .. Len(Decode(p)) : Decode(p)[i] = p[i] \/ p[i] \in EscapeSymbols
    BY <2>1, Decoded
  <2>3. u.path = Decode(p) /\ u.path \in Seq(Symbols)
    BY <1>8 DEF p, Parts
  <2>4. ASSUME u.path # <<>> PROVE u.path[1] = "/"
    <3>1. Len(u.path) \in Nat \ {0} /\ Len(p) \in Nat /\ Len(behind) \in Nat
      BY <1>2, <2>1, <2>3, <2>4, EmptySeq, LenProperties
    <3>2. 1 \in 1 .. Len(u.path) /\ 1 \in 1 .. Len(p) /\ behind # <<>>
      BY <2>1, <2>2, <2>3, <3>1, EmptySeq
    <3>3. p[1] = "/"
      BY <1>2, <2>1, <3>2 DEF Delimiters
    <3>4. "/" \notin EscapeSymbols
      BY DEF EscapeSymbols
    <3> QED BY <2>2, <2>3, <3>2, <3>3, <3>4
  <2> QED BY <2>2, <2>3, <2>4
<1>11. u.host # <<>> /\ Readable(u)
  BY <1>5, <1>8, <1>9, <1>10 DEF Readable, u
<1>12. MadeOfParts(s, u.scheme, local)
  BY <1>1, <1>3
<1> QED BY <1>5, <1>8, <1>11, <1>12 DEF front, behind, u

-----------------------------------------------------------------------------
(* Printing, and reading what was printed.                                 *)

LEMMA One ==
    ASSUME NEW c \in Symbols
    PROVE  <<c>> \in Seq(Symbols) /\ Len(<<c>>) = 1 /\ <<c>>[1] = c
OBVIOUS

LEMMA TailOf ==
    ASSUME NEW c \in Symbols, NEW s \in Seq(Symbols)
    PROVE  /\ Tail(<<c>> \o s) = s /\ <<c>> \o s \in Seq(Symbols) /\ <<c>> \o s # <<>>
           /\ StartsWith(<<c>> \o s, c) /\ (<<c>> \o s)[1] = c
<1>1. PICK one \in Seq(Symbols) : one = <<c>> /\ Len(one) = 1 /\ one[1] = c
  BY One
<1>2. PICK t : t = one \o s
  OBVIOUS
<1>3. /\ t \in Seq(Symbols) /\ Len(t) = 1 + Len(s) /\ Len(s) \in Nat /\ t[1] = c
      /\ \A i \in 1 .. Len(s) : t[1 + i] = s[i]
  BY <1>1, <1>2, Joined
<1>4. t # <<>>
  BY <1>3, EmptySeq
<1>5. PICK r : r = Tail(t)
  OBVIOUS
<1>6. /\ r \in Seq(Symbols) /\ Len(r) = Len(t) - 1
      /\ \A i \in 1 .. Len(t) - 1 : r[i] = t[i + 1]
  BY <1>3, <1>4, <1>5, Behind
<1>7. Len(r) = Len(s) /\ \A i \in 1 .. Len(r) : r[i] = s[i]
  <2>1. \A i \in 1 .. Len(s) : 1 + i = i + 1
    BY <1>3
  <2> QED BY <1>3, <1>6, <2>1
<1>8. r = s
  BY <1>6, <1>7, SeqEqual
<1> QED BY <1>1, <1>2, <1>3, <1>4, <1>5, <1>8 DEF StartsWith

\* The colon and the port.
Colon(n) == <<":", Numeral(n)>>
LEMMA ColonIs ==
    ASSUME NEW n \in Ports
    PROVE  /\ Colon(n) \in Seq(Symbols) /\ Len(Colon(n)) = 2 /\ Colon(n)[1] = ":" /\ Colon(n)[2] = Numeral(n)
           /\ Colon(n) # <<>> /\ StartsWith(Colon(n), ":") /\ Tail(Colon(n)) = <<Numeral(n)>>
           /\ Numeral(n) \notin Delimiters \cup {"@", "]", "[", ":"}
<1>1. PICK c \in Symbols : c = ":"
  BY DEF Symbols, EscapedSymbols
<1>2. PICK w \in Symbols : w = Numeral(n)
  BY NumeralOfPort
<1>3. <<c, w>> \in Seq(Symbols) /\ Len(<<c, w>>) = 2 /\ <<c, w>>[1] = c /\ <<c, w>>[2] = w /\ <<c, w>> # <<>>
  OBVIOUS
<1>4. Tail(<<c, w>>) = <<w>>
  OBVIOUS
<1>5. Numeral(n) \notin Delimiters \cup {"@", "]", "[", ":"}
  BY NumeralOfPort, NumeralsAre DEF Delimiters
<1> QED BY <1>1, <1>2, <1>3, <1>4, <1>5 DEF Colon, StartsWith

LEMMA PortRead ==
    ASSUME NEW n \in Ports, n # 0
    PROVE  PortNumber(<<Numeral(n)>>) = n
<1>1. PICK w \in Symbols : w = Numeral(n)
  BY NumeralOfPort
<1>2. w \in DOMAIN Numerals /\ Numerals[w] = n
  BY <1>1, NumeralOfPort, SMTT(40)
<1>3. n \in ValidPorts
  BY SMTT(40) DEF Ports, ValidPorts
<1>4. <<w>> # <<>> /\ <<w>>[1] = w
  OBVIOUS
<1> QED BY <1>1, <1>2, <1>3, <1>4 DEF PortNumber

\* A host and a port are read as they were printed.
LEMMA HostRead ==
    ASSUME NEW host \in Seq(Symbols), host # <<>>, ~StartsWith(host, "["), Contains(host, "]") => ~Contains(host, ":"),
           NEW n \in Ports, n # 0
    PROVE  HostAndPort(Bracketed(host) \o Colon(n)) = [NoUrl EXCEPT !.host = host, !.port = n]
<1> DEFINE a == Bracketed(host) \o Colon(n)
<1>0. WithPort([NoUrl EXCEPT !.host = host], <<Numeral(n)>>) = [NoUrl EXCEPT !.host = host, !.port = n]
  <2>1. ~(n < 0)
    BY DEF Ports
  <2> QED BY <2>1, PortRead DEF WithPort, NoUrl
<1>1. CASE ~Contains(host, ":")
  <2>1. PICK t : t = host \o Colon(n)
    OBVIOUS
  <2>2. a = t
    BY <1>1, <2>1 DEF Bracketed
  <2>3. Before(t, {":"}) = host /\ Rest(t, {":"}) = Colon(n)
    BY <1>1, <2>1, ColonIs, CutTogether DEF Contains
  <2>4. t # <<>> /\ ~StartsWith(t, "[")
    <3>1. Len(host) \in Nat \ {0}
      BY EmptySeq
    <3>2. t \in Seq(Symbols) /\ Len(t) = Len(host) + 2 /\ t[1] = host[1]
      <4>1. PICK c \in Seq(Symbols) : c = Colon(n) /\ Len(c) = 2
        BY ColonIs
      <4>2. /\ host \o c \in Seq(Symbols) /\ Len(host \o c) = Len(host) + Len(c)
            /\ \A i \in 1 .. Len(host) : (host \o c)[i] = host[i]
        BY Joined
      <4> QED BY <2>1, <3>1, <4>1, <4>2
    <3> QED BY <3>1, <3>2, EmptySeq DEF StartsWith
  <2>5. HostAndPort(t) = WithPort([NoUrl EXCEPT !.host = host], <<Numeral(n)>>)
    BY <2>3, <2>4, ColonIs DEF HostAndPort
  <2> QED BY <1>0, <2>2, <2>5
<1>2. CASE Contains(host, ":")
  <2>1. PICK open \in Symbols, close \in Symbols : open = "[" /\ close = "]"
    BY DEF Symbols, EscapedSymbols
  <2>2. PICK end : end = <<close>> \o Colon(n)
    OBVIOUS
  <2>3. end \in Seq(Symbols) /\ end # <<>> /\ end[1] = "]" /\ Tail(end) = Colon(n)
    BY <2>1, <2>2, ColonIs, TailOf
  <2>4. PICK inner : inner = host \o end
    OBVIOUS
  <2>5. inner \in Seq(Symbols) /\ Contains(inner, "]")
    <3>1. Len(end) \in Nat \ {0}
      BY <2>3, EmptySeq
    <3>2. /\ inner \in Seq(Symbols) /\ Len(inner) = Len(host) + Len(end) /\ Len(host) \in Nat
          /\ inner[Len(host) + 1] = end[1]
      BY <2>3, <2>4, <3>1, Joined
    <3>3. Len(host) + 1 \in 1 .. Len(inner)
      BY <3>1, <3>2
    <3> QED BY <2>3, <3>2, <3>3 DEF Contains
  <2>6. Before(inner, {"]"}) = host /\ Rest(inner, {"]"}) = end
    BY <1>2, <2>3, <2>4, CutTogether DEF Contains
  <2>7. PICK t : t = <<open>> \o inner
    OBVIOUS
  <2>8. t # <<>> /\ StartsWith(t, "[") /\ Tail(t) = inner
    BY <2>1, <2>5, <2>7, TailOf
  <2>9. a = t
    <3>1. <<open>> \in Seq(Symbols) /\ <<close>> \in Seq(Symbols)
      BY <2>1, One
    <3>2. PICK x, y : x = <<open>> /\ y = <<close>>
      OBVIOUS
    <3>3. a = ((x \o host) \o y) \o Colon(n)
      BY <1>2, <2>1, <3>2 DEF Bracketed
    <3>4. x \o host \in Seq(Symbols)
      BY <3>1, <3>2, Joined
    <3>5. ((x \o host) \o y) \o Colon(n) = (x \o host) \o (y \o Colon(n))
      BY <3>1, <3>2, <3>4, ColonIs, ConcatAssociative
    <3>6. (x \o host) \o end = x \o (host \o end)
      BY <2>3, <3>1, <3>2, ConcatAssociative
    <3> QED BY <2>2, <2>4, <2>7, <3>2, <3>3, <3>5, <3>6
  <2>10. HostAndPort(t) = WithPort([NoUrl EXCEPT !.host = host], <<Numeral(n)>>)
    BY <2>3, <2>5, <2>6, <2>8, ColonIs DEF HostAndPort
  <2> QED BY <1>0, <2>9, <2>10
<1> QED BY <1>1, <1>2

LEMMA BracketedIs ==
    ASSUME NEW host \in Seq(Symbols)
    PROVE  /\ Bracketed(host) \in Seq(Symbols)
           /\ \A i \in 1 .. Len(Bracketed(host)) :
                  Bracketed(host)[i] \in {"[", "]"} \/ \E j \in 1 .. Len(host) : Bracketed(host)[i] = host[j]
<1>1. CASE ~Contains(host, ":")
  <2>1. Bracketed(host) = host
    BY <1>1 DEF Bracketed
  <2> QED BY <2>1
<1>2. CASE Contains(host, ":")
  <2>1. PICK x \in Seq(Symbols), y \in Seq(Symbols) :
            /\ x = <<"[">> /\ y = <<"]">> /\ Len(x) = 1 /\ Len(y) = 1 /\ x[1] = "[" /\ y[1] = "]"
    <3>1. "[" \in Symbols /\ "]" \in Symbols
      BY DEF Symbols, EscapedSymbols
    <3> QED BY <3>1, One
  <2>2. Bracketed(host) = (x \o host) \o y
    BY <1>2, <2>1 DEF Bracketed
  <2>3. PICK t : t = x \o host
    OBVIOUS
  <2>4. /\ t \in Seq(Symbols) /\ Len(t) = 1 + Len(host) /\ Len(host) \in Nat /\ t[1] = "["
        /\ \A i \in 1 .. Len(host) : t[1 + i] = host[i]
    BY <2>1, <2>3, Joined
  <2>5. PICK b : b = t \o y
    OBVIOUS
  <2>6. /\ b \in Seq(Symbols) /\ Len(b) = Len(t) + 1 /\ b[Len(t) + 1] = "]"
        /\ \A i \in 1 .. Len(t) : b[i] = t[i]
    BY <2>1, <2>4, <2>5, Joined
  <2>7. ASSUME NEW i \in 1 .. Len(b)
        PROVE  b[i] \in {"[", "]"} \/ \E j \in 1 .. Len(host) : b[i] = host[j]
    <3>1. CASE i = 1
      BY <2>4, <2>6, <3>1
    <3>2. CASE i = Len(t) + 1
      BY <2>6, <3>2
    <3>3. CASE i # 1 /\ i # Len(t) + 1
      <4>1. i - 1 \in 1 .. Len(host) /\ 1 + (i - 1) = i /\ i \in 1 .. Len(t)
        BY <2>4, <2>6, <3>3
      <4>2. t[1 + (i - 1)] = host[i - 1]
        BY <2>4, <4>1
      <4> QED BY <2>6, <4>1, <4>2
    <3> QED BY <3>1, <3>2, <3>3
  <2> QED BY <2>2, <2>3, <2>5, <2>6, <2>7
<1> QED BY <1>1, <1>2

\* In a printed authority there is no user, and nothing that ends it.
LEMMA AuthorityRead ==
    ASSUME NEW host \in Seq(Symbols), \A i \in 1 .. Len(host) : host[i] \notin Delimiters \cup {"@"}, NEW n \in Ports
    PROVE  LET a == Bracketed(host) \o Colon(n)
           IN  /\ a \in Seq(Symbols) /\ \A i \in 1 .. Len(a) : a[i] \notin Delimiters \cup {"@"}
               /\ Authority(a) = HostAndPort(a)
<1> DEFINE a == Bracketed(host) \o Colon(n)
<1>1. PICK b \in Seq(Symbols), c \in Seq(Symbols) :
          /\ b = Bracketed(host) /\ c = Colon(n) /\ Len(c) = 2 /\ c[1] = ":" /\ c[2] = Numeral(n)
  BY BracketedIs, ColonIs
<1>2. \A i \in 1 .. Len(b) : b[i] \notin Delimiters \cup {"@"}
  <2> TAKE i \in 1 .. Len(b)
  <2>1. b[i] \in {"[", "]"} \/ \E j \in 1 .. Len(host) : b[i] = host[j]
    BY <1>1, BracketedIs
  <2> QED BY <2>1 DEF Delimiters
<1>3. \A i \in 1 .. 2 : c[i] \notin Delimiters \cup {"@"}
  <2>1. c[1] \notin Delimiters \cup {"@"} /\ c[2] \notin Delimiters \cup {"@"}
    BY <1>1, ColonIs DEF Delimiters
  <2> QED BY <2>1
<1>4. /\ a \in Seq(Symbols) /\ Len(a) = Len(b) + 2 /\ Len(b) \in Nat
      /\ \A i \in 1 .. Len(b) : a[i] = b[i]
      /\ \A i \in 1 .. 2 : a[Len(b) + i] = c[i]
  <2>1. a = b \o c
    BY <1>1
  <2>2. /\ b \o c \in Seq(Symbols) /\ Len(b \o c) = Len(b) + Len(c) /\ Len(b) \in Nat
        /\ \A i \in 1 .. Len(b) : (b \o c)[i] = b[i]
        /\ \A i \in 1 .. Len(c) : (b \o c)[Len(b) + i] = c[i]
    BY Joined
  <2> HIDE DEF a
  <2>3. Len(c) = 2
    BY <1>1
  <2> QED BY <2>1, <2>2, <2>3
<1> HIDE DEF a
<1>5. ASSUME NEW i \in 1 .. Len(a) PROVE a[i] \notin Delimiters \cup {"@"}
  <2>1. CASE i \in 1 .. Len(b)
    BY <1>2, <1>4, <2>1
  <2>2. CASE i \notin 1 .. Len(b)
    <3>1. i - Len(b) \in 1 .. 2 /\ Len(b) + (i - Len(b)) = i
      BY <1>4, <2>2
    <3>2. a[Len(b) + (i - Len(b))] = c[i - Len(b)]
      BY <1>4, <3>1
    <3> QED BY <1>3, <3>1, <3>2
  <2> QED BY <2>1, <2>2
<1>6. LastOf(a, "@") = 0 /\ AfterLast(a, "@") = a
  <2>1. \A i \in 1 .. Len(a) : a[i] # "@"
    BY <1>5
  <2>2. LastOf(a, "@") = 0 /\ AfterLast(a, "@") = SubSeq(a, LastOf(a, "@") + 1, Len(a))
    BY <1>4, <2>1, LastSelected
  <2>3. SubSeq(a, 1, Len(a)) = a
    BY <1>4, SubSeqFull
  <2> QED BY <2>2, <2>3
<1>7. Authority(a) = HostAndPort(a)
  <2>1. LastOf(a, "@") = 0 => Authority(a) = HostAndPort(AfterLast(a, "@"))
    BY Zenon DEF Authority, LastOf
  <2> QED BY <1>6, <2>1
<1> QED BY <1>4, <1>5, <1>7 DEF a

LEMMA ReadAgain ==
    ASSUME NEW local \in Seq(Symbols)
    PROVE  Parse(Scheme \o local) = ReadOf(local)
<1>1. PICK a \in Seq(Symbols) : a = Scheme /\ Len(a) = 4
  BY SchemeIs
<1>2. PICK s : s = a \o local
  OBVIOUS
<1>3. /\ s \in Seq(Symbols) /\ Len(s) = 4 + Len(local) /\ Len(local) \in Nat
      /\ \A i \in 1 .. 4 : s[i] = a[i]
      /\ \A i \in 1 .. Len(local) : s[4 + i] = local[i]
  <2>1. /\ a \o local \in Seq(Symbols) /\ Len(a \o local) = Len(a) + Len(local) /\ Len(local) \in Nat
        /\ \A i \in 1 .. Len(a) : (a \o local)[i] = a[i]
        /\ \A i \in 1 .. Len(local) : (a \o local)[Len(a) + i] = local[i]
    BY Joined
  <2>2. Len(a) = 4
    BY <1>1
  <2> QED BY <1>2, <2>1, <2>2
<1>4. Len(s) >= 4 /\ s[1] = "postgresql" /\ s[2] = ":" /\ s[3] = "/" /\ s[4] = "/"
  BY <1>1, <1>3, SchemeIs
<1>5. SubSeq(s, 5, Len(s)) = local
  <2>1. 4 \in 0 .. Len(s) /\ 4 + 1 = 5
    BY <1>3
  <2>2. PICK t : t = SubSeq(s, 5, Len(s))
    OBVIOUS
  <2>3. t \in Seq(Symbols) /\ Len(t) = Len(s) - 4 /\ \A i \in 1 .. Len(s) - 4 : t[i] = s[4 + i]
    BY <1>3, <2>1, <2>2, Ends, SMTT(40)
  <2>4. Len(t) = Len(local) /\ \A i \in 1 .. Len(t) : t[i] = local[i]
    BY <1>3, <2>3
  <2> QED BY <2>2, <2>3, <2>4, SeqEqual
<1>6. Parse(s) = ReadOf(SubSeq(s, 5, Len(s)))
  BY <1>3, <1>4, SchemeFound
<1> QED BY <1>1, <1>2, <1>5, <1>6

\* What validate() prints of a URL that it accepts.
PortTaken(u, port) == IF port = 0 \/ u.port = 0 THEN 5432 ELSE u.port
PathTaken(u) == IF HasSegments(u) THEN u.path ELSE <<"/", "postgres">>
QueryText(u) == IF u.query = <<>> THEN <<>> ELSE <<"?">> \o u.query

LEMMA RepackedIs ==
    ASSUME NEW u \in Parts, NEW port
    PROVE  LET r == Repacked(u, port)
           IN  /\ r.scheme = u.scheme /\ r.user = <<>> /\ r.host = u.host /\ r.query = u.query
               /\ r.fragment = <<>> /\ r.port = (IF port = 0 THEN 5432 ELSE u.port)
               /\ r.path = IF HasSegments(u) THEN u.path ELSE <<"postgres">>
<1>1. PICK r : r = Repacked(u, port)
  OBVIOUS
<1>2. r = [u EXCEPT !.port = IF port = 0 THEN 5432 ELSE u.port,
                    !.fragment = <<>>,
                    !.path = IF HasSegments(u) THEN u.path ELSE <<"postgres">>,
                    !.user = <<>>]
  BY <1>1, Zenon DEF Repacked
<1>3. /\ r.scheme = u.scheme /\ r.user = <<>> /\ r.host = u.host /\ r.query = u.query
      /\ r.fragment = <<>> /\ r.port = (IF port = 0 THEN 5432 ELSE u.port)
      /\ r.path = IF HasSegments(u) THEN u.path ELSE <<"postgres">>
  BY <1>2 DEF Parts
<1> QED BY <1>1, <1>3

LEMMA Regrouped ==
    ASSUME NEW a \in Seq(Symbols), NEW b \in Seq(Symbols), NEW c \in Seq(Symbols)
    PROVE  (a \o b) \o c = a \o (b \o c)
BY ConcatAssociative

LEMMA TwoAre ==
    ASSUME NEW c \in Symbols, NEW d \in Symbols
    PROVE  <<c>> \o <<d>> = <<c, d>>
<1>1. PICK a \in Seq(Symbols), b \in Seq(Symbols) :
          a = <<c>> /\ b = <<d>> /\ Len(a) = 1 /\ Len(b) = 1 /\ a[1] = c /\ b[1] = d
  BY One
<1>2. PICK t : t = a \o b
  OBVIOUS
<1>3. t \in Seq(Symbols) /\ Len(t) = 2 /\ t[1] = c /\ t[2] = d
  BY <1>1, <1>2, Joined
<1>4. PICK w : w = <<c, d>>
  OBVIOUS
<1>5. w \in Seq(Symbols) /\ Len(w) = 2 /\ w[1] = c /\ w[2] = d
  BY <1>4
<1>6. \A i \in 1 .. 2 : t[i] = w[i]
  BY <1>3, <1>5
<1> QED BY <1>1, <1>2, <1>3, <1>4, <1>5, <1>6, SeqEqual

\* The path with its slash is the encoded one.
LEMMA SlashedIs ==
    ASSUME NEW u, Readable(u)
    PROVE  LET path == IF HasSegments(u) THEN u.path ELSE <<"postgres">>
           IN  /\ path # <<>>
               /\ (IF ~StartsWith(path, "/") THEN <<"/">> ELSE <<>>) \o Encode(path, ReservedPath)
                  = Encode(PathTaken(u), ReservedPath)
               /\ Unescaped(PathTaken(u)) /\ PathTaken(u) # <<>> /\ PathTaken(u)[1] = "/"
<1>1. CASE HasSegments(u)
  <2>1. u.path \in Seq(Symbols) /\ u.path # <<>> /\ u.path[1] = "/" /\ Unescaped(u.path)
    <3>1. u.path \in Seq(Symbols)
      BY DEF Readable, Parts
    <3>2. u.path # <<>>
      BY <1>1, <3>1, EmptySeq DEF HasSegments
    <3> QED BY <3>1, <3>2 DEF Readable
  <2>2. Encode(u.path, ReservedPath) \in Seq(Symbols)
    BY <2>1, EncodedAndDecoded
  <2>3. <<>> \o Encode(u.path, ReservedPath) = Encode(u.path, ReservedPath)
    BY <2>2, ConcatEmptySeq
  <2> QED BY <1>1, <2>1, <2>3 DEF PathTaken, StartsWith
<1>2. CASE ~HasSegments(u)
  <2>1. PICK slash \in Symbols, name \in Symbols : slash = "/" /\ name = "postgres"
    BY DEF Symbols, EscapedSymbols
  <2>2. /\ <<name>> # <<>> /\ ~StartsWith(<<name>>, "/")
        /\ <<slash, name>> \in Seq(Symbols) /\ Len(<<slash, name>>) = 2 /\ <<slash, name>> # <<>>
        /\ <<slash, name>>[1] = slash /\ <<slash, name>>[2] = name /\ Len(<<name>>) = 1 /\ <<name>>[1] = name
    BY <2>1 DEF StartsWith
  <2>3. {slash, name} \cap (Illegal \cup ReservedPath \cup EscapeSymbols \cup {Broken}) = {}
    BY <2>1 DEF Illegal, ReservedPath, EscapeSymbols, Broken
  <2>4. Encode(<<name>>, ReservedPath) = <<name>>
    BY <2>2, <2>3 DEF Encode
  <2>5. Encode(<<slash, name>>, ReservedPath) = <<slash, name>>
    BY <2>2, <2>3 DEF Encode
  <2>6. Unescaped(<<slash, name>>)
    BY <2>2, <2>3 DEF Unescaped
  <2>7. <<slash>> \o <<name>> = <<slash, name>>
    BY TwoAre
  <2> QED BY <1>2, <2>1, <2>2, <2>4, <2>5, <2>6, <2>7 DEF PathTaken
<1> QED BY <1>1, <1>2
LEMMA SchemePieces ==
    /\ <<":">> \in Seq(Symbols) /\ <<"/", "/">> \in Seq(Symbols)
    /\ (<<"postgresql">> \o <<":">>) \o <<"/", "/">> = Scheme
<1>1. PICK x \in Symbols, colon \in Symbols, slash \in Symbols : x = "postgresql" /\ colon = ":" /\ slash = "/"
  BY DEF Symbols, EscapedSymbols
<1>2. PICK a : a = <<x, colon>>
  OBVIOUS
<1>3. a = <<x>> \o <<colon>>
  BY <1>2, TwoAre
<1>4. PICK b : b = <<slash, slash>>
  OBVIOUS
<1>5. /\ a \in Seq(Symbols) /\ Len(a) = 2 /\ a[1] = x /\ a[2] = colon
      /\ b \in Seq(Symbols) /\ Len(b) = 2 /\ b[1] = slash /\ b[2] = slash
  BY <1>2, <1>4
<1>6. PICK t : t = a \o b
  OBVIOUS
<1>7. t \in Seq(Symbols) /\ Len(t) = 4 /\ t[1] = x /\ t[2] = colon /\ t[3] = slash /\ t[4] = slash
  <2>1. /\ t \in Seq(Symbols) /\ Len(t) = Len(a) + Len(b)
        /\ \A i \in 1 .. Len(a) : t[i] = a[i]
        /\ \A i \in 1 .. Len(b) : t[Len(a) + i] = b[i]
    BY <1>5, <1>6, Joined
  <2> QED BY <1>5, <2>1
<1>8. PICK w \in Seq(Symbols) :
          w = Scheme /\ Len(w) = 4 /\ w[1] = x /\ w[2] = colon /\ w[3] = slash /\ w[4] = slash
  BY <1>1, SchemeIs
<1>9. \A i \in 1 .. 4 : t[i] = w[i]
  BY <1>7, <1>8
<1>10. t = w
  BY <1>7, <1>8, <1>9, SeqEqual
<1>11. <<colon>> \in Seq(Symbols)
  BY One
<1> QED BY <1>1, <1>3, <1>4, <1>5, <1>6, <1>8, <1>10, <1>11

LEMMA PortIsTaken ==
    ASSUME NEW u, Readable(u), u.scheme = <<"postgresql">>, NEW port
    PROVE  /\ Port(Repacked(u, port)) = PortTaken(u, port)
           /\ PortTaken(u, port) \in Ports /\ PortTaken(u, port) # 0
<1>1. u \in Parts /\ u.port \in Ports
  BY DEF Readable, Parts
<1>2. PICK r : /\ r = Repacked(u, port)
              /\ r.scheme = u.scheme /\ r.port = (IF port = 0 THEN 5432 ELSE u.port)
  BY <1>1, RepackedIs
<1>3. WellKnownPort(r.scheme) = 5432
  BY <1>2 DEF WellKnownPort
<1>4. Port(r) = IF r.port = 0 THEN 5432 ELSE r.port
  BY <1>3 DEF Port
<1> QED BY <1>1, <1>2, <1>4 DEF PortTaken, Ports

LEMMA PrintedText ==
    ASSUME NEW u, Readable(u), u.scheme = <<"postgresql">>, NEW port
    PROVE  UrlText(Repacked(u, port)) =
               Scheme \o ((Bracketed(u.host) \o Colon(PortTaken(u, port)))
                          \o (Encode(PathTaken(u), ReservedPath) \o QueryText(u)))
<1>1. PICK r : r = Repacked(u, port)
  OBVIOUS
<1>2. u \in Parts /\ u.host \in Seq(Symbols) /\ u.query \in Seq(Symbols)
  BY DEF Readable, Parts
<1>3. /\ r.scheme = <<"postgresql">> /\ r.user = <<>> /\ r.host = u.host /\ r.query = u.query
      /\ r.fragment = <<>> /\ r.path = IF HasSegments(u) THEN u.path ELSE <<"postgres">>
  BY <1>1, <1>2, RepackedIs
<1>4. PICK p \in Ports : p = PortTaken(u, port) /\ p # 0 /\ Port(r) = p
  BY <1>1, PortIsTaken
<1>5. PICK b, c : /\ b \in Seq(Symbols) /\ c \in Seq(Symbols)
                  /\ b = Bracketed(u.host) /\ c = Colon(p) /\ Len(c) = 2
  BY <1>2, BracketedIs, ColonIs
<1>6. PICK a : a \in Seq(Symbols) /\ a = b \o c /\ a # <<>>
  <2>1. b \o c \in Seq(Symbols) /\ Len(b \o c) = Len(b) + Len(c) /\ Len(b) \in Nat
    BY <1>5, Joined
  <2>2. Len(b \o c) # 0
    BY <1>5, <2>1
  <2> QED BY <2>1, <2>2, EmptySeq
<1>7. AuthorityOf(r) = a
  <2>1. AuthorityOf(r) = (<<>> \o b) \o c
    BY <1>3, <1>4, <1>5 DEF AuthorityOf, Colon
  <2>2. <<>> \o b = b
    BY <1>5, ConcatEmptySeq
  <2> QED BY <1>6, <2>1, <2>2
<1>8. PICK slash, e : /\ slash = (IF ~StartsWith(r.path, "/") THEN <<"/">> ELSE <<>>)
                      /\ e = Encode(r.path, ReservedPath)
  OBVIOUS
<1>9. PICK path : path \in Seq(Symbols) /\ path = Encode(PathTaken(u), ReservedPath)
  BY SlashedIs, EncodedAndDecoded
<1>10. r.path # <<>> /\ slash \o e = path /\ slash \in Seq(Symbols) /\ e \in Seq(Symbols)
  <2>1. r.path # <<>> /\ slash \o e = path
    BY <1>3, <1>8, <1>9, SlashedIs
  <2>2. "/" \in Symbols /\ "postgres" \in Symbols
    BY DEF Symbols, EscapedSymbols
  <2>3. <<"/">> \in Seq(Symbols) /\ <<>> \in Seq(Symbols) /\ <<"postgres">> \in Seq(Symbols)
    BY <2>2, One, EmptySeq
  <2>4. Unescaped(r.path)
    <3>1. Unescaped(<<"postgres">>)
      BY <2>3 DEF Unescaped, EscapeSymbols, Broken
    <3> QED BY <1>3, <3>1 DEF Readable
  <2> QED BY <1>8, <2>1, <2>3, <2>4, EncodedAndDecoded
<1>11. PICK q : q \in Seq(Symbols) /\ q = QueryText(u)
  <2>1. "?" \in Symbols
    BY DEF Symbols, EscapedSymbols
  <2> QED BY <1>2, <2>1, EmptySeq, TailOf DEF QueryText
<1>12. PICK x, y, z :
           /\ x \in Seq(Symbols) /\ y \in Seq(Symbols) /\ z \in Seq(Symbols)
           /\ x = <<"postgresql">> /\ y = <<":">> /\ z = <<"/", "/">>
           /\ (x \o y) \o z = Scheme
  BY SchemeIs, SchemePieces
<1>13. UrlText(r) = (((((x \o y) \o (z \o a)) \o slash) \o e) \o q) \o <<>>
  <2>1. x # <<>> /\ r.scheme = x
    BY <1>3, <1>12, SchemeIs, EmptySeq
  <2> QED BY <1>3, <1>7, <1>6, <1>8, <1>10, <1>11, <1>12, <2>1, Zenon DEF UrlText, QueryText
<1>14. (x \o y) \o (z \o a) = Scheme \o a
  <2>1. PICK t : t \in Seq(Symbols) /\ t = x \o y
    BY <1>12, Joined
  <2>2. a \in Seq(Symbols) /\ z \in Seq(Symbols)
    BY <1>6, <1>12
  <2>3. (t \o z) \o a = t \o (z \o a)
    BY <2>1, <2>2, Regrouped
  <2> QED BY <1>12, <2>1, <2>3
<1>15. PICK f : f \in Seq(Symbols) /\ f = Scheme
  BY SchemeIs
<1>16. PICK t : t \in Seq(Symbols) /\ t = f \o a
  BY <1>6, <1>15, Joined
<1>17. PICK w : w \in Seq(Symbols) /\ w = path \o q
  BY <1>9, <1>11, Joined
<1>18. ((((f \o a) \o slash) \o e) \o q) \o <<>> = f \o (a \o w)
  <2>1. (t \o slash) \o e = t \o (slash \o e)
    BY <1>10, <1>16, Regrouped
  <2>2. (t \o path) \o q = t \o (path \o q)
    BY <1>9, <1>11, <1>16, Regrouped
  <2>3. (f \o a) \o w = f \o (a \o w)
    BY <1>6, <1>15, <1>17, Regrouped, ZenonT(40)
  <2>4. PICK v : v = f \o (a \o w) /\ v \in Seq(Symbols)
    <3>1. a \o w \in Seq(Symbols)
      BY <1>6, <1>17, Joined
    <3> QED BY <1>15, <3>1, Joined
  <2>5. v \o <<>> = v
    BY <2>4, ConcatEmptySeq
  <2> QED BY <1>10, <1>16, <1>17, <2>1, <2>2, <2>3, <2>4, <2>5
<1>19. UrlText(r) = f \o (a \o (path \o q))
  BY <1>13, <1>14, <1>15, <1>17, <1>18
<1> QED BY <1>1, <1>4, <1>5, <1>6, <1>9, <1>11, <1>15, <1>19
\* It is read again as what was read before it was printed.
LEMMA PrintedIsRead ==
    ASSUME NEW u, Readable(u), u.scheme = <<"postgresql">>, ~StartsWith(u.host, "["), NEW port
    PROVE  LET w == Parse(UrlText(Repacked(u, port)))
           IN  /\ w.scheme = <<"postgresql">> /\ w.host = u.host
               /\ Port(w) = PortTaken(u, port) /\ w.path = PathTaken(u)
<1>1. PICK n : n = PortTaken(u, port) /\ n \in Ports /\ n # 0
  BY PortIsTaken
<1>2. PICK host : host = u.host /\ host \in Seq(Symbols)
  BY DEF Readable, Parts
<1>3. PICK v : v = [NoUrl EXCEPT !.host = host, !.port = n]
  OBVIOUS
<1>4. PICK a : /\ a = Bracketed(host) \o Colon(n) /\ a \in Seq(Symbols)
               /\ \A i \in 1 .. Len(a) : a[i] \notin Delimiters
               /\ Authority(a) = v
  <2>1. \A i \in 1 .. Len(host) : host[i] \notin Delimiters \cup {"@"}
    BY <1>2 DEF Readable
  <2>2. LET a == Bracketed(host) \o Colon(n)
        IN  /\ a \in Seq(Symbols) /\ \A i \in 1 .. Len(a) : a[i] \notin Delimiters \cup {"@"}
            /\ Authority(a) = HostAndPort(a)
    BY <1>1, <1>2, <2>1, AuthorityRead
  <2>3. host # <<>> /\ ~StartsWith(host, "[") /\ (Contains(host, "]") => ~Contains(host, ":"))
    BY <1>2 DEF Readable
  <2>4. HostAndPort(Bracketed(host) \o Colon(n)) = v
    BY <1>1, <1>2, <1>3, <2>3, HostRead
  <2> QED BY <2>2, <2>4
<1>5. PICK path : /\ path = Encode(PathTaken(u), ReservedPath) /\ path \in Seq(Symbols)
                  /\ \A i \in 1 .. Len(path) : path[i] \notin {"?", "#"}
                  /\ Decode(path) = PathTaken(u)
                  /\ Len(path) \in Nat \ {0} /\ path[1] = "/"
  <2>1. Unescaped(PathTaken(u)) /\ PathTaken(u) # <<>> /\ PathTaken(u)[1] = "/"
    BY SlashedIs
  <2>2. PICK p : p = PathTaken(u)
    OBVIOUS
  <2>3. Len(p) \in Nat \ {0}
    BY <2>1, <2>2, EmptySeq DEF Unescaped
  <2>4. Len(Encode(p, ReservedPath)) = Len(p) /\ Encode(p, ReservedPath)[1] = "/"
    <3>1. p[1] = "/" /\ "/" \notin Illegal \cup ReservedPath
      BY <2>1, <2>2 DEF Illegal, ReservedPath
    <3>2. PICK e : e = Encode(p, ReservedPath)
      OBVIOUS
    <3>3. DOMAIN e = 1 .. Len(p) /\ e[1] = p[1] /\ e = [i \in 1 .. Len(p) |-> e[i]]
      BY <2>3, <3>1, <3>2 DEF Encode
    <3>4. Len(e) = Len(p)
      BY <2>3, <3>3
    <3> QED BY <3>1, <3>2, <3>3, <3>4
  <2>5. /\ Encode(p, ReservedPath) \in Seq(Symbols)
        /\ \A i \in 1 .. Len(Encode(p, ReservedPath)) : Encode(p, ReservedPath)[i] \notin ReservedPath
        /\ Decode(Encode(p, ReservedPath)) = p
    BY <2>1, <2>2, EncodedAndDecoded
  <2> QED BY <2>2, <2>3, <2>4, <2>5 DEF ReservedPath
<1>6. PICK q : q = QueryText(u) /\ q \in Seq(Symbols) /\ (q # <<>> => q[1] = "?")
  <2>1. u.query \in Seq(Symbols) /\ "?" \in Symbols
    BY DEF Readable, Parts, Symbols, EscapedSymbols
  <2> QED BY <2>1, EmptySeq, TailOf DEF QueryText
<1>7. PICK t : t = path \o q /\ t \in Seq(Symbols) /\ t # <<>> /\ t[1] = "/"
  <2>1. /\ path \o q \in Seq(Symbols) /\ Len(path \o q) = Len(path) + Len(q) /\ Len(q) \in Nat
        /\ \A i \in 1 .. Len(path) : (path \o q)[i] = path[i]
    BY <1>5, <1>6, Joined
  <2>2. Len(path \o q) # 0 /\ (path \o q)[1] = "/"
    BY <1>5, <2>1
  <2> QED BY <2>1, <2>2, EmptySeq
<1>8. PICK local : local = a \o t /\ local \in Seq(Symbols)
  BY <1>4, <1>7, Joined
<1>9. Before(local, Delimiters) = a /\ Rest(local, Delimiters) = t
  <2>1. t[1] \in Delimiters
    BY <1>7 DEF Delimiters
  <2>2. Before(a \o t, Delimiters) = a /\ Rest(a \o t, Delimiters) = t
    BY <1>4, <1>7, <2>1, CutTogether, ZenonT(40)
  <2> QED BY <1>8, <2>2
<1>10. Before(t, {"?", "#"}) = path
  BY <1>5, <1>6, <1>7, CutTogether
<1>11. v \in Parts /\ v.scheme = <<>> /\ v.host = host /\ v.port = n
  BY <1>1, <1>2, <1>3, NoUrlIs DEF Parts, NoUrl
<1>12. PICK w : /\ w = [v EXCEPT !.scheme = <<"postgresql">>] /\ w \in Parts
                /\ w.scheme = <<"postgresql">> /\ w.host = host /\ w.port = n
  <2>1. PICK scheme : scheme \in Seq(Symbols) /\ scheme = <<"postgresql">>
    BY SchemeIs
  <2>2. PICK w : w = [v EXCEPT !.scheme = scheme]
    OBVIOUS
  <2>3. w \in Parts /\ w.scheme = scheme /\ w.host = host /\ w.port = n
    BY <1>11, <2>1, <2>2 DEF Parts
  <2> QED BY <2>1, <2>2, <2>3
<1>13. ~Throws(v)
  <2>1. Thrown.scheme = <<"thrown">>
    BY DEF Thrown, NoUrl
  <2>2. <<"thrown">> # <<>>
    OBVIOUS
  <2> QED BY <1>11, <2>1, <2>2 DEF Throws
<1>14. ReadOf(local) = WithPathQueryFragment(w, t)
  BY <1>4, <1>9, <1>12, <1>13, Zenon DEF ReadOf
<1>15. UrlText(Repacked(u, port)) = Scheme \o local
  BY <1>1, <1>2, <1>4, <1>5, <1>6, <1>7, <1>8, PrintedText
<1>16. PICK r : r = Parse(UrlText(Repacked(u, port))) /\ r = WithPathQueryFragment(w, t)
  BY <1>8, <1>14, <1>15, ReadAgain
<1>17. /\ r.scheme = <<"postgresql">> /\ r.host = host /\ r.port = n
       /\ r.path = Decode(Before(t, {"?", "#"}))
  <2>1. LET x == WithPathQueryFragment(w, t)
        IN  x.scheme = w.scheme /\ x.host = w.host /\ x.port = w.port /\ x.path = Decode(Before(t, {"?", "#"}))
    BY <1>7, <1>12, PathQueryFragment
  <2>2. /\ r.scheme = w.scheme /\ r.host = w.host /\ r.port = w.port
        /\ r.path = Decode(Before(t, {"?", "#"}))
    BY <1>16, <2>1
  <2> QED BY <1>12, <2>2
<1>18. Port(r) = n
  BY <1>1, <1>17 DEF Port
<1> QED BY <1>1, <1>2, <1>5, <1>10, <1>16, <1>17, <1>18
-----------------------------------------------------------------------------
(* What validate() accepts.                                                *)

LEMMA HostNeeded ==
    ASSUME NEW u, u.host = <<>>
    PROVE  Malformed(Address(u))
<1>1. PICK x, S : x = Numeral(u.port) /\ S = {":", x}
  OBVIOUS
<1>2. PICK t : t = <<":", x>>
  OBVIOUS
<1>3. t \in Seq(S) /\ Len(t) = 2 /\ t[1] = ":"
  BY <1>1, <1>2
<1>4. Address(u) = t
  <2>1. Address(u) = <<>> \o t
    BY <1>1, <1>2 DEF Address
  <2>2. <<>> \o t = t
    BY <1>3, ConcatEmptySeq
  <2> QED BY <2>1, <2>2
<1>5. Before(t, {":"}) = SubSeq(t, 1, 0)
  <2>1. 0 \in 0 .. Len(t) /\ 0 + 1 = 1 /\ t[1] \in {":"} /\ \A i \in 1 .. 0 : t[i] \notin {":"}
    BY <1>3
  <2> QED BY <1>3, <2>1, FirstSelected
<1>6. SubSeq(t, 1, 0) = <<>>
  BY <1>3, SubSeqEmpty
<1>7. ~StartsWith(t, "[")
  BY <1>3 DEF StartsWith
<1> QED BY <1>4, <1>5, <1>6, <1>7 DEF Malformed, SplitHost

\* What is looked at: the host and the port, as they stand next to each other.
LEMMA AddressIs ==
    ASSUME NEW u, Readable(u)
    PROVE  /\ Address(u) = u.host \o Colon(u.port)
           /\ Address(u) \in Seq(Symbols) /\ Address(u) # <<>> /\ Address(u)[1] = u.host[1]
           /\ Len(Address(u)) = Len(u.host) + 2 /\ Len(u.host) \in Nat \ {0}
           /\ \A i \in 1 .. Len(u.host) : Address(u)[i] = u.host[i]
           /\ \A i \in Len(u.host) + 1 .. Len(u.host) + 2 : Address(u)[i] \notin {"]", "["}
<1>1. u.host \in Seq(Symbols) /\ u.host # <<>> /\ u.port \in Ports
  BY DEF Readable, Parts
<1>2. PICK host, c : /\ host = u.host /\ host \in Seq(Symbols) /\ host # <<>> /\ Len(host) \in Nat \ {0}
                    /\ c = Colon(u.port) /\ c \in Seq(Symbols) /\ Len(c) = 2
                    /\ c[1] \notin {"]", "["} /\ c[2] \notin {"]", "["}
  BY <1>1, ColonIs, EmptySeq
<1>3. PICK t : t = host \o c
  OBVIOUS
<1>4. /\ t \in Seq(Symbols) /\ Len(t) = Len(host) + 2
      /\ \A i \in 1 .. Len(host) : t[i] = host[i]
      /\ t[Len(host) + 1] = c[1] /\ t[Len(host) + 2] = c[2]
  <2>1. /\ host \o c \in Seq(Symbols) /\ Len(host \o c) = Len(host) + Len(c)
        /\ \A i \in 1 .. Len(host) : (host \o c)[i] = host[i]
        /\ \A i \in 1 .. Len(c) : (host \o c)[Len(host) + i] = c[i]
    BY <1>2, Joined, ZenonT(40)
  <2>2. 1 \in 1 .. Len(c) /\ 2 \in 1 .. Len(c) /\ Len(c) = 2
    BY <1>2
  <2>3. (host \o c)[Len(host) + 1] = c[1] /\ (host \o c)[Len(host) + 2] = c[2]
    BY <2>1, <2>2
  <2> QED BY <1>3, <2>1, <2>2, <2>3
<1>5. t # <<>> /\ t[1] = host[1]
  BY <1>2, <1>4, EmptySeq
<1>6. \A i \in Len(host) + 1 .. Len(host) + 2 : t[i] \notin {"]", "["}
  <2> TAKE i \in Len(host) + 1 .. Len(host) + 2
  <2>1. i = Len(host) + 1 \/ i = Len(host) + 2
    BY <1>2
  <2> QED BY <1>2, <1>4, <2>1
<1>7. Address(u) = t
  BY <1>2, <1>3 DEF Address, Colon
<1> QED BY <1>2, <1>3, <1>4, <1>5, <1>6, <1>7

\* A host that begins with a bracket is not accepted: no bracket closes it.
LEMMA AcceptedHost ==
    ASSUME NEW u, Readable(u), ~Malformed(Address(u))
    PROVE  ~StartsWith(u.host, "[")
<1> SUFFICES ASSUME StartsWith(u.host, "[") PROVE FALSE
  OBVIOUS
<1>1. PICK t, host : t = Address(u) /\ host = u.host
  OBVIOUS
<1>2. /\ t \in Seq(Symbols) /\ t # <<>> /\ t[1] = host[1]
      /\ Len(t) = Len(host) + 2 /\ Len(host) \in Nat \ {0}
      /\ \A i \in 1 .. Len(host) : t[i] = host[i]
      /\ \A i \in Len(host) + 1 .. Len(host) + 2 : t[i] \notin {"]", "["}
  BY <1>1, AddressIs
<1>3. StartsWith(t, "[") /\ host[1] = "["
  BY <1>1, <1>2 DEF StartsWith
<1>4. Contains(Tail(t), "]")
  BY <1>1, <1>3 DEF Malformed
<1>5. PICK i \in 1 .. Len(Tail(t)) : Tail(t)[i] = "]"
  BY <1>4 DEF Contains
<1>6. Len(Tail(t)) = Len(t) - 1 /\ \A k \in 1 .. Len(t) - 1 : Tail(t)[k] = t[k + 1]
  BY <1>2, Behind
<1>7. i + 1 \in 1 .. Len(host) + 2 /\ t[i + 1] = "]"
  <2>1. i \in 1 .. Len(t) - 1 /\ i + 1 \in 1 .. Len(t)
    BY <1>2, <1>6
  <2> QED BY <1>2, <1>5, <1>6, <2>1
<1>8. i + 1 \in 1 .. Len(host) /\ host[i + 1] = "]"
  <2>1. i + 1 \notin Len(host) + 1 .. Len(host) + 2
    BY <1>2, <1>7
  <2>2. i + 1 \in 1 .. Len(host)
    BY <1>2, <1>7, <2>1
  <2> QED BY <1>2, <1>7, <2>2
<1>9. Contains(host, "]")
  BY <1>8 DEF Contains
<1> QED BY <1>1, <1>9 DEF Readable

LEMMA CutWhole ==
    ASSUME NEW s \in Seq(Symbols), NEW D
    PROVE  s = Before(s, D) \o Rest(s, D)
<1>1. PICK a, b : a = Before(s, D) /\ b = Rest(s, D)
  OBVIOUS
<1>2. /\ a \in Seq(Symbols) /\ b \in Seq(Symbols) /\ Len(a) <= Len(s) /\ Len(b) = Len(s) - Len(a)
      /\ \A i \in 1 .. Len(a) : a[i] = s[i]
      /\ \A i \in 1 .. Len(b) : b[i] = s[Len(a) + i]
  BY <1>1, CutApart
<1>3. PICK t : t = a \o b
  OBVIOUS
<1>4. /\ t \in Seq(Symbols) /\ Len(t) = Len(a) + Len(b) /\ Len(a) \in Nat /\ Len(b) \in Nat
      /\ \A i \in 1 .. Len(a) : t[i] = a[i]
      /\ \A i \in 1 .. Len(b) : t[Len(a) + i] = b[i]
  BY <1>2, <1>3, Joined
<1>5. Len(t) = Len(s) /\ Len(s) \in Nat
  BY <1>2, <1>4, LenProperties
<1>6. ASSUME NEW i \in 1 .. Len(s) PROVE t[i] = s[i]
  <2>1. CASE i <= Len(a)
    BY <1>2, <1>4, <2>1
  <2>2. CASE ~(i <= Len(a))
    <3>1. i - Len(a) \in 1 .. Len(b) /\ Len(a) + (i - Len(a)) = i
      BY <1>2, <1>4, <1>5, <2>2
    <3> QED BY <1>2, <1>4, <3>1
  <2> QED BY <2>1, <2>2
<1> QED BY <1>1, <1>3, <1>4, <1>5, <1>6, SeqEqual
\* What is taken for the port: the port, or what is behind the first colon of the
\* host.  It counts as missing if that is 0.
LEMMA PortLookedAt ==
    ASSUME NEW u, Readable(u), ~StartsWith(u.host, "["), NEW behind, behind = Rest(u.host, {":"})
    PROVE  /\ behind = <<>> => SplitPort(Address(u)) = <<Numeral(u.port)>>
           /\ Len(behind) = 1 => SplitPort(Address(u)) # <<>> /\ SplitPort(Address(u))[1] = ":"
           /\ Len(behind) > 1 => SplitPort(Address(u)) # <<>> /\ SplitPort(Address(u))[1] = behind[2]
<1>1. PICK host : host = u.host /\ host \in Seq(Symbols)
  BY DEF Readable, Parts
<1>2. PICK c : /\ c = Colon(u.port) /\ c \in Seq(Symbols) /\ Len(c) = 2 /\ c[1] = ":" /\ c # <<>>
               /\ StartsWith(c, ":") /\ Tail(c) = <<Numeral(u.port)>>
  BY ColonIs DEF Readable, Parts
<1>3. PICK front : /\ front = Before(host, {":"}) /\ front \in Seq(Symbols) /\ behind \in Seq(Symbols)
                   /\ host = front \o behind
                   /\ \A i \in 1 .. Len(front) : front[i] \notin {":"}
                   /\ (behind # <<>> => behind[1] = ":")
  <2>1. PICK front : front = Before(host, {":"})
    OBVIOUS
  <2>2. /\ front \in Seq(Symbols) /\ behind \in Seq(Symbols)
        /\ \A i \in 1 .. Len(front) : front[i] = host[i] /\ host[i] \notin {":"}
        /\ (behind # <<>> => behind[1] \in {":"})
    BY <1>1, <2>1, CutApart
  <2>3. host = front \o behind
    BY <1>1, <2>1, CutWhole
  <2> QED BY <2>1, <2>2, <2>3
<1>4. PICK t : t = behind \o c
  OBVIOUS
<1>5. /\ t \in Seq(Symbols) /\ Len(t) = Len(behind) + 2 /\ Len(behind) \in Nat
      /\ \A i \in 1 .. Len(behind) : t[i] = behind[i]
      /\ t[Len(behind) + 1] = ":"
  <2>1. /\ behind \o c \in Seq(Symbols) /\ Len(behind \o c) = Len(behind) + Len(c) /\ Len(behind) \in Nat
        /\ \A i \in 1 .. Len(behind) : (behind \o c)[i] = behind[i]
        /\ \A i \in 1 .. Len(c) : (behind \o c)[Len(behind) + i] = c[i]
    BY <1>2, <1>3, Joined, ZenonT(40)
  <2>2. 1 \in 1 .. Len(c) /\ Len(c) = 2 /\ c[1] = ":"
    BY <1>2
  <2>3. (behind \o c)[Len(behind) + 1] = ":"
    BY <2>1, <2>2
  <2> QED BY <1>4, <2>1, <2>2, <2>3
<1>6. t # <<>> /\ t[1] = ":" /\ StartsWith(t, ":")
  <2>1. t # <<>>
    BY <1>5, EmptySeq
  <2>2. CASE behind = <<>>
    <3>1. Len(behind) = 0
      BY <2>2, EmptySeq
    <3> QED BY <1>5, <2>1, <3>1 DEF StartsWith
  <2>3. CASE behind # <<>>
    <3>1. 1 \in 1 .. Len(behind)
      BY <1>3, <1>5, <2>3, EmptySeq
    <3> QED BY <1>3, <1>5, <2>1, <2>3, <3>1 DEF StartsWith
  <2> QED BY <2>2, <2>3
<1>7. Address(u) = front \o t
  <2>1. (front \o behind) \o c = front \o (behind \o c)
    BY <1>2, <1>3, Regrouped, SMTT(30)
  <2> QED BY <1>1, <1>2, <1>3, <1>4, <2>1, AddressIs
<1>8. Rest(Address(u), {":"}) = t
  <2>1. t[1] \in {":"}
    BY <1>6
  <2>2. Rest(front \o t, {":"}) = t
    BY <1>3, <1>5, <2>1, CutTogether
  <2> QED BY <1>7, <2>2
<1>9. SplitPort(Address(u)) = Tail(t)
  <2>1. ~StartsWith(Address(u), "[")
    <3>1. Address(u)[1] = u.host[1] /\ u.host # <<>>
      BY AddressIs DEF Readable
    <3> QED BY <3>1 DEF StartsWith
  <2> QED BY <1>6, <1>8, <2>1 DEF SplitPort
<1>10. PICK rest : /\ rest = Tail(t) /\ rest \in Seq(Symbols) /\ Len(rest) = Len(t) - 1
                   /\ \A i \in 1 .. Len(t) - 1 : rest[i] = t[i + 1]
  BY <1>5, <1>6, Behind, ZenonT(40)
<1>11. Tail(t) # <<>> /\ Tail(t)[1] = t[2]
  <2>1. Len(rest) # 0 /\ 1 \in 1 .. Len(t) - 1 /\ 1 + 1 = 2
    BY <1>5, <1>10
  <2>2. rest # <<>>
    BY <2>1, EmptySeq
  <2>3. rest[1] = t[2]
    BY <1>10, <2>1
  <2> QED BY <1>10, <2>2, <2>3
<1>12. behind = <<>> => t = c
  BY <1>2, <1>4, ConcatEmptySeq
<1>13. Len(behind) = 1 => t[2] = ":"
  <2>1. PICK n : n = Len(behind)
    OBVIOUS
  <2>2. n = 1 => n + 1 = 2
    OBVIOUS
  <2> QED BY <1>5, <2>1, <2>2
<1>14. Len(behind) > 1 => t[2] = behind[2]
  BY <1>5
<1> QED BY <1>2, <1>9, <1>11, <1>12, <1>13, <1>14

LEMMA AcceptedPort ==
    ASSUME NEW u, Readable(u), ~StartsWith(u.host, "["), NEW behind, behind = Rest(u.host, {":"}),
           NEW port, port = ServicePort(SplitPort(Address(u))), port >= 0
    PROVE  PortTaken(u, port) = IF u.port = 0 \/ (Len(behind) > 1 /\ behind[2] = "0") THEN 5432 ELSE u.port
<1>1. u.port \in Ports
  BY DEF Readable, Parts
<1>2. Len(behind) \in Nat /\ (Len(behind) = 0 <=> behind = <<>>)
  BY CutApart, LenProperties, EmptySeq DEF Readable, Parts
<1>3. PICK d : d = SplitPort(Address(u))
  OBVIOUS
<1>4. d[1] \in DOMAIN Numerals /\ port = Numerals[d[1]]
  <2>1. ~(-1 >= 0)
    OBVIOUS
  <2> QED BY <1>3, <2>1 DEF ServicePort
<1>5. CASE Len(behind) = 0
  <2>1. d = <<Numeral(u.port)>>
    BY <1>2, <1>3, <1>5, PortLookedAt
  <2>2. PICK w : w = Numeral(u.port)
    OBVIOUS
  <2>3. d[1] = w
    BY <2>1, <2>2
  <2>4. port = u.port
    BY <1>1, <1>4, <2>2, <2>3, NumeralOfPort
  <2> QED BY <1>5, <2>4 DEF PortTaken
<1>6. CASE Len(behind) = 1
  <2>1. d[1] = ":"
    BY <1>3, <1>6, PortLookedAt
  <2> QED BY <1>4, <2>1, NumeralsAre
<1>7. CASE Len(behind) > 1
  <2>1. d[1] = behind[2]
    BY <1>3, <1>7, PortLookedAt
  <2>2. port = 0 <=> behind[2] = "0"
    BY <1>4, <2>1, NumeralsAre
  <2> QED BY <1>7, <2>2 DEF PortTaken
<1>8. Len(behind) = 0 \/ Len(behind) = 1 \/ Len(behind) > 1
  <2>1. PICK n \in Nat : n = Len(behind)
    BY <1>2
  <2>2. n = 0 \/ n = 1 \/ n > 1
    OBVIOUS
  <2> QED BY <2>1, <2>2
<1> QED BY <1>5, <1>6, <1>7, <1>8
-----------------------------------------------------------------------------
(* A node on its way.                                                      *)

\* Where a node stands: what validate() has printed was read of the configured
\* text, and db_start() connects as it reads what was kept.
PortFound(u) == ServicePort(SplitPort(Address(u)))
Connected(kept) ==
    LET u == Parse(kept)
    IN  IF Throws(u) \/ u.path = <<>> THEN Nothing
        ELSE [family |-> "node", host |-> u.host, port |-> Port(u), dbname |-> Tail(u.path)]
NodeOnItsWay ==
    /\ stage = "url" => text \in NodeTexts
    /\ verdict = "stored" =>
           /\ stage \in {"stored url", "connected"} /\ text \in NodeTexts
           /\ Acceptable(Read(text)) /\ PortFound(Read(text)) >= 0
           /\ stored = UrlText(Repacked(Read(text), PortFound(Read(text))))
    /\ stage = "connected" => used = Connected(stored)

\* Every node is on its way, whatever is configured for it.
THEOREM NodesOnTheirWay == Spec => []NodeOnItsWay
<1>1. Init => NodeOnItsWay
  BY DEF Init, NodeOnItsWay
<1>2. NodeOnItsWay /\ [Next]_vars => NodeOnItsWay'
  <2> SUFFICES ASSUME NodeOnItsWay, [Next]_vars PROVE NodeOnItsWay'
    OBVIOUS
  <2>1. CASE ValidateNode
    <3>1. /\ stage = "url" /\ stage' = "stored url" /\ text' = text /\ text \in NodeTexts
          /\ RefuseNode \/ KeepNode \/ StoreNode
      BY <2>1 DEF ValidateNode, NodeOnItsWay
    <3>2. CASE RefuseNode
      BY <3>1, <3>2 DEF RefuseNode, NodeOnItsWay
    <3>3. CASE KeepNode
      BY <3>1, <3>3 DEF KeepNode, NodeOnItsWay
    <3>4. CASE StoreNode
      <4>1. /\ Acceptable(Read(text)) /\ PortFound(Read(text)) >= 0
            /\ stored' = UrlText(Repacked(Read(text), PortFound(Read(text))))
        BY <3>4 DEF StoreNode, PortFound
      <4> QED BY <3>1, <4>1 DEF NodeOnItsWay
    <3> QED BY <3>1, <3>2, <3>3, <3>4
  <2>2. CASE DbStart
    <3>1. /\ stage = "stored url" /\ stage' = "connected" /\ text' = text /\ stored' = stored
          /\ verdict' = verdict /\ used' = Connected(stored)
      BY <2>2, Zenon DEF DbStart, Connected
    <3> QED BY <3>1 DEF NodeOnItsWay
  <2>3. CASE ValidateListening
    <3>1. stage = "listening" /\ stage' = "stored listening" /\ verdict' = verdict
      BY <2>3 DEF ValidateListening
    <3> QED BY <3>1 DEF NodeOnItsWay
  <2>4. CASE HttpStart
    <3>1. stage = "stored listening" /\ stage' = "bound" /\ verdict' = verdict
      BY <2>4 DEF HttpStart
    <3> QED BY <3>1 DEF NodeOnItsWay
  <2>5. CASE UNCHANGED vars
    <3>1. stage' = stage /\ text' = text /\ stored' = stored /\ verdict' = verdict /\ used' = used
      BY <2>5 DEF vars
    <3> QED BY <3>1 DEF NodeOnItsWay
  <2> QED BY <2>1, <2>2, <2>3, <2>4, <2>5 DEF Next, Done
<1> QED BY <1>1, <1>2, PTL DEF Spec

\* What is configured, with its scheme.
LEMMA CompletedIs ==
    ASSUME NEW s \in NodeTexts
    PROVE  s \in Seq(Symbols) /\ Completed(s) \in Seq(Symbols)
<1>1. STRING \subseteq Symbols
  BY DEF Symbols
<1>2. s \in Seq(Symbols)
  BY <1>1, NodesAssumption, SeqMonotonic
<1>3. Scheme \o s \in Seq(Symbols)
  BY <1>2, SchemeIs, Joined
<1> QED BY <1>2, <1>3 DEF Completed, Scheme

LEMMA AcceptedNode ==
    ASSUME NEW s \in NodeTexts, Acceptable(Read(s))
    PROVE  /\ Readable(Read(s)) /\ ~StartsWith(Read(s).host, "[") /\ Read(s).host # <<>>
           /\ Read(s).scheme \in {<<>>, <<"postgresql">>}
<1>1. PICK u : u = Read(s)
  OBVIOUS
<1>2. ~Malformed(Address(u)) /\ u.scheme \in {<<>>, <<"postgresql">>}
  BY <1>1 DEF Acceptable
<1>3. u.host # <<>>
  BY <1>2, HostNeeded
<1>4. Readable(u)
  BY <1>1, <1>3, CompletedIs, WhatIsRead DEF Read
<1> QED BY <1>1, <1>2, <1>3, <1>4, AcceptedHost

\* Host, port and database survive validate(), whatever is configured.
THEOREM NodesSurvive == Spec => []NodeSurvives
<1>1. NodeOnItsWay => NodeSurvives
  <2> DEFINE u == Read(text)
             behind == Rest(u.host, {":"})
             wanted == [family |-> "node", host |-> u.host,
                        port |-> IF u.port = 0 \/ (Len(behind) > 1 /\ behind[2] = "0") THEN 5432 ELSE u.port,
                        dbname |-> IF HasSegments(u) THEN Tail(u.path) ELSE <<"postgres">>]
  <2> SUFFICES ASSUME NodeOnItsWay, stage = "connected", verdict = "stored", u.scheme # <<>>
               PROVE  used = wanted
    BY Zenon DEF NodeSurvives
  <2> HIDE DEF u, behind
  <2>1. /\ Readable(u) /\ ~StartsWith(u.host, "[") /\ u.scheme = <<"postgresql">>
        /\ PortFound(u) >= 0 /\ stored = UrlText(Repacked(u, PortFound(u)))
        /\ used = Connected(stored)
    BY AcceptedNode DEF NodeOnItsWay, u
  <2>2. PICK w : w = Parse(stored)
    OBVIOUS
  <2>3. /\ w.scheme = <<"postgresql">> /\ w.host = u.host
        /\ Port(w) = PortTaken(u, PortFound(u)) /\ w.path = PathTaken(u)
    BY <2>1, <2>2, PrintedIsRead
  <2>4. ~Throws(w)
    BY <2>3 DEF Throws, Thrown, NoUrl
  <2>5. w.path # <<>>
    BY <2>1, <2>3, SlashedIs
  <2>6. used = [family |-> "node", host |-> w.host, port |-> Port(w), dbname |-> Tail(w.path)]
    BY <2>1, <2>2, <2>4, <2>5, Zenon DEF Connected
  <2>7. Port(w) = IF u.port = 0 \/ (Len(behind) > 1 /\ behind[2] = "0") THEN 5432 ELSE u.port
    <3>1. behind = Rest(u.host, {":"})
      BY DEF behind
    <3> QED BY <2>1, <2>3, <3>1, AcceptedPort DEF PortFound
  <2>8. Tail(w.path) = IF HasSegments(u) THEN Tail(u.path) ELSE <<"postgres">>
    <3>1. PICK slash, name : slash = "/" /\ name = "postgres"
      OBVIOUS
    <3>2. Tail(<<slash, name>>) = <<name>>
      OBVIOUS
    <3>3. Tail(PathTaken(u)) = IF HasSegments(u) THEN Tail(u.path) ELSE <<"postgres">>
      BY <3>1, <3>2 DEF PathTaken
    <3> QED BY <2>3, <3>3
  <2> QED BY <2>3, <2>6, <2>7, <2>8, Zenon
<1> QED BY <1>1, NodesOnTheirWay, PTL
\* A secret is in the user information of the text that is read: an "@" comes
\* behind it, and nothing before that ends the authority.
LEMMA SecretsInFront ==
    ASSUME NEW s \in NodeTexts, NEW scheme, NEW local, MadeOfParts(Completed(s), scheme, local),
           NEW j \in 1 .. Len(local), local[j] \in Secrets
    PROVE  \E at \in j + 1 .. Len(local) : local[at] = "@" /\ \A k \in 1 .. at : local[k] \notin Delimiters
<1>1. PICK c, n : c = Completed(s) /\ n = Len(scheme)
  OBVIOUS
<1>2. /\ n \in Nat /\ Len(local) \in Nat /\ Len(c) = n + 3 + Len(local)
      /\ \A i \in 1 .. n : c[i] \notin {":", "/", "?", "#"}
      /\ c[n + 1] = ":" /\ c[n + 2] = "/"
      /\ \A i \in 1 .. Len(local) : c[n + 3 + i] = local[i]
  BY <1>1 DEF MadeOfParts
<1>3. s \in Seq(Symbols) /\ Len(s) \in Nat
  BY CompletedIs, LenProperties
<1>4. CASE HasScheme(s)
  <2>1. c = s
    BY <1>1, <1>4 DEF Completed
  <2>2. n + 3 + j \in 1 .. Len(s) /\ s[n + 3 + j] \in Secrets
    BY <1>2, <2>1
  <2>3. PICK start \in 1 .. n + 3 + j, at \in n + 3 + j + 1 .. Len(s) :
            /\ s[at] = "@" /\ \A k \in start .. at : s[k] \notin {"/", "?", "#"}
            /\ \/ start = 1
               \/ /\ start > 3 /\ s[start - 3] = ":"
                  /\ \A k \in 1 .. start - 4 : s[k] \notin {":", "/", "?", "#"}
    <3>1. PICK i : i = n + 3 + j /\ i \in 1 .. Len(s) /\ s[i] \in Secrets
      BY <2>2
    <3>2. InUserInfo(s, i)
      BY <3>1, SecretsAssumption, Zenon
    <3>3. PICK start \in 1 .. i, at \in i + 1 .. Len(s) :
              /\ s[at] = "@" /\ \A k \in start .. at : s[k] \notin {"/", "?", "#"}
              /\ \/ start = 1
                 \/ /\ start > 3 /\ s[start - 3] = ":" /\ s[start - 2] = "/" /\ s[start - 1] = "/"
                    /\ \A k \in 1 .. start - 4 : s[k] \notin {":", "/", "?", "#"}
      BY <3>2, Zenon DEF InUserInfo
    <3> QED BY <3>1, <3>3
  <2>4. start # 1
    <3>1. n + 2 \in 1 .. at
      BY <1>2, <1>3
    <3> QED BY <1>2, <2>1, <2>3, <3>1
  <2>5. start = n + 4
    <3>1. n + 1 \notin 1 .. start - 4
      BY <1>2, <2>1, <2>3, <2>4
    <3>2. start - 3 \notin 1 .. n
      BY <1>2, <2>1, <2>3, <2>4
    <3>3. start > 3
      BY <2>3, <2>4
    <3> QED BY <1>2, <3>1, <3>2, <3>3
  <2>6. PICK end : end = at - (n + 3)
    OBVIOUS
  <2>7. end \in j + 1 .. Len(local) /\ n + 3 + end = at
    BY <1>2, <2>1, <2>6
  <2>8. local[end] = "@"
    <3>1. end \in 1 .. Len(local)
      BY <1>2, <2>7
    <3> QED BY <1>2, <2>1, <2>3, <2>7, <3>1
  <2>9. ASSUME NEW k \in 1 .. end PROVE local[k] \notin Delimiters
    <3>1. k \in 1 .. Len(local) /\ n + 3 + k \in start .. at
      BY <1>2, <2>5, <2>7
    <3> QED BY <1>2, <2>1, <2>3, <3>1 DEF Delimiters
  <2> QED BY <2>7, <2>8, <2>9
<1>5. CASE ~HasScheme(s)
  <2>1. c = Scheme \o s
    BY <1>1, <1>5 DEF Completed, Scheme
  <2>2. /\ Len(c) = 4 + Len(s) /\ c[1] = "postgresql" /\ c[2] = ":"
        /\ \A i \in 1 .. Len(s) : c[4 + i] = s[i]
    <3>1. PICK f : /\ f = Scheme /\ f \in Seq(Symbols) /\ Len(f) = 4
                   /\ f[1] = "postgresql" /\ f[2] = ":"
      BY SchemeIs
    <3>2. /\ Len(f \o s) = Len(f) + Len(s)
          /\ \A i \in 1 .. Len(f) : (f \o s)[i] = f[i]
          /\ \A i \in 1 .. Len(s) : (f \o s)[Len(f) + i] = s[i]
      BY <1>3, <3>1, Joined
    <3>3. 1 \in 1 .. Len(f) /\ 2 \in 1 .. Len(f) /\ Len(f) = 4
      BY <3>1
    <3>4. (f \o s)[1] = f[1] /\ (f \o s)[2] = f[2]
      BY <3>2, <3>3
    <3> QED BY <2>1, <3>1, <3>2, <3>3, <3>4
  <2>3. n = 1
    <3>1. n # 0
      BY <1>2, <2>2
    <3>2. 2 \notin 1 .. n
      BY <1>2, <2>2
    <3> QED BY <1>2, <3>1, <3>2
  <2>4. Len(local) = Len(s) /\ \A i \in 1 .. Len(s) : local[i] = s[i]
    <3>1. Len(local) = Len(s)
      BY <1>2, <1>3, <2>2, <2>3
    <3>2. \A i \in 1 .. Len(s) : c[4 + i] = local[i]
      BY <1>2, <2>3, <3>1
    <3> QED BY <2>2, <3>1, <3>2
  <2>5. j \in 1 .. Len(s) /\ s[j] \in Secrets
    BY <2>4
  <2>6. PICK start \in 1 .. j, at \in j + 1 .. Len(s) :
            /\ s[at] = "@" /\ \A k \in start .. at : s[k] \notin {"/", "?", "#"}
            /\ \/ start = 1
               \/ start > 3 /\ s[start - 3] = ":" /\ s[start - 2] = "/" /\ s[start - 1] = "/"
    BY <2>5, SecretsAssumption DEF InUserInfo
  <2>7. start = 1
    <3> SUFFICES ASSUME start > 3, s[start - 3] = ":", s[start - 2] = "/", s[start - 1] = "/" PROVE FALSE
      BY <2>6
    <3>1. start - 3 \in 1 .. Len(s) - 2 /\ (start - 3) + 1 = start - 2 /\ (start - 3) + 2 = start - 1
      BY <1>3
    <3> QED BY <1>5, <3>1 DEF HasScheme
  <2>8. at \in j + 1 .. Len(local) /\ local[at] = "@"
    BY <1>3, <2>4, <2>6
  <2>9. \A k \in 1 .. at : local[k] \notin Delimiters
    <3> TAKE k \in 1 .. at
    <3>1. k \in 1 .. Len(s) /\ k \in start .. at
      BY <1>3, <2>7
    <3> QED BY <2>4, <2>6, <3>1 DEF Delimiters
  <2> QED BY <2>8, <2>9
<1> QED BY <1>4, <1>5
\* Texts without a secret.
Clean(s) == \A i \in 1 .. Len(s) : s[i] \notin Secrets

LEMMA NothingIsLeft ==
    ASSUME NEW s \in NodeTexts, NEW u, u = Read(s), u.host # <<>>
    PROVE  Clean(u.host) /\ Clean(u.path) /\ Clean(u.query)
<1>1. PICK local : LET behind == Rest(local, Delimiters)
                   IN  /\ MadeOfParts(Completed(s), u.scheme, local)
                       /\ MadeOf(u.host, AfterLast(Before(local, Delimiters), "@"))
                       /\ u.path = Decode(Before(behind, {"?", "#"}))
                       /\ MadeOf(u.query, behind)
  BY CompletedIs, WhatIsRead DEF Read
<1>2. local \in Seq(Symbols) /\ Len(local) \in Nat
  BY <1>1 DEF MadeOfParts
<1>3. PICK front, behind : front = Before(local, Delimiters) /\ behind = Rest(local, Delimiters)
  OBVIOUS
<1>4. PICK m : m = Len(front)
  OBVIOUS
<1>5. /\ front \in Seq(Symbols) /\ behind \in Seq(Symbols) /\ m \in Nat
      /\ m <= Len(local) /\ Len(behind) = Len(local) - m
      /\ \A i \in 1 .. m : front[i] = local[i]
      /\ \A i \in 1 .. Len(behind) : behind[i] = local[m + i]
      /\ behind # <<>> => behind[1] \in Delimiters
  <2>1. /\ front \in Seq(Symbols) /\ behind \in Seq(Symbols)
        /\ Len(front) <= Len(local) /\ Len(behind) = Len(local) - Len(front)
        /\ \A i \in 1 .. Len(front) : front[i] = local[i]
        /\ \A i \in 1 .. Len(behind) : behind[i] = local[Len(front) + i]
        /\ behind # <<>> => behind[1] \in Delimiters
    <3>1. local \in Seq(Symbols)
      BY <1>2, Zenon
    <3>2. /\ Before(local, Delimiters) \in Seq(Symbols) /\ Rest(local, Delimiters) \in Seq(Symbols)
          /\ Len(Before(local, Delimiters)) <= Len(local)
          /\ Len(Rest(local, Delimiters)) = Len(local) - Len(Before(local, Delimiters))
          /\ \A i \in 1 .. Len(Before(local, Delimiters)) :
                 Before(local, Delimiters)[i] = local[i] /\ local[i] \notin Delimiters
          /\ \A i \in 1 .. Len(Rest(local, Delimiters)) :
                 Rest(local, Delimiters)[i] = local[Len(Before(local, Delimiters)) + i]
          /\ Rest(local, Delimiters) # <<>> => Rest(local, Delimiters)[1] \in Delimiters
      BY <3>1, CutApart, Zenon
    <3> QED BY <1>3, <3>2, Zenon
  <2>2. Len(front) \in Nat
    BY <2>1, LenProperties
  <2> QED BY <1>4, <2>1, <2>2
<1>6. m < Len(local) => local[m + 1] \in Delimiters
  <2> SUFFICES ASSUME m < Len(local) PROVE local[m + 1] \in Delimiters
    OBVIOUS
  <2>1. 1 \in 1 .. Len(behind) /\ Len(behind) # 0
    BY <1>2, <1>5
  <2>2. behind # <<>>
    BY <2>1, EmptySeq
  <2> QED BY <1>5, <2>1, <2>2
<1>7. ASSUME NEW j \in 1 .. Len(local), local[j] \in Secrets
      PROVE  \E at \in j + 1 .. m : local[at] = "@"
  <2>1. PICK at \in j + 1 .. Len(local) : local[at] = "@" /\ \A k \in 1 .. at : local[k] \notin Delimiters
    BY <1>1, <1>7, SecretsInFront
  <2>2. at <= m
    <3> SUFFICES ASSUME ~(at <= m) PROVE FALSE
      OBVIOUS
    <3>1. m < Len(local) /\ m + 1 \in 1 .. at
      BY <1>2, <1>5
    <3> QED BY <1>6, <2>1, <3>1
  <2>3. at \in j + 1 .. m
    BY <1>2, <1>5, <2>2
  <2> QED BY <2>1, <2>3
<1>8. Clean(behind)
  <2> SUFFICES ASSUME NEW i \in 1 .. Len(behind), behind[i] \in Secrets PROVE FALSE
    BY DEF Clean
  <2>1. m + i \in 1 .. Len(local) /\ local[m + i] \in Secrets
    BY <1>2, <1>5
  <2>2. PICK at \in m + i + 1 .. m : local[at] = "@"
    BY <1>7, <2>1
  <2> QED BY <1>5, <2>2
<1>9. Clean(AfterLast(front, "@"))
  <2>1. PICK n : n = LastOf(front, "@")
    OBVIOUS
  <2>2. /\ n \in 0 .. m /\ AfterLast(front, "@") = SubSeq(front, n + 1, m)
        /\ \A i \in n + 1 .. m : front[i] # "@"
    BY <1>4, <1>5, <2>1, LastSelected
  <2>3. PICK named : named = AfterLast(front, "@")
    OBVIOUS
  <2>4. Len(named) = m - n /\ \A i \in 1 .. m - n : named[i] = front[n + i]
    BY <1>4, <1>5, <2>2, <2>3, Ends
  <2>5. ASSUME NEW i \in 1 .. Len(named), named[i] \in Secrets PROVE FALSE
    <3>0. i \in 1 .. m - n
      BY <2>4
    <3>1. n + i \in 1 .. m /\ n + i \in 1 .. Len(local) /\ named[i] = front[n + i]
      <4>1. named[i] = front[n + i]
        BY <2>4, <3>0
      <4>2. n + i \in 1 .. m
        <5>1. n \in 0 .. m /\ m \in Nat
          BY <1>5, <2>2
        <5> QED BY <3>0, <5>1
      <4> QED BY <1>2, <1>5, <4>1, <4>2
    <3>2. local[n + i] \in Secrets
      BY <1>5, <2>5, <3>1
    <3>3. PICK at \in n + i + 1 .. m : local[at] = "@"
      BY <1>7, <3>1, <3>2
    <3>4. at \in n + 1 .. m /\ at \in 1 .. m
      BY <1>5, <2>2, <3>1
    <3> QED BY <1>5, <2>2, <3>3, <3>4
  <2> QED BY <2>3, <2>5 DEF Clean
<1>10. Clean(u.host)
  BY <1>1, <1>3, <1>9 DEF Clean, MadeOf
<1>11. Clean(u.query)
  BY <1>1, <1>3, <1>8 DEF Clean, MadeOf
<1>12. Clean(u.path)
  <2>1. PICK p : p = Before(behind, {"?", "#"})
    OBVIOUS
  <2>2. p \in Seq(Symbols) /\ MadeOf(p, behind)
    BY <1>5, <2>1, CutApart, PartsAreMadeOf
  <2>3. Clean(p)
    BY <1>8, <2>2 DEF Clean, MadeOf
  <2>4. /\ Len(Decode(p)) <= Len(p) /\ Unescaped(Decode(p))
        /\ \A i \in 1 .. Len(Decode(p)) : Decode(p)[i] = p[i] \/ Decode(p)[i] \in EscapedSymbols
    BY <2>2, Decoded
  <2>5. Len(p) \in Nat /\ Len(Decode(p)) \in Nat
    BY <2>2, <2>4, LenProperties DEF Unescaped
  <2>6. Secrets \cap EscapedSymbols = {}
    BY DEF Secrets, EscapedSymbols
  <2>7. ASSUME NEW i \in 1 .. Len(Decode(p)) PROVE Decode(p)[i] \notin Secrets
    <3>1. i \in 1 .. Len(p)
      BY <2>4, <2>5
    <3> QED BY <2>3, <2>4, <2>6, <3>1 DEF Clean
  <2>8. u.path = Decode(p)
    BY <1>1, <1>3, <2>1
  <2> QED BY <2>7, <2>8 DEF Clean
<1> QED BY <1>10, <1>11, <1>12

LEMMA CleanJoined ==
    ASSUME NEW a \in Seq(Symbols), NEW b \in Seq(Symbols), Clean(a), Clean(b)
    PROVE  a \o b \in Seq(Symbols) /\ Clean(a \o b)
<1>1. PICK t : t = a \o b
  OBVIOUS
<1>2. /\ t \in Seq(Symbols) /\ Len(t) = Len(a) + Len(b) /\ Len(a) \in Nat /\ Len(b) \in Nat
      /\ \A i \in 1 .. Len(a) : t[i] = a[i]
      /\ \A i \in 1 .. Len(b) : t[Len(a) + i] = b[i]
  BY <1>1, Joined
<1>3. ASSUME NEW i \in 1 .. Len(t) PROVE t[i] \notin Secrets
  <2>1. CASE i \in 1 .. Len(a)
    BY <1>2, <2>1 DEF Clean
  <2>2. CASE i \notin 1 .. Len(a)
    <3>1. i - Len(a) \in 1 .. Len(b) /\ Len(a) + (i - Len(a)) = i
      BY <1>2, <2>2
    <3>2. t[Len(a) + (i - Len(a))] = b[i - Len(a)]
      BY <1>2, <3>1
    <3> QED BY <3>1, <3>2 DEF Clean
  <2> QED BY <2>1, <2>2
<1> QED BY <1>1, <1>2, <1>3 DEF Clean

LEMMA CleanEncoded ==
    ASSUME NEW p, Unescaped(p), Clean(p)
    PROVE  Encode(p, ReservedPath) \in Seq(Symbols) /\ Clean(Encode(p, ReservedPath))
<1>1. PICK e : e = Encode(p, ReservedPath)
  OBVIOUS
<1>2. e \in Seq(Symbols) /\ Len(p) \in Nat
  BY <1>1, EncodedAndDecoded, LenProperties DEF Unescaped
<1>3. /\ DOMAIN e = 1 .. Len(p)
      /\ \A i \in 1 .. Len(p) : e[i] \in EscapeSymbols \/ e[i] = p[i]
  <2>1. ASSUME NEW i \in 1 .. Len(p), p[i] \in Illegal \cup ReservedPath
        PROVE  (CHOOSE x \in DOMAIN Escapes : Escapes[x] = p[i]) \in EscapeSymbols
    BY <2>1, EscapeOf, EscapesAre
  <2> QED BY <1>1, <2>1 DEF Encode
<1>4. Len(e) = Len(p)
  BY <1>2, <1>3, LenProperties
<1>5. Secrets \cap EscapeSymbols = {}
  BY DEF Secrets, EscapeSymbols
<1>6. Clean(e)
  BY <1>3, <1>4, <1>5 DEF Clean
<1> QED BY <1>1, <1>2, <1>6
LEMMA PrintedIsClean ==
    ASSUME NEW u, Readable(u), u.scheme \in {<<>>, <<"postgresql">>},
           Clean(u.host), Clean(u.path), Clean(u.query), NEW port
    PROVE  Clean(UrlText(Repacked(u, port)))
<1>1. u \in Parts /\ u.host \in Seq(Symbols) /\ u.query \in Seq(Symbols)
  BY DEF Readable, Parts
<1>2. PICK query : query = QueryText(u) /\ query \in Seq(Symbols) /\ Clean(query)
  <2>1. "?" \in Symbols /\ "?" \notin Secrets
    BY DEF Symbols, EscapedSymbols, Secrets
  <2>2. PICK q : q = <<"?">> /\ q \in Seq(Symbols) /\ Len(q) = 1 /\ q[1] = "?"
    BY <2>1, One
  <2>3. Clean(q)
    BY <2>1, <2>2 DEF Clean
  <2>4. q \o u.query \in Seq(Symbols) /\ Clean(q \o u.query)
    BY <1>1, <2>2, <2>3, CleanJoined
  <2>5. <<>> \in Seq(Symbols) /\ Clean(<<>>)
    BY EmptySeq DEF Clean
  <2> QED BY <2>2, <2>4, <2>5 DEF QueryText
<1>3. CASE u.scheme = <<>>
  <2>1. PICK r : r = Repacked(u, port)
    OBVIOUS
  <2>2. /\ r.scheme = <<>> /\ r.query = u.query /\ r.fragment = <<>>
        /\ r.path = IF HasSegments(u) THEN u.path ELSE <<"postgres">>
    BY <1>1, <1>3, <2>1, RepackedIs
  <2>3. Unescaped(r.path) /\ Clean(r.path)
    <3>1. PICK name : name = "postgres" /\ name \in Symbols /\ name \notin Secrets \cup EscapeSymbols \cup {Broken}
      BY DEF Symbols, Secrets, EscapeSymbols, Broken
    <3>2. PICK w : w = <<name>> /\ w \in Seq(Symbols) /\ Len(w) = 1 /\ w[1] = name
      BY <3>1, One
    <3>3. Unescaped(w) /\ Clean(w)
      BY <3>1, <3>2 DEF Unescaped, Clean
    <3> QED BY <2>2, <3>1, <3>2, <3>3 DEF Readable
  <2>4. PICK e : e = Encode(r.path, ReservedPath) /\ e \in Seq(Symbols) /\ Clean(e)
    BY <2>3, CleanEncoded
  <2>5. UrlText(r) = (e \o query) \o <<>>
    BY <1>2, <2>2, <2>4, Zenon DEF UrlText, QueryText
  <2>6. PICK t : t = e \o query /\ t \in Seq(Symbols) /\ Clean(t)
    BY <1>2, <2>4, CleanJoined
  <2>7. t \o <<>> = t
    BY <2>6, ConcatEmptySeq
  <2> QED BY <2>1, <2>5, <2>6, <2>7
<1>4. CASE u.scheme = <<"postgresql">>
  <2>1. PICK n : n = PortTaken(u, port) /\ n \in Ports
    BY <1>4, PortIsTaken
  <2>2. PICK b : b = Bracketed(u.host) /\ b \in Seq(Symbols) /\ Clean(b)
    <3>1. PICK b : b = Bracketed(u.host)
      OBVIOUS
    <3>2. /\ b \in Seq(Symbols)
          /\ \A i \in 1 .. Len(b) : b[i] \in {"[", "]"} \/ \E j \in 1 .. Len(u.host) : b[i] = u.host[j]
      BY <1>1, <3>1, BracketedIs
    <3>3. Secrets \cap {"[", "]"} = {}
      BY DEF Secrets
    <3> QED BY <3>1, <3>2, <3>3 DEF Clean
  <2>3. PICK c : c = Colon(n) /\ c \in Seq(Symbols) /\ Clean(c)
    <3>1. PICK c : /\ c = Colon(n) /\ c \in Seq(Symbols) /\ Len(c) = 2
                   /\ c[1] = ":" /\ c[2] = Numeral(n)
      BY <2>1, ColonIs
    <3>2. c[1] \notin Secrets /\ c[2] \notin Secrets
      BY <2>1, <3>1, NumeralOfPort, NumeralsAre DEF Secrets
    <3>3. \A i \in 1 .. 2 : c[i] \notin Secrets
      BY <3>2
    <3> QED BY <3>1, <3>3 DEF Clean
  <2>4. PICK a : a = b \o c /\ a \in Seq(Symbols) /\ Clean(a)
    BY <2>2, <2>3, CleanJoined
  <2>5. PICK e : e = Encode(PathTaken(u), ReservedPath) /\ e \in Seq(Symbols) /\ Clean(e)
    <3>1. Clean(PathTaken(u))
      <4>1. PICK slash, name : /\ slash = "/" /\ name = "postgres" /\ slash \in Symbols /\ name \in Symbols
                              /\ slash \notin Secrets /\ name \notin Secrets
        <5>1. "/" \in Symbols /\ "postgres" \in Symbols
          BY DEF Symbols, EscapedSymbols
        <5>2. "/" \notin Secrets /\ "postgres" \notin Secrets
          BY DEF Secrets
        <5> QED BY <5>1, <5>2
      <4>2. PICK w : w = <<slash, name>>
        OBVIOUS
      <4>3. Len(w) = 2 /\ w[1] = slash /\ w[2] = name
        BY <4>2
      <4>4. \A i \in 1 .. 2 : w[i] \notin Secrets
        BY <4>1, <4>3
      <4>5. Clean(w)
        BY <4>3, <4>4 DEF Clean
      <4> QED BY <4>1, <4>2, <4>5 DEF PathTaken
    <3> QED BY <3>1, SlashedIs, CleanEncoded
  <2>6. PICK t : t = e \o query /\ t \in Seq(Symbols) /\ Clean(t)
    BY <1>2, <2>5, CleanJoined
  <2>7. PICK local : local = a \o t /\ local \in Seq(Symbols) /\ Clean(local)
    BY <2>4, <2>6, CleanJoined
  <2>8. PICK f : f = Scheme /\ f \in Seq(Symbols) /\ Clean(f)
    <3>1. PICK f : /\ f = Scheme /\ f \in Seq(Symbols) /\ Len(f) = 4
                   /\ f[1] = "postgresql" /\ f[2] = ":" /\ f[3] = "/" /\ f[4] = "/"
      BY SchemeIs
    <3>2. \A i \in 1 .. 4 : f[i] \notin Secrets
      BY <3>1 DEF Secrets
    <3> QED BY <3>1, <3>2 DEF Clean
  <2>9. Clean(f \o local)
    BY <2>7, <2>8, CleanJoined
  <2>10. UrlText(Repacked(u, port)) = f \o local
    BY <1>2, <1>4, <2>1, <2>2, <2>3, <2>4, <2>5, <2>6, <2>7, <2>8, PrintedText
  <2> QED BY <2>9, <2>10
<1> QED BY <1>3, <1>4

\* Nothing of a user or a password is in a URL that validate() has stored, whatever
\* is configured.
THEOREM CredentialsNeverStored == Spec => []CredentialsRemoved
<1>1. NodeOnItsWay => CredentialsRemoved
  <2> SUFFICES ASSUME NodeOnItsWay, verdict = "stored", NEW secret \in Secrets
               PROVE  ~Contains(stored, secret)
    BY DEF CredentialsRemoved
  <2>1. PICK u : u = Read(text)
    OBVIOUS
  <2>2. /\ text \in NodeTexts /\ Acceptable(u) /\ stored = UrlText(Repacked(u, PortFound(u)))
        /\ Readable(u) /\ u.host # <<>> /\ u.scheme \in {<<>>, <<"postgresql">>}
    BY <2>1, AcceptedNode DEF NodeOnItsWay
  <2>3. Clean(u.host) /\ Clean(u.path) /\ Clean(u.query)
    BY <2>1, <2>2, NothingIsLeft
  <2>4. Clean(stored)
    BY <2>2, <2>3, PrintedIsClean
  <2> QED BY <2>4 DEF Clean, Contains
<1> QED BY <1>1, NodesOnTheirWay, PTL

================================================================================
