---------------------------- MODULE AddressesProofs ----------------------------
(* What TLAPS proves of addresses: of the one that is listened on, whatever *)
(* is configured, and of whatever address a caller has.                     *)
EXTENDS Endpoints, IpObject, WellFoundedInduction, SequenceTheorems, FiniteSetTheorems, TLAPS

-----------------------------------------------------------------------------
(* The least and the greatest element, and the sequences turned around.    *)

LEMMA MinOfNaturals ==
    ASSUME NEW S, S \subseteq Nat, S # {}
    PROVE  Min(S) \in S /\ \A x \in S : Min(S) <= x
<1>1. \E x \in S : \A y \in S : <<y, x>> \notin OpToRel(<, Nat)
  <2> DEFINE R == OpToRel(<, Nat)
  <2>1. IsWellFoundedOn(R, Nat)
    BY NatLessThanWellFounded
  <2> HIDE DEF R
  <2>2. \E x \in S : \A y \in S : <<y, x>> \notin R
    BY <2>1, WFMin
  <2> QED BY <2>2 DEF R
<1>2. PICK x \in S : \A y \in S : <<y, x>> \notin OpToRel(<, Nat)
  BY <1>1
<1>3. \A y \in S : x =< y
  <2> TAKE y \in S
  <2>1. <<y, x>> \notin {p \in Nat \X Nat : p[1] < p[2]}
    BY <1>2 DEF OpToRel
  <2>2. <<y, x>> \in Nat \X Nat /\ <<y, x>>[1] = y /\ <<y, x>>[2] = x
    OBVIOUS
  <2>3. ~(y < x)
    BY <2>1, <2>2
  <2> QED BY <2>3
<1> QED BY <1>3 DEF Min

LEMMA MaxOfBounded ==
    ASSUME NEW n \in Nat, NEW S, S \subseteq 0 .. n, S # {}
    PROVE  Max(S) \in S /\ \A x \in S : x <= Max(S)
<1> DEFINE left == {n - x : x \in S}
<1>1. left \subseteq Nat
  OBVIOUS
<1>2. left # {}
  <2>1. PICK x \in S : TRUE
    OBVIOUS
  <2>2. n - x \in left
    OBVIOUS
  <2> QED BY <2>2
<1>3. Min(left) \in left /\ \A y \in left : Min(left) <= y
  <2> HIDE DEF left
  <2> QED BY <1>1, <1>2, MinOfNaturals
<1>4. PICK x \in S : Min(left) = n - x
  BY <1>3
<1>5. \A y \in S : x >= y
  <2> TAKE y \in S
  <2>1. n - x <= n - y
    BY <1>3, <1>4
  <2> QED BY <2>1
<1> QED BY <1>5 DEF Max

LEMMA FourAreASequence ==
    ASSUME NEW octets \in [1 .. 4 -> Byte]
    PROVE  octets \in Seq(Byte) /\ Len(octets) = 4
<1>1. \E n \in Nat : octets \in [1 .. n -> Byte]
  OBVIOUS
<1>2. octets \in Seq(Byte)
  BY <1>1, SeqDef
<1> QED BY <1>2, LenProperties

LEMMA ReversedTwice ==
    ASSUME NEW octets \in [1 .. 4 -> Byte]
    PROVE  /\ Reverse(octets) \in [1 .. 4 -> Byte]
           /\ Reverse(Reverse(octets)) = octets
<1>1. \A s \in [1 .. 4 -> Byte] : Reverse(s) = [i \in 1 .. 4 |-> s[5 - i]]
  <2> TAKE s \in [1 .. 4 -> Byte]
  <2>1. Len(s) = 4
    BY FourAreASequence
  <2>2. \A i \in 1 .. 4 : (Len(s) - i) + 1 = 5 - i
    BY <2>1
  <2> QED BY <2>1, <2>2 DEF Reverse
<1>2. \A s \in [1 .. 4 -> Byte] : Reverse(s) \in [1 .. 4 -> Byte]
  BY <1>1
<1>3. Reverse(Reverse(octets)) = [i \in 1 .. 4 |-> [j \in 1 .. 4 |-> octets[5 - j]][5 - i]]
  BY <1>1, <1>2
<1>4. Reverse(Reverse(octets)) = [i \in 1 .. 4 |-> octets[i]]
  BY <1>3
<1> QED BY <1>2, <1>4

-----------------------------------------------------------------------------
(* Induction, and what a fold over a sequence comes to.                    *)

LEMMA ByInduction ==
    ASSUME NEW S, 0 \in S, \A n \in Nat : n \in S => n + 1 \in S
    PROVE  Nat \subseteq S
<1> DEFINE out == Nat \ S
<1> SUFFICES ASSUME out # {} PROVE FALSE
    OBVIOUS
<1>1. Min(out) \in out /\ \A x \in out : Min(out) <= x
  <2>1. out \subseteq Nat
    OBVIOUS
  <2> HIDE DEF out
  <2> QED BY <2>1, MinOfNaturals
<1>2. PICK m \in out : \A x \in out : m <= x
  BY <1>1
<1>3. m # 0 /\ m - 1 \in Nat
  OBVIOUS
<1>4. m - 1 \notin out
  BY <1>2, <1>3
<1> QED BY <1>3, <1>4

\* What holds of 0 and of the next, up to n.
LEMMA UpTo ==
    ASSUME NEW n \in Nat, NEW S, 0 \in S, \A i \in 1 .. n : i - 1 \in S => i \in S
    PROVE  0 .. n \subseteq S
<1> DEFINE T == {i \in Nat : i <= n => i \in S}
<1>1. 0 \in T
  OBVIOUS
<1>2. \A i \in Nat : i \in T => i + 1 \in T
  <2> SUFFICES ASSUME NEW i \in Nat, i <= n => i \in S, i + 1 <= n PROVE i + 1 \in S
      OBVIOUS
  <2>1. i + 1 \in 1 .. n /\ (i + 1) - 1 = i /\ i <= n
    OBVIOUS
  <2> QED BY <2>1
<1>3. Nat \subseteq T
  <2> HIDE DEF T
  <2> QED BY <1>1, <1>2, ByInduction
<1> QED BY <1>3

LEMMA LastOfInterval ==
    ASSUME NEW n \in Nat, NEW i \in 1 .. n
    PROVE  /\ 1 .. i \in SUBSET (1 .. n) /\ 1 .. i # {}
           /\ Max(1 .. i) = i /\ (1 .. i) \ {i} = 1 .. i - 1
<1>1. 1 .. i \in SUBSET (1 .. n) /\ 1 .. i # {} /\ (1 .. i) \ {i} = 1 .. i - 1 /\ i \in 1 .. i
  OBVIOUS
<1>2. Max(1 .. i) \in 1 .. i /\ \A x \in 1 .. i : x <= Max(1 .. i)
  <2>1. 1 .. i \subseteq 0 .. n
    OBVIOUS
  <2> QED BY <1>1, <2>1, MaxOfBounded
<1>3. PICK m : m = Max(1 .. i)
  OBVIOUS
<1>4. m = i
  BY <1>1, <1>2, <1>3
<1> QED BY <1>1, <1>3, <1>4

\* The table by which MapThenFoldSet is defined, with the greatest index chosen.
IsTable(iter, op, base, s, n) ==
    \A S \in SUBSET (1 .. n) :
        iter[S] = IF S = {} THEN base ELSE op[<<iter[S \ {Max(S)}], s[Max(S)]>>]
HasTable(A, op, base, s, n) == \E iter \in [SUBSET (1 .. n) -> A] : IsTable(iter, op, base, s, n)
LEMMA FoldTable ==
    ASSUME NEW A, NEW C, NEW op \in [A \X C -> A], NEW base \in A, NEW n \in Nat,
           NEW s, \A i \in 1 .. n : s[i] \in C
    PROVE  HasTable(A, op, base, s, n)
<1> DEFINE Table(iter, m) ==
        \A S \in SUBSET (1 .. m) :
            iter[S] = IF S = {} THEN base ELSE op[<<iter[S \ {Max(S)}], s[Max(S)]>>]
           Good == {m \in Nat : \E iter \in [SUBSET (1 .. m) -> A] : Table(iter, m)}
<1>0. \A m \in Nat : \A S \in SUBSET (1 .. m) : S # {} => Max(S) \in S
  <2> TAKE m \in Nat
  <2> TAKE S \in SUBSET (1 .. m)
  <2> HAVE S # {}
  <2>1. S \subseteq 0 .. m
    OBVIOUS
  <2> QED BY <2>1, MaxOfBounded
<1>1. 0 \in Good
  <2> DEFINE iter == [S \in SUBSET (1 .. 0) |-> base]
  <2>1. \A S \in SUBSET (1 .. 0) : S = {}
    OBVIOUS
  <2>2. iter \in [SUBSET (1 .. 0) -> A] /\ Table(iter, 0)
    BY <2>1
  <2> QED BY <2>2
<1>2. \A i \in 1 .. n : i - 1 \in Good => i \in Good
  <2> SUFFICES ASSUME NEW i \in 1 .. n, NEW m \in Nat, m = i - 1,
                      NEW old \in [SUBSET (1 .. m) -> A], Table(old, m)
               PROVE  i \in Good
      OBVIOUS
  <2> DEFINE iter == [S \in SUBSET (1 .. i) |-> IF i \in S THEN op[<<old[S \ {i}], s[i]>>] ELSE old[S]]
  <2>1. \A S \in SUBSET (1 .. i) : S \ {i} \in SUBSET (1 .. m) /\ (i \notin S => S \in SUBSET (1 .. m))
    OBVIOUS
  <2>2. iter \in [SUBSET (1 .. i) -> A]
    <3> SUFFICES ASSUME NEW S \in SUBSET (1 .. i)
                 PROVE  (IF i \in S THEN op[<<old[S \ {i}], s[i]>>] ELSE old[S]) \in A
        BY Zenon
    <3>1. s[i] \in C
      OBVIOUS
    <3>2. <<old[S \ {i}], s[i]>> \in A \X C
      BY <2>1, <3>1
    <3>3. op[<<old[S \ {i}], s[i]>>] \in A
      BY <3>2, Zenon
    <3> QED BY <2>1, <3>3
  <2>3. Table(iter, i)
    <3> TAKE S \in SUBSET (1 .. i)
    <3>1. CASE i \in S
      <4>1. Max(S) = i
        <5>1. S \subseteq 0 .. n /\ S # {} /\ n \in Nat
          BY <3>1
        <5>2. Max(S) \in S /\ \A x \in S : x <= Max(S)
          BY <5>1, MaxOfBounded
        <5>3. PICK k : k = Max(S)
          OBVIOUS
        <5>4. k \in 1 .. i /\ i <= k
          BY <3>1, <5>2, <5>3
        <5>5. k = i
          BY <5>4
        <5> QED BY <5>3, <5>5
      <4>2. iter[S \ {i}] = old[S \ {i}]
        <5>1. S \ {i} \in SUBSET (1 .. i) /\ i \notin S \ {i}
          OBVIOUS
        <5> QED BY <5>1, Zenon
      <4>3. iter[S] = op[<<old[S \ {i}], s[i]>>]
        BY <3>1, Zenon
      <4> QED BY <3>1, <4>1, <4>2, <4>3
    <3>2. CASE i \notin S
      <4>1. S \in SUBSET (1 .. m) /\ S \ {Max(S)} \in SUBSET (1 .. m)
        BY <2>1, <3>2
      <4>2. S \ {Max(S)} \in SUBSET (1 .. i) /\ i \notin S \ {Max(S)}
        BY <3>2
      <4>3. iter[S] = old[S] /\ iter[S \ {Max(S)}] = old[S \ {Max(S)}]
        BY <3>2, <4>2, Zenon
      <4>4. old[S] = IF S = {} THEN base ELSE op[<<old[S \ {Max(S)}], s[Max(S)]>>]
        BY <4>1
      <4> QED BY <4>3, <4>4
    <3> QED BY <3>1, <3>2
  <2> HIDE DEF iter, Table
  <2> QED BY <2>2, <2>3
<1>3. n \in Good
  <2>1. 0 .. n \subseteq Good
    <3> HIDE DEF Good
    <3> QED BY <1>1, <1>2, UpTo
  <2>2. n \in 0 .. n
    OBVIOUS
  <2> HIDE DEF Good
  <2> QED BY <2>1, <2>2
<1> QED BY <1>3 DEF HasTable, IsTable

\* A number is read digit by digit.
LEMMA NumberSteps ==
    ASSUME NEW g \in Seq(Nat)
    PROVE  \E h \in [0 .. Len(g) -> Nat] :
               h[0] = 0 /\ (\A i \in 1 .. Len(g) : h[i] = 16 * h[i - 1] + g[i]) /\ Number(g) = h[Len(g)]
<1> DEFINE D == SUBSET (1 .. Len(g))
           Is(iter) == iter = [S \in D |-> IF S = {} THEN 0 ELSE 16 * iter[S \ {Max(S)}] + g[Max(S)]]
           op == [p \in Nat \X Nat |-> 16 * p[1] + p[2]]
<1>0. Len(g) \in Nat /\ DOMAIN g = 1 .. Len(g) /\ \A i \in 1 .. Len(g) : g[i] \in Nat
  BY LenProperties, ElementOfSeq
<1>1. \E iter : Is(iter)
  <2>1. op \in [Nat \X Nat -> Nat] /\ \A x, y \in Nat : op[<<x, y>>] = 16 * x + y
    OBVIOUS
  <2>2. HasTable(Nat, op, 0, g, Len(g))
    <3> HIDE DEF op
    <3> QED BY <1>0, <2>1, FoldTable
  <2>3. PICK iter \in [D -> Nat] : \A S \in D :
            iter[S] = IF S = {} THEN 0 ELSE op[<<iter[S \ {Max(S)}], g[Max(S)]>>]
    BY <2>2, Zenon DEF HasTable, IsTable
  <2>4. \A S \in D : S # {} => Max(S) \in S /\ S \ {Max(S)} \in D
    <3> TAKE S \in D
    <3>1. S \subseteq 0 .. Len(g)
      BY <1>0
    <3> QED BY <1>0, <3>1, MaxOfBounded
  <2>5. \A S \in D : iter[S] = IF S = {} THEN 0 ELSE 16 * iter[S \ {Max(S)}] + g[Max(S)]
    <3> TAKE S \in D
    <3> HIDE DEF op
    <3> QED BY <1>0, <2>1, <2>3, <2>4
  <2> QED BY <2>5
<1>2. Is(CHOOSE iter : Is(iter))
  BY <1>1, Zenon
<1>3. PICK iter : Is(iter) /\ Number(g) = iter[1 .. Len(g)]
  BY <1>0, <1>2, Zenon DEF Number, FoldLeft, MapThenFoldSet
<1> DEFINE h == [i \in 0 .. Len(g) |-> iter[1 .. i]]
<1>4. h[0] = 0 /\ h[Len(g)] = Number(g)
  <2>1. 1 .. 0 = {} /\ {} \in D
    OBVIOUS
  <2> QED BY <1>0, <1>3, <2>1
<1>5. \A i \in 1 .. Len(g) : h[i] = 16 * h[i - 1] + g[i]
  <2> TAKE i \in 1 .. Len(g)
  <2>1. 1 .. i \in D /\ 1 .. i # {} /\ Max(1 .. i) = i /\ (1 .. i) \ {i} = 1 .. i - 1
    BY <1>0, LastOfInterval
  <2>2. iter[1 .. i] = 16 * iter[1 .. i - 1] + g[i]
    BY <1>3, <2>1
  <2>3. h[i] = iter[1 .. i] /\ h[i - 1] = iter[1 .. i - 1]
    BY <1>0
  <2> HIDE DEF h
  <2> QED BY <2>2, <2>3
<1>6. h \in [0 .. Len(g) -> Nat]
  <2> DEFINE S == {i \in 0 .. Len(g) : h[i] \in Nat}
  <2>1. 0 \in S
    BY <1>0, <1>4
  <2>2. \A i \in 1 .. Len(g) : i - 1 \in S => i \in S
    <3> HIDE DEF h
    <3> QED BY <1>0, <1>5
  <2>3. 0 .. Len(g) \subseteq S
    <3> HIDE DEF S
    <3> QED BY <1>0, <2>1, <2>2, UpTo
  <2> QED BY <2>3
<1> HIDE DEF h
<1> QED BY <1>4, <1>5, <1>6

-----------------------------------------------------------------------------
(* IPv6 texts.                                                             *)

LEMMA Group4 ==
    ASSUME NEW g \in Seq(0 .. 15), Len(g) = 4
    PROVE  Number(g) = 4096 * g[1] + 256 * g[2] + 16 * g[3] + g[4]
<1>1. g \in Seq(Nat) /\ g[1] \in Nat /\ g[2] \in Nat /\ g[3] \in Nat /\ g[4] \in Nat
  <2>1. 0 .. 15 \subseteq Nat /\ 1 \in 1 .. 4 /\ 2 \in 1 .. 4 /\ 3 \in 1 .. 4 /\ 4 \in 1 .. 4
    OBVIOUS
  <2>2. g \in Seq(Nat)
    BY <2>1, SeqMonotonic
  <2>3. \A i \in 1 .. 4 : g[i] \in Nat
    BY <2>2, ElementOfSeq
  <2> QED BY <2>1, <2>2, <2>3
<1>2. PICK h \in [0 .. 4 -> Nat] :
          h[0] = 0 /\ (\A i \in 1 .. 4 : h[i] = 16 * h[i - 1] + g[i]) /\ Number(g) = h[4]
  BY <1>1, NumberSteps
<1>3. h[1] = g[1] /\ h[2] = 16 * h[1] + g[2] /\ h[3] = 16 * h[2] + g[3] /\ h[4] = 16 * h[3] + g[4] /\ Number(g) = h[4]
  BY <1>1, <1>2
<1>4. h[1] \in Nat /\ h[2] \in Nat /\ h[3] \in Nat /\ h[4] \in Nat
  BY <1>2
<1>5. PICK x \in Nat, y \in Nat : x = h[2] /\ y = h[3]
  BY <1>4
<1>6. x = 16 * g[1] + g[2] /\ y = 16 * x + g[3] /\ Number(g) = 16 * y + g[4]
  BY <1>3, <1>5
<1>7. PICK a \in Nat, b \in Nat, c \in Nat, d \in Nat : a = g[1] /\ b = g[2] /\ c = g[3] /\ d = g[4]
  BY <1>1
<1>8. x = 16 * a + b /\ y = 16 * x + c /\ Number(g) = 16 * y + d
  BY <1>6, <1>7
<1>9. 16 * (16 * (16 * a + b) + c) + d = 4096 * a + 256 * b + 16 * c + d
  OBVIOUS
<1> QED BY <1>7, <1>8, <1>9

\* Without the zeros in front it is the same number.
LEMMA LeadingZeros ==
    ASSUME NEW D, NEW z, NEW g \in Seq(D)
    PROVE  \E k \in 0 .. Len(g) :
               /\ \A i \in 1 .. k : g[i] = z
               /\ k < Len(g) => g[k + 1] # z
               /\ WithoutLeading(z, g) = SubSeq(g, k + 1, Len(g))
<1>0. Len(g) \in Nat
  BY LenProperties
<1> DEFINE out == {k \in 0 .. Len(g) : k = Len(g) \/ g[k + 1] # z}
<1>1. Min(out) \in out /\ \A x \in out : Min(out) <= x
  <2>1. out \subseteq Nat /\ Len(g) \in out
    BY <1>0
  <2> HIDE DEF out
  <2> QED BY <2>1, MinOfNaturals
<1>2. PICK k \in out : \A x \in out : k <= x
  BY <1>1
<1>3. \A i \in 1 .. k : g[i] = z
  <2> SUFFICES ASSUME NEW i \in 1 .. k, g[i] # z PROVE FALSE
      OBVIOUS
  <2>1. i - 1 \in out
    BY <1>0
  <2>2. k \in Nat /\ i \in Nat /\ i <= k
    BY <1>0
  <2>3. k <= i - 1
    <3> HIDE DEF out
    <3> QED BY <1>2, <2>1
  <2> QED BY <2>2, <2>3
<1>4. {i \in 1 .. Len(g) : \A j \in 1 .. i : g[j] = z} = 1 .. k
  <2> DEFINE left == {i \in 1 .. Len(g) : \A j \in 1 .. i : g[j] = z}
  <2>1. \A i \in 1 .. k : i \in left
    BY <1>0, <1>3
  <2>2. \A i \in left : i \in 1 .. k
    <3> SUFFICES ASSUME NEW i \in left, i > k PROVE FALSE
        BY <1>0
    <3>1. k + 1 \in 1 .. i
      BY <1>0
    <3>2. g[k + 1] = z
      BY <3>1
    <3> QED BY <1>0, <3>2
  <2> HIDE DEF left
  <2>3. left = 1 .. k
    BY <2>1, <2>2, Zenon
  <2> QED BY <2>3 DEF left
<1>5. Cardinality(1 .. k) = k
  BY <1>0, FS_Interval
<1>6. WithoutLeading(z, g) = SubSeq(g, 1 + k, Len(g))
  BY <1>4, <1>5 DEF WithoutLeading
<1>7. 1 + k = k + 1
  BY <1>0
<1> QED BY <1>0, <1>3, <1>6, <1>7

-----------------------------------------------------------------------------
(* The listening address.                                                  *)

\* Where a listening address stands: what is stored is what was configured, or
\* was printed from a lookup because the port was 0; and what is bound was looked
\* up from what is stored.
StoredFrom(configured) ==
    {configured}
    \cup {[host |-> IpText(Host(sin)), port |-> 6000] :
             sin \in IF configured.port = 0 THEN Sockets(configured.host) \ {NoIp} ELSE {}}
UsedFrom(kept) ==
    {IF sin = NoIp THEN Nothing ELSE Bound(GetAddrInfo(IpText(Host(sin)))) : sin \in Sockets(kept.host)}
OnItsWay ==
    /\ stage \in {"listening", "stored listening", "bound"} => text \in Listenings
    /\ stage = "listening" => stored = text
    /\ stage \in {"stored listening", "bound"} => stored \in StoredFrom(text)
    /\ stage = "bound" => used \in UsedFrom(stored)

\* Every listening address is on its way, whatever lookups answer.
THEOREM ListeningOnItsWay == Spec => []OnItsWay
<1>1. Init => OnItsWay
  BY DEF Init, OnItsWay
<1>2. OnItsWay /\ [Next]_vars => OnItsWay'
  <2> SUFFICES ASSUME OnItsWay, [Next]_vars PROVE OnItsWay'
    OBVIOUS
  <2>1. CASE ValidateNode
    BY <2>1 DEF ValidateNode, OnItsWay
  <2>2. CASE DbStart
    BY <2>2 DEF DbStart, OnItsWay
  <2>3. CASE ValidateListening
    <3>1. stage = "listening" /\ stage' = "stored listening" /\ text' = text /\ text \in Listenings
      BY <2>3 DEF ValidateListening, OnItsWay
    <3>2. stored' \in StoredFrom(text)
      <4>1. PICK sin \in Sockets(text.host) :
                stored' = IF sin # NoIp /\ text.port = 0
                          THEN [host |-> IpText(Host(sin)), port |-> 6000] ELSE text
        BY <2>3, ZenonT(40) DEF ValidateListening
      <4>2. CASE stored' = text
        BY <4>2 DEF StoredFrom
      <4>3. CASE sin # NoIp /\ text.port = 0
        <5>1. sin \in IF text.port = 0 THEN Sockets(text.host) \ {NoIp} ELSE {}
          BY <4>3
        <5> QED BY <4>1, <4>3, <5>1 DEF StoredFrom
      <4> QED BY <4>1, <4>2, <4>3
    <3> QED BY <3>1, <3>2 DEF OnItsWay
  <2>4. CASE HttpStart
    <3>1. /\ stage = "stored listening" /\ stage' = "bound" /\ text' = text /\ stored' = stored
          /\ text \in Listenings /\ stored \in StoredFrom(text)
      BY <2>4 DEF HttpStart, OnItsWay
    <3>2. used' \in UsedFrom(stored)
      BY <2>4 DEF HttpStart, UsedFrom
    <3> QED BY <3>1, <3>2 DEF OnItsWay
  <2>5. CASE UNCHANGED vars
    <3>1. stage' = stage /\ text' = text /\ stored' = stored /\ used' = used
      BY <2>5 DEF vars
    <3> QED BY <3>1 DEF OnItsWay
  <2> QED BY <2>1, <2>2, <2>3, <2>4, <2>5 DEF Next, Done
<1> QED BY <1>1, <1>2, PTL DEF Spec

\* What is in an answer of DNS, and the kind of what is printed.
LEMMA DataOfIp ==
    /\ \A a \in Ips : a.family = "V4" => a.data \in [1 .. 4 -> Byte] /\ a = Ip("V4", a.data)
    /\ \A a \in Ips : a.family \in {"V4", "V6"}
BY DEF Ips, Ip

LEMMA TextsOfIps ==
    /\ \A a : a.family = "V4" => IpText(a) = Dotted(a.data)
    /\ \A a : a.family # "V4" => IpText(a).form = "colons"
<1>1. \A a : a.family = "V4" => IpText(a) = Dotted(a.data)
  BY DEF IpText
<1>2. \A groups, tail : Colons(groups, tail).form = "colons"
  BY DEF Colons
<1>3. ASSUME NEW a, a.family # "V4" PROVE IpText(a).form = "colons"
  BY <1>2, <1>3 DEF IpText
<1> QED BY <1>1, <1>3

\* Nothing but IPv6 comes of a text with colons.
LEMMA ColonsAreSix ==
    ASSUME NEW host, host.form = "colons"
    PROVE  /\ Bound(GetAddrInfo(host)).family # "V4"
           /\ Socket(host).family # "V4"
<1>1. GetAddrInfo(host) \in {<<>>, <<Ip("V6", InetPton6(host))>>}
  BY DEF GetAddrInfo
<1>2. Bound(GetAddrInfo(host)).family # "V4"
  BY <1>1 DEF Bound, Nothing, Ip
<1>3. TryParse(host).family # "V4"
  BY DEF TryParse, NoIp, Ip
<1>4. Resolve(host).family # "V4"
  <2> DEFINE infos == GetAddrInfo(host)
             ips == HostByName(host)
  <2>1. /\ Len(infos) \in Nat
        /\ \A i \in 1 .. Len(infos) : infos[i].family = "V6" /\ FromSockaddr(infos[i]) = infos[i]
    BY <1>1 DEF Ip, FromSockaddr
  <2>2. Len(ips) = Len(infos) /\ \A i \in 1 .. Len(ips) : ips[i].family = "V6"
    BY <2>1 DEF HostByName
  <2> QED BY <2>2 DEF Resolve, NoIp, Ip
<1> QED BY <1>2, <1>3, <1>4 DEF Socket

\* The sockaddr of a name or of four octets, as the lookup leaves it.
LEMMA SocketsOfOctets ==
    ASSUME NEW host, host.form = "dotted"
    PROVE  Sockets(host) = {Ip("V4", host.octets)}
BY DEF Sockets, Socket, TryParse, NoIp, Ip

LEMMA SocketsOfName ==
    ASSUME NEW host, host.form = "name", host.answers \in Seq(Ips),
           NEW sin \in Sockets(host), sin.family = "V4"
    PROVE  \E a \in ToSet(host.answers) : a \in Ips /\ a.family = "V4" /\ sin = Ip("V4", Reverse(a.data))
<1> DEFINE ips == HostByName(host)
<1>1. sin \in {Resolve(host), NoIp}
  BY DEF Sockets, Socket, TryParse
<1>2. sin = Resolve(host) /\ ips # <<>>
  BY <1>1 DEF NoIp, Ip, Resolve
<1>3. /\ Len(host.answers) \in Nat
      /\ ips = [i \in 1 .. Len(host.answers) |-> FromSockaddr(host.answers[i])]
  BY LenProperties DEF HostByName, GetAddrInfo
<1>4. Len(ips) = Len(host.answers) /\ Len(ips) \in 1 .. Len(ips)
  BY <1>2, <1>3
<1>5. \E i \in 1 .. Len(ips) : sin = ips[i]
  <2> DEFINE v4 == {i \in 1 .. Len(ips) : ips[i].family = "V4"}
  <2>1. v4 \subseteq 1 .. Len(ips) /\ v4 \subseteq Nat
    BY <1>3, <1>4
  <2>2. sin = ips[IF v4 # {} THEN Min(v4) ELSE 1]
    BY <1>2, Zenon DEF Resolve
  <2> HIDE DEF v4, ips
  <2>3. v4 # {} => Min(v4) \in v4
    BY <2>1, MinOfNaturals
  <2>4. 1 \in 1 .. Len(ips)
    BY <1>3, <1>4
  <2> QED BY <2>1, <2>2, <2>3, <2>4
<1>6. PICK i \in 1 .. Len(ips) : sin = FromSockaddr(host.answers[i])
  BY <1>3, <1>4, <1>5
<1>7. host.answers[i] \in ToSet(host.answers) /\ host.answers[i] \in Ips
  BY <1>3, <1>4, ElementOfSeq, LenProperties DEF ToSet
<1>8. host.answers[i].family = "V4"
  BY <1>6, <1>7, DataOfIp DEF FromSockaddr
<1> QED BY <1>6, <1>7, <1>8 DEF FromSockaddr, Ip

\* Where DNS knows nothing but IPv4, a lookup that succeeds gives it.
LEMMA NamesOfFour ==
    ASSUME NEW host, host.form = "name", host.answers \in Seq(Ips),
           \A i \in 1 .. Len(host.answers) : host.answers[i].family = "V4",
           NEW sin \in Sockets(host), sin # NoIp
    PROVE  sin.family = "V4"
<1> DEFINE ips == HostByName(host)
           v4 == {i \in 1 .. Len(ips) : ips[i].family = "V4"}
<1>1. sin = Resolve(host) /\ ips # <<>>
  BY DEF Sockets, Socket, TryParse, Resolve
<1>2. /\ Len(host.answers) \in Nat
      /\ ips = [i \in 1 .. Len(host.answers) |-> FromSockaddr(host.answers[i])]
  BY LenProperties DEF HostByName, GetAddrInfo
<1>3. /\ Len(ips) = Len(host.answers) /\ v4 \subseteq Nat
      /\ 1 \in 1 .. Len(ips) /\ \A i \in 1 .. Len(ips) : ips[i].family = "V4"
  BY <1>1, <1>2 DEF FromSockaddr, Ip
<1>4. sin = ips[IF v4 # {} THEN Min(v4) ELSE 1]
  BY <1>1, Zenon DEF Resolve
<1>5. 1 \in v4
  BY <1>3
<1>6. Min(v4) \in v4
  <2> HIDE DEF v4, ips
  <2> QED BY <1>3, <1>5, MinOfNaturals
<1>7. Min(v4) \in 1 .. Len(ips)
  BY <1>6
<1> HIDE DEF v4, ips
<1> QED BY <1>3, <1>4, <1>5, <1>7

\* What is bound for a sockaddr.
LEMMA BoundFor ==
    ASSUME NEW sin
    PROVE  /\ sin.family = "V4" => Bound(GetAddrInfo(IpText(Host(sin)))) = Ip("V4", Reverse(sin.data))
           /\ sin.family # "V4" => Bound(GetAddrInfo(IpText(Host(sin)))).family # "V4"
<1>1. CASE sin.family = "V4"
  <2>1. Host(sin).family = "V4" /\ Host(sin).data = Reverse(sin.data)
    BY <1>1 DEF Host, FromSockaddr, Ip
  <2>2. IpText(Host(sin)) = Dotted(Reverse(sin.data))
    BY <2>1, TextsOfIps
  <2>3. GetAddrInfo(Dotted(Reverse(sin.data))) = <<Ip("V4", Reverse(sin.data))>>
    BY DEF GetAddrInfo, Dotted
  <2> QED BY <1>1, <2>2, <2>3 DEF Bound
<1>2. CASE sin.family # "V4"
  <2>1. Host(sin).family # "V4"
    BY <1>2 DEF Host, FromSockaddr
  <2> QED BY <1>2, <2>1, TextsOfIps, ColonsAreSix
<1> QED BY <1>1, <1>2

\* Each of the two readings turns the octets of an address that was written
\* around, and none those of a name, whatever DNS answers and whenever it fails.
THEOREM ReadingsTurn == Spec => []TurnedByEachReading
<1>1. ASSUME OnItsWay, stage = "bound", used.family = "V4"
      PROVE  LET Reading(read) == IF read THEN 1 ELSE 0
                 readings == Reading(stored # text /\ text.host.form = "dotted")
                             + Reading(stored.host.form = "dotted")
             IN  \E told \in Told(text.host) :
                     used.data = IF readings = 1 THEN Reverse(told.data) ELSE told.data
  <2>1. text \in Listenings /\ stored \in StoredFrom(text) /\ used \in UsedFrom(stored)
    BY <1>1 DEF OnItsWay
  <2>2. PICK sin \in Sockets(stored.host) : sin.family = "V4" /\ used.data = Reverse(sin.data)
    <3>1. PICK sin \in Sockets(stored.host) :
              used = IF sin = NoIp THEN Nothing ELSE Bound(GetAddrInfo(IpText(Host(sin))))
      BY <2>1 DEF UsedFrom
    <3>2. used = Bound(GetAddrInfo(IpText(Host(sin))))
      BY <1>1, <3>1 DEF Nothing
    <3> QED BY <1>1, <3>2, BoundFor DEF Ip
  <2>3. \/ stored = text
        \/ text.port = 0 /\ \E read \in Sockets(text.host) \ {NoIp} :
                                stored = [host |-> IpText(Host(read)), port |-> 6000]
    BY <2>1 DEF StoredFrom
  <2>4. CASE text.host.form = "dotted"
    <3> DEFINE octets == text.host.octets
    <3>1. octets \in [1 .. 4 -> Byte]
      BY <2>1, <2>4, ListeningsAssumption
    <3>2. Ip("V4", octets) \in Told(text.host) /\ Ip("V4", octets).data = octets
      BY <2>4 DEF Told, Ip
    <3>3. CASE stored = text
      <4>1. used.data = Reverse(octets)
        BY <2>2, <2>4, <3>3, SocketsOfOctets DEF Ip
      <4> QED BY <2>4, <3>2, <3>3, <4>1
    <3>4. CASE stored # text
      <4>1. PICK read \in Sockets(text.host) : stored = [host |-> IpText(Host(read)), port |-> 6000]
        BY <2>3, <3>4
      <4>2. read.family = "V4" /\ read.data = octets
        BY <2>4, <4>1, SocketsOfOctets DEF Ip
      <4>3. stored.host = Dotted(Reverse(octets))
        BY <4>1, <4>2, TextsOfIps DEF Host, FromSockaddr, Ip
      <4>4. stored.host.form = "dotted" /\ sin.data = Reverse(octets)
        BY <2>2, <4>3, SocketsOfOctets DEF Dotted, Ip
      <4>5. used.data = octets
        BY <2>2, <3>1, <4>4, ReversedTwice
      <4> QED BY <2>4, <3>2, <3>4, <4>4, <4>5
    <3> QED BY <3>3, <3>4
  <2>5. CASE text.host.form = "name"
    <3>1. text.host.answers \in Seq(Ips) /\ Told(text.host) = ToSet(text.host.answers)
      BY <2>1, <2>5, ListeningsAssumption DEF Told
    <3>2. CASE stored = text
      <4>1. PICK a \in ToSet(text.host.answers) :
                a \in Ips /\ a.family = "V4" /\ sin = Ip("V4", Reverse(a.data))
        BY <2>2, <2>5, <3>1, <3>2, SocketsOfName
      <4>2. used.data = a.data
        BY <2>2, <4>1, DataOfIp, ReversedTwice DEF Ip
      <4> QED BY <2>5, <3>1, <3>2, <4>1, <4>2
    <3>3. CASE stored # text
      <4>1. PICK read \in Sockets(text.host) :
                read # NoIp /\ stored = [host |-> IpText(Host(read)), port |-> 6000]
        BY <2>3, <3>3
      <4>2. read.family = "V4"
        <5>1. \A i \in 1 .. Len(text.host.answers) : text.host.answers[i].family = "V4"
          BY <2>1, <2>3, <2>5, <3>3, PrintedAssumption
        <5> QED BY <2>5, <3>1, <4>1, <5>1, NamesOfFour
      <4>3. PICK a \in ToSet(text.host.answers) :
                a \in Ips /\ a.family = "V4" /\ read = Ip("V4", Reverse(a.data))
        BY <2>5, <3>1, <4>1, <4>2, SocketsOfName
      <4>4. stored.host = Dotted(a.data)
        <5>1. Host(read) = Ip("V4", a.data)
          BY <4>3, DataOfIp, ReversedTwice DEF Host, FromSockaddr, Ip
        <5> QED BY <4>1, <5>1, TextsOfIps DEF Ip
      <4>5. stored.host.form = "dotted" /\ sin.data = a.data
        BY <2>2, <4>4, SocketsOfOctets DEF Dotted, Ip
      <4> QED BY <2>2, <2>5, <3>1, <4>3, <4>5
    <3> QED BY <3>2, <3>3
  <2>6. CASE text.host.form = "colons"
    <3>1. stored = text
      BY <2>1, <2>3, <2>6, PrintedAssumption
    <3>2. sin = Socket(text.host)
      BY <2>2, <2>6, <3>1 DEF Sockets
    <3> QED BY <2>2, <2>6, <3>2, ColonsAreSix
  <2> QED BY <2>1, <2>4, <2>5, <2>6, ListeningsAssumption
<1>2. OnItsWay => TurnedByEachReading
  BY <1>1 DEF TurnedByEachReading
<1> QED BY <1>2, ListeningOnItsWay, PTL

-----------------------------------------------------------------------------
(* An address in the hands of a caller.                                    *)

LEMMA KindsOfIps ==
    ASSUME NEW a \in Ips
    PROVE  /\ a.family \in {"V4", "V6"} /\ Length(a) \in {4, 16}
           /\ Length(a) = (IF a.family = "V4" THEN 4 ELSE 16)
           /\ a.data \in [1 .. Length(a) -> Byte]
           /\ a = Ip(a.family, a.data)
<1>1. CASE a \in [family : {"V4"}, data : [1 .. 4 -> Byte]]
  BY <1>1 DEF Length, Ip
<1>2. CASE a \in [family : {"V6"}, data : [1 .. 16 -> Byte]]
  BY <1>2 DEF Length, Ip
<1> QED BY <1>1, <1>2 DEF Ips

LEMMA IpOfBytes ==
    ASSUME NEW a \in Ips, NEW bytes \in [1 .. Length(a) -> Byte]
    PROVE  /\ Ip(a.family, bytes) \in Ips
           /\ Ip(a.family, bytes).family = a.family /\ Ip(a.family, bytes).data = bytes
           /\ Length(Ip(a.family, bytes)) = Length(a)
<1>1. PICK b : b = Ip(a.family, bytes)
  OBVIOUS
<1>2. b.family = a.family /\ b.data = bytes /\ b = [family |-> a.family, data |-> bytes]
  BY <1>1 DEF Ip
<1>3. Length(b) = Length(a)
  BY <1>2 DEF Length
<1>4. CASE a.family = "V4"
  <2>1. bytes \in [1 .. 4 -> Byte]
    BY <1>4, KindsOfIps
  <2>2. [family |-> "V4", data |-> bytes] \in [family : {"V4"}, data : [1 .. 4 -> Byte]]
    BY <2>1
  <2>3. b = [family |-> "V4", data |-> bytes]
    BY <1>2, <1>4
  <2>4. b \in Ips
    BY <2>2, <2>3 DEF Ips
  <2> QED BY <1>1, <1>2, <1>3, <2>4
<1>5. CASE a.family = "V6"
  <2>1. bytes \in [1 .. 16 -> Byte]
    BY <1>5, KindsOfIps
  <2>2. [family |-> "V6", data |-> bytes] \in [family : {"V6"}, data : [1 .. 16 -> Byte]]
    BY <2>1
  <2>3. b = [family |-> "V6", data |-> bytes]
    BY <1>2, <1>5
  <2>4. b \in Ips
    BY <2>2, <2>3 DEF Ips
  <2> QED BY <1>1, <1>2, <1>3, <2>4
<1> QED BY <1>4, <1>5, KindsOfIps

\* What increment() leaves: the last byte that is not 255 grows, and those behind it
\* are 0.
LEMMA IncrementedIs ==
    ASSUME NEW a \in Ips
    PROVE  /\ Incremented(a) \in Ips
           /\ Incremented(a).family = a.family
           /\ (\A i \in 1 .. Length(a) : a.data[i] = 255)
                 => \A i \in 1 .. Length(a) : Incremented(a).data[i] = 0
           /\ (\E i \in 1 .. Length(a) : a.data[i] # 255)
                 => \E m \in 1 .. Length(a) :
                       /\ Incremented(a).data[m] = a.data[m] + 1
                       /\ \A i \in 1 .. m - 1 : Incremented(a).data[i] = a.data[i]
                       /\ \A i \in m + 1 .. Length(a) : a.data[i] = 255 /\ Incremented(a).data[i] = 0
<1>1. PICK n, d : n = Length(a) /\ d = a.data /\ n \in Nat /\ d \in [1 .. n -> Byte]
  BY KindsOfIps
<1>2. PICK bytes : bytes = [i \in 1 .. n |-> IF i \in CarriedFrom(a) THEN (d[i] + 1) % 256 ELSE d[i]]
  OBVIOUS
<1>3. \A i \in 1 .. n : d[i] \in 0 .. 255 /\ (d[i] + 1) % 256 = (IF d[i] = 255 THEN 0 ELSE d[i] + 1)
  <2> TAKE i \in 1 .. n
  <2>1. d[i] \in 0 .. 255
    BY <1>1 DEF Byte
  <2>2. \A x \in 0 .. 255 : (x + 1) % 256 = (IF x = 255 THEN 0 ELSE x + 1)
    OBVIOUS
  <2> QED BY <2>1, <2>2
<1>4. bytes \in [1 .. n -> Byte]
  <2>1. \A x \in 0 .. 255 : (IF x = 255 THEN 0 ELSE x + 1) \in 0 .. 255
    OBVIOUS
  <2>2. \A i \in 1 .. n : (d[i] + 1) % 256 \in 0 .. 255
    <3> TAKE i \in 1 .. n
    <3>1. PICK x : x = d[i] /\ x \in 0 .. 255
      BY <1>3
    <3>2. (x + 1) % 256 \in 0 .. 255
      BY <3>1
    <3> QED BY <3>1, <3>2
  <2>3. \A i \in 1 .. n : (IF i \in CarriedFrom(a) THEN (d[i] + 1) % 256 ELSE d[i]) \in 0 .. 255
    BY <1>3, <2>2
  <2> QED BY <1>2, <2>3 DEF Byte
<1>5. Incremented(a) = Ip(a.family, bytes)
  BY <1>1, <1>2 DEF Incremented
<1>6. PICK b : b = Incremented(a) /\ b \in Ips /\ b.family = a.family /\ b.data = bytes
  BY <1>1, <1>4, <1>5, IpOfBytes
<1>7. \A i \in 1 .. n :
          bytes[i] = IF \A j \in i + 1 .. n : d[j] = 255 THEN (IF d[i] = 255 THEN 0 ELSE d[i] + 1) ELSE d[i]
  <2> TAKE i \in 1 .. n
  <2>1. i \in CarriedFrom(a) <=> \A j \in i + 1 .. n : d[j] = 255
    BY <1>1 DEF CarriedFrom
  <2> QED BY <1>2, <1>3, <2>1
<1>8. (\A i \in 1 .. n : d[i] = 255) => \A i \in 1 .. n : bytes[i] = 0
  <2> SUFFICES ASSUME \A i \in 1 .. n : d[i] = 255, NEW i \in 1 .. n PROVE bytes[i] = 0
    OBVIOUS
  <2>1. \A j \in i + 1 .. n : d[j] = 255
    BY <1>1
  <2> QED BY <1>7, <2>1
<1>9. (\E i \in 1 .. n : d[i] # 255)
          => \E m \in 1 .. n :
                /\ bytes[m] = d[m] + 1
                /\ \A i \in 1 .. m - 1 : bytes[i] = d[i]
                /\ \A i \in m + 1 .. n : d[i] = 255 /\ bytes[i] = 0
  <2> SUFFICES ASSUME \E i \in 1 .. n : d[i] # 255
               PROVE  \E m \in 1 .. n :
                          /\ bytes[m] = d[m] + 1
                          /\ \A i \in 1 .. m - 1 : bytes[i] = d[i]
                          /\ \A i \in m + 1 .. n : d[i] = 255 /\ bytes[i] = 0
    OBVIOUS
  <2> DEFINE S == {i \in 1 .. n : d[i] # 255}
  <2>1. S \subseteq 0 .. n /\ S # {}
    BY <1>1
  <2>2. Max(S) \in S /\ \A x \in S : x <= Max(S)
    <3> HIDE DEF S
    <3> QED BY <1>1, <2>1, MaxOfBounded
  <2>3. PICK m \in 1 .. n : d[m] # 255 /\ \A x \in S : x <= m
    BY <2>2
  <2>4. \A i \in m + 1 .. n : d[i] = 255
    <3> SUFFICES ASSUME NEW i \in m + 1 .. n, d[i] # 255 PROVE FALSE
      OBVIOUS
    <3>1. i \in S /\ i > m
      BY <1>1
    <3> QED BY <1>1, <2>3, <3>1
  <2>5. bytes[m] = d[m] + 1
    BY <1>7, <2>3, <2>4
  <2>6. \A i \in 1 .. m - 1 : bytes[i] = d[i]
    <3> TAKE i \in 1 .. m - 1
    <3>1. i \in 1 .. n /\ m \in i + 1 .. n
      BY <1>1
    <3> QED BY <1>7, <2>3, <3>1
  <2>7. \A i \in m + 1 .. n : bytes[i] = 0
    <3> TAKE i \in m + 1 .. n
    <3>1. i \in 1 .. n /\ \A j \in i + 1 .. n : j \in m + 1 .. n
      BY <1>1
    <3> QED BY <1>7, <2>4, <3>1
  <2> QED BY <2>4, <2>5, <2>6, <2>7
<1> QED BY <1>1, <1>6, <1>8, <1>9

\* It is the next one.
LEMMA NextIs ==
    ASSUME NEW a \in Ips, \E i \in 1 .. Length(a) : a.data[i] # 255
    PROVE  /\ Less(a, Incremented(a))
           /\ \A c \in Ips : ~(Less(a, c) /\ Less(c, Incremented(a)))
<1>1. PICK n, d, b, e : /\ n = Length(a) /\ d = a.data /\ b = Incremented(a) /\ e = b.data
                        /\ n \in Nat /\ d \in [1 .. n -> Byte] /\ e \in [1 .. n -> Byte]
                        /\ b.family = a.family /\ Len(d) = n /\ Len(e) = n
  <2>1. PICK n, d, b, e : n = Length(a) /\ d = a.data /\ b = Incremented(a) /\ e = b.data
    OBVIOUS
  <2>2. n \in Nat /\ d \in [1 .. n -> Byte]
    BY <2>1, KindsOfIps
  <2>3. b \in Ips /\ b.family = a.family
    BY <2>1, IncrementedIs
  <2>4. e \in [1 .. n -> Byte]
    BY <2>1, <2>3, KindsOfIps DEF Length
  <2>5. Len(d) = n /\ Len(e) = n
    BY <2>2, <2>4
  <2> QED BY <2>1, <2>2, <2>3, <2>4, <2>5
<1>2. PICK m \in 1 .. n : /\ e[m] = d[m] + 1 /\ \A i \in 1 .. m - 1 : e[i] = d[i]
                          /\ \A i \in m + 1 .. n : d[i] = 255 /\ e[i] = 0
  <2>1. \E m \in 1 .. Length(a) :
            /\ Incremented(a).data[m] = a.data[m] + 1
            /\ \A i \in 1 .. m - 1 : Incremented(a).data[i] = a.data[i]
            /\ \A i \in m + 1 .. Length(a) : a.data[i] = 255 /\ Incremented(a).data[i] = 0
    BY IncrementedIs
  <2>2. Length(a) = n /\ a.data = d /\ Incremented(a).data = e
    BY <1>1
  <2> QED BY <2>1, <2>2
<1>3. \A i \in 1 .. n : d[i] \in 0 .. 255 /\ e[i] \in 0 .. 255
  BY <1>1 DEF Byte
<1>4. LessBytes(d, e)
  <2>1. d[m] < e[m] /\ \A j \in 1 .. m - 1 : d[j] = e[j]
    <3>1. PICK x, y : x = d[m] /\ y = e[m] /\ x \in 0 .. 255 /\ y \in 0 .. 255
      BY <1>3, Zenon
    <3>2. y = x + 1 /\ x < x + 1
      <4>1. y = x + 1
        BY <1>2, <3>1, Zenon
      <4> QED BY <3>1, <4>1
    <3>3. d[m] < e[m]
      BY <3>1, <3>2, Zenon
    <3>4. \A j \in 1 .. m - 1 : d[j] = e[j]
      BY <1>2, Zenon
    <3> QED BY <3>3, <3>4, Zenon
  <2> QED BY <1>1, <2>1 DEF LessBytes
<1>5. Less(a, b)
  BY <1>1, <1>4 DEF Less
<1>6. ASSUME NEW c \in Ips, Less(a, c), Less(c, b) PROVE FALSE
  <2>1. c.family = a.family
    <3>1. a.family \in {"V4", "V6"} /\ c.family \in {"V4", "V6"}
      BY KindsOfIps
    <3> QED BY <1>1, <1>6, <3>1 DEF Less
  <2>2. PICK f : f = c.data
    OBVIOUS
  <2>3. f \in [1 .. n -> Byte] /\ Len(f) = n
    <3>1. Length(c) = n
      BY <1>1, <2>1 DEF Length
    <3>2. f \in [1 .. n -> Byte]
      BY <2>2, <3>1, KindsOfIps
    <3> QED BY <1>1, <3>2
  <2>4. LessBytes(d, f) /\ LessBytes(f, e)
    BY <1>1, <1>6, <2>1, <2>2 DEF Less
  <2>5. PICK i \in 1 .. n : d[i] < f[i] /\ \A j \in 1 .. i - 1 : d[j] = f[j]
    BY <1>1, <2>4 DEF LessBytes
  <2>6. PICK k \in 1 .. n : f[k] < e[k] /\ \A j \in 1 .. k - 1 : f[j] = e[j]
    BY <2>3, <2>4 DEF LessBytes
  <2>7. \A x \in 1 .. n : f[x] \in 0 .. 255
    BY <2>3 DEF Byte
  <2>8. i <= m
    <3> SUFFICES ASSUME ~(i <= m) PROVE FALSE
      OBVIOUS
    <3>1. i \in m + 1 .. n
      BY <1>1
    <3>2. PICK x, y : x = d[i] /\ y = f[i]
      OBVIOUS
    <3>3. x = 255 /\ x < y
      BY <1>2, <2>5, <3>1, <3>2, Zenon
    <3>4. y \in 0 .. 255
      BY <2>7, <3>2, Zenon
    <3> QED BY <3>3, <3>4
  <2>9. k <= m
    <3> SUFFICES ASSUME ~(k <= m) PROVE FALSE
      OBVIOUS
    <3>1. k \in m + 1 .. n
      BY <1>1
    <3>2. PICK x, y : x = f[k] /\ y = e[k]
      OBVIOUS
    <3>3. y = 0 /\ x < y
      BY <1>2, <2>6, <3>1, <3>2, Zenon
    <3>4. x \in 0 .. 255
      BY <2>7, <3>2, Zenon
    <3> QED BY <3>3, <3>4
  <2>10. CASE k < i
    <3>1. k \in 1 .. i - 1 /\ k \in 1 .. m - 1
      BY <1>1, <2>8, <2>10
    <3>2. d[k] = f[k] /\ e[k] = d[k]
      BY <1>2, <2>5, <3>1
    <3>3. PICK x : x = d[k] /\ x \in 0 .. 255
      BY <1>3, Zenon
    <3>4. x < x
      BY <2>6, <3>2, <3>3, Zenon
    <3> QED BY <3>3, <3>4
  <2>11. CASE k > i
    <3>1. i \in 1 .. k - 1 /\ i \in 1 .. m - 1
      BY <1>1, <2>9, <2>11
    <3>2. f[i] = e[i] /\ e[i] = d[i]
      BY <1>2, <2>6, <3>1
    <3>3. PICK x : x = d[i] /\ x \in 0 .. 255
      BY <1>3, Zenon
    <3>4. x < x
      BY <2>5, <3>2, <3>3, Zenon
    <3> QED BY <3>3, <3>4
  <2>12. CASE k = i /\ i < m
    <3>1. i \in 1 .. m - 1
      BY <1>1, <2>12
    <3>2. e[i] = d[i]
      BY <1>2, <3>1
    <3>3. PICK x, y : x = d[i] /\ y = f[i] /\ x \in 0 .. 255 /\ y \in 0 .. 255
      BY <1>3, <2>7
    <3>4. x < y /\ y < x
      BY <2>5, <2>6, <2>12, <3>2, <3>3
    <3> QED BY <3>3, <3>4
  <2>13. CASE k = i /\ i = m
    <3>1. d[m] < f[m] /\ f[m] < d[m] + 1
      BY <1>2, <2>5, <2>6, <2>13
    <3>2. PICK x, y : x = d[m] /\ y = f[m] /\ x \in 0 .. 255 /\ y \in 0 .. 255
      BY <1>3, <2>7, Zenon
    <3>3. x < y /\ y < x + 1
      <4>1. d[m] = x /\ f[m] = y
        BY <3>2
      <4> QED BY <3>1, <4>1, Zenon
    <3>4. ~(x < y /\ y < x + 1)
      BY <3>2
    <3> QED BY <3>3, <3>4
  <2> QED BY <2>8, <2>10, <2>11, <2>12, <2>13
<1> QED BY <1>1, <1>5, <1>6


-----------------------------------------------------------------------------
LEMMA SequencesOfBytes ==
    ASSUME NEW n \in Nat, NEW s \in [1 .. n -> Byte]
    PROVE  s \in Seq(Byte) /\ Len(s) = n
<1>1. s \in Seq(Byte)
  BY SeqDef
<1> QED BY <1>1, LenProperties

LEMMA FourOfThem ==
    ASSUME NEW n \in Nat, NEW d \in [1 .. n -> Byte], NEW p \in Nat, p + 4 <= n
    PROVE  SubSeq(d, p + 1, p + 4) = [i \in 1 .. 4 |-> d[i + p]]
<1>1. \A i \in p + 1 .. p + 4 : d[i] \in Byte
  OBVIOUS
<1>2. p + 1 \in Int /\ p + 4 \in Int /\ p + 1 <= p + 4 /\ (p + 4) - (p + 1) + 1 = 4
  OBVIOUS
<1>3. PICK s : s = SubSeq(d, p + 1, p + 4)
  OBVIOUS
<1>4. /\ s \in Seq(Byte)
      /\ Len(s) = IF p + 1 <= p + 4 THEN (p + 4) - (p + 1) + 1 ELSE 0
      /\ \A i \in 1 .. (p + 4) - (p + 1) + 1 : s[i] = d[(p + 1) + i - 1]
  <2>1. /\ SubSeq(d, p + 1, p + 4) \in Seq(Byte)
        /\ Len(SubSeq(d, p + 1, p + 4)) = IF p + 1 <= p + 4 THEN (p + 4) - (p + 1) + 1 ELSE 0
        /\ \A i \in 1 .. (p + 4) - (p + 1) + 1 : SubSeq(d, p + 1, p + 4)[i] = d[(p + 1) + i - 1]
    BY <1>1, <1>2, SubSeqProperties
  <2> QED BY <1>3, <2>1
<1>5. Len(s) = 4 /\ \A i \in 1 .. 4 : s[i] = d[i + p]
  <2>1. Len(s) = 4 /\ \A i \in 1 .. 4 : s[i] = d[(p + 1) + i - 1]
    BY <1>2, <1>4
  <2>2. \A i \in 1 .. 4 : (p + 1) + i - 1 = i + p
    OBVIOUS
  <2> QED BY <2>1, <2>2
<1>6. s = [i \in 1 .. 4 |-> s[i]]
  BY <1>4, <1>5, LenProperties
<1> QED BY <1>3, <1>5, <1>6

\* A mapped address: eight zeros, two bytes of ones, two zeros - the third word of
\* data_ is written in the order of the processor - and the bytes of the address.
LEMMA MappedIs ==
    ASSUME NEW a \in Ips, a.family = "V4"
    PROVE  /\ Mapped(a) \in Ips /\ Mapped(a).family = "V6"
           /\ \A i \in 1 .. 16 :
                  Mapped(a).data[i] = IF i \in 9 .. 10 THEN 255
                                      ELSE IF i \in 13 .. 16 THEN a.data[i - 12] ELSE 0
<1>1. PICK d : d = a.data /\ d \in [1 .. 4 -> Byte] /\ d \in Seq(Byte) /\ Len(d) = 4
  BY KindsOfIps, SequencesOfBytes
<1>2. PICK z, w : z = [i \in 1 .. 8 |-> 0] /\ w = <<255, 255, 0, 0>>
  OBVIOUS
<1>3. z \in [1 .. 8 -> Byte] /\ z \in Seq(Byte) /\ Len(z) = 8
  <2>1. z \in [1 .. 8 -> Byte]
    BY <1>2 DEF Byte
  <2> QED BY <2>1, SequencesOfBytes
<1>4. w \in Seq(Byte) /\ Len(w) = 4 /\ w[1] = 255 /\ w[2] = 255 /\ w[3] = 0 /\ w[4] = 0
  BY <1>2 DEF Byte
<1>5. PICK zw : zw = z \o w /\ zw \in Seq(Byte) /\ Len(zw) = 12
                /\ \A i \in 1 .. 12 : zw[i] = IF i <= 8 THEN z[i] ELSE w[i - 8]
  <2>1. PICK zw : zw = z \o w
    OBVIOUS
  <2>2. /\ zw \in Seq(Byte) /\ Len(zw) = Len(z) + Len(w)
        /\ \A i \in 1 .. Len(z) + Len(w) : zw[i] = IF i <= Len(z) THEN z[i] ELSE w[i - Len(z)]
    <3>1. /\ z \o w \in Seq(Byte) /\ Len(z \o w) = Len(z) + Len(w)
          /\ \A i \in 1 .. Len(z) + Len(w) :
                 (z \o w)[i] = IF i <= Len(z) THEN z[i] ELSE w[i - Len(z)]
      <4> z \in Seq(Byte) /\ w \in Seq(Byte)
        BY <1>3, <1>4
      <4> QED BY ConcatProperties
    <3> QED BY <2>1, <3>1
  <2>3. Len(z) + Len(w) = 12
    BY <1>3, <1>4
  <2>4. \A i \in 1 .. 12 : zw[i] = IF i <= 8 THEN z[i] ELSE w[i - 8]
    BY <1>3, <2>2, <2>3, Zenon
  <2> QED BY <2>1, <2>2, <2>3, <2>4
<1>6. PICK all : all = zw \o d /\ all \in Seq(Byte) /\ Len(all) = 16
                 /\ \A i \in 1 .. 16 : all[i] = IF i <= 12 THEN zw[i] ELSE d[i - 12]
  <2>1. PICK all : all = zw \o d
    OBVIOUS
  <2>2. /\ all \in Seq(Byte) /\ Len(all) = Len(zw) + Len(d)
        /\ \A i \in 1 .. Len(zw) + Len(d) : all[i] = IF i <= Len(zw) THEN zw[i] ELSE d[i - Len(zw)]
    <3>1. /\ zw \o d \in Seq(Byte) /\ Len(zw \o d) = Len(zw) + Len(d)
          /\ \A i \in 1 .. Len(zw) + Len(d) :
                 (zw \o d)[i] = IF i <= Len(zw) THEN zw[i] ELSE d[i - Len(zw)]
      <4> zw \in Seq(Byte) /\ d \in Seq(Byte)
        BY <1>1, <1>5
      <4> QED BY ConcatProperties
    <3> QED BY <2>1, <3>1
  <2>3. Len(zw) + Len(d) = 16
    BY <1>1, <1>5
  <2>4. \A i \in 1 .. 16 : all[i] = IF i <= 12 THEN zw[i] ELSE d[i - 12]
    BY <1>5, <2>2, <2>3, Zenon
  <2> QED BY <2>1, <2>2, <2>3, <2>4
<1>7. all \in [1 .. 16 -> Byte]
  BY <1>6, LenProperties
<1>8. \A i \in 1 .. 16 :
          all[i] = IF i \in 9 .. 10 THEN 255 ELSE IF i \in 13 .. 16 THEN d[i - 12] ELSE 0
  <2> TAKE i \in 1 .. 16
  <2>1. CASE i \in 1 .. 8
    <3>1. i \in 1 .. 12 /\ i <= 8 /\ i <= 12 /\ i \in 1 .. 16 /\ i \notin 9 .. 10 /\ i \notin 13 .. 16
      BY <2>1
    <3>2. zw[i] = z[i] /\ all[i] = zw[i]
      BY <1>5, <1>6, <3>1, Zenon
    <3>3. z[i] = 0
      BY <1>2, <2>1
    <3> QED BY <3>1, <3>2, <3>3
  <2>2. CASE i \in 9 .. 12
    <3>1. i \in 1 .. 12 /\ ~(i <= 8) /\ i <= 12 /\ i \in 1 .. 16 /\ i \notin 13 .. 16
      BY <2>2
    <3>2. zw[i] = w[i - 8] /\ all[i] = zw[i]
      BY <1>5, <1>6, <3>1, Zenon
    <3>3. i = 9 \/ i = 10 \/ i = 11 \/ i = 12
      BY <2>2
    <3>4. w[i - 8] = IF i \in 9 .. 10 THEN 255 ELSE 0
      BY <1>4, <3>3
    <3> QED BY <3>1, <3>2, <3>4
  <2>3. CASE i \in 13 .. 16
    <3>1. ~(i <= 12) /\ i \in 1 .. 16 /\ i \notin 9 .. 10
      BY <2>3
    <3>2. all[i] = d[i - 12]
      BY <1>6, <3>1, Zenon
    <3> QED BY <2>3, <3>1, <3>2
  <2> QED BY <2>1, <2>2, <2>3
<1>9. Mapped(a) = [family |-> "V6", data |-> all]
  BY <1>1, <1>2, <1>5, <1>6, Zenon DEF Mapped, Ip
<1>10. Mapped(a) \in [family : {"V6"}, data : [1 .. 16 -> Byte]]
  BY <1>7, <1>9
<1>11. Mapped(a) \in Ips
  BY <1>10 DEF Ips
<1>12. Mapped(a).family = "V6" /\ Mapped(a).data = all
  BY <1>9
<1> QED BY <1>1, <1>8, <1>11, <1>12

LEMMA UnmappedIs ==
    ASSUME NEW a \in Ips, a.family = "V6"
    PROVE  /\ Unmapped(a) \in Ips /\ Unmapped(a).family = "V4"
           /\ Unmapped(a).data = [i \in 1 .. 4 |-> a.data[i + 12]]
<1>1. PICK d : d = a.data /\ d \in [1 .. 16 -> Byte]
  BY KindsOfIps
<1>2. PICK s : s = [i \in 1 .. 4 |-> d[i + 12]]
  OBVIOUS
<1>3. SubSeq(d, 13, 16) = s
  BY <1>1, <1>2, FourOfThem
<1>4. s \in [1 .. 4 -> Byte]
  <2>1. \A i \in 1 .. 4 : i + 12 \in 1 .. 16
    OBVIOUS
  <2> QED BY <1>1, <1>2, <2>1
<1>5. Unmapped(a) = [family |-> "V4", data |-> s]
  BY <1>1, <1>3, Zenon DEF Unmapped, Ip
<1>6. Unmapped(a) \in [family : {"V4"}, data : [1 .. 4 -> Byte]]
  BY <1>4, <1>5
<1>7. Unmapped(a) \in Ips
  BY <1>6 DEF Ips
<1> QED BY <1>1, <1>2, <1>5, <1>7

\* The words of an address.
LEMMA WordIs ==
    ASSUME NEW a \in Ips, NEW k \in 1 .. (Length(a) \div 4), NEW d, d = a.data
    PROVE  /\ Word(a, k) = <<d[4 * k], d[4 * k - 1], d[4 * k - 2], d[4 * k - 3]>>
           /\ Word(a, k) \in [1 .. 4 -> Byte]
<1>0. PICK n : /\ n = Length(a) /\ n \in {4, 16} /\ d \in [1 .. n -> Byte]
               /\ k \in Nat /\ 4 * k - 4 \in Nat /\ 4 * k <= n
  <2>1. Length(a) \in {4, 16} /\ d \in [1 .. Length(a) -> Byte]
    BY KindsOfIps
  <2>2. k \in Nat /\ 4 * k - 4 \in Nat /\ 4 * k <= Length(a)
    BY <2>1
  <2> QED BY <2>1, <2>2
<1>1. PICK s : s = [i \in 1 .. 4 |-> d[4 * k - 4 + i]]
  OBVIOUS
<1>2. SubSeq(d, 4 * k - 3, 4 * k) = s
  <2>1. (4 * k - 4) + 1 = 4 * k - 3 /\ (4 * k - 4) + 4 = 4 * k
    BY <1>0
  <2>2. PICK p : p = 4 * k - 4 /\ p \in Nat /\ p + 4 <= n
    BY <1>0
  <2>3. SubSeq(d, p + 1, p + 4) = [i \in 1 .. 4 |-> d[i + p]]
    BY <1>0, <2>2, FourOfThem
  <2>4. \A i \in 1 .. 4 : i + p = 4 * k - 4 + i
    BY <2>2
  <2> QED BY <1>1, <2>1, <2>2, <2>3, <2>4
<1>3. s \in [1 .. 4 -> Byte]
  <2>1. \A i \in 1 .. 4 : 4 * k - 4 + i \in 1 .. n
    BY <1>0
  <2> QED BY <1>0, <1>1, <2>1
<1>4. Len(s) = 4
  BY <1>3, FourAreASequence
<1>5. Reverse(s) = [i \in 1 .. 4 |-> s[5 - i]]
  <2>1. \A i \in 1 .. 4 : (Len(s) - i) + 1 = 5 - i
    BY <1>4
  <2> QED BY <1>4, <2>1 DEF Reverse
<1>6. Reverse(s) = <<s[4], s[3], s[2], s[1]>>
  BY <1>5
<1>7. s[4] = d[4 * k] /\ s[3] = d[4 * k - 1] /\ s[2] = d[4 * k - 2] /\ s[1] = d[4 * k - 3]
  BY <1>1
<1>8. Word(a, k) = Reverse(s)
  BY <1>0, <1>2 DEF Word
<1>9. Word(a, k) \in [1 .. 4 -> Byte]
  BY <1>3, <1>5, <1>8
<1> QED BY <1>6, <1>7, <1>8, <1>9

\* What is_ipv4_mapped() says of the bytes.
LEMMA MappedBytes ==
    ASSUME NEW a \in Ips, a.family = "V6"
    PROVE  IsIpv4Mapped(a)
               <=> \A i \in 1 .. 12 : a.data[i] = IF i \in 9 .. 10 THEN 255 ELSE 0
<1>1. PICK d : d = a.data /\ d \in [1 .. 16 -> Byte]
  BY KindsOfIps
<1>2. \A k \in 1 .. 3 : Word(a, k) = <<d[4 * k], d[4 * k - 1], d[4 * k - 2], d[4 * k - 3]>>
  <2>1. Length(a) \div 4 = 4
    BY DEF Length
  <2>2. \A k \in 1 .. 3 : k \in 1 .. (Length(a) \div 4)
    BY <2>1
  <2> QED BY <1>1, <2>2, WordIs
<1>3. /\ Word(a, 1) = <<d[4], d[3], d[2], d[1]>>
      /\ Word(a, 2) = <<d[8], d[7], d[6], d[5]>>
      /\ Word(a, 3) = <<d[12], d[11], d[10], d[9]>>
  BY <1>2
<1>4. IsIpv4Mapped(a)
        <=> /\ d[1] = 0 /\ d[2] = 0 /\ d[3] = 0 /\ d[4] = 0
            /\ d[5] = 0 /\ d[6] = 0 /\ d[7] = 0 /\ d[8] = 0
            /\ d[9] = 255 /\ d[10] = 255 /\ d[11] = 0 /\ d[12] = 0
  BY <1>3 DEF IsIpv4Mapped, Zero
<1> DEFINE P(i) == d[i] = IF i \in 9 .. 10 THEN 255 ELSE 0
<1>5. (\A i \in 1 .. 12 : P(i))
        <=> /\ P(1) /\ P(2) /\ P(3) /\ P(4) /\ P(5) /\ P(6)
            /\ P(7) /\ P(8) /\ P(9) /\ P(10) /\ P(11) /\ P(12)
  <2> HIDE DEF P
  <2>1. \A i \in 1 .. 12 : \/ i = 1 \/ i = 2 \/ i = 3 \/ i = 4 \/ i = 5 \/ i = 6
                            \/ i = 7 \/ i = 8 \/ i = 9 \/ i = 10 \/ i = 11 \/ i = 12
    OBVIOUS
  <2> QED BY <2>1
<1>6. /\ P(1) <=> d[1] = 0
      /\ P(2) <=> d[2] = 0
      /\ P(3) <=> d[3] = 0
      /\ P(4) <=> d[4] = 0
      /\ P(5) <=> d[5] = 0
      /\ P(6) <=> d[6] = 0
      /\ P(7) <=> d[7] = 0
      /\ P(8) <=> d[8] = 0
      /\ P(9) <=> d[9] = 255
      /\ P(10) <=> d[10] = 255
      /\ P(11) <=> d[11] = 0
      /\ P(12) <=> d[12] = 0
  OBVIOUS
<1>7. IsIpv4Mapped(a) <=> \A i \in 1 .. 12 : P(i)
  BY <1>4, <1>5, <1>6, ZenonT(40)
<1> QED BY <1>1, <1>7

\* The operators and the calls give addresses.
LEMMA CombinedOk ==
    ASSUME NEW a \in Ips, NEW b \in Ips, a.family = b.family
    PROVE  /\ IpAnd(a, b) \in Ips /\ IpAnd(a, b).family = a.family
           /\ \A i \in 1 .. Length(a) : IpAnd(a, b).data[i] = BitAnd(a.data[i], b.data[i])
           /\ IpOr(a, b) \in Ips /\ IpXor(a, b) \in Ips
<1>1. \A i \in 1 .. Length(a) : a.data[i] \in Byte /\ b.data[i] \in Byte
  <2>1. Length(b) = Length(a)
    BY DEF Length
  <2> QED BY <2>1, KindsOfIps
<1>2. /\ IpAnd(a, b) \in Ips /\ IpAnd(a, b).family = a.family
      /\ IpAnd(a, b).data = [i \in 1 .. Length(a) |-> BitAnd(a.data[i], b.data[i])]
  <2>1. PICK bytes : bytes = [i \in 1 .. Length(a) |-> BitAnd(a.data[i], b.data[i])]
    OBVIOUS
  <2>2. bytes \in [1 .. Length(a) -> Byte]
    BY <1>1, <2>1, BitsAssumption
  <2>3. IpAnd(a, b) = Ip(a.family, bytes)
    BY <2>1 DEF IpAnd, Bytewise
  <2> QED BY <2>1, <2>2, <2>3, IpOfBytes
<1>3. /\ IpOr(a, b) \in Ips /\ IpOr(a, b).family = a.family
      /\ IpOr(a, b).data = [i \in 1 .. Length(a) |-> BitOr(a.data[i], b.data[i])]
  <2>1. PICK bytes : bytes = [i \in 1 .. Length(a) |-> BitOr(a.data[i], b.data[i])]
    OBVIOUS
  <2>2. bytes \in [1 .. Length(a) -> Byte]
    BY <1>1, <2>1, BitsAssumption
  <2>3. IpOr(a, b) = Ip(a.family, bytes)
    BY <2>1 DEF IpOr, Bytewise
  <2> QED BY <2>1, <2>2, <2>3, IpOfBytes
<1>4. /\ IpXor(a, b) \in Ips /\ IpXor(a, b).family = a.family
      /\ IpXor(a, b).data = [i \in 1 .. Length(a) |-> BitXor(a.data[i], b.data[i])]
  <2>1. PICK bytes : bytes = [i \in 1 .. Length(a) |-> BitXor(a.data[i], b.data[i])]
    OBVIOUS
  <2>2. bytes \in [1 .. Length(a) -> Byte]
    BY <1>1, <2>1, BitsAssumption
  <2>3. IpXor(a, b) = Ip(a.family, bytes)
    BY <2>1 DEF IpXor, Bytewise
  <2> QED BY <2>1, <2>2, <2>3, IpOfBytes
<1> QED BY <1>2, <1>3, <1>4

LEMMA NotOk ==
    ASSUME NEW a \in Ips
    PROVE  /\ IpNot(a) \in Ips /\ IpNot(a).family = a.family
           /\ IpNot(a).data = [i \in 1 .. Length(a) |-> 255 - a.data[i]]
<1>1. PICK bytes : bytes = [i \in 1 .. Length(a) |-> 255 - a.data[i]]
  OBVIOUS
<1>2. \A x \in Byte : 255 - x \in Byte
  BY DEF Byte
<1>3. \A i \in 1 .. Length(a) : a.data[i] \in Byte
  BY KindsOfIps
<1>4. bytes \in [1 .. Length(a) -> Byte]
  BY <1>1, <1>2, <1>3
<1> QED BY <1>1, <1>4, IpOfBytes DEF IpNot

LEMMA MaskedOk ==
    ASSUME NEW a \in Ips, NEW mask \in Ips, NEW set \in Ips
    PROVE  /\ Masked(a, mask, set) \in Ips
           /\ Masked(a, mask, set) =
                IF {a.family, mask.family, set.family} = {"V4"}
                THEN IpOr(IpAnd(a, mask), IpAnd(set, IpNot(mask)))
                ELSE a
<1>1. CASE {a.family, mask.family, set.family} = {"V4"}
  <2>1. a.family = "V4" /\ mask.family = "V4" /\ set.family = "V4"
    BY <1>1
  <2>2. Length(a) = 4 /\ Length(mask) = 4 /\ Length(set) = 4
    BY <2>1 DEF Length
  <2>3. /\ IpNot(mask) \in Ips /\ IpNot(mask).family = "V4"
        /\ IpNot(mask).data = [i \in 1 .. 4 |-> 255 - mask.data[i]]
    BY <2>1, <2>2, NotOk
  <2>4. /\ IpAnd(a, mask) \in Ips /\ IpAnd(a, mask).family = "V4"
        /\ \A i \in 1 .. 4 : IpAnd(a, mask).data[i] = BitAnd(a.data[i], mask.data[i])
    <3>1. /\ IpAnd(a, mask) \in Ips /\ IpAnd(a, mask).family = a.family
          /\ \A i \in 1 .. Length(a) : IpAnd(a, mask).data[i] = BitAnd(a.data[i], mask.data[i])
      <4>1. a.family = mask.family
        BY <2>1
      <4> QED BY <4>1, CombinedOk, SMTT(30)
    <3> QED BY <2>1, <2>2, <3>1
  <2>5. PICK not : /\ not = IpNot(mask) /\ not \in Ips /\ not.family = "V4"
                   /\ not.data = [i \in 1 .. 4 |-> 255 - mask.data[i]]
    BY <2>3
  <2>6. /\ IpAnd(set, not) \in Ips /\ IpAnd(set, not).family = "V4"
        /\ \A i \in 1 .. 4 : IpAnd(set, not).data[i] = BitAnd(set.data[i], not.data[i])
    <3>1. /\ IpAnd(set, not) \in Ips /\ IpAnd(set, not).family = set.family
          /\ \A i \in 1 .. Length(set) : IpAnd(set, not).data[i] = BitAnd(set.data[i], not.data[i])
      <4>1. set.family = not.family /\ not \in Ips
        BY <2>1, <2>5
      <4> QED BY <4>1, CombinedOk
    <3> QED BY <2>1, <2>2, <3>1
  <2>7. PICK left : /\ left = IpAnd(a, mask) /\ left \in Ips /\ left.family = "V4"
                    /\ \A i \in 1 .. 4 : left.data[i] = BitAnd(a.data[i], mask.data[i])
    BY <2>4
  <2>8. PICK right : /\ right = IpAnd(set, not) /\ right \in Ips /\ right.family = "V4"
                     /\ \A i \in 1 .. 4 : right.data[i] = BitAnd(set.data[i], not.data[i])
    BY <2>6
  <2>9. Length(left) = 4
    BY <2>7 DEF Length
  <2>10. IpOr(left, right) \in Ips
    BY <2>7, <2>8, CombinedOk
  <2>11. IpOr(left, right) = Ip("V4", [i \in 1 .. 4 |-> BitOr(left.data[i], right.data[i])])
    BY <2>7, <2>9 DEF IpOr, Bytewise
  <2>12. \A i \in 1 .. 4 :
             BitOr(left.data[i], right.data[i])
                 = BitOr(BitAnd(a.data[i], mask.data[i]), BitAnd(set.data[i], 255 - mask.data[i]))
    <3> TAKE i \in 1 .. 4
    <3>1. left.data[i] = BitAnd(a.data[i], mask.data[i])
      BY <2>7
    <3>2. right.data[i] = BitAnd(set.data[i], not.data[i]) /\ not.data[i] = 255 - mask.data[i]
      BY <2>5, <2>8
    <3> QED BY <3>1, <3>2
  <2>13. [i \in 1 .. 4 |-> BitOr(left.data[i], right.data[i])]
           = [i \in 1 .. 4 |-> BitOr(BitAnd(a.data[i], mask.data[i]),
                                     BitAnd(set.data[i], 255 - mask.data[i]))]
    BY <2>12
  <2>14. Masked(a, mask, set)
           = Ip("V4", [i \in 1 .. 4 |-> BitOr(BitAnd(a.data[i], mask.data[i]),
                                              BitAnd(set.data[i], 255 - mask.data[i]))])
    BY <1>1, Zenon DEF Masked
  <2>15. Masked(a, mask, set) = IpOr(left, right)
    BY <2>11, <2>13, <2>14
  <2> QED BY <1>1, <2>5, <2>7, <2>8, <2>10, <2>15
<1>2. CASE {a.family, mask.family, set.family} # {"V4"}
  BY <1>2, Zenon DEF Masked
<1> QED BY <1>1, <1>2

LEMMA TakenOk ==
    ASSUME NEW a \in Ips, a.family = "V4"
    PROVE  FromSockaddr(a) \in Ips
<1>1. a.data \in [1 .. 4 -> Byte] /\ Length(a) = 4
  BY KindsOfIps
<1>2. Reverse(a.data) \in [1 .. 4 -> Byte]
  BY <1>1, ReversedTwice
<1>3. Ip("V4", Reverse(a.data)) \in Ips
  BY <1>1, <1>2, IpOfBytes
<1> QED BY <1>3 DEF FromSockaddr

\* A mapped address and the one it was made of.
LEMMA MappedBack ==
    ASSUME NEW a \in Ips, a.family = "V4"
    PROVE  IsIpv4Mapped(Mapped(a)) /\ Unmapped(Mapped(a)) = a
<1>1. PICK b : b = Mapped(a)
  OBVIOUS
<1>2. /\ b \in Ips /\ b.family = "V6"
      /\ \A i \in 1 .. 16 :
             b.data[i] = IF i \in 9 .. 10 THEN 255 ELSE IF i \in 13 .. 16 THEN a.data[i - 12] ELSE 0
  BY <1>1, MappedIs
<1>3. \A i \in 1 .. 12 : b.data[i] = IF i \in 9 .. 10 THEN 255 ELSE 0
  <2> TAKE i \in 1 .. 12
  <2>1. i \in 1 .. 16 /\ i \notin 13 .. 16
    OBVIOUS
  <2> QED BY <1>2, <2>1, Zenon
<1>4. IsIpv4Mapped(b)
  BY <1>2, <1>3, MappedBytes
<1>5. PICK c : /\ c = Unmapped(b) /\ c \in Ips /\ c.family = "V4"
               /\ c.data = [i \in 1 .. 4 |-> b.data[i + 12]]
  BY <1>2, UnmappedIs
<1>6. a.data \in [1 .. 4 -> Byte]
  BY KindsOfIps
<1>7. \A i \in 1 .. 4 : b.data[i + 12] = a.data[i]
  <2> TAKE i \in 1 .. 4
  <2>1. i + 12 \in 1 .. 16 /\ i + 12 \in 13 .. 16 /\ i + 12 \notin 9 .. 10 /\ (i + 12) - 12 = i
    OBVIOUS
  <2>2. b.data[i + 12] = a.data[(i + 12) - 12]
    BY <1>2, <2>1, Zenon
  <2> QED BY <2>1, <2>2
<1>8. c.data = a.data
  BY <1>5, <1>6, <1>7
<1>9. c = Ip("V4", c.data) /\ a = Ip("V4", a.data)
  BY <1>5, KindsOfIps
<1> QED BY <1>1, <1>4, <1>5, <1>8, <1>9, Zenon

LEMMA UnmappedBack ==
    ASSUME NEW a \in Ips, a.family = "V6", IsIpv4Mapped(a)
    PROVE  Unmapped(a) \in Ips /\ Unmapped(a).family = "V4" /\ Mapped(Unmapped(a)) = a
<1>1. PICK b : /\ b = Unmapped(a) /\ b \in Ips /\ b.family = "V4"
               /\ b.data = [i \in 1 .. 4 |-> a.data[i + 12]]
  BY UnmappedIs
<1>2. PICK c : /\ c = Mapped(b) /\ c \in Ips /\ c.family = "V6"
               /\ \A i \in 1 .. 16 :
                      c.data[i] = IF i \in 9 .. 10 THEN 255 ELSE IF i \in 13 .. 16 THEN b.data[i - 12] ELSE 0
  BY <1>1, MappedIs
<1>3. \A i \in 1 .. 12 : a.data[i] = IF i \in 9 .. 10 THEN 255 ELSE 0
  BY MappedBytes
<1>4. \A i \in 1 .. 16 : c.data[i] = a.data[i]
  <2> TAKE i \in 1 .. 16
  <2>1. CASE i \in 1 .. 12
    <3>1. i \in 1 .. 12 /\ i \notin 13 .. 16
      BY <2>1
    <3>2. c.data[i] = IF i \in 9 .. 10 THEN 255 ELSE 0
      BY <1>2, <3>1, Zenon
    <3>3. a.data[i] = IF i \in 9 .. 10 THEN 255 ELSE 0
      BY <1>3, <3>1, Zenon
    <3> QED BY <3>2, <3>3, Zenon
  <2>2. CASE i \in 13 .. 16
    <3>1. i \notin 9 .. 10 /\ i - 12 \in 1 .. 4 /\ (i - 12) + 12 = i
      BY <2>2
    <3>2. c.data[i] = b.data[i - 12]
      BY <1>2, <2>2, <3>1, Zenon
    <3>3. b.data[i - 12] = a.data[(i - 12) + 12]
      BY <1>1, <3>1
    <3> QED BY <3>1, <3>2, <3>3
  <2> QED BY <2>1, <2>2
<1>5. a.data \in [1 .. 16 -> Byte] /\ c.data \in [1 .. 16 -> Byte]
  BY <1>2, KindsOfIps
<1>6. c.data = a.data
  BY <1>4, <1>5
<1>7. c = Ip("V6", c.data) /\ a = Ip("V6", a.data)
  BY <1>2, KindsOfIps
<1> QED BY <1>1, <1>2, <1>6, <1>7, Zenon

-----------------------------------------------------------------------------
\* What a caller has is an address after every call.
IpOk == ip \in Ips

LEMMA IpOkInit == IpInit => IpOk
BY IpsAssumption DEF IpInit, IpOk

LEMMA IpOkStep == IpOk /\ [IpNext]_ipVars => IpOk'
<1> SUFFICES ASSUME IpOk, [IpNext]_ipVars PROVE ip' \in Ips
  BY DEF IpOk
<1> USE DEF IpOk, Becomes
<1>1. CASE Increment
  BY <1>1, IncrementedIs DEF Increment
<1>2. CASE InverseIp
  BY <1>2, NotOk DEF InverseIp
<1>3. CASE MapV4
  BY <1>3, MappedIs DEF MapV4
<1>4. CASE UnmapV4
  BY <1>4, UnmappedIs DEF UnmapV4
<1>5. CASE ClearIp
  <2>1. Zero \in [1 .. 4 -> Byte]
    BY DEF Zero, Byte
  <2>2. [family |-> "V4", data |-> Zero] \in [family : {"V4"}, data : [1 .. 4 -> Byte]]
    BY <2>1
  <2>3. Ip("V4", Zero) \in Ips
    BY <2>2 DEF Ip, Ips
  <2> QED BY <1>5, <2>3 DEF ClearIp
<1>6. ASSUME NEW mask \in SomeMasks, NEW set \in SomeOperands, Mask(mask, set) PROVE ip' \in Ips
  <2>1. mask \in Ips /\ set \in Ips
    BY IpsAssumption
  <2> QED BY <1>6, <2>1, MaskedOk DEF Mask
<1>7. ASSUME NEW a \in SomeOperands, SetNtohl(a) PROVE ip' \in Ips
  <2>1. a \in Ips
    BY IpsAssumption
  <2> QED BY <1>7, <2>1, TakenOk DEF SetNtohl
<1>8. ASSUME NEW a \in SomeOperands, Combine(a) PROVE ip' \in Ips
  <2>1. a \in Ips /\ a.family = ip.family
    BY <1>8, IpsAssumption DEF Combine
  <2>2. IpAnd(ip, a) \in Ips /\ IpOr(ip, a) \in Ips /\ IpXor(ip, a) \in Ips
    BY <2>1, CombinedOk
  <2> QED BY <1>8, <2>2 DEF Combine
<1>9. CASE UNCHANGED ipVars
  BY <1>9 DEF ipVars
<1> QED BY <1>1, <1>2, <1>3, <1>4, <1>5, <1>6, <1>7, <1>8, <1>9 DEF IpNext

\* Whatever calls are made on an address, it stays one: its family is AF_INET or
\* AF_INET6, with as many bytes of 0 to 255 as the family has.
THEOREM AddressesStayAddresses == IpSpec => []IpOk
BY IpOkInit, IpOkStep, PTL DEF IpSpec

\* Between two addresses that follow one another in the order of operator< there
\* is no third; mask() computes its formula; and mapping an address and taking it
\* out of the mapped one are inverse to each other - for all addresses.
THEOREM CallsAgree == IpSpec => CallsAgreeWithOperators
<1> DEFINE Agree ==
      /\ ipCalled'[1] = "increment" =>
             IF \A i \in 1 .. Length(ip) : ip.data[i] = 255
             THEN \A i \in 1 .. Length(ip) : ip'.data[i] = 0
             ELSE Less(ip, ip') /\ \A a \in SomeIps : ~(Less(ip, a) /\ Less(a, ip'))
      /\ ipCalled'[1] = "mask" =>
             ip' = IF {ip.family, ipCalled'[2].family, ipCalled'[3].family} = {"V4"}
                   THEN IpOr(IpAnd(ip, ipCalled'[2]), IpAnd(ipCalled'[3], IpNot(ipCalled'[2])))
                   ELSE ip
      /\ ipCalled'[1] = "map" => IsIpv4Mapped(ip') /\ Unmapped(ip') = ip
      /\ ipCalled'[1] = "unmap" => Mapped(ip') = ip
<1>1. ASSUME IpOk, IpNext PROVE Agree
  <2> USE IpOk DEF IpOk, Becomes
  <2>1. CASE Increment
    <3>1. ip' = Incremented(ip) /\ ipCalled'[1] = "increment"
      BY <2>1 DEF Increment
    <3>2. ASSUME \A i \in 1 .. Length(ip) : ip.data[i] = 255
          PROVE  \A i \in 1 .. Length(ip) : ip'.data[i] = 0
      BY <3>1, <3>2, IncrementedIs
    <3>3. ASSUME ~(\A i \in 1 .. Length(ip) : ip.data[i] = 255)
          PROVE  Less(ip, ip') /\ \A a \in SomeIps : ~(Less(ip, a) /\ Less(a, ip'))
      <4>1. /\ Less(ip, Incremented(ip))
            /\ \A a \in Ips : ~(Less(ip, a) /\ Less(a, Incremented(ip)))
        BY <3>3, NextIs
      <4>2. SomeIps \subseteq Ips
        BY IpsAssumption
      <4> QED BY <3>1, <4>1, <4>2
    <3> QED BY <3>1, <3>2, <3>3
  <2>2. CASE InverseIp
    <3>1. ipCalled'[1] = "inverse"
      BY <2>2 DEF InverseIp
    <3> QED BY <3>1
  <2>3. CASE MapV4
    <3>1. ip' = Mapped(ip) /\ ip.family = "V4" /\ ipCalled'[1] = "map"
      BY <2>3 DEF MapV4
    <3> QED BY <3>1, MappedBack
  <2>4. CASE UnmapV4
    <3>1. ip' = Unmapped(ip) /\ ip.family = "V6" /\ IsIpv4Mapped(ip) /\ ipCalled'[1] = "unmap"
      BY <2>4 DEF UnmapV4
    <3> QED BY <3>1, UnmappedBack
  <2>5. CASE ClearIp
    <3>1. ipCalled'[1] = "clear"
      BY <2>5 DEF ClearIp
    <3> QED BY <3>1
  <2>6. ASSUME NEW mask \in SomeMasks, NEW set \in SomeOperands, Mask(mask, set) PROVE Agree
    <3>1. ip' = Masked(ip, mask, set) /\ ipCalled' = <<"mask", mask, set>>
      BY <2>6 DEF Mask
    <3>2. ipCalled'[1] = "mask" /\ ipCalled'[2] = mask /\ ipCalled'[3] = set
      BY <3>1
    <3>3. mask \in Ips /\ set \in Ips
      BY IpsAssumption
    <3>4. ip' = IF {ip.family, mask.family, set.family} = {"V4"}
                THEN IpOr(IpAnd(ip, mask), IpAnd(set, IpNot(mask)))
                ELSE ip
      BY <3>1, <3>3, MaskedOk
    <3> QED BY <3>2, <3>4
  <2>7. ASSUME NEW a \in SomeOperands, SetNtohl(a) PROVE Agree
    <3>1. ipCalled'[1] = "set"
      BY <2>7 DEF SetNtohl
    <3> QED BY <3>1
  <2>8. ASSUME NEW a \in SomeOperands, Combine(a) PROVE Agree
    <3>1. ipCalled'[1] = "combine"
      BY <2>8 DEF Combine
    <3> QED BY <3>1
  <2> QED BY <1>1, <2>1, <2>2, <2>3, <2>4, <2>5, <2>6, <2>7, <2>8 DEF IpNext
<1>2. IpOk /\ [IpNext]_ipVars => [Agree]_ipVars
  BY <1>1
<1>3. IpSpec => [][Agree]_ipVars
  BY <1>2, AddressesStayAddresses, PTL DEF IpSpec
<1> QED BY <1>3 DEF CallsAgreeWithOperators

-----------------------------------------------------------------------------
(* Reading a group of an IPv6 text, and a text.                            *)

\* A number h[n] that is read from n digits, of which the first k are zeros.
Reads(h, g, n) ==
    /\ h \in [0 .. n -> Nat] /\ g \in [1 .. n -> Nat] /\ h[0] = 0
    /\ \A i \in 1 .. n : g[i] <= 15 /\ h[i] = 16 * h[i - 1] + g[i]
\* 16 bits.
Fits(number) == number \in Nat /\ number <= 65535
ZerosInFront(g, n, k) ==
    n \in Nat /\ n <= 4 /\ k \in 0 .. n /\ (\A i \in 1 .. k : g[i] = 0) /\ (k < n => g[k + 1] # 0)
ZeroOnlyOfZeros(h, n, k) == h[k] = 0 /\ (h[n] = 0 <=> k = n) /\ Fits(h[n])
LEMMA OneDigit ==
    ASSUME NEW a \in Nat, NEW b \in Nat, NEW d \in Nat, b = 16 * a + d, d <= 15
    PROVE  /\ b = 0 <=> a = 0 /\ d = 0
           /\ a <= 0 => b <= 15
           /\ a <= 15 => b <= 255
           /\ a <= 255 => b <= 4095
           /\ a <= 4095 => b <= 65535
OBVIOUS
LEMMA DigitSteps ==
    ASSUME NEW n \in Nat, NEW k, NEW g, NEW h, ZerosInFront(g, n, k), Reads(h, g, n)
    PROVE  ZeroOnlyOfZeros(h, n, k)
<1>0. n \in Nat /\ n <= 4 /\ k \in Nat /\ k <= n /\ h[0] = 0
  BY DEF ZerosInFront, Reads
<1>1. \A i \in 1 .. n : \E a \in Nat, b \in Nat, d \in Nat :
          a = h[i - 1] /\ b = h[i] /\ d = g[i] /\ b = 16 * a + d /\ d <= 15
  BY DEF Reads
<1>2. \A i \in 1 .. n : /\ h[i] = 0 <=> h[i - 1] = 0 /\ g[i] = 0
                        /\ h[i - 1] <= 0 => h[i] <= 15
                        /\ h[i - 1] <= 15 => h[i] <= 255
                        /\ h[i - 1] <= 255 => h[i] <= 4095
                        /\ h[i - 1] <= 4095 => h[i] <= 65535
  <2> TAKE i \in 1 .. n
  <2>1. PICK a \in Nat, b \in Nat, d \in Nat :
            a = h[i - 1] /\ b = h[i] /\ d = g[i] /\ b = 16 * a + d /\ d <= 15
    BY <1>1
  <2> QED BY <2>1, OneDigit
<1>3. h[n] \in Nat /\ h[n] <= 65535
  <2>1. \A i \in 0 .. n : h[i] \in Nat
    BY DEF Reads
  <2>2. CASE n = 0
    BY <1>0, <2>2
  <2>3. n >= 1 => h[1] <= 15
    BY <1>0, <1>2
  <2>4. n >= 2 => h[2] <= 255
    BY <1>2, <2>3
  <2>5. n >= 3 => h[3] <= 4095
    BY <1>2, <2>4
  <2>6. CASE n = 1
    <3>1. PICK x \in Nat : x = h[1]
      BY <2>1, <2>6
    <3>2. x <= 15
      BY <2>3, <2>6, <3>1
    <3> QED BY <2>6, <3>1, <3>2
  <2>7. CASE n = 2
    <3>1. PICK x \in Nat : x = h[2]
      BY <2>1, <2>7
    <3>2. x <= 255
      BY <2>4, <2>7, <3>1
    <3> QED BY <2>7, <3>1, <3>2
  <2>8. CASE n = 3
    <3>1. PICK x \in Nat : x = h[3]
      BY <2>1, <2>8
    <3>2. x <= 4095
      BY <2>5, <2>8, <3>1
    <3> QED BY <2>8, <3>1, <3>2
  <2>9. CASE n = 4
    <3>1. h[4] \in Nat /\ h[3] <= 4095
      BY <2>1, <2>5, <2>9
    <3>2. h[4] <= 65535
      BY <1>2, <2>9, <3>1
    <3> QED BY <2>9, <3>1, <3>2
  <2>10. n = 0 \/ n = 1 \/ n = 2 \/ n = 3 \/ n = 4
    BY <1>0
  <2> QED BY <2>2, <2>6, <2>7, <2>8, <2>9, <2>10
<1>4. \A i \in 0 .. n : (h[i] = 0) <=> i <= k
  <2> DEFINE S == {i \in 0 .. n : (h[i] = 0) <=> i <= k}
  <2>1. 0 \in S
    BY <1>0
  <2>2. \A i \in 1 .. n : i - 1 \in S => i \in S
    <3> TAKE i \in 1 .. n
    <3> HAVE i - 1 \in S
    <3>1. (h[i - 1] = 0) <=> i - 1 <= k
      BY Zenon
    <3>2. i <= k => g[i] = 0
      BY <1>0 DEF ZerosInFront
    <3>3. i = k + 1 => g[i] # 0
      BY <1>0 DEF ZerosInFront
    <3>4. h[i] = 0 <=> h[i - 1] = 0 /\ g[i] = 0
      BY <1>2
    <3>5. i <= k \/ i = k + 1 \/ i > k + 1
      BY <1>0
    <3>6. (i <= k => i - 1 <= k) /\ (i = k + 1 => ~(i <= k)) /\ (i > k + 1 => ~(i <= k) /\ ~(i - 1 <= k))
      BY <1>0
    <3>7. h[i] = 0 <=> i <= k
      BY <3>1, <3>2, <3>3, <3>4, <3>5, <3>6
    <3>8. i \in 0 .. n
      BY <1>0
    <3> QED BY <3>7, <3>8, Zenon
  <2>3. 0 .. n \subseteq S
    <3> HIDE DEF S
    <3> QED BY <1>0, <2>1, <2>2, UpTo, Zenon
  <2> QED BY <2>3, Zenon
<1>5. h[k] = 0 /\ (h[n] = 0 <=> k = n)
  BY <1>0, <1>4
<1>6. Fits(h[n])
  BY <1>3 DEF Fits
<1> QED BY <1>5, <1>6, Zenon DEF ZeroOnlyOfZeros

\* The same steps, from the first k on.
LaterSteps(f, s, h, g, n, k, m) ==
    /\ n \in Nat /\ k \in 0 .. n /\ m = n - k /\ h[k] = 0 /\ f[0] = 0
    /\ \A i \in 1 .. m : s[i] = g[k + i] /\ f[i] = 16 * f[i - 1] + s[i]
    /\ \A i \in 1 .. n : h[i] = 16 * h[i - 1] + g[i]
LEMMA SameNumber ==
    ASSUME NEW n, NEW k, NEW m, NEW g, NEW s, NEW h, NEW f, LaterSteps(f, s, h, g, n, k, m)
    PROVE  f[m] = h[n]
<1>0. m \in Nat /\ k \in Nat /\ n \in Nat /\ k + m = n
  BY DEF LaterSteps
<1> DEFINE S == {i \in 0 .. m : f[i] = h[k + i]}
<1>1. 0 \in S
  BY <1>0 DEF LaterSteps
<1>2. \A i \in 1 .. m : i - 1 \in S => i \in S
  <2> TAKE i \in 1 .. m
  <2> HAVE i - 1 \in S
  <2>1. f[i - 1] = h[k + (i - 1)] /\ f[i] = 16 * f[i - 1] + s[i] /\ s[i] = g[k + i]
    BY Zenon DEF LaterSteps
  <2>2. k + i \in 1 .. n /\ (k + i) - 1 = k + (i - 1) /\ i \in 0 .. m
    BY <1>0
  <2>3. h[k + i] = 16 * h[(k + i) - 1] + g[k + i]
    BY <2>2, Zenon DEF LaterSteps
  <2>4. f[i] = h[k + i]
    BY <2>1, <2>2, <2>3, Zenon
  <2> QED BY <2>2, <2>4, Zenon
<1>3. m \in 0 .. m /\ 0 .. m \subseteq S
  <2> HIDE DEF S
  <2> QED BY <1>0, <1>1, <1>2, UpTo
<1>4. f[m] = h[k + m]
  BY <1>3, Zenon
<1> QED BY <1>0, <1>4

\* A group of an IPv6 text that has a number.
IsGroup(g) == g \in Seq(0 .. Blank) /\ Len(g) <= 4 /\ ~Contains(g, Blank)

LEMMA DigitsOfGroup ==
    ASSUME NEW g, IsGroup(g)
    PROVE  /\ g \in Seq(0 .. 15) /\ g \in Seq(Nat) /\ Len(g) \in Nat
           /\ g \in [1 .. Len(g) -> Nat] /\ \A i \in 1 .. Len(g) : g[i] \in 0 .. 15
<1>1. g \in Seq(0 .. 16) /\ \A i \in 1 .. Len(g) : g[i] # 16
  BY Zenon DEF IsGroup, Blank, Contains
<1>2. Len(g) \in Nat /\ \A i \in 1 .. Len(g) : g[i] \in 0 .. 16
  BY <1>1, LenProperties, ElementOfSeq
<1>3. \A x \in 0 .. 16 : x # 16 => x \in 0 .. 15
  OBVIOUS
<1>4. \A i \in 1 .. Len(g) : g[i] \in 0 .. 15
  BY <1>1, <1>2, <1>3, Zenon
<1>5. g = [i \in 1 .. Len(g) |-> g[i]]
  BY <1>1, LenProperties
<1>6. g \in Seq(0 .. 15)
  BY <1>2, <1>4, <1>5
<1>7. 0 .. 15 \subseteq Nat
  OBVIOUS
<1>8. g \in Seq(Nat)
  BY <1>6, <1>7, SeqMonotonic, Zenon
<1>9. g \in [1 .. Len(g) -> Nat]
  BY <1>4, <1>5, <1>7, Zenon
<1> QED BY <1>2, <1>4, <1>6, <1>8, <1>9, Zenon

LEMMA ReadsGroup ==
    ASSUME NEW g, IsGroup(g)
    PROVE  \E h : Reads(h, g, Len(g)) /\ Number(g) = h[Len(g)]
<1>1. g \in Seq(Nat) /\ g \in [1 .. Len(g) -> Nat] /\ \A i \in 1 .. Len(g) : g[i] \in 0 .. 15
  BY DigitsOfGroup, Zenon
<1>2. PICK h \in [0 .. Len(g) -> Nat] :
          h[0] = 0 /\ (\A i \in 1 .. Len(g) : h[i] = 16 * h[i - 1] + g[i]) /\ Number(g) = h[Len(g)]
  BY <1>1, NumberSteps, Zenon
<1>3. \A x \in 0 .. 15 : x <= 15
  OBVIOUS
<1>4. \A i \in 1 .. Len(g) : g[i] <= 15
  BY <1>1, <1>3, Zenon
<1> QED BY <1>1, <1>2, <1>4, Zenon DEF Reads

\* Without the zeros in front it has the same number, which is none if nothing remains.
LEMMA Stripped ==
    ASSUME NEW g, IsGroup(g)
    PROVE  /\ IsGroup(WithoutLeadingZeros(g))
           /\ Number(WithoutLeadingZeros(g)) = Number(g)
           /\ WithoutLeadingZeros(g) = <<>> <=> Number(g) = 0
           /\ Fits(Number(g))
<1> DEFINE s == WithoutLeadingZeros(g)
<1>1. /\ g \in Seq(0 .. 15) /\ Len(g) \in Nat /\ Len(g) <= 4
      /\ \A i \in 1 .. Len(g) : g[i] \in 0 .. 15
  BY DigitsOfGroup, Zenon DEF IsGroup
<1>2. PICK k \in 0 .. Len(g) :
          /\ \A i \in 1 .. k : g[i] = 0
          /\ k < Len(g) => g[k + 1] # 0
          /\ s = SubSeq(g, k + 1, Len(g))
  <2>1. 15 \in Nat /\ 0 \in 0 .. 15
    OBVIOUS
  <2>2. \E k \in 0 .. Len(g) :
            /\ \A i \in 1 .. k : g[i] = 0
            /\ k < Len(g) => g[k + 1] # 0
            /\ WithoutLeading(0, g) = SubSeq(g, k + 1, Len(g))
    <3> HIDE DEF s
    <3>1. g \in Seq(0 .. 15)
      BY <1>1, Zenon
    <3>2. PICK D, z : D = 0 .. 15 /\ z = 0
      OBVIOUS
    <3>3. g \in Seq(D)
      BY <3>1, <3>2, Zenon
    <3>4. \E k \in 0 .. Len(g) :
              /\ \A i \in 1 .. k : g[i] = z
              /\ k < Len(g) => g[k + 1] # z
              /\ WithoutLeading(z, g) = SubSeq(g, k + 1, Len(g))
      BY <3>3, LeadingZeros, Zenon
    <3> QED BY <3>2, <3>4, Zenon
  <2> QED BY <2>2, Zenon DEF WithoutLeadingZeros
<1>3. ZerosInFront(g, Len(g), k)
  BY <1>1, <1>2, Zenon DEF ZerosInFront
<1>4. k \in Nat /\ k <= Len(g) /\ k + 1 \in Int /\ Len(g) \in Int
  BY <1>1
<1>5. /\ s \in Seq(0 .. 15) /\ Len(s) = IF k + 1 <= Len(g) THEN Len(g) - (k + 1) + 1 ELSE 0
      /\ \A i \in 1 .. Len(g) - (k + 1) + 1 : s[i] = g[k + 1 + i - 1]
  <2>1. \A i \in k + 1 .. Len(g) : i \in 1 .. Len(g)
    BY <1>4
  <2>2. \A i \in k + 1 .. Len(g) : g[i] \in 0 .. 15
    BY <1>1, <2>1, Zenon
  <2> QED BY <1>2, <1>4, <2>2, SubSeqProperties
<1> HIDE DEF s
<1>6. Len(s) = Len(g) - k /\ Len(s) \in Nat
  BY <1>1, <1>4, <1>5
<1>7. \A i \in 1 .. Len(s) : s[i] = g[k + i]
  <2> TAKE i \in 1 .. Len(s)
  <2>1. i \in 1 .. Len(g) - (k + 1) + 1 /\ k + 1 + i - 1 = k + i
    BY <1>1, <1>4, <1>6
  <2> QED BY <1>5, <2>1, Zenon
<1>8. IsGroup(s)
  <2>1. 0 .. 15 \subseteq 0 .. Blank /\ Blank \notin 0 .. 15
    BY DEF Blank
  <2>2. s \in Seq(0 .. Blank)
    BY <1>5, <2>1, SeqMonotonic, Zenon
  <2>3. \A i \in 1 .. Len(s) : s[i] \in 0 .. 15
    BY <1>5, ElementOfSeq, Zenon
  <2>4. Len(s) <= 4
    BY <1>1, <1>4, <1>6
  <2> QED BY <2>1, <2>2, <2>3, <2>4, Zenon DEF IsGroup, Contains
<1>9. PICK h : Reads(h, g, Len(g)) /\ Number(g) = h[Len(g)]
  BY ReadsGroup, Zenon
<1>10. PICK f : Reads(f, s, Len(s)) /\ Number(s) = f[Len(s)]
  BY <1>8, ReadsGroup, Zenon
<1>11. ZeroOnlyOfZeros(h, Len(g), k)
  BY <1>1, <1>3, <1>9, DigitSteps, Zenon
<1>12. f[Len(s)] = h[Len(g)]
  <2>1. (\A i \in 1 .. Len(g) : h[i] = 16 * h[i - 1] + g[i])
        /\ f[0] = 0 /\ \A i \in 1 .. Len(s) : f[i] = 16 * f[i - 1] + s[i]
    BY <1>9, <1>10, Zenon DEF Reads
  <2>2. LaterSteps(f, s, h, g, Len(g), k, Len(s))
    BY <1>1, <1>6, <1>7, <1>11, <2>1 DEF LaterSteps, ZeroOnlyOfZeros
  <2> QED BY <2>2, SameNumber
<1>13. s = <<>> <=> Len(s) = 0
  BY <1>5, EmptySeq
<1>14. Len(s) = 0 <=> k = Len(g)
  BY <1>1, <1>4, <1>6
<1>15. Number(s) = Number(g) /\ (s = <<>> <=> Number(g) = 0) /\ Fits(Number(g))
  BY <1>9, <1>10, <1>11, <1>12, <1>13, <1>14, Zenon DEF ZeroOnlyOfZeros
<1> QED BY <1>8, <1>15, Zenon DEF s

ThreeJoined(S, x, y, z, p, q, r, t) ==
    /\ t \in Seq(S) /\ Len(t) = p + q + r
    /\ \A j \in 1 .. p : t[j] = x[j]
    /\ \A j \in 1 .. q : t[p + j] = y[j]
    /\ \A j \in 1 .. r : t[p + q + j] = z[j]
LEMMA ThreeParts ==
    ASSUME NEW S, NEW x \in Seq(S), NEW y \in Seq(S), NEW z \in Seq(S),
           NEW p \in Nat, NEW q \in Nat, NEW r \in Nat, p = Len(x), q = Len(y), r = Len(z)
    PROVE  ThreeJoined(S, x, y, z, p, q, r, x \o y \o z)
<1>1. PICK xy : xy = x \o y
  OBVIOUS
<1>2. /\ xy \in Seq(S) /\ Len(xy) = p + q
      /\ \A i \in 1 .. p + q : xy[i] = IF i <= p THEN x[i] ELSE y[i - p]
  BY <1>1, ConcatProperties
<1>3. PICK t : t = xy \o z
  OBVIOUS
<1>4. /\ t \in Seq(S) /\ Len(t) = Len(xy) + Len(z)
      /\ \A i \in 1 .. Len(xy) + Len(z) : t[i] = IF i <= Len(xy) THEN xy[i] ELSE z[i - Len(xy)]
  <2>1. /\ xy \o z \in Seq(S) /\ Len(xy \o z) = Len(xy) + Len(z)
        /\ \A i \in 1 .. Len(xy) + Len(z) : (xy \o z)[i] = IF i <= Len(xy) THEN xy[i] ELSE z[i - Len(xy)]
    <3>1. xy \in Seq(S)
      BY <1>2, Zenon
    <3> QED BY <3>1, ConcatProperties, Zenon
  <2> QED BY <1>3, <2>1, Zenon
<1>5. /\ Len(t) = p + q + r
      /\ \A i \in 1 .. p + q + r : t[i] = IF i <= p + q THEN xy[i] ELSE z[i - (p + q)]
  BY <1>2, <1>4
<1>6. \A j \in 1 .. p : t[j] = x[j]
  BY <1>2, <1>5
<1>7. \A j \in 1 .. q : t[p + j] = y[j]
  <2> TAKE j \in 1 .. q
  <2>1. p + j \in 1 .. p + q + r /\ p + j \in 1 .. p + q /\ p + j <= p + q /\ ~(p + j <= p) /\ (p + j) - p = j
    OBVIOUS
  <2> QED BY <1>2, <1>5, <2>1, Zenon
<1>8. \A j \in 1 .. r : t[p + q + j] = z[j]
  <2> TAKE j \in 1 .. r
  <2>1. p + q + j \in 1 .. p + q + r /\ ~(p + q + j <= p + q) /\ (p + q + j) - (p + q) = j
    OBVIOUS
  <2> QED BY <1>5, <2>1, Zenon
<1> QED BY <1>1, <1>3, <1>4, <1>5, <1>6, <1>7, <1>8, Zenon DEF ThreeJoined

\* The groups of a text, with none but a to b empty: what they say of each number.
NumbersOf(groups, from, to) == [i \in 1 .. to - from + 1 |-> Number(groups[from + i - 1])]
Numbered(groups, first, given, wanted) ==
    NumbersOf(groups, 1, first)
    \o [i \in 1 .. wanted - given |-> 0]
    \o NumbersOf(groups, Len(groups) - (given - first) + 1, Len(groups))
Shape(groups, wanted, a, b) ==
    /\ Len(groups) \in Nat /\ wanted \in Nat /\ a \in 1 .. Len(groups) + 1 /\ b \in a - 1 .. Len(groups)
    /\ Gap(groups) = a .. b
    /\ IF a > b THEN a = Len(groups) + 1 /\ Len(groups) = wanted
                ELSE Len(groups) - (b - a + 1) <= wanted
    /\ \A i \in 1 .. Len(groups) : Fits(Number(groups[i]))
Says(groups, wanted, a, b, v) ==
    /\ v \in Seq(Nat) /\ Len(v) = wanted
    /\ \A j \in 1 .. wanted : Fits(v[j])
    /\ \A j \in 1 .. a - 1 : v[j] = Number(groups[j])
    /\ \A j \in a .. wanted - (Len(groups) - b) : v[j] = 0
    /\ \A i \in b + 1 .. Len(groups) : v[wanted - (Len(groups) - i)] = Number(groups[i])

LEMMA NumbersAre ==
    ASSUME NEW groups, NEW from \in Nat, NEW to \in Nat, from <= to + 1,
           \A i \in from .. to : Fits(Number(groups[i]))
    PROVE  /\ NumbersOf(groups, from, to) \in Seq(Nat)
           /\ Len(NumbersOf(groups, from, to)) = to - from + 1
           /\ \A i \in 1 .. to - from + 1 : /\ NumbersOf(groups, from, to)[i] = Number(groups[from + i - 1])
                                            /\ Fits(NumbersOf(groups, from, to)[i])
<1>1. PICK n \in Nat : n = to - from + 1
  OBVIOUS
<1>2. PICK s : s = NumbersOf(groups, from, to)
  OBVIOUS
<1>3. s = [i \in 1 .. n |-> Number(groups[from + i - 1])]
  BY <1>1, <1>2, Zenon DEF NumbersOf
<1>4. \A i \in 1 .. n : s[i] = Number(groups[from + i - 1]) /\ Fits(s[i])
  <2> TAKE i \in 1 .. n
  <2>1. from + i - 1 \in from .. to
    BY <1>1
  <2> QED BY <1>3, <2>1, Zenon
<1>5. \A i \in 1 .. n : s[i] \in Nat
  BY <1>4 DEF Fits
<1>6. s \in [1 .. n -> Nat]
  BY <1>3, <1>5
<1>7. s \in Seq(Nat) /\ Len(s) = n
  BY <1>6
<1> QED BY <1>1, <1>2, <1>4, <1>7, Zenon

LEMMA NumberedSays ==
    ASSUME NEW groups, NEW wanted, NEW a, NEW b, Shape(groups, wanted, a, b)
    PROVE  Says(groups, wanted, a, b, Numbered(groups, a - 1, Len(groups) - (b - a + 1), wanted))
<1>1. PICK n \in Nat, p \in Nat, q \in Nat, r \in Nat :
          n = Len(groups) /\ a = p + 1 /\ b \in Nat /\ wanted = p + q + r /\ n = b + r /\ p <= b
  <2>1. Len(groups) \in Nat /\ wanted \in Nat /\ a \in Nat /\ b \in Nat
        /\ 1 <= a /\ a <= Len(groups) + 1 /\ a - 1 <= b /\ b <= Len(groups)
    BY DEF Shape
  <2>2. IF a > b THEN a = Len(groups) + 1 /\ Len(groups) = wanted
                 ELSE Len(groups) - (b - a + 1) <= wanted
    BY Zenon DEF Shape
  <2>3. PICK n \in Nat : n = Len(groups)
    BY <2>1
  <2>4. a - 1 \in Nat /\ n - b \in Nat /\ wanted - (a - 1) - (n - b) \in Nat
    BY <2>1, <2>2, <2>3
  <2>5. a = (a - 1) + 1 /\ wanted = (a - 1) + (wanted - (a - 1) - (n - b)) + (n - b)
        /\ n = b + (n - b) /\ a - 1 <= b
    BY <2>1, <2>3
  <2> QED BY <2>1, <2>3, <2>4, <2>5
<1>2. \A i \in 1 .. n : Fits(Number(groups[i]))
  BY <1>1, Zenon DEF Shape
<1>3. PICK x, y, z : /\ x = NumbersOf(groups, 1, p) /\ y = [i \in 1 .. q |-> 0]
                     /\ z = NumbersOf(groups, b + 1, n)
  OBVIOUS
<1>4. x \in Seq(Nat) /\ Len(x) = p /\ \A i \in 1 .. p : x[i] = Number(groups[i]) /\ Fits(x[i])
  <2>1. \A i \in 1 .. p : i \in 1 .. n
    BY <1>1
  <2>2. /\ x \in Seq(Nat) /\ Len(x) = p - 1 + 1
        /\ \A i \in 1 .. p - 1 + 1 : x[i] = Number(groups[1 + i - 1]) /\ Fits(x[i])
    <3>1. 1 \in Nat /\ 1 <= p + 1 /\ \A i \in 1 .. p : Fits(Number(groups[i]))
      BY <1>2, <2>1
    <3> QED BY <1>3, <3>1, NumbersAre
  <2>3. p - 1 + 1 = p /\ \A i \in 1 .. p : 1 + i - 1 = i
    OBVIOUS
  <2> QED BY <2>2, <2>3
<1>5. y \in Seq(Nat) /\ Len(y) = q /\ \A i \in 1 .. q : y[i] = 0
  BY <1>3
<1>6. z \in Seq(Nat) /\ Len(z) = r /\ \A i \in 1 .. r : z[i] = Number(groups[b + i]) /\ Fits(z[i])
  <2>1. \A i \in b + 1 .. n : i \in 1 .. n
    BY <1>1
  <2>2. /\ z \in Seq(Nat) /\ Len(z) = n - (b + 1) + 1
        /\ \A i \in 1 .. n - (b + 1) + 1 : z[i] = Number(groups[(b + 1) + i - 1]) /\ Fits(z[i])
    <3>1. b + 1 \in Nat /\ b + 1 <= n + 1 /\ \A i \in b + 1 .. n : Fits(Number(groups[i]))
      BY <1>1, <1>2, <2>1
    <3> QED BY <1>3, <3>1, NumbersAre
  <2>3. n - (b + 1) + 1 = r /\ \A i \in 1 .. r : (b + 1) + i - 1 = b + i
    BY <1>1
  <2> QED BY <2>2, <2>3
<1>7. PICK v : v = x \o y \o z
  OBVIOUS
<1>8. v = Numbered(groups, a - 1, Len(groups) - (b - a + 1), wanted)
  <2>1. /\ a - 1 = p /\ wanted - (n - (b - a + 1)) = q
        /\ n - ((n - (b - a + 1)) - p) + 1 = b + 1
    BY <1>1
  <2> QED BY <1>1, <1>3, <1>7, <2>1, Zenon DEF Numbered
<1>9. /\ v \in Seq(Nat) /\ Len(v) = p + q + r
      /\ \A j \in 1 .. p : v[j] = x[j]
      /\ \A j \in 1 .. q : v[p + j] = y[j]
      /\ \A j \in 1 .. r : v[p + q + j] = z[j]
  <2>1. ThreeJoined(Nat, x, y, z, p, q, r, v)
    BY <1>4, <1>5, <1>6, <1>7, ThreeParts, Zenon
  <2> QED BY <2>1, Zenon DEF ThreeJoined
<1>10. \A j \in 1 .. a - 1 : v[j] = Number(groups[j]) /\ Fits(v[j])
  <2>1. a - 1 = p
    BY <1>1
  <2> QED BY <1>4, <1>9, <2>1, Zenon
<1>11. \A j \in a .. wanted - (Len(groups) - b) : v[j] = 0 /\ Fits(v[j])
  <2> TAKE j \in a .. wanted - (Len(groups) - b)
  <2>1. j - p \in 1 .. q /\ p + (j - p) = j
    BY <1>1
  <2>2. v[j] = 0
    BY <1>5, <1>9, <2>1, Zenon
  <2> QED BY <2>2 DEF Fits
<1>12. \A i \in b + 1 .. Len(groups) :
           v[wanted - (Len(groups) - i)] = Number(groups[i]) /\ Fits(v[wanted - (Len(groups) - i)])
  <2> TAKE i \in b + 1 .. Len(groups)
  <2>1. i - b \in 1 .. r /\ p + q + (i - b) = wanted - (Len(groups) - i) /\ b + (i - b) = i
    BY <1>1
  <2> QED BY <1>6, <1>9, <2>1, Zenon
<1>13. \A j \in 1 .. wanted : Fits(v[j])
  <2> TAKE j \in 1 .. wanted
  <2>1. CASE j \in 1 .. a - 1
    BY <1>10, <2>1, Zenon
  <2>2. CASE j \in a .. wanted - (Len(groups) - b)
    BY <1>11, <2>2, Zenon
  <2>3. CASE j > wanted - (Len(groups) - b) /\ j >= a
    <3>1. PICK i \in b + 1 .. Len(groups) : j = wanted - (Len(groups) - i)
      <4>1. j - p - q + b \in b + 1 .. Len(groups) /\ j = wanted - (Len(groups) - (j - p - q + b))
        BY <1>1, <2>3
      <4> QED BY <4>1
    <3> QED BY <1>12, <3>1, Zenon
  <2> QED BY <1>1, <2>1, <2>2, <2>3
<1> QED BY <1>1, <1>8, <1>9, <1>10, <1>11, <1>12, <1>13, Zenon DEF Says

\* A text, as Listenings has them, and what inet_pton() wants of it.
IsText(shown) ==
    shown.groups \in Seq(Seq(0 .. Blank)) /\ shown.tail \in {<<>>} \cup [1 .. 4 -> Byte]
Wanted(shown) == IF shown.tail = <<>> THEN 8 ELSE 6
Given(groups) == Len(groups) - Cardinality(Gap(groups))
GroupsReadable(groups) == \A i \in 1 .. Len(groups) : Len(groups[i]) <= 4 /\ ~Contains(groups[i], Blank)
FillsIt(shown) ==
    \/ Gap(shown.groups) = {} /\ Given(shown.groups) = Wanted(shown)
    \/ OneGap(shown) /\ Given(shown.groups) < Wanted(shown)

LEMMA InetIs ==
    ASSUME NEW shown
    PROVE  InetPton6(shown) =
               IF GroupsReadable(shown.groups) /\ FillsIt(shown)
               THEN Bytes(Numbered(shown.groups,
                                   IF Gap(shown.groups) = {} THEN Given(shown.groups) ELSE Min(Gap(shown.groups)) - 1,
                                   Given(shown.groups), Wanted(shown)))
                    \o shown.tail
               ELSE <<>>
BY Zenon DEF InetPton6, GroupsReadable, FillsIt, Given, Wanted, Numbered, NumbersOf

LEMMA GroupsOfText ==
    ASSUME NEW groups, groups \in Seq(Seq(0 .. Blank)), GroupsReadable(groups)
    PROVE  \A i \in 1 .. Len(groups) : IsGroup(groups[i]) /\ Fits(Number(groups[i]))
<1> TAKE i \in 1 .. Len(groups)
<1>1. groups[i] \in Seq(0 .. Blank)
  BY ElementOfSeq, Zenon
<1>2. IsGroup(groups[i])
  BY <1>1, Zenon DEF IsGroup, GroupsReadable
<1> QED BY <1>2, Stripped, Zenon

LEMMA MinOfInterval ==
    ASSUME NEW a \in Nat, NEW b \in Nat, a <= b
    PROVE  Min(a .. b) = a
<1>1. a .. b \subseteq Nat /\ a .. b # {} /\ a \in a .. b
  OBVIOUS
<1>2. PICK m : m = Min(a .. b)
  OBVIOUS
<1>3. m \in a .. b /\ \A x \in a .. b : m <= x
  BY <1>1, <1>2, MinOfNaturals
<1>4. m = a
  BY <1>1, <1>3
<1> QED BY <1>2, <1>4

\* Where the empty groups lie, one behind the other, is what a text says of numbers.
LEMMA InetSays ==
    ASSUME NEW shown, IsText(shown), GroupsReadable(shown.groups), NEW a, NEW b,
           Shape(shown.groups, Wanted(shown), a, b), FillsIt(shown)
    PROVE  \E v : Says(shown.groups, Wanted(shown), a, b, v) /\ InetPton6(shown) = Bytes(v) \o shown.tail
<1>1. /\ Len(shown.groups) \in Nat /\ a \in Nat /\ b \in Nat /\ a <= b + 1 /\ b <= Len(shown.groups)
      /\ 1 <= a /\ a - 1 <= b
      /\ Gap(shown.groups) = a .. b /\ (a > b => a = Len(shown.groups) + 1)
  BY DEF Shape
<1>2. Cardinality(Gap(shown.groups)) = b - a + 1
  <2>1. Cardinality(a .. b) = IF a > b THEN 0 ELSE b - a + 1
    BY <1>1, FS_Interval
  <2> QED BY <1>1, <2>1
<1>3. Given(shown.groups) = Len(shown.groups) - (b - a + 1)
  BY <1>2, Zenon DEF Given
<1>4. (IF Gap(shown.groups) = {} THEN Given(shown.groups) ELSE Min(Gap(shown.groups)) - 1) = a - 1
  <2>1. CASE a > b
    <3>1. a .. b = {} /\ Len(shown.groups) - (b - a + 1) = a - 1
      BY <1>1, <2>1
    <3> QED BY <1>1, <1>3, <3>1, Zenon
  <2>2. CASE a <= b
    <3>0. a \in Nat /\ b \in Nat
      BY <1>1, Zenon
    <3>1. a \in Nat /\ b \in Nat /\ a .. b # {}
      <4>1. a \in a .. b
        BY <2>2, <3>0
      <4> QED BY <3>0, <4>1
    <3>2. Min(a .. b) = a
      BY <2>2, <3>1, MinOfInterval, Zenon
    <3> QED BY <1>1, <3>1, <3>2, Zenon
  <2>3. a > b \/ a <= b
    BY <1>1
  <2> QED BY <2>1, <2>2, <2>3, Zenon
<1>5. InetPton6(shown) = Bytes(Numbered(shown.groups, a - 1, Len(shown.groups) - (b - a + 1), Wanted(shown))) \o shown.tail
  <2>1. InetPton6(shown) =
            Bytes(Numbered(shown.groups,
                           IF Gap(shown.groups) = {} THEN Given(shown.groups) ELSE Min(Gap(shown.groups)) - 1,
                           Given(shown.groups), Wanted(shown)))
            \o shown.tail
    BY InetIs, Zenon
  <2> QED BY <1>3, <1>4, <2>1, Zenon
<1> QED BY <1>5, NumberedSays, Zenon

\* A text that is accepted has its empty groups one behind the other.
LEMMA ShapeOfAccepted ==
    ASSUME NEW shown, IsText(shown), InetPton6(shown) # <<>>
    PROVE  /\ GroupsReadable(shown.groups) /\ FillsIt(shown)
           /\ \E a, b : Shape(shown.groups, Wanted(shown), a, b)
<1>1. GroupsReadable(shown.groups) /\ FillsIt(shown)
  BY InetIs, Zenon
<1>2. \A i \in 1 .. Len(shown.groups) : Fits(Number(shown.groups[i]))
  BY <1>1, GroupsOfText, Zenon DEF IsText
<1>3. PICK len \in Nat : len = Len(shown.groups)
  BY LenProperties DEF IsText
<1>4. PICK wanted \in Nat : wanted = Wanted(shown) /\ wanted >= 6
  BY DEF Wanted
<1>5. PICK gap : gap = Gap(shown.groups) /\ gap \subseteq 1 .. len
  BY <1>3 DEF Gap
<1>6. ASSUME NEW a \in Nat, NEW b \in Nat, 1 <= a, a <= b, gap = a .. b
      PROVE  Shape(shown.groups, Wanted(shown), a, b)
  <2>1. b <= len
    <3>1. b \in gap
      BY <1>6
    <3> QED BY <1>5, <3>1
  <2>2. a .. b # {}
    BY <1>6
  <2>3. Given(shown.groups) < Wanted(shown)
    BY <1>1, <1>5, <1>6, <2>2, Zenon DEF FillsIt
  <2>4. Cardinality(a .. b) = b - a + 1
    BY <1>6, FS_Interval
  <2>5. len - (b - a + 1) < wanted
    BY <1>3, <1>4, <1>5, <1>6, <2>3, <2>4, Zenon DEF Given
  <2>6. a \in 1 .. len + 1 /\ b \in a - 1 .. len /\ ~(a > b) /\ len - (b - a + 1) <= wanted
    BY <1>6, <2>1, <2>5
  <2> QED BY <1>2, <1>3, <1>4, <1>5, <1>6, <2>6, Zenon DEF Shape
<1>7. CASE gap = {} /\ Given(shown.groups) = Wanted(shown)
  <2>1. Cardinality(Gap(shown.groups)) = 0
    BY <1>5, <1>7, FS_EmptySet, Zenon
  <2>2. len = wanted
    BY <1>3, <1>4, <1>7, <2>1 DEF Given
  <2>3. len + 1 \in 1 .. len + 1 /\ len \in (len + 1) - 1 .. len /\ (len + 1) .. len = {} /\ len + 1 > len
    OBVIOUS
  <2>4. Shape(shown.groups, Wanted(shown), len + 1, len)
    BY <1>2, <1>3, <1>4, <1>5, <1>7, <2>2, <2>3, Zenon DEF Shape
  <2> QED BY <1>1, <2>4, Zenon
<1>8. CASE OneGap(shown)
  <2>1. PICK n \in Nat : n = len + (IF shown.tail = <<>> THEN 0 ELSE 1)
    OBVIOUS
  <2>2. \/ \E k \in 2 .. n - 1 : gap = {k}
        \/ n > 2 /\ gap \in {{1, 2}, {n - 1, n}}
        \/ n = 3 /\ gap = {1, 2, 3}
    BY <1>3, <1>5, <1>8, <2>1, Zenon DEF OneGap
  <2>3. ASSUME NEW k \in 2 .. n - 1, gap = {k} PROVE k \in Nat /\ 1 <= k /\ k <= k /\ gap = k .. k
    BY <2>3
  <2>4. ASSUME n > 2, gap = {n - 1, n} PROVE n - 1 \in Nat /\ 1 <= n - 1 /\ n - 1 <= n /\ gap = n - 1 .. n
    BY <2>4
  <2>5. {1, 2} = 1 .. 2 /\ {1, 2, 3} = 1 .. 3 /\ 1 <= 2 /\ 1 <= 3 /\ 1 <= 1
    OBVIOUS
  <2>6. \E a \in Nat, b \in Nat : 1 <= a /\ a <= b /\ gap = a .. b
    BY <2>2, <2>3, <2>4, <2>5
  <2> QED BY <1>1, <1>6, <2>6, Zenon
<1> QED BY <1>1, <1>5, <1>7, <1>8, Zenon DEF FillsIt

LEMMA ByteIs == \A x : x \in Byte <=> x \in Nat /\ x <= 255
BY SMTT(30) DEF Byte

LEMMA TwoBytes ==
    ASSUME NEW x, Fits(x)
    PROVE  /\ x \in Nat /\ x \div 256 \in Byte /\ x % 256 \in Byte
           /\ 256 * (x \div 256) + (x % 256) = x
<1>1. PICK y \in Nat : y = x /\ y <= 65535
  BY DEF Fits
<1>2. y \div 256 \in Nat /\ y \div 256 <= 255 /\ y % 256 \in Nat /\ y % 256 <= 255
  BY <1>1
<1>3. 256 * (y \div 256) + (y % 256) = y
  OBVIOUS
<1>4. y \div 256 \in Byte /\ y % 256 \in Byte
  BY <1>2, ByteIs
<1> QED BY <1>1, <1>3, <1>4

LEMMA BytesAre ==
    ASSUME NEW v \in Seq(Nat), \A j \in 1 .. Len(v) : Fits(v[j])
    PROVE  /\ Bytes(v) \in [1 .. 2 * Len(v) -> Byte]
           /\ \A j \in 1 .. Len(v) : Bytes(v)[2 * j - 1] = v[j] \div 256 /\ Bytes(v)[2 * j] = v[j] % 256
<1>1. PICK n \in Nat : n = Len(v)
  BY LenProperties
<1>2. PICK s : s = [i \in 1 .. 2 * n |-> IF i % 2 = 1 THEN v[(i + 1) \div 2] \div 256 ELSE v[i \div 2] % 256]
  OBVIOUS
<1>3. s = Bytes(v)
  BY <1>1, <1>2, Zenon DEF Bytes
<1>4. \A j \in 1 .. n : s[2 * j - 1] = v[j] \div 256 /\ s[2 * j] = v[j] % 256
  <2> TAKE j \in 1 .. n
  <2>1. /\ 2 * j - 1 \in 1 .. 2 * n /\ (2 * j - 1) % 2 = 1 /\ ((2 * j - 1) + 1) \div 2 = j
        /\ 2 * j \in 1 .. 2 * n /\ (2 * j) % 2 # 1 /\ (2 * j) \div 2 = j
    OBVIOUS
  <2> QED BY <1>2, <2>1, Zenon
<1>5. \A i \in 1 .. 2 * n : \E j \in 1 .. n : i = 2 * j - 1 \/ i = 2 * j
  <2> TAKE i \in 1 .. 2 * n
  <2>1. (i + 1) \div 2 \in 1 .. n /\ (i = 2 * ((i + 1) \div 2) - 1 \/ i = 2 * ((i + 1) \div 2))
    OBVIOUS
  <2> QED BY <2>1
<1>6. \A i \in 1 .. 2 * n : s[i] \in Byte
  <2> TAKE i \in 1 .. 2 * n
  <2>1. PICK j \in 1 .. n : i = 2 * j - 1 \/ i = 2 * j
    BY <1>5
  <2>2. v[j] \div 256 \in Byte /\ v[j] % 256 \in Byte
    BY <1>1, TwoBytes, Zenon
  <2>3. s[2 * j - 1] \in Byte /\ s[2 * j] \in Byte
    BY <1>4, <2>2, Zenon
  <2> QED BY <2>1, <2>3, Zenon
<1>7. s \in [1 .. 2 * n -> Byte]
  BY <1>2, <1>6, Zenon
<1> QED BY <1>1, <1>3, <1>4, <1>7, Zenon

\* The address that is made of the numbers and what is behind them.
GroupAt(data, j) == 256 * data[2 * j - 1] + data[2 * j]
DataSays(shown, v, data) ==
    /\ data \in [1 .. 16 -> Byte]
    /\ \A j \in 1 .. Wanted(shown) : GroupAt(data, j) = v[j]
    /\ \A i \in 1 .. 16 - 2 * Wanted(shown) : data[2 * Wanted(shown) + i] = shown.tail[i]
LEMMA DataOfText ==
    ASSUME NEW shown, IsText(shown), NEW a, NEW b, NEW v,
           Says(shown.groups, Wanted(shown), a, b, v)
    PROVE  DataSays(shown, v, Bytes(v) \o shown.tail)
<1>1. PICK n \in Nat : n = Wanted(shown) /\ ((n = 8 /\ shown.tail = <<>>) \/ (n = 6 /\ shown.tail \in [1 .. 4 -> Byte]))
  <2>1. CASE shown.tail = <<>>
    <3>1. Wanted(shown) = 8
      BY <2>1 DEF Wanted
    <3> QED BY <2>1, <3>1
  <2>2. CASE shown.tail \in [1 .. 4 -> Byte]
    <3>1. shown.tail \in Seq(Byte) /\ Len(shown.tail) = 4
      BY <2>2, SequencesOfBytes
    <3>2. shown.tail # <<>>
      <4>1. Len(<<>>) # 4
        OBVIOUS
      <4> QED BY <3>1, <4>1, Zenon
    <3>3. Wanted(shown) = 6 /\ 6 \in Nat
      BY <3>2, Zenon DEF Wanted
    <3> QED BY <2>2, <3>3, Zenon
  <2>3. shown.tail = <<>> \/ shown.tail \in [1 .. 4 -> Byte]
    BY Zenon DEF IsText
  <2> QED BY <2>1, <2>2, <2>3, Zenon
<1>2. v \in Seq(Nat) /\ Len(v) = n /\ \A j \in 1 .. n : Fits(v[j])
  BY <1>1, Zenon DEF Says
<1>3. PICK s : /\ s = Bytes(v) /\ s \in [1 .. 2 * n -> Byte]
               /\ \A j \in 1 .. n : s[2 * j - 1] = v[j] \div 256 /\ s[2 * j] = v[j] % 256
  <2>1. /\ Bytes(v) \in [1 .. 2 * Len(v) -> Byte]
        /\ \A j \in 1 .. Len(v) : Bytes(v)[2 * j - 1] = v[j] \div 256 /\ Bytes(v)[2 * j] = v[j] % 256
    BY <1>2, BytesAre, Zenon
  <2> QED BY <1>2, <2>1, Zenon
<1>4. \A j \in 1 .. n : 256 * s[2 * j - 1] + s[2 * j] = v[j]
  BY <1>2, <1>3, TwoBytes
<1>5. 2 * n \in Nat /\ s \in Seq(Byte) /\ Len(s) = 2 * n
  <2>1. 2 * n \in Nat
    OBVIOUS
  <2>2. s \in Seq(Byte)
    BY <1>3, <2>1, SeqDef
  <2>3. s \in Seq(Byte) /\ DOMAIN s = 1 .. 2 * n /\ DOMAIN s = 1 .. Len(s) /\ Len(s) \in Nat
    BY <1>3, <2>2, LenProperties
  <2> QED BY <2>1, <2>3
<1>6. shown.tail \in Seq(Byte) /\ Len(shown.tail) = 16 - 2 * n
  <2>1. CASE n = 8 /\ shown.tail = <<>>
    BY <2>1, EmptySeq
  <2>2. CASE n = 6 /\ shown.tail \in [1 .. 4 -> Byte]
    <3>1. shown.tail \in Seq(Byte)
      BY <2>2, SeqDef
    <3>2. Len(shown.tail) = 4
      BY <2>2, <3>1, LenProperties
    <3> QED BY <2>2, <3>1, <3>2
  <2> QED BY <1>1, <2>1, <2>2
<1>7. PICK d : d = s \o shown.tail
  OBVIOUS
<1>8. /\ d \in Seq(Byte) /\ Len(d) = Len(s) + Len(shown.tail)
      /\ \A i \in 1 .. Len(s) + Len(shown.tail) : d[i] = IF i <= Len(s) THEN s[i] ELSE shown.tail[i - Len(s)]
  BY <1>5, <1>6, <1>7, ConcatProperties, Zenon
<1>9. Len(d) = 16 /\ \A i \in 1 .. 16 : d[i] = IF i <= 2 * n THEN s[i] ELSE shown.tail[i - 2 * n]
  <2>1. Len(s) + Len(shown.tail) = 16
    BY <1>5, <1>6
  <2> QED BY <1>5, <1>8, <2>1, Zenon
<1>10. d \in [1 .. 16 -> Byte]
  BY <1>8, <1>9, LenProperties, Zenon
<1>11. \A j \in 1 .. n : 256 * d[2 * j - 1] + d[2 * j] = v[j]
  <2> TAKE j \in 1 .. n
  <2>1. 2 * j - 1 \in 1 .. 16 /\ 2 * j \in 1 .. 16 /\ 2 * j - 1 <= 2 * n /\ 2 * j <= 2 * n
    BY <1>1
  <2>2. d[2 * j - 1] = s[2 * j - 1] /\ d[2 * j] = s[2 * j]
    BY <1>9, <2>1, Zenon
  <2> QED BY <1>4, <2>2, Zenon
<1>12. \A i \in 1 .. 16 - 2 * n : d[2 * n + i] = shown.tail[i]
  <2> TAKE i \in 1 .. 16 - 2 * n
  <2>1. 2 * n + i \in 1 .. 16 /\ ~(2 * n + i <= 2 * n) /\ (2 * n + i) - 2 * n = i
    BY <1>1
  <2> QED BY <1>9, <2>1, Zenon
<1> QED BY <1>1, <1>3, <1>7, <1>10, <1>11, <1>12, Zenon DEF DataSays, GroupAt

-----------------------------------------------------------------------------
(* A text without the zeros, blanks and empty groups that say nothing.     *)

\* What trim_v6_string() keeps, and what it has kept after the first i groups.
KeptOf(groups, i) == ~(i > 2 /\ i < Len(groups) /\ groups[i] = <<>> /\ groups[i - 1] = <<>>)
Squeezes(h, groups) ==
    /\ h \in [0 .. Len(groups) -> Seq(Seq(0 .. Blank))] /\ h[0] = <<>>
    /\ \A i \in 1 .. Len(groups) :
           h[i] = IF KeptOf(groups, i) THEN Append(h[i - 1], groups[i]) ELSE h[i - 1]
LEMMA SqueezeSteps ==
    ASSUME NEW groups \in Seq(Seq(0 .. Blank))
    PROVE  \E h : Squeezes(h, groups) /\ Squeezed(groups) = h[Len(groups)]
<1> DEFINE A == Seq(Seq(0 .. Blank))
           n == Len(groups)
           ids == [i \in DOMAIN groups |-> i]
           D == SUBSET (DOMAIN ids)
           Next1(kept, i) == IF KeptOf(groups, i) THEN Append(kept, groups[i]) ELSE kept
           Is(iter) == iter = [S \in D |-> IF S = {} THEN <<>> ELSE Next1(iter[S \ {Max(S)}], ids[Max(S)])]
           op == [p \in A \X (1 .. n) |-> Next1(p[1], p[2])]
<1>0. /\ n \in Nat /\ DOMAIN groups = 1 .. n /\ DOMAIN ids = 1 .. n
      /\ \A i \in 1 .. n : groups[i] \in Seq(0 .. Blank) /\ ids[i] = i
  <2>1. n \in Nat /\ DOMAIN groups = 1 .. n
    BY LenProperties
  <2>2. DOMAIN ids = DOMAIN groups /\ \A i \in DOMAIN groups : ids[i] = i
    BY Zenon
  <2>3. \A i \in 1 .. n : groups[i] \in Seq(0 .. Blank)
    BY ElementOfSeq, Zenon
  <2> QED BY <2>1, <2>2, <2>3, Zenon
<1>a. \A kept \in A, i \in 1 .. n : Next1(kept, i) \in A
  <2> TAKE kept \in A, i \in 1 .. n
  <2>1. Append(kept, groups[i]) \in A
    BY <1>0, AppendProperties
  <2> QED BY <2>1, Zenon
<1>b. op \in [A \X (1 .. n) -> A] /\ \A kept \in A, i \in 1 .. n : op[<<kept, i>>] = Next1(kept, i)
  <2> HIDE DEF A, Next1
  <2>1. \A p \in A \X (1 .. n) : p[1] \in A /\ p[2] \in 1 .. n
    OBVIOUS
  <2>2. \A p \in A \X (1 .. n) : Next1(p[1], p[2]) \in A
    BY <1>a, <2>1, Zenon
  <2>3. op \in [A \X (1 .. n) -> A]
    BY <2>2, Zenon
  <2>4. ASSUME NEW kept \in A, NEW i \in 1 .. n PROVE op[<<kept, i>>] = Next1(kept, i)
    <3>1. <<kept, i>> \in A \X (1 .. n) /\ <<kept, i>>[1] = kept /\ <<kept, i>>[2] = i
      OBVIOUS
    <3> QED BY <3>1, Zenon
  <2> QED BY <2>3, <2>4, Zenon
<1>c. <<>> \in A
  BY EmptySeq
<1>1. \E iter \in [SUBSET (1 .. n) -> A] : Is(iter)
  <2>2. HasTable(A, op, <<>>, ids, n)
    <3>1. \A i \in 1 .. n : ids[i] \in 1 .. n
      BY <1>0, Zenon
    <3> HIDE DEF op, A, ids, n
    <3> QED BY <1>0, <1>b, <1>c, <3>1, FoldTable, Zenon
  <2>3. PICK iter \in [SUBSET (1 .. n) -> A] : \A S \in SUBSET (1 .. n) :
            iter[S] = IF S = {} THEN <<>> ELSE op[<<iter[S \ {Max(S)}], ids[Max(S)]>>]
    BY <2>2, Zenon DEF HasTable, IsTable
  <2>4. \A S \in SUBSET (1 .. n) : S # {} => Max(S) \in 1 .. n /\ S \ {Max(S)} \in SUBSET (1 .. n)
    <3> TAKE S \in SUBSET (1 .. n)
    <3>1. n \in Nat /\ S \subseteq 0 .. n
      BY <1>0
    <3>2. S # {} => Max(S) \in S
      BY <3>1, MaxOfBounded, Zenon
    <3> QED BY <3>2
  <2>5. \A S \in SUBSET (1 .. n) :
            iter[S] = IF S = {} THEN <<>> ELSE Next1(iter[S \ {Max(S)}], ids[Max(S)])
    <3> TAKE S \in SUBSET (1 .. n)
    <3>1. CASE S = {}
      BY <2>3, <3>1, Zenon
    <3>2. CASE S # {}
      <4>1. iter[S \ {Max(S)}] \in A /\ ids[Max(S)] \in 1 .. n
        <5>1. Max(S) \in 1 .. n /\ S \ {Max(S)} \in SUBSET (1 .. n)
          BY <2>4, <3>2, Zenon
        <5> HIDE DEF A
        <5> QED BY <1>0, <5>1, Zenon
      <4> HIDE DEF op, Next1, A, ids
      <4>2. op[<<iter[S \ {Max(S)}], ids[Max(S)]>>] = Next1(iter[S \ {Max(S)}], ids[Max(S)])
        BY <1>b, <4>1, Zenon
      <4> QED BY <2>3, <3>2, <4>2, Zenon
    <3> QED BY <3>1, <3>2, Zenon
  <2>6. D = SUBSET (1 .. n)
    BY <1>0, Zenon
  <2> HIDE DEF Next1, ids, n, A
  <2>7. iter = [S \in D |-> IF S = {} THEN <<>> ELSE Next1(iter[S \ {Max(S)}], ids[Max(S)])]
    BY <2>5, <2>6
  <2> QED BY <2>7, Zenon
<1>2. Is(CHOOSE iter : Is(iter))
  <2> HIDE DEF A, D
  <2> QED BY <1>1, Zenon
<1>3. PICK iter : Is(iter) /\ Squeezed(groups) = iter[DOMAIN ids]
  BY <1>2, Zenon DEF Squeezed, FoldLeftDomain, FoldLeft, MapThenFoldSet, KeptOf
<1> DEFINE h == [i \in 0 .. n |-> iter[1 .. i]]
<1>4. h[0] = <<>> /\ h[n] = Squeezed(groups)
  <2>1. 1 .. 0 = {} /\ {} \in D /\ 0 \in 0 .. n /\ n \in 0 .. n
    BY <1>0
  <2>2. h[0] = iter[{}] /\ h[n] = iter[1 .. n]
    BY <2>1, Zenon
  <2>3. iter[{}] = <<>>
    BY <1>3, <2>1, Zenon
  <2> QED BY <1>0, <1>3, <2>2, <2>3, Zenon
<1>5. \A i \in 1 .. n : h[i] = Next1(h[i - 1], i)
  <2> TAKE i \in 1 .. n
  <2>1. 1 .. i \in D /\ 1 .. i # {} /\ Max(1 .. i) = i /\ (1 .. i) \ {i} = 1 .. i - 1
    <3> HIDE DEF ids, n
    <3>1. n \in Nat /\ DOMAIN ids = 1 .. n
      BY <1>0, Zenon
    <3> QED BY <3>1, LastOfInterval
  <2>2. h[i] = iter[1 .. i] /\ h[i - 1] = iter[1 .. i - 1]
    <3> HIDE DEF n
    <3>1. i \in 0 .. n /\ i - 1 \in 0 .. n
      BY <1>0
    <3> QED BY <3>1, Zenon
  <2>3. ids[i] = i
    BY <1>0, Zenon
  <2> HIDE DEF Next1, ids, n, h
  <2>4. iter[1 .. i] = Next1(iter[(1 .. i) \ {Max(1 .. i)}], ids[Max(1 .. i)])
    BY <1>3, <2>1, Zenon
  <2>5. iter[1 .. i] = Next1(iter[1 .. i - 1], i)
    BY <2>1, <2>3, <2>4, Zenon
  <2> QED BY <2>2, <2>5, Zenon
<1>6. h \in [0 .. n -> A]
  <2> DEFINE S == {i \in 0 .. n : h[i] \in A}
  <2>1. 0 \in S
    <3>1. 0 \in 0 .. n
      BY <1>0
    <3> HIDE DEF A, h
    <3> QED BY <1>4, <1>c, <3>1, Zenon
  <2>2. \A i \in 1 .. n : i - 1 \in S => i \in S
    <3> HIDE DEF h, A, Next1
    <3>1. \A i \in 1 .. n : i \in 0 .. n
      BY <1>0
    <3> QED BY <1>5, <1>a, <3>1, Zenon
  <2>3. 0 .. n \subseteq S
    <3> HIDE DEF S, n
    <3> QED BY <1>0, <2>1, <2>2, UpTo, Zenon
  <2> HIDE DEF A
  <2>4. \A i \in 0 .. n : h[i] \in A
    <3> HIDE DEF h
    <3> QED BY <2>3, Zenon
  <2> QED BY <2>4, Zenon
<1>7. Squeezes(h, groups)
  <2> HIDE DEF h
  <2> QED BY <1>4, <1>5, <1>6, Zenon DEF Squeezes
<1> HIDE DEF h
<1> QED BY <1>4, <1>7, Zenon

\* Where the i-th group has gone: c[i] of the first i are kept.
Counts(c, groups, kept) ==
    /\ c \in [0 .. Len(groups) -> Nat] /\ c[0] = 0 /\ c[Len(groups)] = Len(kept)
    /\ \A i \in 1 .. Len(groups) :
           /\ c[i] = IF KeptOf(groups, i) THEN c[i - 1] + 1 ELSE c[i - 1]
           /\ 1 <= c[i] /\ c[i] <= Len(kept) /\ kept[c[i]] = groups[i]

\* The same, of what is kept after i groups.
CountsTo(h, groups, i) ==
    \A j \in 1 .. i : 1 <= Len(h[j]) /\ Len(h[j]) <= Len(h[i]) /\ h[i][Len(h[j])] = groups[j]
LEMMA CountsStep ==
    ASSUME NEW groups \in Seq(Seq(0 .. Blank)), NEW h, Squeezes(h, groups),
           NEW i \in 1 .. Len(groups), CountsTo(h, groups, i - 1)
    PROVE  /\ CountsTo(h, groups, i)
           /\ Len(h[i]) = IF KeptOf(groups, i) THEN Len(h[i - 1]) + 1 ELSE Len(h[i - 1])
<1>1. /\ h[i - 1] \in Seq(Seq(0 .. Blank)) /\ groups[i] \in Seq(0 .. Blank)
      /\ h[i] = IF KeptOf(groups, i) THEN Append(h[i - 1], groups[i]) ELSE h[i - 1]
  <2>1. i - 1 \in 0 .. Len(groups)
    BY LenProperties
  <2> QED BY <2>1, ElementOfSeq, Zenon DEF Squeezes
<1>2. PICK x : x = h[i - 1]
  OBVIOUS
<1>3. PICK m \in Nat : m = Len(x)
  BY <1>1, <1>2, LenProperties
<1>4. \A j \in 1 .. i - 1 : 1 <= Len(h[j]) /\ Len(h[j]) <= m /\ x[Len(h[j])] = groups[j]
  BY <1>2, <1>3, Zenon DEF CountsTo
<1>5. i \in Nat /\ i >= 1
  BY LenProperties
<1>d. \A j \in 1 .. i - 1 : Len(h[j]) \in Nat
  <2> TAKE j \in 1 .. i - 1
  <2>1. j \in 0 .. Len(groups)
    BY LenProperties
  <2>2. h[j] \in Seq(Seq(0 .. Blank))
    BY <2>1, Zenon DEF Squeezes
  <2> QED BY <2>2, LenProperties, Zenon
<1>6. CASE KeptOf(groups, i)
  <2>1. PICK y : y = h[i] /\ y = Append(x, groups[i])
    BY <1>1, <1>2, <1>6, Zenon
  <2>2. Len(y) = m + 1 /\ (\A j \in 1 .. m : y[j] = x[j]) /\ y[m + 1] = groups[i]
    BY <1>1, <1>2, <1>3, <2>1, AppendProperties
  <2>3. \A j \in 1 .. i - 1 : 1 <= Len(h[j]) /\ Len(h[j]) <= m + 1 /\ y[Len(h[j])] = groups[j]
    <3> TAKE j \in 1 .. i - 1
    <3>1. PICK k \in Nat : k = Len(h[j])
      BY <1>d
    <3>2. k \in 1 .. m /\ 1 <= k /\ k <= m + 1
      BY <1>4, <3>1
    <3>3. y[k] = x[k] /\ x[k] = groups[j]
      BY <1>4, <2>2, <3>1, <3>2, Zenon
    <3> QED BY <3>1, <3>2, <3>3, Zenon
  <2>4. \A j \in 1 .. i : j \in 1 .. i - 1 \/ j = i
    BY <1>5
  <2>5. 1 <= m + 1 /\ m + 1 <= m + 1
    OBVIOUS
  <2>6. \A j \in 1 .. i : 1 <= Len(h[j]) /\ Len(h[j]) <= m + 1 /\ y[Len(h[j])] = groups[j]
    BY <2>1, <2>2, <2>3, <2>4, <2>5, Zenon
  <2>7. CountsTo(h, groups, i)
    BY <2>1, <2>2, <2>6, Zenon DEF CountsTo
  <2> QED BY <1>2, <1>3, <1>6, <2>1, <2>2, <2>7, Zenon
<1>7. CASE ~KeptOf(groups, i)
  <2>1. h[i] = x /\ i > 2 /\ groups[i] = <<>> /\ groups[i - 1] = <<>>
    BY <1>1, <1>2, <1>7, Zenon DEF KeptOf
  <2>2. i - 1 \in 1 .. i - 1 /\ \A j \in 1 .. i : j \in 1 .. i - 1 \/ j = i
    BY <1>5, <2>1
  <2>3. 1 <= m /\ x[m] = groups[i]
    BY <1>2, <1>3, <1>4, <2>1, <2>2, Zenon
  <2>4. m <= m
    OBVIOUS
  <2>5. \A j \in 1 .. i : 1 <= Len(h[j]) /\ Len(h[j]) <= m /\ x[Len(h[j])] = groups[j]
    BY <1>3, <1>4, <2>1, <2>2, <2>3, <2>4, Zenon
  <2>6. CountsTo(h, groups, i)
    BY <1>3, <2>1, <2>5, Zenon DEF CountsTo
  <2> QED BY <1>2, <1>7, <2>1, <2>6, Zenon
<1> QED BY <1>6, <1>7, Zenon

LEMMA SqueezedCounts ==
    ASSUME NEW groups \in Seq(Seq(0 .. Blank))
    PROVE  /\ Squeezed(groups) \in Seq(Seq(0 .. Blank))
           /\ \E c : Counts(c, groups, Squeezed(groups))
<1>1. PICK h : Squeezes(h, groups) /\ Squeezed(groups) = h[Len(groups)]
  BY SqueezeSteps, Zenon
<1>2. PICK n \in Nat : n = Len(groups)
  BY LenProperties
<1>3. \A i \in 0 .. n : h[i] \in Seq(Seq(0 .. Blank)) /\ Len(h[i]) \in Nat
  <2> TAKE i \in 0 .. n
  <2>1. h[i] \in Seq(Seq(0 .. Blank))
    BY <1>1, <1>2, Zenon DEF Squeezes
  <2> QED BY <2>1, LenProperties, Zenon
<1>4. \A i \in 0 .. n : CountsTo(h, groups, i)
  <2> DEFINE S == {i \in 0 .. n : CountsTo(h, groups, i)}
  <2>1. 0 \in S
    <3>1. 1 .. 0 = {} /\ 0 \in 0 .. n
      OBVIOUS
    <3> QED BY <3>1, Zenon DEF CountsTo
  <2>2. \A i \in 1 .. n : i - 1 \in S => i \in S
    <3>1. \A i \in 1 .. n : i \in 0 .. n
      OBVIOUS
    <3> QED BY <1>1, <1>2, <3>1, CountsStep, Zenon
  <2>3. 0 .. n \subseteq S
    <3> HIDE DEF S
    <3> QED BY <2>1, <2>2, UpTo, Zenon
  <2> QED BY <2>3, Zenon
<1> DEFINE c == [i \in 0 .. n |-> Len(h[i])]
<1>5. c \in [0 .. n -> Nat]
  BY <1>3, Zenon
<1>6. c[0] = 0 /\ c[n] = Len(h[n])
  <2>1. 0 \in 0 .. n /\ n \in 0 .. n /\ Len(<<>>) = 0
    OBVIOUS
  <2> QED BY <1>1, <2>1, Zenon DEF Squeezes
<1>7. \A i \in 1 .. n :
          /\ c[i] = IF KeptOf(groups, i) THEN c[i - 1] + 1 ELSE c[i - 1]
          /\ 1 <= c[i] /\ c[i] <= Len(h[n]) /\ h[n][c[i]] = groups[i]
  <2> TAKE i \in 1 .. n
  <2>1. i \in 0 .. n /\ i - 1 \in 0 .. n /\ n \in 0 .. n
    OBVIOUS
  <2>2. c[i] = Len(h[i]) /\ c[i - 1] = Len(h[i - 1])
    BY <2>1, Zenon
  <2>3. Len(h[i]) = IF KeptOf(groups, i) THEN Len(h[i - 1]) + 1 ELSE Len(h[i - 1])
    BY <1>1, <1>2, <1>4, <2>1, CountsStep, Zenon
  <2>4. 1 <= Len(h[i]) /\ Len(h[i]) <= Len(h[n]) /\ h[n][Len(h[i])] = groups[i]
    BY <1>4, <2>1, Zenon DEF CountsTo
  <2> HIDE DEF c
  <2> QED BY <2>2, <2>3, <2>4, Zenon
<1> HIDE DEF c
<1>8. Counts(c, groups, h[n])
  BY <1>2, <1>5, <1>6, <1>7, Zenon DEF Counts
<1>9. n \in 0 .. n
  OBVIOUS
<1> QED BY <1>1, <1>2, <1>3, <1>8, <1>9, Zenon

\* Only the groups from a to b are empty.
Empties(kept, m, a, b) ==
    /\ m \in Nat /\ a \in Nat /\ b \in Nat /\ 1 <= a /\ a <= b + 1 /\ b <= m
    /\ a > b => a = m + 1
    /\ \A k \in 1 .. m : kept[k] = <<>> <=> a <= k /\ k <= b
\* The p groups in front and the r groups at the end are the same, and none in between.
Aligned(groups, kept, n, m, p, r) ==
    /\ n \in Nat /\ p \in Nat /\ r \in Nat /\ p + r <= n
    /\ \A k \in 1 .. p : kept[k] = groups[k] /\ groups[k] # <<>>
    /\ \A k \in 0 .. r - 1 : kept[m - k] = groups[n - k] /\ groups[n - k] # <<>>
    /\ \A i \in p + 1 .. n - r : groups[i] = <<>>
Walks(c, groups, kept, n, m) ==
    /\ c \in [0 .. n -> Nat] /\ c[0] = 0 /\ c[n] = m
    /\ \A i \in 1 .. n : /\ c[i] = c[i - 1] + 1 \/ (c[i] = c[i - 1] /\ groups[i] = <<>>)
                         /\ 1 <= c[i] /\ c[i] <= m /\ kept[c[i]] = groups[i]

LEMMA CountsWalk ==
    ASSUME NEW groups, NEW kept, NEW c, Counts(c, groups, kept)
    PROVE  Walks(c, groups, kept, Len(groups), Len(kept))
BY Zenon DEF Counts, Walks, KeptOf

LEMMA WalkGrows ==
    ASSUME NEW c, NEW groups, NEW kept, NEW n \in Nat, NEW m, Walks(c, groups, kept, n, m),
           NEW i \in 0 .. n, NEW j \in 0 .. n, i <= j
    PROVE  c[i] <= c[j]
<1> DEFINE S == {k \in 0 .. n : i <= k => c[i] <= c[k]}
<1>0. \A k \in 0 .. n : c[k] \in Nat
  BY DEF Walks
<1>1. 0 \in S
  <2>1. i <= 0 => i = 0
    OBVIOUS
  <2>2. c[0] <= c[0]
    BY <1>0
  <2> QED BY <2>1, <2>2
<1>2. \A k \in 1 .. n : k - 1 \in S => k \in S
  <2> TAKE k \in 1 .. n
  <2> HAVE k - 1 \in S
  <2>1. PICK x \in Nat, y \in Nat, z \in Nat : x = c[i] /\ y = c[k - 1] /\ z = c[k]
    BY <1>0
  <2>2. z = y + 1 \/ z = y
    BY <2>1, Zenon DEF Walks
  <2>3. i <= k - 1 => x <= y
    BY <2>1, Zenon
  <2>4. i = k => x = z
    BY <2>1, Zenon
  <2>5. i <= k => x <= z
    BY <2>2, <2>3, <2>4
  <2>6. k \in 0 .. n
    OBVIOUS
  <2> QED BY <2>1, <2>5, <2>6, Zenon
<1>3. 0 .. n \subseteq S
  <2> HIDE DEF S
  <2> QED BY <1>1, <1>2, UpTo, Zenon
<1> QED BY <1>3, Zenon

LEMMA WalkAligns ==
    ASSUME NEW c, NEW groups, NEW kept, NEW n \in Nat, NEW m, NEW a, NEW b,
           Walks(c, groups, kept, n, m), Empties(kept, m, a, b)
    PROVE  Aligned(groups, kept, n, m, a - 1, m - b) /\ (a > b => n = m)
<1>0. m \in Nat /\ a \in Nat /\ b \in Nat /\ 1 <= a /\ a <= b + 1 /\ b <= m /\ (a > b => a = m + 1)
  BY Zenon DEF Empties
<1>c. \A k \in 0 .. n : c[k] \in Nat
  BY DEF Walks
<1>s. \A i \in 1 .. n : c[i] # c[i - 1] + 1 => c[i] = c[i - 1] /\ a <= c[i] /\ c[i] <= b
  <2> TAKE i \in 1 .. n
  <2> HAVE c[i] # c[i - 1] + 1
  <2>1. c[i] = c[i - 1] /\ 1 <= c[i] /\ c[i] <= m /\ kept[c[i]] = <<>>
    BY Zenon DEF Walks
  <2>2. c[i] \in 1 .. m
    <3>1. i \in 0 .. n
      OBVIOUS
    <3> QED BY <1>0, <1>c, <2>1, <3>1
  <2> QED BY <2>1, <2>2, Zenon DEF Empties
<1>1. \A k \in 0 .. a - 1 : k <= n /\ c[k] = k
  <2> DEFINE S == {k \in 0 .. a - 1 : k <= n /\ c[k] = k}
  <2>1. 0 \in S
    <3>1. 0 \in 0 .. a - 1 /\ 0 <= n
      BY <1>0
    <3>2. c[0] = 0
      BY Zenon DEF Walks
    <3> QED BY <3>1, <3>2, Zenon
  <2>2. \A k \in 1 .. a - 1 : k - 1 \in S => k \in S
    <3> TAKE k \in 1 .. a - 1
    <3> HAVE k - 1 \in S
    <3>1. k - 1 <= n /\ c[k - 1] = k - 1
      BY Zenon
    <3>2. k \in Nat /\ 1 <= k /\ k < a /\ k <= m /\ k \in 0 .. a - 1
      BY <1>0
    <3>3. k - 1 # n
      <4>1. c[n] = m
        BY Zenon DEF Walks
      <4>2. k - 1 # m
        BY <1>0, <3>2
      <4> QED BY <3>1, <4>1, <4>2, Zenon
    <3>4. k \in 1 .. n /\ k <= n
      BY <3>1, <3>2, <3>3
    <3>5. c[k] = c[k - 1] + 1
      <4>1. ~(a <= k - 1)
        BY <1>0, <3>2
      <4> QED BY <1>s, <3>1, <3>4, <4>1, Zenon
    <3>6. (k - 1) + 1 = k
      BY <3>2
    <3> QED BY <3>1, <3>2, <3>4, <3>5, <3>6, Zenon
  <2>3. 0 .. a - 1 \subseteq S
    <3>1. a - 1 \in Nat
      BY <1>0
    <3> HIDE DEF S
    <3> QED BY <2>1, <2>2, <3>1, UpTo, Zenon
  <2> QED BY <2>3, Zenon
<1>2. \A k \in 0 .. m - b : k <= n /\ c[n - k] = m - k
  <2> DEFINE S == {k \in 0 .. m - b : k <= n /\ c[n - k] = m - k}
  <2>1. 0 \in S
    <3>1. 0 \in 0 .. m - b /\ 0 <= n /\ n - 0 = n /\ m - 0 = m
      BY <1>0
    <3>2. c[n] = m
      BY Zenon DEF Walks
    <3> QED BY <3>1, <3>2, Zenon
  <2>2. \A k \in 1 .. m - b : k - 1 \in S => k \in S
    <3> TAKE k \in 1 .. m - b
    <3> HAVE k - 1 \in S
    <3>1. k - 1 <= n /\ c[n - (k - 1)] = m - (k - 1)
      BY Zenon
    <3>2. k \in Nat /\ 1 <= k /\ b < m - (k - 1) /\ k \in 0 .. m - b /\ 0 < m - (k - 1)
      BY <1>0
    <3>3. k - 1 # n
      <4>1. c[0] = 0
        BY Zenon DEF Walks
      <4>2. k - 1 = n => n - (k - 1) = 0
        BY <3>2
      <4>3. m - (k - 1) # 0
        BY <1>0, <3>2
      <4> QED BY <3>1, <4>1, <4>2, <4>3, Zenon
    <3>4. n - (k - 1) \in 1 .. n /\ (n - (k - 1)) - 1 = n - k /\ k <= n /\ n - k \in 0 .. n
      BY <3>1, <3>2, <3>3
    <3>5. c[n - (k - 1)] = c[n - k] + 1
      <4>1. ~(m - (k - 1) <= b)
        BY <1>0, <3>2
      <4> QED BY <1>s, <3>1, <3>4, <4>1, Zenon
    <3>6. PICK x \in Nat : x = c[n - k]
      BY <1>c, <3>4
    <3>7. x = m - k
      BY <1>0, <3>1, <3>2, <3>5, <3>6
    <3> QED BY <3>2, <3>4, <3>6, <3>7, Zenon
  <2>3. 0 .. m - b \subseteq S
    <3>1. m - b \in Nat
      BY <1>0
    <3> HIDE DEF S
    <3> QED BY <2>1, <2>2, <3>1, UpTo, Zenon
  <2> QED BY <2>3, Zenon
<1>3. a <= n => c[a] = a
  <2> SUFFICES ASSUME a <= n PROVE c[a] = a
      OBVIOUS
  <2>1. a \in 1 .. n /\ a - 1 \in 0 .. a - 1 /\ ~(a <= a - 1) /\ (a - 1) + 1 = a
    BY <1>0
  <2>2. c[a - 1] = a - 1
    BY <1>1, <2>1, Zenon
  <2> QED BY <1>s, <2>1, <2>2, Zenon
<1>4. a > b => n = m
  <2> SUFFICES ASSUME a > b PROVE n = m
      OBVIOUS
  <2>1. m <= n /\ a = m + 1 /\ m \in 0 .. a - 1
    <3>1. a = m + 1 /\ m \in 0 .. a - 1
      BY <1>0
    <3> QED BY <1>1, <3>1, Zenon
  <2>2. ~(a <= n)
    <3> SUFFICES ASSUME a <= n PROVE FALSE
        OBVIOUS
    <3>1. c[a] = m + 1 /\ a \in 1 .. n
      BY <1>0, <1>3, <2>1
    <3>2. c[a] <= m
      BY <3>1, Zenon DEF Walks
    <3> QED BY <1>0, <3>1, <3>2
  <2> QED BY <1>0, <2>1, <2>2
<1>5. (a - 1) + (m - b) <= n
  <2>1. CASE a > b
    BY <1>0, <1>4, <2>1
  <2>2. CASE a <= b
    <3>1. a - 1 \in 0 .. a - 1 /\ m - b \in 0 .. m - b /\ m - (m - b) = b
      BY <1>0
    <3>2. a - 1 <= n /\ c[a - 1] = a - 1 /\ m - b <= n /\ c[n - (m - b)] = b
      BY <1>1, <1>2, <3>1, Zenon
    <3>3. a - 1 \in 0 .. n /\ n - (m - b) \in 0 .. n
      BY <1>0, <3>2
    <3>4. ~(n - (m - b) <= a - 1)
      <4> SUFFICES ASSUME n - (m - b) <= a - 1 PROVE FALSE
          OBVIOUS
      <4>1. c[n - (m - b)] <= c[a - 1]
        BY <3>3, WalkGrows, Zenon
      <4> QED BY <1>0, <2>2, <3>2, <4>1
    <3> QED BY <1>0, <3>3, <3>4
  <2> QED BY <1>0, <2>1, <2>2
<1>6. \A k \in 1 .. a - 1 : kept[k] = groups[k] /\ groups[k] # <<>>
  <2> TAKE k \in 1 .. a - 1
  <2>1. k \in 0 .. a - 1 /\ k \in 1 .. m /\ ~(a <= k)
    BY <1>0
  <2>2. c[k] = k /\ k <= n
    BY <1>1, <2>1, Zenon
  <2>3. k \in 1 .. n
    BY <2>1, <2>2
  <2>4. kept[k] = groups[k]
    BY <2>2, <2>3, Zenon DEF Walks
  <2> QED BY <2>1, <2>4, Zenon DEF Empties
<1>7. \A k \in 0 .. (m - b) - 1 : kept[m - k] = groups[n - k] /\ groups[n - k] # <<>>
  <2> TAKE k \in 0 .. (m - b) - 1
  <2>1. k \in 0 .. m - b /\ k + 1 \in 0 .. m - b /\ m - k \in 1 .. m /\ ~(m - k <= b)
    BY <1>0
  <2>2. c[n - k] = m - k /\ k + 1 <= n
    BY <1>2, <2>1, Zenon
  <2>3. n - k \in 1 .. n
    BY <2>1, <2>2
  <2>4. kept[m - k] = groups[n - k]
    BY <2>2, <2>3, Zenon DEF Walks
  <2> QED BY <2>1, <2>4, Zenon DEF Empties
<1>8. \A i \in (a - 1) + 1 .. n - (m - b) : groups[i] = <<>>
  <2> TAKE i \in (a - 1) + 1 .. n - (m - b)
  <2>1. m - b \in 0 .. m - b /\ m - (m - b) = b
    BY <1>0
  <2>2. c[n - (m - b)] = b /\ m - b <= n
    BY <1>2, <2>1, Zenon
  <2>3. i \in 0 .. n /\ i \in 1 .. n /\ n - (m - b) \in 0 .. n /\ a \in 0 .. n /\ a <= n /\ a <= i /\ i <= n - (m - b)
    BY <1>0, <2>2
  <2>4. c[a] <= c[i] /\ c[i] <= c[n - (m - b)]
    BY <2>3, WalkGrows, Zenon
  <2>5. a <= c[i] /\ c[i] <= b
    BY <1>3, <2>2, <2>3, <2>4, Zenon
  <2>6. c[i] \in 1 .. m
    BY <1>0, <1>c, <2>3, <2>5
  <2>7. kept[c[i]] = <<>>
    BY <2>5, <2>6, Zenon DEF Empties
  <2> QED BY <2>3, <2>7, Zenon DEF Walks
<1>9. a - 1 \in Nat /\ m - b \in Nat /\ n \in Nat
  BY <1>0
<1> QED BY <1>4, <1>5, <1>6, <1>7, <1>8, <1>9, Zenon DEF Aligned

\* Each group with its zeros taken off is empty where it stood for none but zero.
SameText(groups, stripped) ==
    /\ Len(stripped) = Len(groups)
    /\ \A i \in 1 .. Len(groups) : /\ Number(stripped[i]) = Number(groups[i])
                                   /\ stripped[i] = <<>> <=> Number(groups[i]) = 0
                                   /\ groups[i] = <<>> => Number(groups[i]) = 0

LEMMA EmptiesOfShape ==
    ASSUME NEW groups, NEW wanted, NEW a, NEW b, Shape(groups, wanted, a, b)
    PROVE  Empties(groups, Len(groups), a, b)
<1>1. /\ Len(groups) \in Nat /\ a \in Nat /\ b \in Nat /\ 1 <= a /\ a - 1 <= b /\ b <= Len(groups)
      /\ Gap(groups) = a .. b /\ (a > b => a = Len(groups) + 1)
  BY DEF Shape
<1>2. a <= b + 1
  BY <1>1
<1>3. \A k \in 1 .. Len(groups) : groups[k] = <<>> <=> a <= k /\ k <= b
  <2> TAKE k \in 1 .. Len(groups)
  <2>1. groups[k] = <<>> <=> k \in a .. b
    BY <1>1, Zenon DEF Gap
  <2>2. k \in a .. b <=> a <= k /\ k <= b
    BY <1>1
  <2> QED BY <2>1, <2>2, Zenon
<1> QED BY <1>1, <1>2, <1>3, Zenon DEF Empties

LEMMA SameValues ==
    ASSUME NEW groups, NEW stripped, NEW kept, NEW a, NEW b, NEW c, NEW d, NEW v, NEW w,
           SameText(groups, stripped),
           Shape(groups, 8, a, b), Says(groups, 8, a, b, v),
           Shape(kept, 8, c, d), Says(kept, 8, c, d, w),
           Aligned(stripped, kept, Len(groups), Len(kept), c - 1, Len(kept) - d),
           c > d => Len(groups) = Len(kept)
    PROVE  w = v
<1>1. PICK n \in Nat, m \in Nat, p \in Nat, r \in Nat :
          n = Len(groups) /\ m = Len(kept) /\ p = c - 1 /\ r = m - d /\ p + r <= n
          /\ c \in Nat /\ d \in Nat /\ c = p + 1
  <2>1. Len(groups) \in Nat /\ Len(kept) \in Nat /\ c - 1 \in Nat /\ Len(kept) - d \in Nat
        /\ (c - 1) + (Len(kept) - d) <= Len(groups)
    BY Zenon DEF Aligned, Shape
  <2>2. c \in Nat /\ d \in Nat /\ c = (c - 1) + 1
    BY DEF Shape
  <2> QED BY <2>1, <2>2, Zenon
<1>2. /\ a \in Nat /\ b \in Nat /\ 1 <= a /\ a <= b + 1 /\ b <= n
      /\ (a > b => a = n + 1 /\ b = n /\ n = 8)
  <2>1. a \in Nat /\ b \in Nat /\ 1 <= a /\ a - 1 <= b /\ b <= Len(groups)
        /\ IF a > b THEN a = Len(groups) + 1 /\ Len(groups) = 8 ELSE Len(groups) - (b - a + 1) <= 8
    BY DEF Shape
  <2>2. a \in Nat /\ b \in Nat /\ 1 <= a /\ a - 1 <= b /\ b <= n
    BY <1>1, <2>1, Zenon
  <2>3. a > b => a = n + 1 /\ n = 8
    BY <1>1, <2>1, Zenon
  <2>4. a <= b + 1 /\ (a = n + 1 => b = n)
    BY <2>2
  <2> QED BY <2>2, <2>3, <2>4, Zenon
<1>3. p + r <= 8 /\ (c > d => p = 8 /\ r = 0 /\ n = 8)
  <2>1. c \in Nat /\ d \in Nat /\ 1 <= c /\ c - 1 <= d /\ d <= Len(kept)
        /\ IF c > d THEN c = Len(kept) + 1 /\ Len(kept) = 8 ELSE Len(kept) - (d - c + 1) <= 8
    BY DEF Shape
  <2>2. c - 1 <= d /\ d <= m
    BY <1>1, <2>1, Zenon
  <2>3. c > d => c = m + 1 /\ m = 8
    BY <1>1, <2>1, Zenon
  <2>4. c <= d => m - (d - c + 1) <= 8
    <3> SUFFICES ASSUME c <= d PROVE m - (d - c + 1) <= 8
        OBVIOUS
    <3>1. ~(c > d)
      BY <1>1
    <3> QED BY <1>1, <2>1, <3>1, Zenon
  <2>5. CASE c > d
    <3>1. c = 9 /\ m = 8
      BY <2>3, <2>5
    <3>2. p = 8 /\ r = 0
      BY <1>1, <2>2, <3>1
    <3>3. n = m
      BY <1>1, <2>5, Zenon
    <3> QED BY <3>1, <3>2, <3>3
  <2>6. CASE c <= d
    <3>1. p + r = m - (d - c + 1) /\ ~(c > d)
      BY <1>1, <2>6
    <3> QED BY <2>4, <2>6, <3>1, Zenon
  <2>7. c > d \/ c <= d
    BY <1>1
  <2> QED BY <2>5, <2>6, <2>7, Zenon
<1>4. \A k \in 1 .. p : kept[k] = stripped[k] /\ stripped[k] # <<>>
  BY <1>1, Zenon DEF Aligned
<1>5. \A k \in 0 .. r - 1 : kept[m - k] = stripped[n - k] /\ stripped[n - k] # <<>>
  BY <1>1, Zenon DEF Aligned
<1>6. \A i \in p + 1 .. n - r : stripped[i] = <<>>
  BY <1>1, Zenon DEF Aligned
<1>7. \A i \in 1 .. n : /\ Number(stripped[i]) = Number(groups[i])
                        /\ stripped[i] = <<>> <=> Number(groups[i]) = 0
                        /\ groups[i] = <<>> => Number(groups[i]) = 0
  BY <1>1, Zenon DEF SameText
<1>8. \A i \in 1 .. n : a <= i /\ i <= b => stripped[i] = <<>>
  <2>1. \A k \in 1 .. Len(groups) : groups[k] = <<>> <=> a <= k /\ k <= b
    BY EmptiesOfShape, Zenon DEF Empties
  <2> QED BY <1>1, <1>7, <2>1, Zenon
<1>9. p < a
  <2>1. CASE a > b
    BY <1>1, <1>2, <2>1
  <2>2. CASE a <= b
    <3> SUFFICES ASSUME a <= p PROVE FALSE
        BY <1>1, <1>2
    <3>1. a \in 1 .. p /\ a \in 1 .. n /\ a <= a
      BY <1>1, <1>2, <2>2
    <3> QED BY <1>4, <1>8, <2>2, <3>1, Zenon
  <2> QED BY <1>2, <2>1, <2>2
<1>10. a <= b => b <= n - r
  <2> SUFFICES ASSUME a <= b, ~(b <= n - r) PROVE FALSE
      OBVIOUS
  <2>1. n - b \in 0 .. r - 1 /\ n - (n - b) = b /\ b \in 1 .. n /\ b <= b
    BY <1>1, <1>2
  <2> QED BY <1>5, <1>8, <2>1, Zenon
<1>11. /\ \A j \in 1 .. a - 1 : v[j] = Number(groups[j])
       /\ \A j \in a .. 8 - (n - b) : v[j] = 0
       /\ \A i \in b + 1 .. n : v[8 - (n - i)] = Number(groups[i])
       /\ v \in Seq(Nat) /\ Len(v) = 8
  BY <1>1, Zenon DEF Says
<1>12. /\ \A j \in 1 .. p : w[j] = Number(kept[j])
       /\ \A j \in p + 1 .. 8 - r : w[j] = 0
       /\ \A i \in d + 1 .. m : w[8 - (m - i)] = Number(kept[i])
       /\ w \in Seq(Nat) /\ Len(w) = 8
  BY <1>1, Zenon DEF Says
<1>13. \A j \in 1 .. p : w[j] = v[j]
  <2> TAKE j \in 1 .. p
  <2>1. j \in 1 .. a - 1 /\ j \in 1 .. n
    BY <1>1, <1>2, <1>9
  <2> QED BY <1>4, <1>7, <1>11, <1>12, <2>1, Zenon
<1>14. \A k \in 0 .. r - 1 : w[8 - k] = v[8 - k]
  <2> TAKE k \in 0 .. r - 1
  <2>1. m - k \in d + 1 .. m /\ m - (m - k) = k /\ n - k \in 1 .. n
    BY <1>1
  <2>2. w[8 - k] = Number(groups[n - k])
    BY <1>5, <1>7, <1>12, <2>1, Zenon
  <2>3. CASE a > b
    <3>1. 8 - k \in 1 .. a - 1 /\ n - k = 8 - k
      <4>1. a = n + 1 /\ n = 8
        BY <1>2, <2>3, Zenon
      <4> QED BY <1>1, <2>1, <4>1
    <3> QED BY <1>11, <2>2, <3>1, Zenon
  <2>4. CASE a <= b
    <3>1. n - k \in b + 1 .. n /\ n - (n - k) = k
      BY <1>1, <1>2, <1>10, <2>1, <2>4
    <3> QED BY <1>11, <2>2, <3>1, Zenon
  <2> QED BY <1>2, <2>3, <2>4
<1>15. \A j \in p + 1 .. 8 - r : v[j] = 0
  <2> TAKE j \in p + 1 .. 8 - r
  <2>1. CASE j < a
    <3>1. j \in 1 .. a - 1 /\ j \in p + 1 .. n - r /\ j \in 1 .. n
      <4>1. j \in 1 .. a - 1 /\ j \in 1 .. n
        BY <1>1, <1>2, <2>1
      <4>2. CASE a > b
        <5>1. n = 8
          BY <1>2, <4>2, Zenon
        <5>2. j \in p + 1 .. n - r
          BY <5>1, Zenon
        <5> QED BY <4>1, <5>2, Zenon
      <4>3. CASE a <= b
        <5>1. b <= n - r
          BY <1>10, <4>3, Zenon
        <5>2. j \in p + 1 .. n - r
          BY <1>1, <1>2, <2>1, <4>3, <5>1
        <5> QED BY <4>1, <5>2, Zenon
      <4>4. a > b \/ a <= b
        BY <1>2
      <4> QED BY <4>2, <4>3, <4>4, Zenon
    <3> QED BY <1>6, <1>7, <1>11, <3>1, Zenon
  <2>2. CASE a <= j /\ j <= 8 - (n - b)
    <3>1. j \in a .. 8 - (n - b)
      BY <1>1, <1>2, <2>2
    <3> QED BY <1>11, <3>1, Zenon
  <2>3. CASE a <= j /\ ~(j <= 8 - (n - b))
    <3>1. PICK i \in Nat : i = j - 8 + n /\ i \in b + 1 .. n /\ 8 - (n - i) = j
      <4>1. j - 8 + n \in Nat /\ j - 8 + n \in b + 1 .. n /\ 8 - (n - (j - 8 + n)) = j
        BY <1>1, <1>2, <2>3
      <4> QED BY <4>1
    <3>2. i \in p + 1 .. n - r /\ i \in 1 .. n
      BY <1>1, <1>2, <1>9, <2>3, <3>1
    <3> QED BY <1>6, <1>7, <1>11, <3>1, <3>2, Zenon
  <2> QED BY <1>1, <1>2, <2>1, <2>2, <2>3
<1>16. \A j \in 1 .. 8 : w[j] = v[j]
  <2> TAKE j \in 1 .. 8
  <2>1. CASE j \in 1 .. p
    BY <1>13, <2>1, Zenon
  <2>2. CASE j \in p + 1 .. 8 - r
    BY <1>12, <1>15, <2>2, Zenon
  <2>3. CASE j > 8 - r
    <3>1. 8 - j \in 0 .. r - 1 /\ 8 - (8 - j) = j
      BY <1>1, <2>3
    <3> QED BY <1>14, <3>1, Zenon
  <2> QED BY <1>1, <2>1, <2>2, <2>3
<1> QED BY <1>11, <1>12, <1>16, SeqEqual

\* What getaddrinfo() takes as an address of IPv6, and how many numbers it told of.
IsSix(shown) ==
    shown.form = "colons" /\ IsText(shown) /\ InetPton6(shown) # <<>>

LEMMA ColonsIs ==
    ASSUME NEW groups, NEW tail
    PROVE  Colons(groups, tail).form = "colons" /\ Colons(groups, tail).groups = groups
           /\ Colons(groups, tail).tail = tail
BY DEF Colons

InetOf(groups, tail, wanted) ==
    IF GroupsReadable(groups)
    THEN Bytes(Numbered(groups, IF Gap(groups) = {} THEN Given(groups) ELSE Min(Gap(groups)) - 1,
                        Given(groups), wanted)) \o tail
    ELSE <<>>
LEMMA FormIsNoMatter ==
    ASSUME NEW shown, NEW other, shown.groups = other.groups, shown.tail = other.tail
    PROVE  InetPton6(shown) = InetPton6(other)
<1>1. OneGap(shown) <=> OneGap(other)
  BY Zenon DEF OneGap
<1>2. Wanted(shown) = Wanted(other)
  BY Zenon DEF Wanted
<1>3. FillsIt(shown) <=> FillsIt(other)
  BY <1>1, <1>2, Zenon DEF FillsIt
<1>4. \A t : InetPton6(t) = IF FillsIt(t) THEN InetOf(t.groups, t.tail, Wanted(t)) ELSE <<>>
  BY InetIs, Zenon DEF InetOf
<1>5. InetOf(shown.groups, shown.tail, Wanted(shown)) = InetOf(other.groups, other.tail, Wanted(other))
  BY <1>2
<1> QED BY <1>3, <1>4, <1>5, Zenon

LEMMA NoLeadingBlank ==
    ASSUME NEW g \in Seq(0 .. Blank), ~Contains(g, Blank)
    PROVE  WithoutLeading(Blank, g) = g
<1>1. PICK k \in 0 .. Len(g) :
          /\ \A i \in 1 .. k : g[i] = Blank
          /\ k < Len(g) => g[k + 1] # Blank
          /\ WithoutLeading(Blank, g) = SubSeq(g, k + 1, Len(g))
  BY LeadingZeros, Zenon
<1>2. k = 0
  <2> SUFFICES ASSUME k # 0 PROVE FALSE
      OBVIOUS
  <2>1. 1 \in 1 .. k /\ 1 \in 1 .. Len(g)
    BY LenProperties
  <2> QED BY <1>1, <2>1, Zenon DEF Contains
<1>3. WithoutLeading(Blank, g) = SubSeq(g, 1, Len(g))
  <2>1. 0 + 1 = 1
    OBVIOUS
  <2> QED BY <1>1, <1>2, <2>1, Zenon
<1>4. SubSeq(g, 1, Len(g)) = g
  BY LenProperties
<1> QED BY <1>3, <1>4

LEMMA NoZerosInNone ==
    ASSUME NEW g \in Seq(0 .. Blank)
    PROVE  Len(g) = 0 => WithoutLeadingZeros(g) = g
<1>1. PICK k \in 0 .. Len(g) :
          /\ \A i \in 1 .. k : g[i] = 0
          /\ k < Len(g) => g[k + 1] # 0
          /\ WithoutLeading(0, g) = SubSeq(g, k + 1, Len(g))
  BY LeadingZeros, Zenon
<1>2. Len(g) = 0 => k = 0 /\ g = <<>>
  BY EmptySeq
<1>3. Len(g) = 0 => SubSeq(g, k + 1, Len(g)) = g
  BY <1>2
<1> QED BY <1>1, <1>3, Zenon DEF WithoutLeadingZeros

LEMMA TrimmedIs ==
    ASSUME NEW shown, IsText(shown), GroupsReadable(shown.groups)
    PROVE  Trimmed(shown).groups = shown.groups
<1>1. PICK g : g = shown.groups /\ g \in Seq(Seq(0 .. Blank))
  BY Zenon DEF IsText
<1>2. [g EXCEPT ![1] = WithoutLeading(Blank, @)] = g
  <2>1. DOMAIN g = 1 .. Len(g) /\ Len(g) \in Nat /\ g = [i \in 1 .. Len(g) |-> g[i]]
    BY <1>1, LenProperties
  <2>2. 1 \in 1 .. Len(g) => WithoutLeading(Blank, g[1]) = g[1]
    <3> SUFFICES ASSUME 1 \in 1 .. Len(g) PROVE WithoutLeading(Blank, g[1]) = g[1]
        OBVIOUS
    <3>1. g[1] \in Seq(0 .. Blank)
      BY <1>1, ElementOfSeq, Zenon
    <3>2. ~Contains(g[1], Blank)
      BY <1>1, Zenon DEF GroupsReadable
    <3> QED BY <3>1, <3>2, NoLeadingBlank, Zenon
  <2> QED BY <2>1, <2>2
<1>3. Trimmed(shown).groups = [g EXCEPT ![1] = WithoutLeading(Blank, @)]
  BY <1>1, ColonsIs, Zenon DEF Trimmed
<1> QED BY <1>1, <1>2, <1>3

LEMMA StrippedSame ==
    ASSUME NEW groups \in Seq(Seq(0 .. Blank)), GroupsReadable(groups)
    PROVE  LET stripped == [i \in 1 .. Len(groups) |-> WithoutLeadingZeros(groups[i])]
           IN  stripped \in Seq(Seq(0 .. Blank)) /\ SameText(groups, stripped)
<1> DEFINE stripped == [i \in 1 .. Len(groups) |-> WithoutLeadingZeros(groups[i])]
<1>1. PICK n \in Nat : n = Len(groups)
  BY LenProperties
<1>2. \A i \in 1 .. n : /\ IsGroup(groups[i]) /\ IsGroup(WithoutLeadingZeros(groups[i]))
                        /\ Number(WithoutLeadingZeros(groups[i])) = Number(groups[i])
                        /\ WithoutLeadingZeros(groups[i]) = <<>> <=> Number(groups[i]) = 0
  BY <1>1, GroupsOfText, Stripped, Zenon
<1>3. \A i \in 1 .. n : groups[i] = <<>> => Number(groups[i]) = 0
  <2> TAKE i \in 1 .. n
  <2> HAVE groups[i] = <<>>
  <2>1. WithoutLeadingZeros(<<>>) = <<>>
    <3>1. <<>> \in Seq(0 .. Blank) /\ Len(<<>>) = 0
      OBVIOUS
    <3> QED BY <3>1, NoZerosInNone, Zenon
  <2> QED BY <1>2, <2>1, Zenon
<1>4. \A i \in 1 .. n : stripped[i] \in Seq(0 .. Blank) /\ stripped[i] = WithoutLeadingZeros(groups[i])
  BY <1>1, <1>2, Zenon DEF IsGroup
<1>5. stripped \in Seq(Seq(0 .. Blank)) /\ Len(stripped) = n
  <2>1. PICK S : S = Seq(0 .. Blank)
    OBVIOUS
  <2>2. stripped \in [1 .. n -> S]
    BY <1>1, <1>4, <2>1, Zenon
  <2> HIDE DEF stripped
  <2>3. stripped \in Seq(S) /\ Len(stripped) = n
    BY <2>2, LenProperties, SeqDef
  <2> QED BY <2>1, <2>3, Zenon
<1>6. SameText(groups, stripped)
  <2> HIDE DEF stripped
  <2> QED BY <1>1, <1>2, <1>3, <1>4, <1>5, Zenon DEF SameText
<1> QED BY <1>5, <1>6, Zenon

\* Squeezing a text of zeros and colons does not change what it stands for.
LEMMA TrimKeeps ==
    ASSUME NEW shown, IsSix(shown), shown.tail = <<>>,
           InetPton6(Colons(TrimV6(shown.groups), <<>>)) # <<>>
    PROVE  InetPton6(Colons(TrimV6(shown.groups), <<>>)) = InetPton6(shown)
<1>1. PICK groups : groups = shown.groups /\ groups \in Seq(Seq(0 .. Blank))
  BY Zenon DEF IsSix, IsText
<1>2. PICK stripped : stripped = [i \in 1 .. Len(groups) |-> WithoutLeadingZeros(groups[i])]
  OBVIOUS
<1>3. TrimV6(groups) \in {groups, Squeezed(stripped)}
  BY <1>2, Zenon DEF TrimV6
<1>4. CASE TrimV6(groups) = groups
  <2>1. InetPton6(Colons(groups, <<>>)) = InetPton6(shown)
    <3>1. PICK other : other = Colons(groups, <<>>)
      OBVIOUS
    <3>2. other.groups = shown.groups /\ other.tail = shown.tail
      BY <1>1, <3>1, ColonsIs
    <3> QED BY <3>1, <3>2, FormIsNoMatter, Zenon
  <2> QED BY <1>1, <1>4, <2>1, Zenon
<1>5. CASE TrimV6(groups) = Squeezed(stripped)
  <2>1. PICK kept, other : kept = Squeezed(stripped) /\ other = Colons(kept, <<>>)
    OBVIOUS
  <2>2. other.groups = kept /\ other.tail = <<>> /\ shown.tail = <<>>
    BY <2>1, ColonsIs, Zenon
  <2>3. IsText(shown) /\ InetPton6(shown) # <<>>
    BY Zenon DEF IsSix
  <2>4. GroupsReadable(groups) /\ FillsIt(shown) /\ \E a, b : Shape(groups, Wanted(shown), a, b)
    BY <1>1, <2>3, ShapeOfAccepted, Zenon
  <2>5. stripped \in Seq(Seq(0 .. Blank)) /\ SameText(groups, stripped)
    BY <1>1, <1>2, <2>4, StrippedSame, Zenon
  <2>6. kept \in Seq(Seq(0 .. Blank)) /\ \E c : Counts(c, stripped, kept)
    BY <2>1, <2>5, SqueezedCounts, Zenon
  <2>7. IsText(other) /\ InetPton6(other) # <<>>
    <3>1. <<>> \in {<<>>} \cup [1 .. 4 -> Byte]
      OBVIOUS
    <3>2. InetPton6(other) # <<>>
      BY <1>1, <1>5, <2>1, Zenon
    <3> QED BY <2>2, <2>6, <3>1, <3>2, Zenon DEF IsText
  <2>8. GroupsReadable(kept) /\ FillsIt(other) /\ \E a, b : Shape(kept, Wanted(other), a, b)
    BY <2>2, <2>7, ShapeOfAccepted, Zenon
  <2>9. Wanted(shown) = 8 /\ Wanted(other) = 8
    BY <2>2, Zenon DEF Wanted
  <2>10. PICK a, b : Shape(groups, 8, a, b)
    BY <2>4, <2>9, Zenon
  <2>11. PICK c, d : Shape(kept, 8, c, d)
    BY <2>8, <2>9, Zenon
  <2>12. PICK v : Says(groups, 8, a, b, v) /\ InetPton6(shown) = Bytes(v) \o <<>>
    BY <1>1, <2>2, <2>3, <2>4, <2>9, <2>10, InetSays, Zenon
  <2>13. PICK w : Says(kept, 8, c, d, w) /\ InetPton6(other) = Bytes(w) \o <<>>
    BY <2>2, <2>7, <2>8, <2>9, <2>11, InetSays, Zenon
  <2>14. PICK e : Walks(e, stripped, kept, Len(stripped), Len(kept))
    BY <2>6, CountsWalk, Zenon
  <2>15. Empties(kept, Len(kept), c, d)
    BY <2>11, EmptiesOfShape, Zenon
  <2>16. Len(stripped) \in Nat /\ Len(stripped) = Len(groups)
    BY <2>5, LenProperties, Zenon DEF SameText
  <2>17. /\ Aligned(stripped, kept, Len(groups), Len(kept), c - 1, Len(kept) - d)
         /\ c > d => Len(groups) = Len(kept)
    BY <2>14, <2>15, <2>16, WalkAligns, Zenon
  <2>18. w = v
    BY <2>5, <2>10, <2>11, <2>12, <2>13, <2>17, SameValues, Zenon
  <2> QED BY <1>1, <1>5, <2>1, <2>12, <2>13, <2>18, Zenon
<1> QED BY <1>3, <1>4, <1>5, Zenon

\* So a text of an address of IPv6 gives that address, by whichever way it is read.
LEMMA SocketOfSix ==
    ASSUME NEW shown, IsSix(shown)
    PROVE  Socket(shown) = Ip("V6", InetPton6(shown))
<1>1. PICK told : told = InetPton6(shown) /\ told # <<>>
  BY Zenon DEF IsSix
<1>2. shown.form = "colons" /\ IsText(shown)
  BY Zenon DEF IsSix
<1>3. TryParse(shown) \in {NoIp, Ip("V6", told)}
  <2>1. CASE shown.tail = <<>> /\ IsV6Format(shown)
    <3>1. Trimmed(shown).groups = shown.groups
      BY <1>1, <1>2, ShapeOfAccepted, TrimmedIs, Zenon
    <3>2. InetPton6(Colons(TrimV6(shown.groups), <<>>)) \in {<<>>, told}
      BY <1>1, <2>1, TrimKeeps, Zenon
    <3>3. TryParse(shown) = LET data == InetPton6(Colons(TrimV6(shown.groups), <<>>))
                           IN  IF data = <<>> THEN NoIp ELSE Ip("V6", data)
      BY <1>2, <2>1, <3>1 DEF TryParse
    <3> QED BY <3>2, <3>3, Zenon
  <2>2. CASE ~(shown.tail = <<>> /\ IsV6Format(shown))
    <3>1. TryParse(shown) = NoIp
      BY <1>2, <2>2 DEF TryParse
    <3> QED BY <3>1
  <2> QED BY <2>1, <2>2, Zenon
<1>4. Resolve(shown) = Ip("V6", told)
  <2>1. GetAddrInfo(shown) = <<Ip("V6", told)>>
    BY <1>1, <1>2 DEF GetAddrInfo
  <2>2. FromSockaddr(Ip("V6", told)) = Ip("V6", told) /\ Ip("V6", told).family = "V6"
    BY DEF FromSockaddr, Ip
  <2>3. PICK ips : ips = HostByName(shown)
    OBVIOUS
  <2>4. ips = <<Ip("V6", told)>>
    BY <2>1, <2>2, <2>3 DEF HostByName
  <2>5. ips # <<>> /\ ips[1] = Ip("V6", told) /\ {i \in 1 .. Len(ips) : ips[i].family = "V4"} = {}
    BY <2>2, <2>4
  <2> QED BY <2>3, <2>5, Zenon DEF Resolve
<1> QED BY <1>1, <1>3, <1>4, Zenon DEF Socket

-----------------------------------------------------------------------------
(* Printing an IPv6 address.                                               *)

\* Four hexadecimal digits of a number, and those that need them.
Hexes(a, b, c, d) == a \in 0 .. 15 /\ b \in 0 .. 15 /\ c \in 0 .. 15 /\ d \in 0 .. 15
SumOf(n, a, b, c, d) == n = 4096 * a + 256 * b + 16 * c + d
DigitsAre(n, a, b, c, d) ==
    /\ Hexes(a, b, c, d) /\ SumOf(n, a, b, c, d)
    /\ HexDigits(n) = WithoutLeadingZeros(<<a, b, c>>) \o <<d>>
Wide(n) == n >= 4096
LEMMA FourDigits ==
    ASSUME NEW n, Fits(n)
    PROVE  \E a, b, c, d : DigitsAre(n, a, b, c, d) /\ (Wide(n) <=> a # 0)
<1>0. n \in Nat /\ n <= 65535
  BY DEF Fits
<1>1. PICK q \in Nat, d \in 0 .. 15 : q = n \div 16 /\ d = n % 16 /\ n = 16 * q + d /\ q <= 4095
  BY <1>0
<1>2. PICK p \in Nat, c \in 0 .. 15 : p = q \div 16 /\ c = q % 16 /\ q = 16 * p + c /\ p <= 255
  BY <1>1
<1>3. PICK a \in Nat, b \in 0 .. 15 : a = p \div 16 /\ b = p % 16 /\ p = 16 * a + b /\ a <= 15
  BY <1>2
<1>4. n = 4096 * a + 256 * b + 16 * c + d
  BY <1>1, <1>2, <1>3
<1>5. n \div 256 = p
  <2>1. n = 256 * p + (16 * c + d) /\ 16 * c + d <= 255
    BY <1>1, <1>2
  <2> QED BY <2>1
<1>6. n \div 4096 = a
  <2>1. n = 4096 * a + (256 * b + 16 * c + d) /\ 256 * b + 16 * c + d <= 4095
    BY <1>4
  <2> QED BY <2>1
<1>7. a \in 0 .. 15
  BY <1>3
<1>8. DigitsAre(n, a, b, c, d)
  <2>1. n \div 4096 = a /\ (n \div 256) % 16 = b /\ (n \div 16) % 16 = c /\ n % 16 = d
    BY <1>1, <1>2, <1>3, <1>5, <1>6
  <2>2. HexDigits(n) = WithoutLeadingZeros(<<a, b, c>>) \o <<d>>
    <3> DEFINE x == n \div 4096
               y == (n \div 256) % 16
               z == (n \div 16) % 16
               o == n % 16
    <3>1. HexDigits(n) = WithoutLeadingZeros(<<x, y, z>>) \o <<o>>
      BY DEF HexDigits
    <3>2. x = a /\ y = b /\ z = c /\ o = d
      BY <2>1
    <3> HIDE DEF x, y, z, o
    <3> QED BY <3>1, <3>2, Zenon
  <2>3. Hexes(a, b, c, d)
    BY <1>1, <1>2, <1>3, <1>7, Zenon DEF Hexes
  <2>4. SumOf(n, a, b, c, d)
    BY <1>4 DEF SumOf
  <2> QED BY <2>2, <2>3, <2>4, Zenon DEF DigitsAre
<1>9. Wide(n) <=> a # 0
  BY <1>4, <1>7 DEF Wide
<1> QED BY <1>8, <1>9

\* "{:4x}" is read as the number that was printed, or not at all.
LEMMA WidthIs ==
    ASSUME NEW n, Fits(n)
    PROVE  /\ HexWidth4(n) \in Seq(0 .. Blank) /\ HexWidth4(n) # <<>>
           /\ Wide(n) => IsGroup(HexWidth4(n)) /\ Number(HexWidth4(n)) = n
           /\ ~Wide(n) => Contains(HexWidth4(n), Blank)
<1>1. PICK a, b, c, d : DigitsAre(n, a, b, c, d) /\ (Wide(n) <=> a # 0)
  BY FourDigits, Zenon
<1>2. a \in 0 .. 15 /\ b \in 0 .. 15 /\ c \in 0 .. 15 /\ d \in 0 .. 15
  BY <1>1, Zenon DEF DigitsAre, Hexes
<1>3. PICK s : s = <<a, b, c>>
  OBVIOUS
<1>4. s \in Seq(0 .. 15) /\ Len(s) = 3 /\ s[1] = a /\ s[2] = b /\ s[3] = c
  BY <1>2, <1>3
<1>5. PICK k \in 0 .. Len(s) :
          /\ \A i \in 1 .. k : s[i] = 0
          /\ k < Len(s) => s[k + 1] # 0
          /\ WithoutLeading(0, s) = SubSeq(s, k + 1, Len(s))
  <2>1. s \in Seq(0 .. 15)
    BY <1>4, Zenon
  <2> QED BY <2>1, LeadingZeros
<1>6. k \in Nat /\ k <= 3 /\ (k = 0 <=> a # 0)
  <2>1. k \in Nat /\ k <= 3
    BY <1>4
  <2>2. k = 0 => a # 0
    <3>1. 0 < 3 /\ 0 + 1 = 1
      OBVIOUS
    <3> QED BY <1>4, <1>5, <3>1, Zenon
  <2>3. k # 0 => a = 0
    <3>1. k # 0 => 1 \in 1 .. k
      BY <2>1
    <3> QED BY <1>4, <1>5, <3>1, Zenon
  <2> QED BY <2>1, <2>2, <2>3, Zenon
<1>7. PICK t : t = SubSeq(s, k + 1, 3)
  OBVIOUS
<1>8. t \in Seq(0 .. 15) /\ Len(t) = 3 - k /\ \A i \in 1 .. 3 - k : t[i] = s[k + i]
  <2>1. \A i \in k + 1 .. 3 : i \in 1 .. Len(s)
    BY <1>4, <1>6
  <2>2. \A i \in k + 1 .. 3 : s[i] \in 0 .. 15
    BY <1>4, <2>1, ElementOfSeq, Zenon
  <2>3. k + 1 \in Int /\ 3 \in Int
    BY <1>6
  <2>4. /\ t \in Seq(0 .. 15) /\ Len(t) = IF k + 1 <= 3 THEN 3 - (k + 1) + 1 ELSE 0
        /\ \A i \in 1 .. 3 - (k + 1) + 1 : t[i] = s[(k + 1) + i - 1]
    BY <1>7, <2>2, <2>3, SubSeqProperties
  <2>5. 3 - (k + 1) + 1 = 3 - k /\ (IF k + 1 <= 3 THEN 3 - (k + 1) + 1 ELSE 0) = 3 - k
        /\ \A i \in 1 .. 3 - k : (k + 1) + i - 1 = k + i
    BY <1>6
  <2> QED BY <2>4, <2>5
<1>9. PICK digits : digits = t \o <<d>>
  OBVIOUS
<1>10. /\ digits \in Seq(0 .. 15) /\ Len(digits) = 4 - k
       /\ \A i \in 1 .. 4 - k : digits[i] = IF i <= 3 - k THEN t[i] ELSE d
  <2>1. PICK e : e = <<d>> /\ e \in Seq(0 .. 15) /\ Len(e) = 1 /\ e[1] = d
    <3>1. <<d>> \in Seq(0 .. 15) /\ Len(<<d>>) = 1 /\ <<d>>[1] = d
      BY <1>2
    <3> QED BY <3>1, Zenon
  <2>2. /\ digits \in Seq(0 .. 15) /\ Len(digits) = Len(t) + Len(e)
        /\ \A i \in 1 .. Len(t) + Len(e) : digits[i] = IF i <= Len(t) THEN t[i] ELSE e[i - Len(t)]
    BY <1>8, <1>9, <2>1, ConcatProperties
  <2>3. Len(t) + Len(e) = 4 - k
    BY <1>6, <1>8, <2>1
  <2>4. \A i \in 1 .. 4 - k : ~(i <= 3 - k) => i - (3 - k) = 1
    BY <1>6
  <2>5. \A i \in 1 .. 4 - k : digits[i] = IF i <= 3 - k THEN t[i] ELSE e[i - (3 - k)]
    BY <1>8, <2>2, <2>3, Zenon
  <2> QED BY <2>1, <2>2, <2>3, <2>4, <2>5, Zenon
<1>11. HexDigits(n) = digits
  <2>1. HexDigits(n) = WithoutLeadingZeros(s) \o <<d>>
    BY <1>1, <1>3, Zenon DEF DigitsAre
  <2>2. WithoutLeadingZeros(s) = t
    BY <1>4, <1>5, <1>7, Zenon DEF WithoutLeadingZeros
  <2> QED BY <1>9, <2>1, <2>2
<1>12. PICK blanks : /\ blanks = [i \in 1 .. 4 - Len(digits) |-> Blank]
                     /\ blanks \in Seq(0 .. Blank) /\ Len(blanks) = k
                     /\ \A i \in 1 .. k : blanks[i] = Blank
  <2>1. 4 - Len(digits) = k
    BY <1>6, <1>10
  <2>2. Blank \in 0 .. Blank
    BY DEF Blank
  <2>3. PICK blanks : blanks = [i \in 1 .. k |-> Blank]
    OBVIOUS
  <2>4. blanks \in Seq(0 .. Blank) /\ Len(blanks) = k /\ \A i \in 1 .. k : blanks[i] = Blank
    BY <1>6, <2>2, <2>3
  <2> QED BY <2>1, <2>3, <2>4
<1>13. 0 .. 15 \subseteq 0 .. Blank /\ \A i \in 0 .. 15 : i # Blank
  BY DEF Blank
<1>14. PICK w : /\ w = blanks \o digits /\ w \in Seq(0 .. Blank) /\ Len(w) = 4
                /\ \A i \in 1 .. 4 : w[i] = IF i <= k THEN blanks[i] ELSE digits[i - k]
  <2>1. digits \in Seq(0 .. Blank)
    BY <1>10, <1>13, SeqMonotonic, Zenon
  <2>2. PICK w : w = blanks \o digits
    OBVIOUS
  <2>3. /\ w \in Seq(0 .. Blank) /\ Len(w) = Len(blanks) + Len(digits)
        /\ \A i \in 1 .. Len(blanks) + Len(digits) :
               w[i] = IF i <= Len(blanks) THEN blanks[i] ELSE digits[i - Len(blanks)]
    BY <1>12, <2>1, <2>2, ConcatProperties, Zenon
  <2>4. Len(blanks) + Len(digits) = 4
    BY <1>6, <1>10, <1>12
  <2> QED BY <1>12, <2>2, <2>3, <2>4, Zenon
<1>15. HexWidth4(n) = w
  BY <1>11, <1>12, <1>14, Zenon DEF HexWidth4
<1>16. w # <<>>
  BY <1>14, EmptySeq
<1>17. CASE Wide(n)
  <2>1. k = 0 /\ a # 0
    BY <1>1, <1>6, <1>17, Zenon
  <2>2. \A i \in 1 .. 4 : ~(i <= 0) /\ i - 0 = i /\ i \in 1 .. 4 - 0 /\ 4 - 0 = 4 /\ 3 - 0 = 3
    OBVIOUS
  <2>3. \A i \in 1 .. 4 : w[i] = digits[i] /\ w[i] \in 0 .. 15
    <3>1. \A i \in 1 .. 4 : w[i] = digits[i]
      BY <1>14, <2>1, <2>2, Zenon
    <3>2. Len(digits) = 4
      BY <1>10, <2>1
    <3>3. \A i \in 1 .. 4 : digits[i] \in 0 .. 15
      BY <1>10, <3>2, ElementOfSeq, Zenon
    <3> QED BY <3>1, <3>3, Zenon
  <2>4. w \in Seq(0 .. 15)
    <3>1. w = [i \in 1 .. 4 |-> w[i]]
      BY <1>14, LenProperties
    <3> QED BY <2>3, <3>1
  <2>5. w[1] = a /\ w[2] = b /\ w[3] = c /\ w[4] = d
    <3>1. /\ digits[1] = t[1] /\ digits[2] = t[2] /\ digits[3] = t[3] /\ digits[4] = d
          /\ t[1] = s[1] /\ t[2] = s[2] /\ t[3] = s[3]
      BY <1>8, <1>10, <2>1
    <3>2. 1 \in 1 .. 4 /\ 2 \in 1 .. 4 /\ 3 \in 1 .. 4 /\ 4 \in 1 .. 4
      OBVIOUS
    <3> QED BY <1>4, <2>3, <3>1, <3>2, Zenon
  <2>6. Number(w) = 4096 * a + 256 * b + 16 * c + d
    <3>1. Number(w) = 4096 * w[1] + 256 * w[2] + 16 * w[3] + w[4]
      <4>1. Len(w) = 4
        BY <1>14, Zenon
      <4> QED BY <2>4, <4>1, Group4
    <3> QED BY <2>5, <3>1
  <2>7. Number(w) = n
    BY <1>1, <2>6 DEF DigitsAre, SumOf
  <2>8. IsGroup(w)
    <3>1. Len(w) <= 4
      BY <1>14
    <3> QED BY <1>13, <1>14, <2>3, <3>1, Zenon DEF IsGroup, Contains
  <2> QED BY <1>14, <1>15, <1>16, <1>17, <2>7, <2>8, Zenon
<1>18. CASE ~Wide(n)
  <2>1. 1 <= k /\ 1 \in 1 .. k /\ 1 \in 1 .. 4
    <3>1. k # 0
      BY <1>1, <1>6, <1>18, Zenon
    <3> QED BY <1>6, <3>1
  <2>2. w[1] = Blank
    BY <1>12, <1>14, <2>1, Zenon
  <2>3. Contains(w, Blank)
    BY <1>14, <2>1, <2>2, Zenon DEF Contains
  <2> QED BY <1>14, <1>15, <1>16, <1>18, <2>3, Zenon
<1> QED BY <1>17, <1>18, Zenon

Sixteen(six) == \A i \in 1 .. 8 : Fits(Group(six, i))
PrintedFrom(six, from, to) == [i \in 1 .. to - from + 1 |-> HexWidth4(Group(six, from + i - 1))]
Starts(six) == {i \in 1 .. 7 : \A j \in i .. i + 1 : Group(six, j) = 0}
BehindRun(six, first) == Min({j \in first .. 8 : Group(six, j) # 0} \cup {9})
InFront(six, first) == IF first = 1 THEN <<<<>>>> ELSE PrintedFrom(six, 1, first - 1)
AtTheEnd(six, behind) == IF behind = 9 THEN <<<<>>>> ELSE PrintedFrom(six, behind, 8)

\* The zeros from first on, up to behind, stand for the empty groups up to b.
RunOf(six, first, behind, b) ==
    /\ first \in Nat /\ behind \in Nat /\ b \in Nat /\ 1 <= first /\ first <= behind /\ behind <= 9
    /\ \A j \in first .. behind - 1 : Group(six, j) = 0
    /\ behind <= 8 => Group(six, behind) # 0
    /\ \A i \in 1 .. first - 1 : i <= 7 => ~(Group(six, i) = 0 /\ Group(six, i + 1) = 0)
    /\ \/ first = 9 /\ behind = 9 /\ b = 8
       \/ first + 2 <= behind /\ b = first + (IF first = 1 THEN 1 ELSE 0) + (IF behind = 9 THEN 1 ELSE 0)
PrintsAs(groups, six, first, behind, b) ==
    /\ groups \in Seq(Seq(0 .. Blank)) /\ Len(groups) = b + 9 - behind
    /\ \A i \in 1 .. first - 1 : groups[i] = HexWidth4(Group(six, i))
    /\ \A i \in first .. b : groups[i] = <<>>
    /\ \A i \in b + 1 .. Len(groups) : groups[i] = HexWidth4(Group(six, 8 - (Len(groups) - i)))

LEMMA PrintedGroupsIs ==
    ASSUME NEW six
    PROVE  PrintedGroups(six) =
               IF Starts(six) = {} THEN PrintedFrom(six, 1, 8)
               ELSE InFront(six, Min(Starts(six))) \o <<<<>>>>
                    \o AtTheEnd(six, BehindRun(six, Min(Starts(six))))
BY Zenon DEF PrintedGroups, Starts, BehindRun, PrintedFrom, InFront, AtTheEnd

LEMMA PrintedIs ==
    ASSUME NEW six, Sixteen(six), NEW from \in Nat, NEW to \in Nat, 1 <= from, from <= to + 1, to <= 8
    PROVE  /\ PrintedFrom(six, from, to) \in Seq(Seq(0 .. Blank))
           /\ Len(PrintedFrom(six, from, to)) = to - from + 1
           /\ \A i \in 1 .. to - from + 1 : PrintedFrom(six, from, to)[i] = HexWidth4(Group(six, from + i - 1))
<1>1. PICK n \in Nat : n = to - from + 1
  OBVIOUS
<1>2. PICK s : s = PrintedFrom(six, from, to)
  OBVIOUS
<1>3. s = [i \in 1 .. n |-> HexWidth4(Group(six, from + i - 1))]
  BY <1>1, <1>2, Zenon DEF PrintedFrom
<1>4. PICK S : S = Seq(0 .. Blank)
  OBVIOUS
<1>5. \A i \in 1 .. n : s[i] = HexWidth4(Group(six, from + i - 1)) /\ s[i] \in S
  <2> TAKE i \in 1 .. n
  <2>1. from + i - 1 \in 1 .. 8
    BY <1>1
  <2>2. HexWidth4(Group(six, from + i - 1)) \in S
    BY <1>4, <2>1, WidthIs, Zenon DEF Sixteen
  <2> QED BY <1>3, <2>2, Zenon
<1>6. s \in [1 .. n -> S]
  BY <1>3, <1>5, Zenon
<1>7. s \in Seq(S) /\ Len(s) = n
  BY <1>6, SeqDef, LenProperties
<1> QED BY <1>1, <1>2, <1>4, <1>5, <1>7, Zenon

\* One empty group, as what is in front of the run or behind it.
LEMMA OneEmpty ==
    <<<<>>>> \in Seq(Seq(0 .. Blank)) /\ Len(<<<<>>>>) = 1 /\ <<<<>>>>[1] = <<>>
<1>1. <<>> \in Seq(0 .. Blank)
  OBVIOUS
<1> QED BY <1>1

LEMMA RunIsPrinted ==
    ASSUME NEW six, Sixteen(six), NEW first, NEW behind, NEW b, RunOf(six, first, behind, b), first # 9
    PROVE  PrintsAs(InFront(six, first) \o <<<<>>>> \o AtTheEnd(six, behind), six, first, behind, b)
<1>1. PICK p \in Nat, r \in Nat, q \in Nat, e \in Nat :
          /\ q = first - 1 /\ e = 9 - behind
          /\ p = (IF first = 1 THEN 1 ELSE q) /\ r = (IF behind = 9 THEN 1 ELSE e)
          /\ p + 1 + r = b + e /\ p + 1 <= b + 1 /\ q <= p /\ e <= r
          /\ first \in Nat /\ behind \in Nat /\ b \in Nat /\ 1 <= first /\ behind <= 9 /\ first + 2 <= behind
          /\ (first # 1 => p + 1 = first /\ p = q) /\ (first = 1 => q = 0)
          /\ (behind # 9 => b = p + 1 /\ r = e) /\ (behind = 9 => e = 0 /\ b = p + 2)
  <2>1. /\ first \in Nat /\ behind \in Nat /\ b \in Nat /\ 1 <= first /\ behind <= 9 /\ first + 2 <= behind
        /\ b = first + (IF first = 1 THEN 1 ELSE 0) + (IF behind = 9 THEN 1 ELSE 0)
    BY Zenon DEF RunOf
  <2>2. PICK q \in Nat : q = first - 1
    BY <2>1
  <2>3. PICK e \in Nat : e = 9 - behind
    BY <2>1
  <2>4. PICK p \in Nat : p = IF first = 1 THEN 1 ELSE q
    BY <2>1, <2>2
  <2>5. PICK r \in Nat : r = IF behind = 9 THEN 1 ELSE e
    BY <2>1, <2>3
  <2>6. PICK f \in Nat : f = IF first = 1 THEN 1 ELSE 0
    OBVIOUS
  <2>7. PICK l \in Nat : l = IF behind = 9 THEN 1 ELSE 0
    OBVIOUS
  <2>8. b = first + f + l
    BY <2>1, <2>6, <2>7, Zenon
  <2>9. p = q + f /\ q <= p /\ (first # 1 => p + 1 = first /\ p = q) /\ (first = 1 => q = 0) /\ first = q + 1
    BY <2>1, <2>2, <2>4, <2>6
  <2>10. r = e + l /\ e <= r /\ (behind # 9 => l = 0 /\ r = e) /\ (behind = 9 => e = 0 /\ l = 1)
    BY <2>1, <2>3, <2>5, <2>7
  <2>11. b = p + 1 + l
    BY <2>8, <2>9
  <2>12. /\ p + 1 + r = b + e /\ p + 1 <= b + 1
         /\ (l = 0 => b = p + 1) /\ (l = 1 => b = p + 2)
    <3>1. r = e + l
      BY <2>10, Zenon
    <3>2. p + 1 + r = b + e
      BY <2>11, <3>1
    <3>3. p + 1 <= b + 1
      BY <2>11
    <3>4. l = 0 => b = p + 1
      BY <2>11
    <3>5. l = 1 => b = p + 2
      BY <2>11
    <3> QED BY <3>2, <3>3, <3>4, <3>5, Zenon
  <2>13. (behind # 9 => b = p + 1 /\ r = e) /\ (behind = 9 => e = 0 /\ b = p + 2)
    BY <2>10, <2>12, Zenon
  <2>14. /\ q = first - 1 /\ e = 9 - behind
         /\ p = (IF first = 1 THEN 1 ELSE q) /\ r = (IF behind = 9 THEN 1 ELSE e)
         /\ p + 1 + r = b + e /\ p + 1 <= b + 1 /\ q <= p /\ e <= r
         /\ first \in Nat /\ behind \in Nat /\ b \in Nat /\ 1 <= first /\ behind <= 9 /\ first + 2 <= behind
         /\ (first # 1 => p + 1 = first /\ p = q) /\ (first = 1 => q = 0)
    BY <2>1, <2>2, <2>3, <2>4, <2>5, <2>9, <2>10, <2>12, Zenon
  <2> QED BY <2>13, <2>14
<1>2. PICK S : S = Seq(0 .. Blank)
  OBVIOUS
<1>3. PICK x : /\ x = InFront(six, first) /\ x \in Seq(S) /\ Len(x) = p
               /\ \A i \in 1 .. q : x[i] = HexWidth4(Group(six, i))
               /\ first = 1 => x[1] = <<>>
  <2>1. CASE first = 1
    <3>1. InFront(six, first) = <<<<>>>> /\ p = 1 /\ q = 0 /\ 1 .. 0 = {}
      BY <1>1, <2>1 DEF InFront
    <3> QED BY <1>2, <3>1, OneEmpty, Zenon
  <2>2. CASE first # 1
    <3>1. InFront(six, first) = PrintedFrom(six, 1, q) /\ p = q
      BY <1>1, <2>2, Zenon DEF InFront
    <3>2. 1 \in Nat /\ 1 <= 1 /\ 1 <= q + 1 /\ q <= 8
      BY <1>1
    <3>3. /\ PrintedFrom(six, 1, q) \in Seq(S) /\ Len(PrintedFrom(six, 1, q)) = q - 1 + 1
          /\ \A i \in 1 .. q - 1 + 1 : PrintedFrom(six, 1, q)[i] = HexWidth4(Group(six, 1 + i - 1))
      BY <1>2, <3>2, PrintedIs
    <3>4. q - 1 + 1 = q /\ \A i \in 1 .. q : 1 + i - 1 = i
      OBVIOUS
    <3>5. /\ PrintedFrom(six, 1, q) \in Seq(S) /\ Len(PrintedFrom(six, 1, q)) = q
          /\ \A i \in 1 .. q : PrintedFrom(six, 1, q)[i] = HexWidth4(Group(six, i))
      BY <3>3, <3>4
    <3> QED BY <2>2, <3>1, <3>5, Zenon
  <2> QED BY <2>1, <2>2, Zenon
<1>4. PICK z : /\ z = AtTheEnd(six, behind) /\ z \in Seq(S) /\ Len(z) = r
               /\ \A i \in 1 .. e : z[i] = HexWidth4(Group(six, behind + i - 1))
               /\ behind = 9 => z[1] = <<>>
  <2>1. CASE behind = 9
    <3>1. AtTheEnd(six, behind) = <<<<>>>> /\ r = 1 /\ e = 0 /\ 1 .. 0 = {}
      BY <1>1, <2>1 DEF AtTheEnd
    <3> QED BY <1>2, <3>1, OneEmpty, Zenon
  <2>2. CASE behind # 9
    <3>1. AtTheEnd(six, behind) = PrintedFrom(six, behind, 8) /\ r = e
      BY <1>1, <2>2, Zenon DEF AtTheEnd
    <3>2. behind \in Nat /\ 8 \in Nat /\ 1 <= behind /\ behind <= 8 + 1 /\ 8 <= 8 /\ 8 - behind + 1 = e
      BY <1>1
    <3>3. /\ PrintedFrom(six, behind, 8) \in Seq(S) /\ Len(PrintedFrom(six, behind, 8)) = 8 - behind + 1
          /\ \A i \in 1 .. 8 - behind + 1 :
                 PrintedFrom(six, behind, 8)[i] = HexWidth4(Group(six, behind + i - 1))
      BY <1>2, <3>2, PrintedIs, Zenon
    <3> QED BY <2>2, <3>1, <3>2, <3>3, Zenon
  <2> QED BY <2>1, <2>2, Zenon
<1>5. PICK y : y = <<<<>>>> /\ y \in Seq(S) /\ Len(y) = 1 /\ y[1] = <<>>
  BY <1>2, OneEmpty, Zenon
<1>6. PICK t : t = x \o y \o z
  OBVIOUS
<1>7. /\ t \in Seq(S) /\ Len(t) = p + 1 + r
      /\ \A j \in 1 .. p : t[j] = x[j]
      /\ \A j \in 1 .. 1 : t[p + j] = y[j]
      /\ \A j \in 1 .. r : t[p + 1 + j] = z[j]
  <2>1. 1 \in Nat
    OBVIOUS
  <2>2. ThreeJoined(S, x, y, z, p, 1, r, t)
    BY <1>3, <1>4, <1>5, <1>6, <2>1, ThreeParts, Zenon
  <2> QED BY <2>2, Zenon DEF ThreeJoined
<1>8. Len(t) = b + 9 - behind
  BY <1>1, <1>7
<1>9. \A i \in 1 .. first - 1 : t[i] = HexWidth4(Group(six, i))
  <2> TAKE i \in 1 .. first - 1
  <2>1. i \in 1 .. q /\ i \in 1 .. p
    BY <1>1
  <2> QED BY <1>3, <1>7, <2>1, Zenon
<1>10. \A i \in first .. b : t[i] = <<>>
  <2> TAKE i \in first .. b
  <2>1. CASE i = p + 1
    <3>1. 1 \in 1 .. 1
      OBVIOUS
    <3> QED BY <1>5, <1>7, <2>1, <3>1, Zenon
  <2>2. CASE i <= p
    <3>1. first = 1 /\ i = 1 /\ 1 \in 1 .. p
      BY <1>1, <2>2
    <3> QED BY <1>3, <1>7, <3>1, Zenon
  <2>3. CASE i >= p + 2
    <3>1. behind = 9 /\ i = p + 1 + 1 /\ 1 \in 1 .. r
      BY <1>1, <2>3
    <3> QED BY <1>4, <1>7, <3>1, Zenon
  <2> QED BY <1>1, <2>1, <2>2, <2>3
<1>11. \A i \in b + 1 .. Len(t) : t[i] = HexWidth4(Group(six, 8 - (Len(t) - i)))
  <2> TAKE i \in b + 1 .. Len(t)
  <2>1. PICK k \in 1 .. e : k = i - b /\ behind # 9 /\ k \in 1 .. r /\ p + 1 + k = i
                            /\ 8 - (Len(t) - i) = behind + k - 1
    <3>1. /\ i - b \in 1 .. e /\ behind # 9
      BY <1>1, <1>8
    <3>2. i - b \in 1 .. r /\ p + 1 + (i - b) = i
      BY <1>1, <3>1
    <3>3. 8 - (Len(t) - i) = behind + (i - b) - 1
      BY <1>1, <1>8
    <3> QED BY <3>1, <3>2, <3>3
  <2>2. t[i] = z[k]
    BY <1>7, <2>1, Zenon
  <2> QED BY <1>4, <2>1, <2>2, Zenon
<1> QED BY <1>2, <1>3, <1>4, <1>5, <1>6, <1>7, <1>8, <1>9, <1>10, <1>11, Zenon DEF PrintsAs

LEMMA PrintedRun ==
    ASSUME NEW six, Sixteen(six)
    PROVE  \E first, behind, b : RunOf(six, first, behind, b) /\ PrintsAs(PrintedGroups(six), six, first, behind, b)
<1>1. CASE Starts(six) = {}
  <2>1. \A i \in 1 .. 7 : ~(Group(six, i) = 0 /\ Group(six, i + 1) = 0)
    <3> SUFFICES ASSUME NEW i \in 1 .. 7, Group(six, i) = 0, Group(six, i + 1) = 0 PROVE FALSE
        OBVIOUS
    <3>1. \A j \in i .. i + 1 : j = i \/ j = i + 1
      OBVIOUS
    <3>2. i \in Starts(six)
      BY <3>1, Zenon DEF Starts
    <3> QED BY <1>1, <3>2, Zenon
  <2>2. /\ 9 \in Nat /\ 8 \in Nat /\ 1 <= 9 /\ 9 <= 9 /\ 9 .. 9 - 1 = {} /\ ~(9 <= 8)
        /\ 9 - 1 = 8 /\ \A i \in 1 .. 8 : i <= 7 => i \in 1 .. 7
    OBVIOUS
  <2>3. RunOf(six, 9, 9, 8)
    BY <2>1, <2>2, Zenon DEF RunOf
  <2>4. PICK s : s = PrintedGroups(six) /\ s = PrintedFrom(six, 1, 8)
    BY <1>1, PrintedGroupsIs, Zenon
  <2>5. 1 \in Nat /\ 8 \in Nat /\ 1 <= 1 /\ 1 <= 8 + 1 /\ 8 <= 8 /\ 8 - 1 + 1 = 8 /\ \A i \in 1 .. 8 : 1 + i - 1 = i
    OBVIOUS
  <2>6. /\ s \in Seq(Seq(0 .. Blank)) /\ Len(s) = 8
        /\ \A i \in 1 .. 8 : s[i] = HexWidth4(Group(six, i))
    <3>1. /\ PrintedFrom(six, 1, 8) \in Seq(Seq(0 .. Blank)) /\ Len(PrintedFrom(six, 1, 8)) = 8 - 1 + 1
          /\ \A i \in 1 .. 8 - 1 + 1 : PrintedFrom(six, 1, 8)[i] = HexWidth4(Group(six, 1 + i - 1))
      BY <2>5, PrintedIs, Zenon
    <3> QED BY <2>4, <2>5, <3>1, Zenon
  <2>7. 8 = 8 + 9 - 9 /\ 9 .. 8 = {} /\ 8 + 1 .. 8 = {}
    OBVIOUS
  <2>8. PrintsAs(s, six, 9, 9, 8)
    BY <2>2, <2>6, <2>7, Zenon DEF PrintsAs
  <2> QED BY <2>3, <2>4, <2>8, Zenon
<1>2. CASE Starts(six) # {}
  <2>1. PICK first : first = Min(Starts(six))
    OBVIOUS
  <2>2. Starts(six) \subseteq 1 .. 7 /\ Starts(six) \subseteq Nat
    BY DEF Starts
  <2>3. first \in Starts(six) /\ \A i \in Starts(six) : first <= i
    BY <1>2, <2>1, <2>2, MinOfNaturals
  <2>4. first \in 1 .. 7 /\ Group(six, first) = 0 /\ Group(six, first + 1) = 0
    <3>1. first \in 1 .. 7 /\ \A j \in first .. first + 1 : Group(six, j) = 0
      BY <2>3, Zenon DEF Starts
    <3>2. first \in first .. first + 1 /\ first + 1 \in first .. first + 1
      BY <3>1
    <3> QED BY <3>1, <3>2, Zenon
  <2>5. PICK T : T = {j \in first .. 8 : Group(six, j) # 0} \cup {9}
    OBVIOUS
  <2>6. PICK behind : behind = Min(T)
    OBVIOUS
  <2>7. T \subseteq Nat /\ T # {} /\ T \subseteq first .. 9 /\ 9 \in T
    BY <2>4, <2>5
  <2>8. behind \in T /\ \A j \in T : behind <= j
    BY <2>6, <2>7, MinOfNaturals
  <2>9. behind = BehindRun(six, first)
    BY <2>5, <2>6, Zenon DEF BehindRun
  <2>10. first \in Nat /\ behind \in Nat /\ first <= behind /\ behind <= 9 /\ 1 <= first
    BY <2>4, <2>7, <2>8
  <2>11. behind # first /\ behind # first + 1
    <3>1. first # 9 /\ first + 1 # 9
      BY <2>4
    <3> QED BY <2>4, <2>5, <2>8, <3>1, Zenon
  <2>12. first + 2 <= behind /\ first # 9
    BY <2>4, <2>10, <2>11
  <2>13. \A j \in first .. behind - 1 : Group(six, j) = 0
    <3> SUFFICES ASSUME NEW j \in first .. behind - 1, Group(six, j) # 0 PROVE FALSE
        OBVIOUS
    <3>1. j \in first .. 8 /\ ~(behind <= j)
      BY <2>10
    <3> QED BY <2>5, <2>8, <3>1, Zenon
  <2>14. behind <= 8 => Group(six, behind) # 0
    <3>1. behind <= 8 => behind # 9
      BY <2>10
    <3> QED BY <2>5, <2>8, <3>1, Zenon
  <2>15. \A i \in 1 .. first - 1 : i <= 7 => ~(Group(six, i) = 0 /\ Group(six, i + 1) = 0)
    <3> SUFFICES ASSUME NEW i \in 1 .. first - 1, Group(six, i) = 0, Group(six, i + 1) = 0 PROVE FALSE
        OBVIOUS
    <3>1. i \in 1 .. 7 /\ ~(first <= i) /\ \A j \in i .. i + 1 : j = i \/ j = i + 1
      BY <2>4
    <3>2. i \in Starts(six)
      BY <3>1, Zenon DEF Starts
    <3> QED BY <2>3, <3>1, <3>2, Zenon
  <2>16. PICK b \in Nat : b = first + (IF first = 1 THEN 1 ELSE 0) + (IF behind = 9 THEN 1 ELSE 0)
    BY <2>10
  <2>17. RunOf(six, first, behind, b)
    BY <2>10, <2>12, <2>13, <2>14, <2>15, <2>16, Zenon DEF RunOf
  <2>18. PrintedGroups(six) = InFront(six, first) \o <<<<>>>> \o AtTheEnd(six, behind)
    BY <1>2, <2>1, <2>9, PrintedGroupsIs, Zenon
  <2> QED BY <2>12, <2>17, <2>18, RunIsPrinted, Zenon
<1> QED BY <1>1, <1>2, Zenon

\* All groups but those of the run need four digits.
CleanRun(six, first, behind) == \A i \in 1 .. 8 : i < first \/ behind <= i => Wide(Group(six, i))
Zeros(six) == {i \in 1 .. 8 : Group(six, i) = 0}
Plain(six) ==
    /\ \A i \in 1 .. 8 : Group(six, i) = 0 \/ Wide(Group(six, i))
    /\ Zeros(six) # {} => Zeros(six) = Min(Zeros(six)) .. Max(Zeros(six)) /\ Cardinality(Zeros(six)) > 1

LEMMA WideIsNotZero == ~Wide(0)
BY DEF Wide

LEMMA CleanIsPlain ==
    ASSUME NEW six, NEW first, NEW behind, NEW b, RunOf(six, first, behind, b)
    PROVE  CleanRun(six, first, behind) <=> Plain(six)
<1>1. /\ first \in Nat /\ behind \in Nat /\ 1 <= first /\ first <= behind /\ behind <= 9
      /\ (first # 9 => first + 2 <= behind) /\ (first = 9 => behind = 9)
  <2>1. /\ first \in Nat /\ behind \in Nat /\ 1 <= first /\ first <= behind /\ behind <= 9
        /\ (first = 9 /\ behind = 9) \/ first + 2 <= behind
    BY Zenon DEF RunOf
  <2> QED BY <2>1
<1>2. /\ \A j \in first .. behind - 1 : Group(six, j) = 0
      /\ behind <= 8 => Group(six, behind) # 0
      /\ \A i \in 1 .. first - 1 : i <= 7 => ~(Group(six, i) = 0 /\ Group(six, i + 1) = 0)
  BY Zenon DEF RunOf
<1>3. PICK Z : Z = Zeros(six) /\ Z \subseteq 1 .. 8
  BY DEF Zeros
<1>4. \A i \in 1 .. 8 : i \in Z <=> Group(six, i) = 0
  BY <1>3, Zenon DEF Zeros
<1>5. ASSUME CleanRun(six, first, behind) PROVE Plain(six)
  <2>1. \A i \in 1 .. 8 : i \in first .. behind - 1 \/ (i < first \/ behind <= i)
    BY <1>1
  <2>2. \A i \in 1 .. 8 : Group(six, i) = 0 \/ Wide(Group(six, i))
    BY <1>2, <1>5, <2>1, Zenon DEF CleanRun
  <2>3. \A i \in 1 .. 8 : i < first \/ behind <= i => i \notin Z
    BY <1>4, <1>5, WideIsNotZero, Zenon DEF CleanRun
  <2>4. \A i \in first .. behind - 1 : i \in 1 .. 8 /\ i \in Z
    <3>1. \A i \in first .. behind - 1 : i \in 1 .. 8
      BY <1>1
    <3> QED BY <1>2, <1>4, <3>1, Zenon
  <2>5. Z = first .. behind - 1
    BY <1>3, <2>1, <2>3, <2>4, Zenon
  <2>6. ASSUME Z # {} PROVE Z = Min(Z) .. Max(Z) /\ Cardinality(Z) > 1
    <3>1. PICK last \in Nat : last = behind - 1
      BY <1>1
    <3>2. first <= last
      <4>1. PICK i \in first .. behind - 1 : TRUE
        BY <2>5, <2>6
      <4> QED BY <1>1, <3>1
    <3>3. first + 1 <= last
      BY <1>1, <3>1, <3>2
    <3>4. Z = first .. last
      BY <2>5, <3>1, Zenon
    <3>5. Min(Z) = first
      BY <1>1, <3>2, <3>4, MinOfInterval, Zenon
    <3>6. Max(Z) = last
      <4>1. Z \subseteq 0 .. last
        BY <1>1, <3>4
      <4>2. Max(Z) \in Z /\ \A i \in Z : i <= Max(Z)
        BY <2>6, <4>1, MaxOfBounded, Zenon
      <4>3. PICK m : m = Max(Z)
        OBVIOUS
      <4>4. m \in Nat /\ m <= last /\ last \in Z
        BY <1>1, <3>2, <3>4, <4>2, <4>3
      <4>5. last <= m
        BY <4>2, <4>3, <4>4, Zenon
      <4> QED BY <4>3, <4>4, <4>5
    <3>7. Cardinality(Z) = last - first + 1
      BY <1>1, <3>2, <3>4, FS_Interval
    <3>8. Cardinality(Z) > 1
      BY <1>1, <3>3, <3>7
    <3> QED BY <3>4, <3>5, <3>6, <3>8, Zenon
  <2> QED BY <1>3, <2>2, <2>6, Zenon DEF Plain
<1>6. ASSUME Plain(six) PROVE CleanRun(six, first, behind)
  <2> SUFFICES ASSUME NEW i \in 1 .. 8, i < first \/ behind <= i, ~Wide(Group(six, i)) PROVE FALSE
      BY Zenon DEF CleanRun
  <2>1. Group(six, i) = 0 /\ i \in Z
    BY <1>4, <1>6, Zenon DEF Plain
  <2>2. PICK lo, hi : lo = Min(Z) /\ hi = Max(Z)
    OBVIOUS
  <2>3. Z = lo .. hi /\ Cardinality(Z) > 1
    BY <1>3, <1>6, <2>1, <2>2, Zenon DEF Plain
  <2>4. lo \in Nat /\ hi \in Nat /\ lo \in Z /\ hi \in Z /\ lo <= i /\ i <= hi
    <3>1. Z \subseteq Nat /\ Z # {} /\ 8 \in Nat /\ Z \subseteq 0 .. 8
      BY <1>3, <2>1
    <3>2. lo \in Z /\ lo <= i
      BY <2>1, <2>2, <3>1, MinOfNaturals
    <3>3. hi \in Z /\ i <= hi
      BY <2>1, <2>2, <3>1, MaxOfBounded
    <3> QED BY <3>1, <3>2, <3>3, Zenon
  <2>5. lo \in 1 .. 8 /\ hi \in 1 .. 8 /\ lo < hi
    <3>1. Cardinality(Z) = hi - lo + 1
      <4>1. Cardinality(lo .. hi) = IF lo > hi THEN 0 ELSE hi - lo + 1
        BY <2>4, FS_Interval
      <4> QED BY <2>3, <2>4, <4>1
    <3> QED BY <1>3, <2>3, <2>4, <3>1
  <2>6. \A j \in 1 .. 8 : lo <= j /\ j <= hi => Group(six, j) = 0
    <3>1. \A j \in 1 .. 8 : lo <= j /\ j <= hi => j \in lo .. hi
      BY <2>4
    <3> QED BY <1>4, <2>3, <3>1, Zenon
  <2>7. CASE first = 9
    <3>1. lo \in 1 .. first - 1 /\ lo <= 7 /\ lo <= lo /\ lo <= hi /\ lo + 1 \in 1 .. 8 /\ lo <= lo + 1 /\ lo + 1 <= hi
      BY <2>5, <2>7
    <3> QED BY <1>2, <2>5, <2>6, <3>1, Zenon
  <2>8. CASE first # 9 /\ i < first
    <3>1. /\ i \in 1 .. first - 1 /\ i <= 7 /\ first \in 1 .. 8 /\ first \in first .. behind - 1
          /\ i + 1 \in 1 .. 8 /\ i + 1 <= first
      BY <1>1, <2>8
    <3>2. first \in Z
      BY <1>2, <1>4, <3>1, Zenon
    <3>3. first <= hi /\ lo <= i + 1
      BY <2>3, <2>4, <3>2
    <3>4. i + 1 <= hi
      BY <1>1, <2>4, <3>1, <3>3
    <3> QED BY <1>2, <2>1, <2>6, <3>1, <3>3, <3>4, Zenon
  <2>9. CASE first # 9 /\ behind <= i
    <3>1. first \in 1 .. 8 /\ first \in first .. behind - 1 /\ behind \in 1 .. 8 /\ behind <= 8
      BY <1>1, <2>9
    <3>2. first \in Z
      BY <1>2, <1>4, <3>1, Zenon
    <3>3. lo <= first
      BY <2>3, <2>4, <3>2
    <3>4. lo <= behind /\ behind <= hi
      BY <1>1, <2>4, <2>9, <3>3
    <3> QED BY <1>2, <2>6, <3>1, <3>4, Zenon
  <2> QED BY <1>1, <2>7, <2>8, <2>9
<1> QED BY <1>5, <1>6

\* Where a group is printed with a blank, the text is of no address.
LEMMA BlankIsNone ==
    ASSUME NEW six, Sixteen(six), NEW first, NEW behind, NEW b, NEW groups,
           RunOf(six, first, behind, b), PrintsAs(groups, six, first, behind, b), ~CleanRun(six, first, behind)
    PROVE  InetPton6(Colons(groups, <<>>)) = <<>>
<1>1. PICK i \in 1 .. 8 : (i < first \/ behind <= i) /\ ~Wide(Group(six, i))
  BY Zenon DEF CleanRun
<1>2. Contains(HexWidth4(Group(six, i)), Blank)
  BY <1>1, WidthIs, Zenon DEF Sixteen
<1>3. /\ first \in Nat /\ behind \in Nat /\ b \in Nat /\ 1 <= first /\ first <= behind /\ behind <= 9
      /\ first <= b + 1
  <2>1. /\ first \in Nat /\ behind \in Nat /\ b \in Nat /\ 1 <= first /\ first <= behind /\ behind <= 9
        /\ \/ first = 9 /\ b = 8
           \/ b = first + (IF first = 1 THEN 1 ELSE 0) + (IF behind = 9 THEN 1 ELSE 0)
    BY Zenon DEF RunOf
  <2> QED BY <2>1
<1>4. Len(groups) = b + 9 - behind
  BY Zenon DEF PrintsAs
<1>5. \E k \in 1 .. Len(groups) : groups[k] = HexWidth4(Group(six, i))
  <2>1. CASE i < first
    <3>1. i \in 1 .. first - 1 /\ i \in 1 .. Len(groups)
      BY <1>3, <1>4, <2>1
    <3> QED BY <3>1, Zenon DEF PrintsAs
  <2>2. CASE behind <= i
    <3>1. PICK k \in 1 .. Len(groups) : k \in b + 1 .. Len(groups) /\ 8 - (Len(groups) - k) = i
      <4>1. PICK n \in Nat : n = Len(groups) /\ n = b + 9 - behind
        BY <1>3, <1>4
      <4>2. i - 8 + n \in 1 .. n /\ i - 8 + n \in b + 1 .. n /\ 8 - (n - (i - 8 + n)) = i
        BY <1>3, <2>2, <4>1
      <4> QED BY <4>1, <4>2, Zenon
    <3> QED BY <3>1, Zenon DEF PrintsAs
  <2> QED BY <1>1, <2>1, <2>2, Zenon
<1>6. ~GroupsReadable(groups)
  BY <1>2, <1>5, Zenon DEF GroupsReadable
<1>7. PICK shown : shown = Colons(groups, <<>>) /\ shown.groups = groups
  BY ColonsIs, Zenon
<1> QED BY <1>6, <1>7, InetIs, Zenon

-----------------------------------------------------------------------------
(* Reading what was printed.                                               *)

\* What inet_pton() reads is 16 bytes, two for each number that is said.
LEMMA ReadData ==
    ASSUME NEW shown, IsText(shown), GroupsReadable(shown.groups), FillsIt(shown), NEW a, NEW b,
           Shape(shown.groups, Wanted(shown), a, b)
    PROVE  \E v : Says(shown.groups, Wanted(shown), a, b, v) /\ DataSays(shown, v, InetPton6(shown))
<1>1. PICK v : Says(shown.groups, Wanted(shown), a, b, v) /\ InetPton6(shown) = Bytes(v) \o shown.tail
  BY InetSays, Zenon
<1>2. DataSays(shown, v, Bytes(v) \o shown.tail)
  BY <1>1, DataOfText, Zenon
<1> QED BY <1>1, <1>2, Zenon

LEMMA SixIsData ==
    ASSUME NEW shown, IsSix(shown)
    PROVE  InetPton6(shown) \in [1 .. 16 -> Byte]
<1>1. IsText(shown) /\ InetPton6(shown) # <<>>
  BY Zenon DEF IsSix
<1>2. PICK a, b : Shape(shown.groups, Wanted(shown), a, b)
  BY <1>1, ShapeOfAccepted, Zenon
<1> QED BY <1>1, <1>2, ShapeOfAccepted, ReadData, Zenon DEF DataSays

LEMMA GroupsFit ==
    ASSUME NEW d \in [1 .. 16 -> Byte], NEW six, six.data = d
    PROVE  Sixteen(six)
<1> SUFFICES ASSUME NEW i \in 1 .. 8 PROVE Fits(Group(six, i))
    BY Zenon DEF Sixteen
<1>1. 2 * i - 1 \in 1 .. 16 /\ 2 * i \in 1 .. 16
  OBVIOUS
<1>2. d[2 * i - 1] \in Byte /\ d[2 * i] \in Byte
  BY <1>1, Zenon
<1>3. PICK x \in Nat : x = d[2 * i - 1] /\ x <= 255
  BY <1>2, ByteIs
<1>4. PICK y \in Nat : y = d[2 * i] /\ y <= 255
  BY <1>2, ByteIs
<1>5. Group(six, i) = 256 * x + y
  <2>1. Group(six, i) = 256 * d[2 * i - 1] + d[2 * i]
    BY Zenon DEF Group
  <2> QED BY <1>3, <1>4, <2>1, Zenon
<1> QED BY <1>3, <1>4, <1>5 DEF Fits

\* Two addresses with the same groups are the same.
LEMMA SameGroups ==
    ASSUME NEW d \in [1 .. 16 -> Byte], NEW e \in [1 .. 16 -> Byte],
           \A j \in 1 .. 8 : GroupAt(d, j) = GroupAt(e, j)
    PROVE  d = e
<1>1. \A j \in 1 .. 8 : d[2 * j - 1] = e[2 * j - 1] /\ d[2 * j] = e[2 * j]
  <2> TAKE j \in 1 .. 8
  <2>1. 2 * j - 1 \in 1 .. 16 /\ 2 * j \in 1 .. 16
    OBVIOUS
  <2>2. d[2 * j - 1] \in Byte /\ d[2 * j] \in Byte /\ e[2 * j - 1] \in Byte /\ e[2 * j] \in Byte
    BY <2>1, Zenon
  <2>3. PICK w \in Nat : w = d[2 * j - 1] /\ w <= 255
    BY <2>2, ByteIs
  <2>4. PICK x \in Nat : x = d[2 * j] /\ x <= 255
    BY <2>2, ByteIs
  <2>5. PICK y \in Nat : y = e[2 * j - 1] /\ y <= 255
    BY <2>2, ByteIs
  <2>6. PICK z \in Nat : z = e[2 * j] /\ z <= 255
    BY <2>2, ByteIs
  <2>7. 256 * w + x = 256 * y + z
    <3>1. GroupAt(d, j) = 256 * w + x /\ GroupAt(e, j) = 256 * y + z
      BY <2>3, <2>4, <2>5, <2>6, Zenon DEF GroupAt
    <3> QED BY <3>1, Zenon
  <2>8. w = y /\ x = z
    BY <2>3, <2>4, <2>5, <2>6, <2>7
  <2> QED BY <2>3, <2>4, <2>5, <2>6, <2>8, Zenon
<1>2. \A i \in 1 .. 16 : d[i] = e[i]
  <2> TAKE i \in 1 .. 16
  <2>1. (i + 1) \div 2 \in 1 .. 8 /\ (i = 2 * ((i + 1) \div 2) - 1 \/ i = 2 * ((i + 1) \div 2))
    OBVIOUS
  <2>2. PICK j \in 1 .. 8 : i = 2 * j - 1 \/ i = 2 * j
    BY <2>1
  <2> QED BY <1>1, <2>2, Zenon
<1> QED BY <1>2

LEMMA CleanIsText ==
    ASSUME NEW six, Sixteen(six), NEW first, NEW behind, NEW b, NEW groups,
           RunOf(six, first, behind, b), PrintsAs(groups, six, first, behind, b), CleanRun(six, first, behind),
           ~(first = 1 /\ behind = 9)
    PROVE  /\ GroupsReadable(groups) /\ Shape(groups, 8, first, b)
           /\ FillsIt(Colons(groups, <<>>))
<1>1. PICK n \in Nat : n = Len(groups) /\ groups \in Seq(Seq(0 .. Blank))
  BY LenProperties, Zenon DEF PrintsAs
<1>2. /\ first \in Nat /\ behind \in Nat /\ b \in Nat /\ 1 <= first /\ first <= behind /\ behind <= 9
      /\ n = b + 9 - behind
      /\ \/ first = 9 /\ behind = 9 /\ b = 8
         \/ first + 2 <= behind /\ b = first + (IF first = 1 THEN 1 ELSE 0) + (IF behind = 9 THEN 1 ELSE 0)
  BY <1>1, Zenon DEF RunOf, PrintsAs
<1>3. first <= b + 1 /\ b <= n /\ first - 1 <= n
  BY <1>2
<1>4. \A k \in 1 .. n : k \in 1 .. first - 1 \/ k \in first .. b \/ k \in b + 1 .. n
  BY <1>2
<1>5. \A k \in 1 .. first - 1 : IsGroup(groups[k]) /\ groups[k] # <<>>
  <2> TAKE k \in 1 .. first - 1
  <2>1. k \in 1 .. 8 /\ k < first
    BY <1>2
  <2>2. Wide(Group(six, k)) /\ Fits(Group(six, k))
    BY <2>1, Zenon DEF CleanRun, Sixteen
  <2>3. groups[k] = HexWidth4(Group(six, k))
    BY Zenon DEF PrintsAs
  <2> QED BY <2>2, <2>3, WidthIs, Zenon
<1>6. \A k \in b + 1 .. n : IsGroup(groups[k]) /\ groups[k] # <<>>
  <2> TAKE k \in b + 1 .. n
  <2>1. 8 - (n - k) \in 1 .. 8 /\ behind <= 8 - (n - k)
    BY <1>2
  <2>2. Wide(Group(six, 8 - (n - k))) /\ Fits(Group(six, 8 - (n - k)))
    BY <2>1, Zenon DEF CleanRun, Sixteen
  <2>3. groups[k] = HexWidth4(Group(six, 8 - (n - k)))
    BY <1>1, Zenon DEF PrintsAs
  <2> QED BY <2>2, <2>3, WidthIs, Zenon
<1>7. \A k \in first .. b : groups[k] = <<>>
  BY Zenon DEF PrintsAs
<1>8. IsGroup(<<>>)
  BY DEF IsGroup, Contains
<1>9. \A k \in 1 .. n : IsGroup(groups[k])
  BY <1>4, <1>5, <1>6, <1>7, <1>8, Zenon
<1>10. GroupsReadable(groups)
  BY <1>1, <1>9, Zenon DEF GroupsReadable, IsGroup
<1>11. \A k \in first .. b : k \in 1 .. n
  BY <1>2, <1>3
<1>12. Gap(groups) = first .. b
  <2>1. \A k \in 1 .. n : groups[k] = <<>> <=> k \in first .. b
    BY <1>4, <1>5, <1>6, <1>7, Zenon
  <2>2. Gap(groups) = {k \in 1 .. n : groups[k] = <<>>}
    BY <1>1, Zenon DEF Gap
  <2> QED BY <1>11, <2>1, <2>2, Zenon
<1>13. \A k \in 1 .. n : Fits(Number(groups[k]))
  BY <1>9, Stripped, Zenon
<1>14. Shape(groups, 8, first, b)
  <2>1. /\ 8 \in Nat /\ first \in 1 .. n + 1 /\ b \in first - 1 .. n
    BY <1>2, <1>3
  <2>2. IF first > b THEN first = n + 1 /\ n = 8 ELSE n - (b - first + 1) <= 8
    <3>1. CASE first = 9 /\ behind = 9 /\ b = 8
      BY <1>2, <3>1
    <3>2. CASE first + 2 <= behind /\ first <= b
      BY <1>2, <3>2
    <3> QED BY <1>2, <3>1, <3>2
  <2> QED BY <1>1, <1>12, <1>13, <2>1, <2>2, Zenon DEF Shape
<1>15. PICK shown : shown = Colons(groups, <<>>) /\ shown.groups = groups /\ shown.tail = <<>>
  <2>1. Colons(groups, <<>>).groups = groups /\ Colons(groups, <<>>).tail = <<>>
    BY ColonsIs, Zenon
  <2> QED BY <2>1, Zenon
<1>16. Wanted(shown) = 8
  BY <1>15, Zenon DEF Wanted
<1>17. CASE first = 9 /\ behind = 9 /\ b = 8
  <2>1. first .. b = {} /\ n = 8
    BY <1>2, <1>17
  <2>2. Cardinality(Gap(groups)) = 0
    BY <1>12, <2>1, FS_EmptySet, Zenon
  <2>3. Given(groups) = 8
    BY <1>1, <2>1, <2>2 DEF Given
  <2> QED BY <1>10, <1>12, <1>14, <1>15, <1>16, <2>1, <2>3, Zenon DEF FillsIt
<1>18. CASE first + 2 <= behind /\ b = first + (IF first = 1 THEN 1 ELSE 0) + (IF behind = 9 THEN 1 ELSE 0)
  <2>1. Given(groups) < 8
    <3>1. Cardinality(first .. b) = b - first + 1
      <4>1. first <= b
        BY <1>2, <1>18
      <4>2. Cardinality(first .. b) = IF first > b THEN 0 ELSE b - first + 1
        BY <1>2, FS_Interval
      <4> QED BY <1>2, <4>1, <4>2
    <3>2. Given(groups) = n - (b - first + 1)
      BY <1>1, <1>12, <3>1, Zenon DEF Given
    <3> QED BY <1>2, <1>18, <3>2
  <2>2. \/ \E k \in 2 .. n - 1 : Gap(groups) = {k}
        \/ n > 2 /\ Gap(groups) \in {{1, 2}, {n - 1, n}}
    <3>1. CASE first = 1
      <4>1. b = 2 /\ n > 2
        BY <1>2, <1>18, <3>1
      <4>2. Gap(groups) = 1 .. 2
        BY <1>12, <3>1, <4>1, Zenon
      <4>3. 1 .. 2 = {1, 2}
        OBVIOUS
      <4> QED BY <4>1, <4>2, <4>3, Zenon
    <3>2. CASE first # 1 /\ behind = 9
      <4>1. b = first + 1 /\ n = b /\ n > 2 /\ n - 1 = first
        BY <1>2, <1>18, <3>2
      <4>2. first .. b = {n - 1, n}
        BY <1>2, <4>1
      <4> QED BY <1>12, <4>1, <4>2, Zenon
    <3>3. CASE first # 1 /\ behind # 9
      <4>1. b = first /\ first \in 2 .. n - 1
        BY <1>2, <1>18, <3>3
      <4>2. first .. b = {first}
        BY <1>2, <4>1
      <4> QED BY <1>12, <4>1, <4>2, Zenon
    <3> QED BY <3>1, <3>2, <3>3, Zenon
  <2>3. OneGap(shown)
    <3>1. Len(shown.groups) + (IF shown.tail = <<>> THEN 0 ELSE 1) = n
      BY <1>1, <1>15
    <3> QED BY <1>15, <2>2, <3>1, Zenon DEF OneGap
  <2> QED BY <1>10, <1>14, <1>15, <1>16, <2>1, <2>3, Zenon DEF FillsIt
<1> QED BY <1>2, <1>17, <1>18, Zenon

\* A text that is printed with four digits in each group is read as the address it was printed from.
LEMMA CleanComesBack ==
    ASSUME NEW six, NEW d \in [1 .. 16 -> Byte], six.data = d, NEW first, NEW behind, NEW b, NEW groups,
           RunOf(six, first, behind, b), PrintsAs(groups, six, first, behind, b), CleanRun(six, first, behind),
           ~(first = 1 /\ behind = 9)
    PROVE  InetPton6(Colons(groups, <<>>)) = d
<1>1. Sixteen(six)
  BY GroupsFit, Zenon
<1>2. GroupsReadable(groups) /\ Shape(groups, 8, first, b) /\ FillsIt(Colons(groups, <<>>))
  BY <1>1, CleanIsText, Zenon
<1>3. PICK shown : shown = Colons(groups, <<>>) /\ shown.groups = groups /\ shown.tail = <<>>
  <2>1. Colons(groups, <<>>).groups = groups /\ Colons(groups, <<>>).tail = <<>>
    BY ColonsIs, Zenon
  <2> QED BY <2>1, Zenon
<1>4. Wanted(shown) = 8
  BY <1>3, Zenon DEF Wanted
<1>5. IsText(shown)
  <2>1. <<>> \in {<<>>} \cup [1 .. 4 -> Byte]
    OBVIOUS
  <2> QED BY <1>3, <2>1, Zenon DEF IsText, PrintsAs
<1>6. PICK v : Says(groups, 8, first, b, v) /\ DataSays(shown, v, InetPton6(shown))
  BY <1>2, <1>3, <1>4, <1>5, ReadData, Zenon
<1>7. PICK x : x = InetPton6(shown) /\ x \in [1 .. 16 -> Byte] /\ \A j \in 1 .. 8 : GroupAt(x, j) = v[j]
  BY <1>4, <1>6, Zenon DEF DataSays
<1>8. PICK n \in Nat :
          /\ n = Len(groups) /\ n = b + 9 - behind /\ first \in Nat /\ behind \in Nat /\ b \in Nat
          /\ 1 <= first /\ first <= behind /\ behind <= 9
          /\ \A j \in first .. behind - 1 : Group(six, j) = 0
  <2>1. Len(groups) \in Nat
    BY LenProperties, Zenon DEF PrintsAs
  <2> QED BY <2>1, Zenon DEF RunOf, PrintsAs
<1>9. /\ \A j \in 1 .. first - 1 : v[j] = Number(groups[j])
      /\ \A j \in first .. 8 - (n - b) : v[j] = 0
      /\ \A i \in b + 1 .. n : v[8 - (n - i)] = Number(groups[i])
  BY <1>6, <1>8, Zenon DEF Says
<1>10. \A j \in 1 .. 8 : v[j] = Group(six, j)
  <2> TAKE j \in 1 .. 8
  <2>1. CASE j < first
    <3>1. j \in 1 .. first - 1
      BY <1>8, <2>1
    <3>2. groups[j] = HexWidth4(Group(six, j)) /\ Wide(Group(six, j)) /\ Fits(Group(six, j))
      BY <1>1, <2>1, <3>1, Zenon DEF PrintsAs, CleanRun, Sixteen
    <3> QED BY <1>9, <3>1, <3>2, WidthIs, Zenon
  <2>2. CASE first <= j /\ j < behind
    <3>1. j \in first .. behind - 1 /\ j \in first .. 8 - (n - b)
      BY <1>8, <2>2
    <3> QED BY <1>8, <1>9, <3>1, Zenon
  <2>3. CASE behind <= j
    <3>1. PICK i \in b + 1 .. n : 8 - (n - i) = j
      <4>1. j - 8 + n \in b + 1 .. n /\ 8 - (n - (j - 8 + n)) = j
        BY <1>8, <2>3
      <4> QED BY <4>1
    <3>2. groups[i] = HexWidth4(Group(six, j))
      BY <1>8, <3>1, Zenon DEF PrintsAs
    <3>3. Wide(Group(six, j)) /\ Fits(Group(six, j))
      BY <1>1, <2>3, Zenon DEF CleanRun, Sixteen
    <3> QED BY <1>9, <3>1, <3>2, <3>3, WidthIs, Zenon
  <2> QED BY <1>8, <2>1, <2>2, <2>3
<1>11. \A j \in 1 .. 8 : GroupAt(d, j) = Group(six, j)
  BY Zenon DEF Group, GroupAt
<1>12. \A j \in 1 .. 8 : GroupAt(x, j) = GroupAt(d, j)
  BY <1>7, <1>10, <1>11, Zenon
<1>13. x = d
  BY <1>7, <1>12, SameGroups, Zenon
<1> QED BY <1>3, <1>7, <1>13, Zenon

\* What is read from an address that was printed in groups.
LEMMA PrintedGroupsAreRead ==
    ASSUME NEW six, NEW d \in [1 .. 16 -> Byte], six.data = d,
           \E i \in 1 .. 8 : Group(six, i) # 0
    PROVE  InetPton6(Colons(PrintedGroups(six), <<>>)) = IF Plain(six) THEN d ELSE <<>>
<1>1. Sixteen(six)
  BY GroupsFit, Zenon
<1>2. PICK first, behind, b : RunOf(six, first, behind, b) /\ PrintsAs(PrintedGroups(six), six, first, behind, b)
  BY <1>1, PrintedRun, Zenon
<1>3. ~(first = 1 /\ behind = 9)
  <2> SUFFICES ASSUME first = 1, behind = 9 PROVE FALSE
      OBVIOUS
  <2>1. 9 - 1 = 8
    OBVIOUS
  <2>2. \A j \in 1 .. 8 : Group(six, j) = 0
    BY <1>2, <2>1, Zenon DEF RunOf
  <2> QED BY <2>2, Zenon
<1>4. CleanRun(six, first, behind) <=> Plain(six)
  BY <1>2, CleanIsPlain, Zenon
<1>5. CASE Plain(six)
  BY <1>2, <1>3, <1>4, <1>5, CleanComesBack, Zenon
<1>6. CASE ~Plain(six)
  BY <1>1, <1>2, <1>4, <1>6, BlankIsNone, Zenon
<1> QED BY <1>5, <1>6, Zenon

LEMMA UpFromOne ==
    ASSUME NEW n \in Nat, 1 <= n
    PROVE  Cardinality(1 .. n) = n
<1>1. Cardinality(1 .. n) = IF 1 > n THEN 0 ELSE n - 1 + 1
  BY FS_Interval
<1> QED BY <1>1

\* The two texts of nothing but empty groups.
LEMMA TwoEmpties ==
    ASSUME NEW q \in [1 .. 4 -> Byte]
    PROVE  LET data == InetPton6(Colons(<<<<>>, <<>>>>, q))
           IN  data \in [1 .. 16 -> Byte] /\ (\A j \in 1 .. 6 : GroupAt(data, j) = 0)
               /\ \A i \in 1 .. 4 : data[12 + i] = q[i]
<1>1. PICK groups : groups = <<<<>>, <<>>>>
  OBVIOUS
<1>2. groups \in Seq(Seq(0 .. Blank)) /\ Len(groups) = 2 /\ groups[1] = <<>> /\ groups[2] = <<>>
  <2>1. <<>> \in Seq(0 .. Blank)
    OBVIOUS
  <2> QED BY <1>1, <2>1
<1>3. PICK shown : shown = Colons(groups, q) /\ shown.groups = groups /\ shown.tail = q
  <2>1. Colons(groups, q).groups = groups /\ Colons(groups, q).tail = q
    BY ColonsIs, Zenon
  <2> QED BY <2>1, Zenon
<1>4. q # <<>>
  <2>1. Len(q) = 4
    BY SequencesOfBytes
  <2>2. Len(<<>>) # 4
    OBVIOUS
  <2> QED BY <2>1, <2>2, Zenon
<1>5. IsText(shown) /\ Wanted(shown) = 6
  <2>1. q \in {<<>>} \cup [1 .. 4 -> Byte]
    OBVIOUS
  <2> QED BY <1>2, <1>3, <1>4, <2>1, Zenon DEF IsText, Wanted
<1>6. \A i \in 1 .. Len(groups) : groups[i] = <<>>
  <2>1. \A i \in 1 .. 2 : i = 1 \/ i = 2
    OBVIOUS
  <2> QED BY <1>2, <2>1, Zenon
<1>7. IsGroup(<<>>)
  BY DEF IsGroup, Contains
<1>8. GroupsReadable(groups) /\ \A i \in 1 .. Len(groups) : Fits(Number(groups[i]))
  BY <1>6, <1>7, Stripped, Zenon DEF GroupsReadable, IsGroup
<1>9. Gap(groups) = 1 .. 2 /\ Gap(groups) = {1, 2}
  <2>1. Gap(groups) = 1 .. 2
    BY <1>2, <1>6 DEF Gap
  <2> QED BY <2>1
<1>10. Given(groups) = 0
  <2>1. Cardinality(1 .. 2) = 2
    <3>1. 2 \in Nat /\ 1 <= 2
      OBVIOUS
    <3> QED BY <3>1, UpFromOne, Zenon
  <2> QED BY <1>2, <1>9, <2>1 DEF Given
<1>11. Shape(groups, 6, 1, 2)
  <2>1. 1 \in 1 .. 2 + 1 /\ 2 \in 1 - 1 .. 2 /\ 2 \in Nat /\ 6 \in Nat /\ ~(1 > 2) /\ 2 - (2 - 1 + 1) <= 6
    OBVIOUS
  <2> QED BY <1>2, <1>8, <1>9, <2>1, Zenon DEF Shape
<1>12. FillsIt(shown)
  <2>1. Len(shown.groups) + (IF shown.tail = <<>> THEN 0 ELSE 1) = 3
    <3>1. shown.tail # <<>>
      BY <1>3, <1>4, Zenon
    <3>2. Len(shown.groups) = 2
      BY <1>2, <1>3, Zenon
    <3> QED BY <3>1, <3>2
  <2>2. 3 > 2 /\ 0 < 6
    OBVIOUS
  <2>3. OneGap(shown)
    BY <1>3, <1>9, <2>1, <2>2, Zenon DEF OneGap
  <2> QED BY <1>3, <1>5, <1>10, <2>2, <2>3, Zenon DEF FillsIt
<1>13. PICK v : Says(groups, 6, 1, 2, v) /\ DataSays(shown, v, InetPton6(shown))
  BY <1>3, <1>5, <1>8, <1>11, <1>12, ReadData, Zenon
<1>14. \A j \in 1 .. 6 : v[j] = 0
  <2>1. 6 - (2 - 2) = 6
    OBVIOUS
  <2> QED BY <1>2, <1>13, <2>1, Zenon DEF Says
<1>15. 16 - 2 * 6 = 4 /\ 2 * 6 = 12
  OBVIOUS
<1>16. PICK data : /\ data = InetPton6(shown) /\ data \in [1 .. 16 -> Byte]
                   /\ \A j \in 1 .. 6 : GroupAt(data, j) = v[j]
                   /\ \A i \in 1 .. 4 : data[12 + i] = q[i]
  <2>1. PICK data : data = InetPton6(shown)
    OBVIOUS
  <2>2. /\ data \in [1 .. 16 -> Byte] /\ \A j \in 1 .. 6 : GroupAt(data, j) = v[j]
        /\ \A i \in 1 .. 16 - 2 * 6 : data[2 * 6 + i] = q[i]
    BY <1>3, <1>5, <1>13, <2>1, Zenon DEF DataSays
  <2>3. \A i \in 1 .. 4 : data[12 + i] = q[i]
    BY <1>15, <2>2
  <2> QED BY <2>1, <2>2, <2>3, Zenon
<1> QED BY <1>1, <1>3, <1>14, <1>16, Zenon

LEMMA ThreeEmpties ==
    LET data == InetPton6(Colons(<<<<>>, <<>>, <<>>>>, <<>>))
    IN  data \in [1 .. 16 -> Byte] /\ \A j \in 1 .. 8 : GroupAt(data, j) = 0
<1>1. PICK groups : groups = <<<<>>, <<>>, <<>>>>
  OBVIOUS
<1>2. groups \in Seq(Seq(0 .. Blank)) /\ Len(groups) = 3 /\ groups[1] = <<>> /\ groups[2] = <<>> /\ groups[3] = <<>>
  <2>1. <<>> \in Seq(0 .. Blank)
    OBVIOUS
  <2> QED BY <1>1, <2>1
<1>3. PICK shown : shown = Colons(groups, <<>>) /\ shown.groups = groups /\ shown.tail = <<>>
  <2>1. Colons(groups, <<>>).groups = groups /\ Colons(groups, <<>>).tail = <<>>
    BY ColonsIs, Zenon
  <2> QED BY <2>1, Zenon
<1>5. IsText(shown) /\ Wanted(shown) = 8
  <2>1. <<>> \in {<<>>} \cup [1 .. 4 -> Byte]
    OBVIOUS
  <2> QED BY <1>2, <1>3, <2>1, Zenon DEF IsText, Wanted
<1>6. \A i \in 1 .. Len(groups) : groups[i] = <<>>
  <2>1. \A i \in 1 .. 3 : i = 1 \/ i = 2 \/ i = 3
    OBVIOUS
  <2> QED BY <1>2, <2>1, Zenon
<1>7. IsGroup(<<>>)
  BY DEF IsGroup, Contains
<1>8. GroupsReadable(groups) /\ \A i \in 1 .. Len(groups) : Fits(Number(groups[i]))
  BY <1>6, <1>7, Stripped, Zenon DEF GroupsReadable, IsGroup
<1>9. Gap(groups) = 1 .. 3 /\ Gap(groups) = {1, 2, 3}
  <2>1. Gap(groups) = 1 .. 3
    BY <1>2, <1>6 DEF Gap
  <2> QED BY <2>1
<1>10. Given(groups) = 0
  <2>1. Cardinality(1 .. 3) = 3
    <3>1. 3 \in Nat /\ 1 <= 3
      OBVIOUS
    <3> QED BY <3>1, UpFromOne, Zenon
  <2> QED BY <1>2, <1>9, <2>1 DEF Given
<1>11. Shape(groups, 8, 1, 3)
  <2>1. 1 \in 1 .. 3 + 1 /\ 3 \in 1 - 1 .. 3 /\ 3 \in Nat /\ 8 \in Nat /\ ~(1 > 3) /\ 3 - (3 - 1 + 1) <= 8
    OBVIOUS
  <2> QED BY <1>2, <1>8, <1>9, <2>1, Zenon DEF Shape
<1>12. FillsIt(shown)
  <2>1. Len(shown.groups) + (IF shown.tail = <<>> THEN 0 ELSE 1) = 3
    BY <1>2, <1>3
  <2>2. 0 < 8
    OBVIOUS
  <2>3. OneGap(shown)
    BY <1>3, <1>9, <2>1, Zenon DEF OneGap
  <2> QED BY <1>3, <1>5, <1>10, <2>2, <2>3, Zenon DEF FillsIt
<1>13. PICK v : Says(groups, 8, 1, 3, v) /\ DataSays(shown, v, InetPton6(shown))
  BY <1>3, <1>5, <1>8, <1>11, <1>12, ReadData, Zenon
<1>14. \A j \in 1 .. 8 : v[j] = 0
  <2>1. 8 - (3 - 3) = 8
    OBVIOUS
  <2> QED BY <1>2, <1>13, <2>1, Zenon DEF Says
<1>16. PICK data : /\ data = InetPton6(shown) /\ data \in [1 .. 16 -> Byte]
                   /\ \A j \in 1 .. 8 : GroupAt(data, j) = v[j]
  BY <1>3, <1>5, <1>13, Zenon DEF DataSays
<1> QED BY <1>1, <1>3, <1>14, <1>16, Zenon

-----------------------------------------------------------------------------
(* The IPv6 address that is listened on.                                   *)

Ones(n) == n = 65535
OneFirst(n) == n = 256
LEMMA BytesOfGroup ==
    ASSUME NEW d \in [1 .. 16 -> Byte], NEW j \in 1 .. 8
    PROVE  /\ GroupAt(d, j) = 0 <=> d[2 * j - 1] = 0 /\ d[2 * j] = 0
           /\ Ones(GroupAt(d, j)) <=> d[2 * j - 1] = 255 /\ d[2 * j] = 255
           /\ OneFirst(GroupAt(d, j)) <=> d[2 * j - 1] = 1 /\ d[2 * j] = 0
<1>1. 2 * j - 1 \in 1 .. 16 /\ 2 * j \in 1 .. 16
  OBVIOUS
<1>2. d[2 * j - 1] \in Byte /\ d[2 * j] \in Byte
  BY <1>1, Zenon
<1>3. PICK x \in Nat : x = d[2 * j - 1] /\ x <= 255
  BY <1>2, ByteIs
<1>4. PICK y \in Nat : y = d[2 * j] /\ y <= 255
  BY <1>2, ByteIs
<1>5. PICK g : g = GroupAt(d, j) /\ g = 256 * x + y
  BY <1>3, <1>4, Zenon DEF GroupAt
<1>6. /\ g = 0 <=> x = 0 /\ y = 0
      /\ Ones(g) <=> x = 255 /\ y = 255
      /\ OneFirst(g) <=> x = 1 /\ y = 0
  <2>0. /\ 256 * x + y = 0 <=> x = 0 /\ y = 0
        /\ 256 * x + y = 65535 <=> x = 255 /\ y = 255
        /\ 256 * x + y = 256 <=> x = 1 /\ y = 0
    BY <1>3, <1>4
  <2>1. g = 0 <=> x = 0 /\ y = 0
    BY <1>5, <2>0
  <2>2. Ones(g) <=> x = 255 /\ y = 255
    BY <1>5, <2>0 DEF Ones
  <2>3. OneFirst(g) <=> x = 1 /\ y = 0
    BY <1>5, <2>0 DEF OneFirst
  <2> QED BY <2>1, <2>2, <2>3, Zenon
<1> QED BY <1>3, <1>4, <1>5, <1>6, Zenon

\* What to_string() asks of the words, in terms of the groups.
Embeds(six) == (IsIpv4Compatible(six) /\ ~IsLoopback(six)) \/ IsIpv4Mapped(six)
EmbedsGroups(d) ==
    /\ \A j \in 1 .. 4 : GroupAt(d, j) = 0
    /\ GroupAt(d, 6) = 0 /\ (GroupAt(d, 5) = 0 \/ Ones(GroupAt(d, 5)))
    /\ ~(GroupAt(d, 5) = 0 /\ OneFirst(GroupAt(d, 7)) /\ GroupAt(d, 8) = 0)

LEMMA SixIps ==
    ASSUME NEW d \in [1 .. 16 -> Byte]
    PROVE  /\ Ip("V6", d) \in Ips /\ Ip("V6", d).family = "V6" /\ Ip("V6", d).data = d
           /\ Host(Ip("V6", d)) = Ip("V6", d) /\ Length(Ip("V6", d)) = 16
<1>1. PICK six : six = Ip("V6", d)
  OBVIOUS
<1>2. six = [family |-> "V6", data |-> d]
  BY <1>1, Zenon DEF Ip
<1>3. six \in [family : {"V6"}, data : [1 .. 16 -> Byte]] /\ six.family = "V6" /\ six.data = d
  BY <1>2
<1>4. six \in Ips
  BY <1>3, Zenon DEF Ips
<1>5. Host(six) = six
  <2>1. "V6" # "V4"
    OBVIOUS
  <2> QED BY <1>3, <2>1, Zenon DEF Host, FromSockaddr
<1>6. Length(six) = 16
  BY <1>3, Zenon DEF Length
<1> QED BY <1>1, <1>3, <1>4, <1>5, <1>6, Zenon

LEMMA EmbedsIs ==
    ASSUME NEW d \in [1 .. 16 -> Byte], NEW six, six = Ip("V6", d)
    PROVE  Embeds(six) <=> EmbedsGroups(d)
<1>1. six \in Ips /\ six.data = d /\ Length(six) = 16
  BY SixIps, Zenon
<1>2. \A k \in 1 .. 4 : Word(six, k) = <<d[4 * k], d[4 * k - 1], d[4 * k - 2], d[4 * k - 3]>>
  <2>1. 16 \div 4 = 4
    OBVIOUS
  <2>2. \A k \in 1 .. 4 : k \in 1 .. (Length(six) \div 4)
    BY <1>1, <2>1
  <2> QED BY <1>1, <2>2, WordIs, Zenon
<1>3. /\ Word(six, 1) = <<d[4], d[3], d[2], d[1]>>
      /\ Word(six, 2) = <<d[8], d[7], d[6], d[5]>>
      /\ Word(six, 3) = <<d[12], d[11], d[10], d[9]>>
      /\ Word(six, 4) = <<d[16], d[15], d[14], d[13]>>
  BY <1>2
<1>4. /\ Word(six, 1) = Zero <=> d[1] = 0 /\ d[2] = 0 /\ d[3] = 0 /\ d[4] = 0
      /\ Word(six, 2) = Zero <=> d[5] = 0 /\ d[6] = 0 /\ d[7] = 0 /\ d[8] = 0
      /\ Word(six, 3) = Zero <=> d[9] = 0 /\ d[10] = 0 /\ d[11] = 0 /\ d[12] = 0
      /\ Word(six, 3) = <<0, 0, 255, 255>> <=> d[9] = 255 /\ d[10] = 255 /\ d[11] = 0 /\ d[12] = 0
      /\ Word(six, 4) = <<0, 0, 0, 1>> <=> d[13] = 1 /\ d[14] = 0 /\ d[15] = 0 /\ d[16] = 0
  BY <1>3 DEF Zero
<1>5. /\ GroupAt(d, 1) = 0 <=> d[1] = 0 /\ d[2] = 0
      /\ GroupAt(d, 2) = 0 <=> d[3] = 0 /\ d[4] = 0
      /\ GroupAt(d, 3) = 0 <=> d[5] = 0 /\ d[6] = 0
      /\ GroupAt(d, 4) = 0 <=> d[7] = 0 /\ d[8] = 0
      /\ GroupAt(d, 5) = 0 <=> d[9] = 0 /\ d[10] = 0
      /\ Ones(GroupAt(d, 5)) <=> d[9] = 255 /\ d[10] = 255
      /\ GroupAt(d, 6) = 0 <=> d[11] = 0 /\ d[12] = 0
      /\ OneFirst(GroupAt(d, 7)) <=> d[13] = 1 /\ d[14] = 0
      /\ GroupAt(d, 8) = 0 <=> d[15] = 0 /\ d[16] = 0
  <2>1. /\ 1 \in 1 .. 8 /\ 2 * 1 - 1 = 1 /\ 2 * 1 = 2
        /\ 2 \in 1 .. 8 /\ 2 * 2 - 1 = 3 /\ 2 * 2 = 4
        /\ 3 \in 1 .. 8 /\ 2 * 3 - 1 = 5 /\ 2 * 3 = 6
        /\ 4 \in 1 .. 8 /\ 2 * 4 - 1 = 7 /\ 2 * 4 = 8
    OBVIOUS
  <2>2. /\ 5 \in 1 .. 8 /\ 2 * 5 - 1 = 9 /\ 2 * 5 = 10
        /\ 6 \in 1 .. 8 /\ 2 * 6 - 1 = 11 /\ 2 * 6 = 12
        /\ 7 \in 1 .. 8 /\ 2 * 7 - 1 = 13 /\ 2 * 7 = 14
        /\ 8 \in 1 .. 8 /\ 2 * 8 - 1 = 15 /\ 2 * 8 = 16
    OBVIOUS
  <2>3. /\ GroupAt(d, 1) = 0 <=> d[1] = 0 /\ d[2] = 0
        /\ GroupAt(d, 2) = 0 <=> d[3] = 0 /\ d[4] = 0
        /\ GroupAt(d, 3) = 0 <=> d[5] = 0 /\ d[6] = 0
        /\ GroupAt(d, 4) = 0 <=> d[7] = 0 /\ d[8] = 0
    BY <2>1, BytesOfGroup
  <2>4. /\ GroupAt(d, 5) = 0 <=> d[9] = 0 /\ d[10] = 0
        /\ Ones(GroupAt(d, 5)) <=> d[9] = 255 /\ d[10] = 255
        /\ GroupAt(d, 6) = 0 <=> d[11] = 0 /\ d[12] = 0
        /\ OneFirst(GroupAt(d, 7)) <=> d[13] = 1 /\ d[14] = 0
        /\ GroupAt(d, 8) = 0 <=> d[15] = 0 /\ d[16] = 0
    BY <2>2, BytesOfGroup
  <2> QED BY <2>3, <2>4, Zenon
<1>6. IsIpv4Compatible(six) <=> Word(six, 1) = Zero /\ Word(six, 2) = Zero /\ Word(six, 3) = Zero
  <2>1. \A k \in 1 .. 3 : k = 1 \/ k = 2 \/ k = 3
    OBVIOUS
  <2>2. 1 \in 1 .. 3 /\ 2 \in 1 .. 3 /\ 3 \in 1 .. 3
    OBVIOUS
  <2> QED BY <2>1, <2>2, Zenon DEF IsIpv4Compatible
<1>7. (\A j \in 1 .. 4 : GroupAt(d, j) = 0)
          <=> GroupAt(d, 1) = 0 /\ GroupAt(d, 2) = 0 /\ GroupAt(d, 3) = 0 /\ GroupAt(d, 4) = 0
  <2>1. \A k \in 1 .. 4 : k = 1 \/ k = 2 \/ k = 3 \/ k = 4
    OBVIOUS
  <2>2. 1 \in 1 .. 4 /\ 2 \in 1 .. 4 /\ 3 \in 1 .. 4 /\ 4 \in 1 .. 4
    OBVIOUS
  <2> QED BY <2>1, <2>2, Zenon
<1> DEFINE E == /\ GroupAt(d, 1) = 0 /\ GroupAt(d, 2) = 0 /\ GroupAt(d, 3) = 0 /\ GroupAt(d, 4) = 0 /\ GroupAt(d, 6) = 0
<1>8. IsIpv4Compatible(six) <=> E /\ GroupAt(d, 5) = 0
  BY <1>4, <1>5, <1>6, Zenon
<1>9. IsIpv4Mapped(six) <=> E /\ Ones(GroupAt(d, 5))
  BY <1>4, <1>5, Zenon DEF IsIpv4Mapped
<1>10. IsLoopback(six) <=> E /\ GroupAt(d, 5) = 0 /\ OneFirst(GroupAt(d, 7)) /\ GroupAt(d, 8) = 0
  BY <1>4, <1>5, <1>8, Zenon DEF IsLoopback
<1>11. ~(GroupAt(d, 5) = 0 /\ Ones(GroupAt(d, 5)))
  BY DEF Ones
<1>12. EmbedsGroups(d) <=>
           /\ E /\ (GroupAt(d, 5) = 0 \/ Ones(GroupAt(d, 5)))
           /\ ~(GroupAt(d, 5) = 0 /\ OneFirst(GroupAt(d, 7)) /\ GroupAt(d, 8) = 0)
  BY <1>7, Zenon DEF EmbedsGroups
<1> HIDE DEF E
<1> QED BY <1>8, <1>9, <1>10, <1>11, <1>12, Zenon DEF Embeds

\* What is bound of an address of IPv6 that was printed.
KeptTail(d) == [i \in 1 .. 16 |-> IF i > 13 /\ d[13] = 0 THEN d[i] ELSE 0]
LEMMA TailIsKept ==
    ASSUME NEW d \in [1 .. 16 -> Byte], NEW e \in [1 .. 16 -> Byte],
           \A j \in 1 .. 6 : GroupAt(e, j) = 0,
           \/ d[13] = 0 /\ \A i \in 1 .. 4 : e[12 + i] = d[12 + i]
           \/ d[13] # 0 /\ \A j \in 1 .. 8 : GroupAt(e, j) = 0
    PROVE  e = KeptTail(d)
<1>1. \A j \in 1 .. 8 : GroupAt(e, j) = 0 => e[2 * j - 1] = 0 /\ e[2 * j] = 0
  BY BytesOfGroup, Zenon
<1>2. \A i \in 1 .. 16 : \E j \in 1 .. 8 : (i = 2 * j - 1 \/ i = 2 * j) /\ (i <= 12 => j \in 1 .. 6)
  <2> TAKE i \in 1 .. 16
  <2>1. PICK j \in 1 .. 8 : j = (i + 1) \div 2
    OBVIOUS
  <2>2. (i = 2 * j - 1 \/ i = 2 * j) /\ (i <= 12 => j \in 1 .. 6)
    BY <2>1
  <2> QED BY <2>2, Zenon
<1>3. \A i \in 1 .. 16 : i <= 12 => e[i] = 0
  BY <1>1, <1>2, Zenon
<1>4. \A i \in 1 .. 16 : ~(i <= 12) => i - 12 \in 1 .. 4 /\ 12 + (i - 12) = i
  OBVIOUS
<1>5. \A i \in 1 .. 16 : i > 13 => ~(i <= 12)
  OBVIOUS
<1>6. \A i \in 1 .. 16 : ~(i > 13) => i <= 12 \/ i = 13
  OBVIOUS
<1>7. \A i \in 1 .. 16 : e[i] = IF i > 13 /\ d[13] = 0 THEN d[i] ELSE 0
  <2> TAKE i \in 1 .. 16
  <2>1. CASE d[13] = 0
    <3>1. ~(i <= 12) => e[i] = d[i]
      BY <1>4, <2>1, Zenon
    <3> QED BY <1>3, <1>5, <1>6, <2>1, <3>1, Zenon
  <2>2. CASE d[13] # 0
    <3>1. e[i] = 0
      BY <1>1, <1>2, <2>2, Zenon
    <3> QED BY <2>2, <3>1, Zenon
  <2> QED BY <2>1, <2>2, Zenon
<1>8. e = [i \in 1 .. 16 |-> e[i]]
  OBVIOUS
<1> QED BY <1>7, <1>8 DEF KeptTail

LEMMA NotNone ==
    ASSUME NEW d \in [1 .. 16 -> Byte]
    PROVE  d # <<>>
<1>1. Len(d) = 16
  BY SequencesOfBytes
<1>2. Len(<<>>) # 16
  OBVIOUS
<1> QED BY <1>1, <1>2, Zenon

LEMMA BoundOfText ==
    ASSUME NEW shown, shown.form = "colons"
    PROVE  Bound(GetAddrInfo(shown)) = IF InetPton6(shown) = <<>> THEN Nothing ELSE Ip("V6", InetPton6(shown))
<1>1. GetAddrInfo(shown) = IF InetPton6(shown) = <<>> THEN <<>> ELSE <<Ip("V6", InetPton6(shown))>>
  BY DEF GetAddrInfo
<1>2. PICK x : x = Ip("V6", InetPton6(shown))
  OBVIOUS
<1>3. <<x>> # <<>> /\ <<x>>[1] = x
  OBVIOUS
<1> QED BY <1>1, <1>2, <1>3, Zenon DEF Bound

LEMMA TextOfSix ==
    ASSUME NEW d \in [1 .. 16 -> Byte], NEW six, six = Ip("V6", d)
    PROVE  IpText(six) =
               IF Embeds(six)
               THEN IF d[13] = 0 THEN Colons(<<<<>>, <<>>>>, SubSeq(d, 13, 16))
                                 ELSE Colons(<<<<>>, <<>>, <<>>>>, <<>>)
               ELSE Colons(PrintedGroups(six), <<>>)
<1>1. six.family = "V6" /\ six.data = d /\ "V6" # "V4"
  <2>1. "V6" # "V4"
    OBVIOUS
  <2> QED BY <2>1, SixIps, Zenon
<1>2. CASE Embeds(six)
  <2>1. Group(six, 6) = 0
    <3>1. GroupAt(d, 6) = 0
      BY <1>2, EmbedsIs, Zenon DEF EmbedsGroups
    <3> QED BY <1>1, <3>1, Zenon DEF Group, GroupAt
  <2>2. <<<<>>, <<>>>> \o <<<<>>>> = <<<<>>, <<>>, <<>>>>
    <3>1. PICK e : e = <<>>
      OBVIOUS
    <3>2. PICK x : x = <<e, e>> /\ x \in Seq({e}) /\ Len(x) = 2 /\ x[1] = e /\ x[2] = e
      <4>1. <<e, e>> \in Seq({e}) /\ Len(<<e, e>>) = 2 /\ <<e, e>>[1] = e /\ <<e, e>>[2] = e
        OBVIOUS
      <4> QED BY <4>1, Zenon
    <3>3. PICK y : y = <<e>> /\ y \in Seq({e}) /\ Len(y) = 1 /\ y[1] = e
      <4>1. <<e>> \in Seq({e}) /\ Len(<<e>>) = 1 /\ <<e>>[1] = e
        OBVIOUS
      <4> QED BY <4>1, Zenon
    <3>4. PICK z : z = <<e, e, e>> /\ z \in Seq({e}) /\ Len(z) = 3 /\ z[1] = e /\ z[2] = e /\ z[3] = e
      <4>1. /\ <<e, e, e>> \in Seq({e}) /\ Len(<<e, e, e>>) = 3
            /\ <<e, e, e>>[1] = e /\ <<e, e, e>>[2] = e /\ <<e, e, e>>[3] = e
        OBVIOUS
      <4> QED BY <4>1, Zenon
    <3>5. PICK w : w = x \o y
      OBVIOUS
    <3>6. /\ w \in Seq({e}) /\ Len(w) = Len(x) + Len(y)
          /\ \A i \in 1 .. Len(x) + Len(y) : w[i] = IF i <= Len(x) THEN x[i] ELSE y[i - Len(x)]
      <4>1. /\ x \o y \in Seq({e}) /\ Len(x \o y) = Len(x) + Len(y)
            /\ \A i \in 1 .. Len(x) + Len(y) : (x \o y)[i] = IF i <= Len(x) THEN x[i] ELSE y[i - Len(x)]
        BY <3>2, <3>3, ConcatProperties
      <4> QED BY <3>5, <4>1, Zenon
    <3>7. Len(w) = 3 /\ w[1] = e /\ w[2] = e /\ w[3] = e
      BY <3>2, <3>3, <3>6
    <3>8. \A i \in 1 .. 3 : w[i] = z[i]
      <4>1. \A i \in 1 .. 3 : i = 1 \/ i = 2 \/ i = 3
        OBVIOUS
      <4> QED BY <3>4, <3>7, <4>1, Zenon
    <3>9. w = z
      BY <3>4, <3>6, <3>7, <3>8, SeqEqual
    <3> QED BY <3>1, <3>2, <3>3, <3>4, <3>5, <3>9, Zenon
  <2>3. IpText(six) = LET colons == IF Group(six, 6) = 0 THEN <<<<>>, <<>>>> ELSE <<<<>>, <<>>, <<15, 15, 15, 15>>>>
                     IN  IF six.data[13] = 0 THEN Colons(colons, SubSeq(six.data, 13, 16))
                         ELSE Colons(colons \o <<<<>>>>, <<>>)
    BY <1>1, <1>2 DEF IpText, Embeds
  <2>4. IpText(six) = IF six.data[13] = 0 THEN Colons(<<<<>>, <<>>>>, SubSeq(six.data, 13, 16))
                     ELSE Colons(<<<<>>, <<>>>> \o <<<<>>>>, <<>>)
    BY <2>1, <2>3, Zenon
  <2> QED BY <1>1, <1>2, <2>2, <2>4, Zenon
<1>3. CASE ~Embeds(six)
  <2>1. IpText(six) = Colons(PrintedGroups(six), <<>>)
    BY <1>1, <1>3 DEF IpText, Embeds
  <2> QED BY <1>3, <2>1, Zenon
<1> QED BY <1>2, <1>3, Zenon

LEMMA BoundOfSix ==
    ASSUME NEW d \in [1 .. 16 -> Byte], NEW six, six = Ip("V6", d)
    PROVE  Bound(GetAddrInfo(IpText(six))) =
               IF Embeds(six) THEN Ip("V6", KeptTail(d)) ELSE IF Plain(six) THEN six ELSE Nothing
<1>1. six.data = d
  BY SixIps, Zenon
<1>2. CASE Embeds(six) /\ d[13] = 0
  <2>1. PICK q : q = SubSeq(d, 13, 16)
    OBVIOUS
  <2>2. q = [i \in 1 .. 4 |-> d[i + 12]]
    <3>1. 16 \in Nat /\ 12 \in Nat /\ 12 + 4 <= 16 /\ 12 + 1 = 13 /\ 12 + 4 = 16
      OBVIOUS
    <3>2. SubSeq(d, 12 + 1, 12 + 4) = [i \in 1 .. 4 |-> d[i + 12]]
      BY <3>1, FourOfThem, Zenon
    <3> QED BY <2>1, <3>1, <3>2
  <2>3. \A i \in 1 .. 4 : i + 12 \in 1 .. 16 /\ i + 12 = 12 + i
    OBVIOUS
  <2>4. q \in [1 .. 4 -> Byte] /\ \A i \in 1 .. 4 : q[i] = d[12 + i]
    BY <2>2, <2>3
  <2>5. PICK shown : shown = Colons(<<<<>>, <<>>>>, q) /\ shown.form = "colons"
    <3>1. Colons(<<<<>>, <<>>>>, q).form = "colons"
      BY ColonsIs, Zenon
    <3> QED BY <3>1, Zenon
  <2>6. PICK e : /\ e = InetPton6(shown) /\ e \in [1 .. 16 -> Byte] /\ (\A j \in 1 .. 6 : GroupAt(e, j) = 0)
                 /\ \A i \in 1 .. 4 : e[12 + i] = q[i]
    BY <2>4, <2>5, TwoEmpties, Zenon
  <2>7. e = KeptTail(d)
    <3>1. \A i \in 1 .. 4 : e[12 + i] = d[12 + i]
      BY <2>4, <2>6, Zenon
    <3> QED BY <1>2, <2>6, <3>1, TailIsKept, Zenon
  <2>8. IpText(six) = shown
    BY <1>2, <2>1, <2>5, TextOfSix, Zenon
  <2> QED BY <1>2, <2>5, <2>6, <2>7, <2>8, NotNone, BoundOfText, Zenon
<1>3. CASE Embeds(six) /\ d[13] # 0
  <2>1. PICK shown : shown = Colons(<<<<>>, <<>>, <<>>>>, <<>>) /\ shown.form = "colons"
    <3>1. Colons(<<<<>>, <<>>, <<>>>>, <<>>).form = "colons"
      BY ColonsIs, Zenon
    <3> QED BY <3>1, Zenon
  <2>2. PICK e : /\ e = InetPton6(shown) /\ e \in [1 .. 16 -> Byte] /\ \A j \in 1 .. 8 : GroupAt(e, j) = 0
    BY <2>1, ThreeEmpties, Zenon
  <2>3. e = KeptTail(d)
    <3>1. \A j \in 1 .. 6 : j \in 1 .. 8
      OBVIOUS
    <3> QED BY <1>3, <2>2, <3>1, TailIsKept, Zenon
  <2>4. IpText(six) = shown
    BY <1>3, <2>1, TextOfSix, Zenon
  <2> QED BY <1>3, <2>1, <2>2, <2>3, <2>4, NotNone, BoundOfText, Zenon
<1>4. CASE ~Embeds(six)
  <2>1. PICK shown : shown = Colons(PrintedGroups(six), <<>>) /\ shown.form = "colons"
    <3>1. Colons(PrintedGroups(six), <<>>).form = "colons"
      BY ColonsIs, Zenon
    <3> QED BY <3>1, Zenon
  <2>2. \E i \in 1 .. 8 : Group(six, i) # 0
    <3> SUFFICES ASSUME \A i \in 1 .. 8 : Group(six, i) = 0 PROVE FALSE
        BY Zenon
    <3>1. \A i \in 1 .. 8 : GroupAt(d, i) = 0
      BY <1>1, Zenon DEF Group, GroupAt
    <3>2. (\A i \in 1 .. 4 : i \in 1 .. 8) /\ 5 \in 1 .. 8 /\ 6 \in 1 .. 8 /\ 7 \in 1 .. 8 /\ ~OneFirst(0)
      BY DEF OneFirst
    <3> QED BY <1>4, <3>1, <3>2, EmbedsIs, Zenon DEF EmbedsGroups
  <2>3. InetPton6(shown) = IF Plain(six) THEN d ELSE <<>>
    BY <1>1, <2>1, <2>2, PrintedGroupsAreRead, Zenon
  <2>4. IpText(six) = shown
    BY <1>4, <2>1, TextOfSix, Zenon
  <2> QED BY <1>4, <2>1, <2>3, <2>4, NotNone, BoundOfText, Zenon
<1> QED BY <1>2, <1>3, <1>4, Zenon

\* What the listening address is told to be, in the words of the printed groups.
LEMMA UsedOfSix ==
    ASSUME OnItsWay, stage = "bound", text.host.form = "colons", InetPton6(text.host) # <<>>
    PROVE  /\ InetPton6(text.host) \in [1 .. 16 -> Byte]
           /\ LET d == InetPton6(text.host)
              IN  used = IF Embeds(Ip("V6", d)) THEN Ip("V6", KeptTail(d))
                         ELSE IF Plain(Ip("V6", d)) THEN Ip("V6", d) ELSE Nothing
<1>1. text \in Listenings /\ stored \in StoredFrom(text) /\ used \in UsedFrom(stored)
  BY Zenon DEF OnItsWay
<1>2. IsSix(text.host)
  <2>1. "colons" # "dotted" /\ "colons" # "name"
    OBVIOUS
  <2>2. text.host.groups \in Seq(Seq(0 .. Blank)) /\ text.host.tail \in {<<>>} \cup [1 .. 4 -> Byte]
    BY <1>1, <2>1, ListeningsAssumption
  <2> QED BY <2>2, Zenon DEF IsSix, IsText
<1>3. text.port # 0
  BY <1>1, PrintedAssumption, Zenon
<1>4. stored = text
  <2>1. StoredFrom(text) = {text}
    BY <1>3 DEF StoredFrom
  <2> QED BY <1>1, <2>1, Zenon
<1>5. PICK d : d = InetPton6(text.host) /\ d \in [1 .. 16 -> Byte]
  BY <1>2, SixIsData, Zenon
<1>6. PICK six : six = Ip("V6", d) /\ Host(six) = six /\ six # NoIp
  <2>1. "V6" # "none"
    OBVIOUS
  <2>2. NoIp.family = "none"
    BY DEF NoIp, Ip
  <2> QED BY <1>5, <2>1, <2>2, SixIps, Zenon
<1>7. Sockets(text.host) = {six}
  <2>1. Socket(text.host) = six
    BY <1>2, <1>5, <1>6, SocketOfSix, Zenon
  <2>2. "colons" # "name"
    OBVIOUS
  <2> QED BY <2>1, <2>2 DEF Sockets
<1>8. used = Bound(GetAddrInfo(IpText(six)))
  BY <1>1, <1>4, <1>6, <1>7, Zenon DEF UsedFrom
<1> QED BY <1>5, <1>6, <1>8, BoundOfSix, Zenon

\* The groups of the property are those that are printed, its zeros the ones
\* that are shortened.
LEMMA ListenedOnIs ==
    ASSUME NEW d \in [1 .. 16 -> Byte], NEW six, six = Ip("V6", d)
    PROVE  ListenedOn(d) = IF Embeds(six) THEN Ip("V6", KeptTail(d)) ELSE IF Plain(six) THEN six ELSE Nothing
<1>1. six.data = d
  BY SixIps, Zenon
<1>2. PICK group : group = EightGroups(d)
  OBVIOUS
<1>3. \A i \in 1 .. 8 : group[i] = GroupAt(d, i) /\ group[i] = Group(six, i)
  BY <1>1, <1>2, Zenon DEF EightGroups, GroupAt, Group
<1>4. ZerosAmong(group) = Zeros(six)
  BY <1>3, Zenon DEF ZerosAmong, Zeros
<1>5. TakenToEmbed(group) <=> Embeds(six)
  <2>1. Embeds(six) <=> EmbedsGroups(d)
    BY EmbedsIs, Zenon
  <2>2. \A n : n \in {0, 65535} <=> n = 0 \/ Ones(n)
    BY DEF Ones
  <2>3. \A n : n = 256 <=> OneFirst(n)
    BY DEF OneFirst
  <2>4. /\ (\A i \in 1 .. 4 : i \in 1 .. 8) /\ 5 \in 1 .. 8 /\ 6 \in 1 .. 8 /\ 7 \in 1 .. 8 /\ 8 \in 1 .. 8
    OBVIOUS
  <2>5. PICK zeros : zeros = ZerosAmong(group) /\ \A i \in 1 .. 8 : i \in zeros <=> group[i] = 0
    <3>1. \A i \in 1 .. 8 : i \in ZerosAmong(group) <=> group[i] = 0
      BY DEF ZerosAmong
    <3> QED BY <3>1, Zenon
  <2>6. TakenToEmbed(group) <=>
            /\ 1 .. 4 \subseteq zeros /\ 6 \in zeros /\ (group[5] = 0 \/ Ones(group[5]))
            /\ ~(5 \in zeros /\ OneFirst(group[7]) /\ group[8] = 0)
    BY <2>2, <2>3, <2>5 DEF TakenToEmbed
  <2>7. 1 .. 4 \subseteq zeros <=> \A j \in 1 .. 4 : GroupAt(d, j) = 0
    BY <1>3, <2>4, <2>5, Zenon
  <2>8. /\ 6 \in zeros <=> GroupAt(d, 6) = 0
        /\ 5 \in zeros <=> GroupAt(d, 5) = 0
        /\ group[5] = GroupAt(d, 5) /\ group[7] = GroupAt(d, 7) /\ group[8] = GroupAt(d, 8)
    BY <1>3, <2>4, <2>5, Zenon
  <2> QED BY <2>1, <2>6, <2>7, <2>8, Zenon DEF EmbedsGroups
<1>6. PrintsUnchanged(group) <=> Plain(six)
  <2>1. \A n : n >= 4096 <=> Wide(n)
    BY DEF Wide
  <2>2. PICK zeros : zeros = ZerosAmong(group)
    OBVIOUS
  <2>3. PrintsUnchanged(group) <=>
            /\ \A i \in 1 .. 8 : group[i] = 0 \/ Wide(group[i])
            /\ zeros # {} => zeros = Min(zeros) .. Max(zeros) /\ Cardinality(zeros) > 1
    BY <2>1, <2>2 DEF PrintsUnchanged
  <2> QED BY <1>3, <1>4, <2>2, <2>3, Zenon DEF Plain
<1>7. ListenedOn(d) = CASE TakenToEmbed(group) -> Ip("V6", KeptTail(d))
                        [] ~TakenToEmbed(group) /\ PrintsUnchanged(group)  -> six
                        [] ~TakenToEmbed(group) /\ ~PrintsUnchanged(group) -> Nothing
  BY <1>2, Zenon DEF ListenedOn, KeptTail
<1> QED BY <1>5, <1>6, <1>7

\* An address of IPv6 is listened on, or none, or the one it is taken to embed,
\* whatever is configured for it.
THEOREM SixBound == Spec => []SixListening
<1>1. OnItsWay => SixListening
  <2> SUFFICES ASSUME OnItsWay, stage = "bound", text.host.form = "colons", InetPton6(text.host) # <<>>
               PROVE  used = ListenedOn(InetPton6(text.host))
    BY DEF SixListening
  <2>1. PICK d : d = InetPton6(text.host) /\ d \in [1 .. 16 -> Byte]
    BY UsedOfSix, Zenon
  <2>2. PICK six : six = Ip("V6", d)
    OBVIOUS
  <2>3. used = IF Embeds(six) THEN Ip("V6", KeptTail(d)) ELSE IF Plain(six) THEN six ELSE Nothing
    BY UsedOfSix, <2>1, <2>2, Zenon
  <2> QED BY <2>1, <2>2, <2>3, ListenedOnIs, Zenon
<1> QED BY <1>1, ListeningOnItsWay, PTL

-----------------------------------------------------------------------------
(* The classes of an address.                                              *)

\* Masking an octet.
LEMMA OctetMasks ==
    ASSUME NEW x \in Byte
    PROVE  /\ BitAnd(x, 255) = x
           /\ BitAnd(x, 0) = 0
           /\ BitAnd(x, 240) = 224 <=> x \in 224 .. 239
           /\ BitAnd(x, 240) = 240 <=> x \in 240 .. 255
           /\ BitAnd(x, 192) = 128 <=> x \in 128 .. 191
           /\ BitAnd(x, 192) = 192 <=> x \in 192 .. 255
           /\ BitAnd(x, 254) = 252 <=> x \in 252 .. 253
<1>1. /\ BitAnd(x, 256 - 1) = x - (x % 1) /\ BitAnd(x, 256 - 256) = x - (x % 256)
      /\ BitAnd(x, 256 - 16) = x - (x % 16) /\ BitAnd(x, 256 - 64) = x - (x % 64)
      /\ BitAnd(x, 256 - 2) = x - (x % 2)
  BY MasksAssumption
<1>2. /\ 256 - 1 = 255 /\ 256 - 256 = 0 /\ 256 - 16 = 240 /\ 256 - 64 = 192 /\ 256 - 2 = 254
  OBVIOUS
<1>3. /\ BitAnd(x, 255) = x - (x % 1) /\ BitAnd(x, 0) = x - (x % 256)
      /\ BitAnd(x, 240) = x - (x % 16) /\ BitAnd(x, 192) = x - (x % 64)
      /\ BitAnd(x, 254) = x - (x % 2)
  BY <1>1, <1>2
<1>4. \A y \in 0 .. 255 :
          /\ y - (y % 1) = y /\ y - (y % 256) = 0
          /\ y - (y % 16) = 224 <=> y \in 224 .. 239
          /\ y - (y % 16) = 240 <=> y \in 240 .. 255
          /\ y - (y % 64) = 128 <=> y \in 128 .. 191
          /\ y - (y % 64) = 192 <=> y \in 192 .. 255
          /\ y - (y % 2) = 252 <=> y \in 252 .. 253
  OBVIOUS
<1>5. x \in 0 .. 255
  BY DEF Byte
<1> QED BY <1>3, <1>4, <1>5

\* A word has the address of a block under its mask.
Hit(word, block) == \A i \in 1 .. 4 : BitAnd(word[i], block[3][i]) = block[2][i]

LEMMA HitIs ==
    ASSUME NEW w, NEW t
    PROVE  Hit(w, t) <=> /\ BitAnd(w[1], t[3][1]) = t[2][1] /\ BitAnd(w[2], t[3][2]) = t[2][2]
                         /\ BitAnd(w[3], t[3][3]) = t[2][3] /\ BitAnd(w[4], t[3][4]) = t[2][4]
<1>1. \A i \in 1 .. 4 : i = 1 \/ i = 2 \/ i = 3 \/ i = 4
  OBVIOUS
<1>2. 1 \in 1 .. 4 /\ 2 \in 1 .. 4 /\ 3 \in 1 .. 4 /\ 4 \in 1 .. 4
  OBVIOUS
<1> QED BY <1>1, <1>2, Zenon DEF Hit

LEMMA HitOf ==
    ASSUME NEW w, NEW name, NEW octets, NEW mask
    PROVE  /\ <<name, octets, mask>>[1] = name
           /\ Hit(w, <<name, octets, mask>>)
                <=> /\ BitAnd(w[1], mask[1]) = octets[1] /\ BitAnd(w[2], mask[2]) = octets[2]
                    /\ BitAnd(w[3], mask[3]) = octets[3] /\ BitAnd(w[4], mask[4]) = octets[4]
<1>1. PICK t : t = <<name, octets, mask>>
  OBVIOUS
<1>2. t[1] = name /\ t[2] = octets /\ t[3] = mask
  BY <1>1
<1>3. Hit(w, t) <=> /\ BitAnd(w[1], mask[1]) = octets[1] /\ BitAnd(w[2], mask[2]) = octets[2]
                    /\ BitAnd(w[3], mask[3]) = octets[3] /\ BitAnd(w[4], mask[4]) = octets[4]
  BY <1>2, HitIs
<1> QED BY <1>1, <1>2, <1>3, Zenon

LEMMA LeadingOnes ==
    /\ Zero4(1) = <<255, 0, 0, 0>> /\ Zero4(2) = <<255, 255, 0, 0>>
    /\ Zero4(3) = <<255, 255, 255, 0>> /\ Zero4(4) = <<255, 255, 255, 255>>
BY DEF Zero4

\* The blocks of IPv4 by their octets.
Octets4(w, x) ==
    \/ x = "wildcard" /\ w[1] = 0 /\ w[2] = 0 /\ w[3] = 0 /\ w[4] = 0
    \/ x = "broadcast" /\ w[1] = 255 /\ w[2] = 255 /\ w[3] = 255 /\ w[4] = 255
    \/ x = "multicast" /\ w[1] \in 224 .. 239
    \/ x = "loopback" /\ w[1] = 127
    \/ x = "linklocal" /\ w[1] = 169 /\ w[2] = 254
    \/ x = "sitelocal" /\ w[1] = 10
    \/ x = "sitelocal" /\ w[1] = 192 /\ w[2] = 168
    \/ x = "reserved" /\ w[1] \in 240 .. 255
    \/ x = "documentation" /\ w[1] = 198 /\ w[2] = 51 /\ w[3] = 100
    \/ x = "documentation" /\ w[1] = 203 /\ w[2] = 0 /\ w[3] = 113
    \/ x = "documentation" /\ w[1] = 192 /\ w[2] = 0 /\ w[3] = 2

LEMMA Members4 ==
    ASSUME NEW w \in [1 .. 4 -> Byte], NEW x
    PROVE  x \in InBlocks(w, Blocks4) <=> Octets4(w, x)
<1>0. w[1] \in Byte /\ w[2] \in Byte /\ w[3] \in Byte /\ w[4] \in Byte
  OBVIOUS
<1> DEFINE t1 == <<"wildcard", <<0, 0, 0, 0>>, Zero4(4)>>
<1>1. t1[1] = "wildcard" /\ (Hit(w, t1) <=> w[1] = 0 /\ w[2] = 0 /\ w[3] = 0 /\ w[4] = 0)
  <2>1. /\ t1[1] = "wildcard"
        /\ Hit(w, t1) <=> /\ BitAnd(w[1], 255) = 0 /\ BitAnd(w[2], 255) = 0
                          /\ BitAnd(w[3], 255) = 0 /\ BitAnd(w[4], 255) = 0
    BY HitOf, LeadingOnes
  <2> HIDE DEF t1
  <2> QED BY <1>0, <2>1, OctetMasks
<1> DEFINE t2 == <<"broadcast", Zero4(4), Zero4(4)>>
<1>2. t2[1] = "broadcast" /\ (Hit(w, t2) <=> w[1] = 255 /\ w[2] = 255 /\ w[3] = 255 /\ w[4] = 255)
  <2>1. /\ t2[1] = "broadcast"
        /\ Hit(w, t2) <=> /\ BitAnd(w[1], 255) = 255 /\ BitAnd(w[2], 255) = 255
                          /\ BitAnd(w[3], 255) = 255 /\ BitAnd(w[4], 255) = 255
    BY HitOf, LeadingOnes
  <2> HIDE DEF t2
  <2> QED BY <1>0, <2>1, OctetMasks
<1> DEFINE t3 == <<"multicast", <<224, 0, 0, 0>>, <<240, 0, 0, 0>>>>
<1>3. t3[1] = "multicast" /\ (Hit(w, t3) <=> w[1] \in 224 .. 239)
  <2>1. /\ t3[1] = "multicast"
        /\ Hit(w, t3) <=> /\ BitAnd(w[1], 240) = 224 /\ BitAnd(w[2], 0) = 0
                          /\ BitAnd(w[3], 0) = 0 /\ BitAnd(w[4], 0) = 0
    BY HitOf
  <2> HIDE DEF t3
  <2> QED BY <1>0, <2>1, OctetMasks
<1> DEFINE t4 == <<"loopback", <<127, 0, 0, 0>>, Zero4(1)>>
<1>4. t4[1] = "loopback" /\ (Hit(w, t4) <=> w[1] = 127)
  <2>1. /\ t4[1] = "loopback"
        /\ Hit(w, t4) <=> /\ BitAnd(w[1], 255) = 127 /\ BitAnd(w[2], 0) = 0
                          /\ BitAnd(w[3], 0) = 0 /\ BitAnd(w[4], 0) = 0
    BY HitOf, LeadingOnes
  <2> HIDE DEF t4
  <2> QED BY <1>0, <2>1, OctetMasks
<1> DEFINE t5 == <<"linklocal", <<169, 254, 0, 0>>, Zero4(2)>>
<1>5. t5[1] = "linklocal" /\ (Hit(w, t5) <=> w[1] = 169 /\ w[2] = 254)
  <2>1. /\ t5[1] = "linklocal"
        /\ Hit(w, t5) <=> /\ BitAnd(w[1], 255) = 169 /\ BitAnd(w[2], 255) = 254
                          /\ BitAnd(w[3], 0) = 0 /\ BitAnd(w[4], 0) = 0
    BY HitOf, LeadingOnes
  <2> HIDE DEF t5
  <2> QED BY <1>0, <2>1, OctetMasks
<1> DEFINE t6 == <<"sitelocal", <<10, 0, 0, 0>>, Zero4(1)>>
<1>6. t6[1] = "sitelocal" /\ (Hit(w, t6) <=> w[1] = 10)
  <2>1. /\ t6[1] = "sitelocal"
        /\ Hit(w, t6) <=> /\ BitAnd(w[1], 255) = 10 /\ BitAnd(w[2], 0) = 0
                          /\ BitAnd(w[3], 0) = 0 /\ BitAnd(w[4], 0) = 0
    BY HitOf, LeadingOnes
  <2> HIDE DEF t6
  <2> QED BY <1>0, <2>1, OctetMasks
<1> DEFINE t7 == <<"sitelocal", <<192, 168, 0, 0>>, Zero4(2)>>
<1>7. t7[1] = "sitelocal" /\ (Hit(w, t7) <=> w[1] = 192 /\ w[2] = 168)
  <2>1. /\ t7[1] = "sitelocal"
        /\ Hit(w, t7) <=> /\ BitAnd(w[1], 255) = 192 /\ BitAnd(w[2], 255) = 168
                          /\ BitAnd(w[3], 0) = 0 /\ BitAnd(w[4], 0) = 0
    BY HitOf, LeadingOnes
  <2> HIDE DEF t7
  <2> QED BY <1>0, <2>1, OctetMasks
<1> DEFINE t8 == <<"reserved", <<240, 0, 0, 0>>, <<240, 0, 0, 0>>>>
<1>8. t8[1] = "reserved" /\ (Hit(w, t8) <=> w[1] \in 240 .. 255)
  <2>1. /\ t8[1] = "reserved"
        /\ Hit(w, t8) <=> /\ BitAnd(w[1], 240) = 240 /\ BitAnd(w[2], 0) = 0
                          /\ BitAnd(w[3], 0) = 0 /\ BitAnd(w[4], 0) = 0
    BY HitOf
  <2> HIDE DEF t8
  <2> QED BY <1>0, <2>1, OctetMasks
<1> DEFINE t9 == <<"documentation", <<198, 51, 100, 0>>, Zero4(3)>>
<1>9. t9[1] = "documentation" /\ (Hit(w, t9) <=> w[1] = 198 /\ w[2] = 51 /\ w[3] = 100)
  <2>1. /\ t9[1] = "documentation"
        /\ Hit(w, t9) <=> /\ BitAnd(w[1], 255) = 198 /\ BitAnd(w[2], 255) = 51
                          /\ BitAnd(w[3], 255) = 100 /\ BitAnd(w[4], 0) = 0
    BY HitOf, LeadingOnes
  <2> HIDE DEF t9
  <2> QED BY <1>0, <2>1, OctetMasks
<1> DEFINE t10 == <<"documentation", <<203, 0, 113, 0>>, Zero4(3)>>
<1>10. t10[1] = "documentation" /\ (Hit(w, t10) <=> w[1] = 203 /\ w[2] = 0 /\ w[3] = 113)
  <2>1. /\ t10[1] = "documentation"
        /\ Hit(w, t10) <=> /\ BitAnd(w[1], 255) = 203 /\ BitAnd(w[2], 255) = 0
                          /\ BitAnd(w[3], 255) = 113 /\ BitAnd(w[4], 0) = 0
    BY HitOf, LeadingOnes
  <2> HIDE DEF t10
  <2> QED BY <1>0, <2>1, OctetMasks
<1> DEFINE t11 == <<"documentation", <<192, 0, 2, 0>>, Zero4(3)>>
<1>11. t11[1] = "documentation" /\ (Hit(w, t11) <=> w[1] = 192 /\ w[2] = 0 /\ w[3] = 2)
  <2>1. /\ t11[1] = "documentation"
        /\ Hit(w, t11) <=> /\ BitAnd(w[1], 255) = 192 /\ BitAnd(w[2], 255) = 0
                          /\ BitAnd(w[3], 255) = 2 /\ BitAnd(w[4], 0) = 0
    BY HitOf, LeadingOnes
  <2> HIDE DEF t11
  <2> QED BY <1>0, <2>1, OctetMasks
<1>12. \A c : c \in Blocks4
        <=> c = t1 \/ c = t2 \/ c = t3 \/ c = t4 \/ c = t5 \/ c = t6 \/ c = t7 \/ c = t8 \/ c = t9
            \/ c = t10 \/ c = t11
  BY ZenonT(40) DEF Blocks4
<1> HIDE DEF t1, t2, t3, t4, t5, t6, t7, t8, t9, t10, t11
<1>13. x \in InBlocks(w, Blocks4) <=> \E c \in Blocks4 : x = c[1] /\ Hit(w, c)
  BY Zenon DEF InBlocks, Hit
<1>14. x \in InBlocks(w, Blocks4)
        <=> \/ x = t1[1] /\ Hit(w, t1)
            \/ x = t2[1] /\ Hit(w, t2)
            \/ x = t3[1] /\ Hit(w, t3)
            \/ x = t4[1] /\ Hit(w, t4)
            \/ x = t5[1] /\ Hit(w, t5)
            \/ x = t6[1] /\ Hit(w, t6)
            \/ x = t7[1] /\ Hit(w, t7)
            \/ x = t8[1] /\ Hit(w, t8)
            \/ x = t9[1] /\ Hit(w, t9)
            \/ x = t10[1] /\ Hit(w, t10)
            \/ x = t11[1] /\ Hit(w, t11)
  BY <1>12, <1>13
<1> QED BY <1>1, <1>2, <1>3, <1>4, <1>5, <1>6, <1>7, <1>8, <1>9, <1>10, <1>11, <1>14 DEF Octets4

\* Those of IPv6 that the first word decides.
Octets6(w, x) ==
    \/ x = "multicast" /\ w[1] = 255
    \/ x = "linklocal" /\ w[1] = 254 /\ w[2] \in 128 .. 191
    \/ x = "sitelocal" /\ w[1] = 254 /\ w[2] \in 192 .. 255
    \/ x = "sitelocal" /\ w[1] \in 252 .. 253
    \/ x = "documentation" /\ w[1] = 32 /\ w[2] = 1 /\ w[3] = 13 /\ w[4] = 184

LEMMA Members6 ==
    ASSUME NEW w \in [1 .. 4 -> Byte], NEW x
    PROVE  x \in InBlocks(w, Blocks6) <=> Octets6(w, x)
<1>0. w[1] \in Byte /\ w[2] \in Byte /\ w[3] \in Byte /\ w[4] \in Byte
  OBVIOUS
<1> DEFINE t1 == <<"multicast", <<255, 0, 0, 0>>, Zero4(1)>>
<1>1. t1[1] = "multicast" /\ (Hit(w, t1) <=> w[1] = 255)
  <2>1. /\ t1[1] = "multicast"
        /\ Hit(w, t1) <=> /\ BitAnd(w[1], 255) = 255 /\ BitAnd(w[2], 0) = 0
                          /\ BitAnd(w[3], 0) = 0 /\ BitAnd(w[4], 0) = 0
    BY HitOf, LeadingOnes
  <2> HIDE DEF t1
  <2> QED BY <1>0, <2>1, OctetMasks
<1> DEFINE t2 == <<"linklocal", <<254, 128, 0, 0>>, <<255, 192, 0, 0>>>>
<1>2. t2[1] = "linklocal" /\ (Hit(w, t2) <=> w[1] = 254 /\ w[2] \in 128 .. 191)
  <2>1. /\ t2[1] = "linklocal"
        /\ Hit(w, t2) <=> /\ BitAnd(w[1], 255) = 254 /\ BitAnd(w[2], 192) = 128
                          /\ BitAnd(w[3], 0) = 0 /\ BitAnd(w[4], 0) = 0
    BY HitOf
  <2> HIDE DEF t2
  <2> QED BY <1>0, <2>1, OctetMasks
<1> DEFINE t3 == <<"sitelocal", <<254, 192, 0, 0>>, <<255, 192, 0, 0>>>>
<1>3. t3[1] = "sitelocal" /\ (Hit(w, t3) <=> w[1] = 254 /\ w[2] \in 192 .. 255)
  <2>1. /\ t3[1] = "sitelocal"
        /\ Hit(w, t3) <=> /\ BitAnd(w[1], 255) = 254 /\ BitAnd(w[2], 192) = 192
                          /\ BitAnd(w[3], 0) = 0 /\ BitAnd(w[4], 0) = 0
    BY HitOf
  <2> HIDE DEF t3
  <2> QED BY <1>0, <2>1, OctetMasks
<1> DEFINE t4 == <<"sitelocal", <<252, 0, 0, 0>>, <<254, 0, 0, 0>>>>
<1>4. t4[1] = "sitelocal" /\ (Hit(w, t4) <=> w[1] \in 252 .. 253)
  <2>1. /\ t4[1] = "sitelocal"
        /\ Hit(w, t4) <=> /\ BitAnd(w[1], 254) = 252 /\ BitAnd(w[2], 0) = 0
                          /\ BitAnd(w[3], 0) = 0 /\ BitAnd(w[4], 0) = 0
    BY HitOf
  <2> HIDE DEF t4
  <2> QED BY <1>0, <2>1, OctetMasks
<1> DEFINE t5 == <<"documentation", <<32, 1, 13, 184>>, Zero4(4)>>
<1>5. t5[1] = "documentation" /\ (Hit(w, t5) <=> w[1] = 32 /\ w[2] = 1 /\ w[3] = 13 /\ w[4] = 184)
  <2>1. /\ t5[1] = "documentation"
        /\ Hit(w, t5) <=> /\ BitAnd(w[1], 255) = 32 /\ BitAnd(w[2], 255) = 1
                          /\ BitAnd(w[3], 255) = 13 /\ BitAnd(w[4], 255) = 184
    BY HitOf, LeadingOnes
  <2> HIDE DEF t5
  <2> QED BY <1>0, <2>1, OctetMasks
<1>6. \A c : c \in Blocks6 <=> c = t1 \/ c = t2 \/ c = t3 \/ c = t4 \/ c = t5
  BY ZenonT(40) DEF Blocks6
<1> HIDE DEF t1, t2, t3, t4, t5
<1>7. x \in InBlocks(w, Blocks6) <=> \E c \in Blocks6 : x = c[1] /\ Hit(w, c)
  BY Zenon DEF InBlocks, Hit
<1>8. x \in InBlocks(w, Blocks6)
        <=> \/ x = t1[1] /\ Hit(w, t1)
            \/ x = t2[1] /\ Hit(w, t2)
            \/ x = t3[1] /\ Hit(w, t3)
            \/ x = t4[1] /\ Hit(w, t4)
            \/ x = t5[1] /\ Hit(w, t5)
  BY <1>6, <1>7
<1> QED BY <1>1, <1>2, <1>3, <1>4, <1>5, <1>8 DEF Octets6

\* The range of a block of the network.
InRange(octets, block) == Within(octets, block[2], block[3])

LEMMA InRangeOf ==
    ASSUME NEW w, NEW name, NEW first, NEW last
    PROVE  /\ <<name, first, last>>[1] = name
           /\ InRange(w, <<name, first, last>>) <=> \A i \in 1 .. Len(first) : w[i] \in first[i] .. last[i]
<1>1. PICK t : t = <<name, first, last>>
  OBVIOUS
<1>2. t[1] = name /\ t[2] = first /\ t[3] = last
  BY <1>1
<1>3. InRange(w, t) <=> \A i \in 1 .. Len(first) : w[i] \in first[i] .. last[i]
  BY <1>2, Zenon DEF InRange, Within
<1> QED BY <1>1, <1>2, <1>3, Zenon

LEMMA InRangeOf1 ==
    ASSUME NEW w, NEW name, NEW a1, NEW b1
    PROVE  /\ <<name, <<a1>>, <<b1>>>>[1] = name
           /\ InRange(w, <<name, <<a1>>, <<b1>>>>) <=> w[1] \in a1 .. b1
<1>0. Len(<<a1>>) = 1
  OBVIOUS
<1>1. PICK first, last : first = <<a1>> /\ last = <<b1>>
  OBVIOUS
<1>2. first[1] = a1 /\ last[1] = b1
  BY <1>1
<1>3. \A i : i \in 1 .. 1 <=> i = 1
  OBVIOUS
<1>4. (\A i \in 1 .. 1 : w[i] \in first[i] .. last[i]) <=> w[1] \in first[1] .. last[1]
  BY <1>3, Zenon
<1>5. (\A i \in 1 .. Len(first) : w[i] \in first[i] .. last[i]) <=> w[1] \in a1 .. b1
  BY <1>0, <1>1, <1>2, <1>4
<1>6. /\ <<name, first, last>>[1] = name
      /\ InRange(w, <<name, first, last>>) <=> \A i \in 1 .. Len(first) : w[i] \in first[i] .. last[i]
  BY InRangeOf, Zenon
<1> QED BY <1>1, <1>5, <1>6

LEMMA InRangeOf2 ==
    ASSUME NEW w, NEW name, NEW a1, NEW b1, NEW a2, NEW b2
    PROVE  /\ <<name, <<a1, a2>>, <<b1, b2>>>>[1] = name
           /\ InRange(w, <<name, <<a1, a2>>, <<b1, b2>>>>) <=> w[1] \in a1 .. b1 /\ w[2] \in a2 .. b2
<1>0. Len(<<a1, a2>>) = 2
  OBVIOUS
<1>1. PICK first, last : first = <<a1, a2>> /\ last = <<b1, b2>>
  OBVIOUS
<1>2. first[1] = a1 /\ last[1] = b1 /\ first[2] = a2 /\ last[2] = b2
  BY <1>1
<1>3. \A i : i \in 1 .. 2 <=> i = 1 \/ i = 2
  OBVIOUS
<1>4. (\A i \in 1 .. 2 : w[i] \in first[i] .. last[i])
        <=> w[1] \in first[1] .. last[1] /\ w[2] \in first[2] .. last[2]
  BY <1>3, Zenon
<1>5. (\A i \in 1 .. Len(first) : w[i] \in first[i] .. last[i]) <=> w[1] \in a1 .. b1 /\ w[2] \in a2 .. b2
  BY <1>0, <1>1, <1>2, <1>4
<1>6. /\ <<name, first, last>>[1] = name
      /\ InRange(w, <<name, first, last>>) <=> \A i \in 1 .. Len(first) : w[i] \in first[i] .. last[i]
  BY InRangeOf, Zenon
<1> QED BY <1>1, <1>5, <1>6

LEMMA InRangeOf3 ==
    ASSUME NEW w, NEW name, NEW a1, NEW b1, NEW a2, NEW b2, NEW a3, NEW b3
    PROVE  /\ <<name, <<a1, a2, a3>>, <<b1, b2, b3>>>>[1] = name
           /\ InRange(w, <<name, <<a1, a2, a3>>, <<b1, b2, b3>>>>)
                   <=> w[1] \in a1 .. b1 /\ w[2] \in a2 .. b2 /\ w[3] \in a3 .. b3
<1>0. Len(<<a1, a2, a3>>) = 3
  OBVIOUS
<1>1. PICK first, last : first = <<a1, a2, a3>> /\ last = <<b1, b2, b3>>
  OBVIOUS
<1>2. first[1] = a1 /\ last[1] = b1 /\ first[2] = a2 /\ last[2] = b2 /\ first[3] = a3 /\ last[3] = b3
  BY <1>1
<1>3. \A i : i \in 1 .. 3 <=> i = 1 \/ i = 2 \/ i = 3
  OBVIOUS
<1>4. (\A i \in 1 .. 3 : w[i] \in first[i] .. last[i])
        <=> w[1] \in first[1] .. last[1] /\ w[2] \in first[2] .. last[2] /\ w[3] \in first[3] .. last[3]
  BY <1>3, Zenon
<1>5. (\A i \in 1 .. Len(first) : w[i] \in first[i] .. last[i])
        <=> w[1] \in a1 .. b1 /\ w[2] \in a2 .. b2 /\ w[3] \in a3 .. b3
  BY <1>0, <1>1, <1>2, <1>4
<1>6. /\ <<name, first, last>>[1] = name
      /\ InRange(w, <<name, first, last>>) <=> \A i \in 1 .. Len(first) : w[i] \in first[i] .. last[i]
  BY InRangeOf, Zenon
<1> QED BY <1>1, <1>5, <1>6

LEMMA InRangeOf4 ==
    ASSUME NEW w, NEW name, NEW a1, NEW b1, NEW a2, NEW b2, NEW a3, NEW b3, NEW a4, NEW b4
    PROVE  /\ <<name, <<a1, a2, a3, a4>>, <<b1, b2, b3, b4>>>>[1] = name
           /\ InRange(w, <<name, <<a1, a2, a3, a4>>, <<b1, b2, b3, b4>>>>)
                   <=> w[1] \in a1 .. b1 /\ w[2] \in a2 .. b2 /\ w[3] \in a3 .. b3 /\ w[4] \in a4 .. b4
<1>0. Len(<<a1, a2, a3, a4>>) = 4
  OBVIOUS
<1>1. PICK first, last : first = <<a1, a2, a3, a4>> /\ last = <<b1, b2, b3, b4>>
  OBVIOUS
<1>2. /\ first[1] = a1 /\ last[1] = b1 /\ first[2] = a2 /\ last[2] = b2
      /\ first[3] = a3 /\ last[3] = b3 /\ first[4] = a4 /\ last[4] = b4
  BY <1>1
<1>3. \A i : i \in 1 .. 4 <=> i = 1 \/ i = 2 \/ i = 3 \/ i = 4
  OBVIOUS
<1>4. (\A i \in 1 .. 4 : w[i] \in first[i] .. last[i])
        <=> w[1] \in first[1] .. last[1] /\ w[2] \in first[2] .. last[2]
            /\ w[3] \in first[3] .. last[3] /\ w[4] \in first[4] .. last[4]
  BY <1>3, Zenon
<1>5. (\A i \in 1 .. Len(first) : w[i] \in first[i] .. last[i])
        <=> w[1] \in a1 .. b1 /\ w[2] \in a2 .. b2 /\ w[3] \in a3 .. b3 /\ w[4] \in a4 .. b4
  BY <1>0, <1>1, <1>2, <1>4
<1>6. /\ <<name, first, last>>[1] = name
      /\ InRange(w, <<name, first, last>>) <=> \A i \in 1 .. Len(first) : w[i] \in first[i] .. last[i]
  BY InRangeOf, Zenon
<1> QED BY <1>1, <1>5, <1>6

\* The classes of an IPv4 address in the order of the network.
LEMMA Network4 ==
    ASSUME NEW w \in [1 .. 4 -> Byte], NEW x
    PROVE  x \in ClassesOfNetwork("V4", w)
               <=> \/ Octets4(w, x)
                   \/ x = "sitelocal" /\ w[1] = 172 /\ w[2] \in 16 .. 31
<1>0. \A i \in 1 .. 4 : w[i] \in 0 .. 255
  BY DEF Byte
<1> DEFINE t1 == <<"wildcard", <<0, 0, 0, 0>>, <<0, 0, 0, 0>>>>
<1>1. t1[1] = "wildcard" /\ (InRange(w, t1) <=> w[1] = 0 /\ w[2] = 0 /\ w[3] = 0 /\ w[4] = 0)
  <2>1. /\ t1[1] = "wildcard"
        /\ InRange(w, t1) <=> w[1] \in 0 .. 0 /\ w[2] \in 0 .. 0 /\ w[3] \in 0 .. 0 /\ w[4] \in 0 .. 0
    BY InRangeOf4
  <2> HIDE DEF t1
  <2> QED BY <1>0, <2>1
<1> DEFINE t2 == <<"broadcast", <<255, 255, 255, 255>>, <<255, 255, 255, 255>>>>
<1>2. t2[1] = "broadcast" /\ (InRange(w, t2) <=> w[1] = 255 /\ w[2] = 255 /\ w[3] = 255 /\ w[4] = 255)
  <2>1. /\ t2[1] = "broadcast"
        /\ InRange(w, t2)
                <=> w[1] \in 255 .. 255 /\ w[2] \in 255 .. 255 /\ w[3] \in 255 .. 255 /\ w[4] \in 255 .. 255
    BY InRangeOf4
  <2> HIDE DEF t2
  <2> QED BY <1>0, <2>1
<1> DEFINE t3 == <<"multicast", <<224>>, <<239>>>>
<1>3. t3[1] = "multicast" /\ (InRange(w, t3) <=> w[1] \in 224 .. 239)
  <2>1. /\ t3[1] = "multicast"
        /\ InRange(w, t3) <=> w[1] \in 224 .. 239
    BY InRangeOf1
  <2> HIDE DEF t3
  <2> QED BY <1>0, <2>1
<1> DEFINE t4 == <<"loopback", <<127>>, <<127>>>>
<1>4. t4[1] = "loopback" /\ (InRange(w, t4) <=> w[1] = 127)
  <2>1. /\ t4[1] = "loopback"
        /\ InRange(w, t4) <=> w[1] \in 127 .. 127
    BY InRangeOf1
  <2> HIDE DEF t4
  <2> QED BY <1>0, <2>1
<1> DEFINE t5 == <<"linklocal", <<169, 254>>, <<169, 254>>>>
<1>5. t5[1] = "linklocal" /\ (InRange(w, t5) <=> w[1] = 169 /\ w[2] = 254)
  <2>1. /\ t5[1] = "linklocal"
        /\ InRange(w, t5) <=> w[1] \in 169 .. 169 /\ w[2] \in 254 .. 254
    BY InRangeOf2
  <2> HIDE DEF t5
  <2> QED BY <1>0, <2>1
<1> DEFINE t6 == <<"reserved", <<240>>, <<255>>>>
<1>6. t6[1] = "reserved" /\ (InRange(w, t6) <=> w[1] \in 240 .. 255)
  <2>1. /\ t6[1] = "reserved"
        /\ InRange(w, t6) <=> w[1] \in 240 .. 255
    BY InRangeOf1
  <2> HIDE DEF t6
  <2> QED BY <1>0, <2>1
<1> DEFINE t7 == <<"sitelocal", <<10>>, <<10>>>>
<1>7. t7[1] = "sitelocal" /\ (InRange(w, t7) <=> w[1] = 10)
  <2>1. /\ t7[1] = "sitelocal"
        /\ InRange(w, t7) <=> w[1] \in 10 .. 10
    BY InRangeOf1
  <2> HIDE DEF t7
  <2> QED BY <1>0, <2>1
<1> DEFINE t8 == <<"sitelocal", <<172, 16>>, <<172, 31>>>>
<1>8. t8[1] = "sitelocal" /\ (InRange(w, t8) <=> w[1] = 172 /\ w[2] \in 16 .. 31)
  <2>1. /\ t8[1] = "sitelocal"
        /\ InRange(w, t8) <=> w[1] \in 172 .. 172 /\ w[2] \in 16 .. 31
    BY InRangeOf2
  <2> HIDE DEF t8
  <2> QED BY <1>0, <2>1
<1> DEFINE t9 == <<"sitelocal", <<192, 168>>, <<192, 168>>>>
<1>9. t9[1] = "sitelocal" /\ (InRange(w, t9) <=> w[1] = 192 /\ w[2] = 168)
  <2>1. /\ t9[1] = "sitelocal"
        /\ InRange(w, t9) <=> w[1] \in 192 .. 192 /\ w[2] \in 168 .. 168
    BY InRangeOf2
  <2> HIDE DEF t9
  <2> QED BY <1>0, <2>1
<1> DEFINE t10 == <<"documentation", <<198, 51, 100>>, <<198, 51, 100>>>>
<1>10. t10[1] = "documentation" /\ (InRange(w, t10) <=> w[1] = 198 /\ w[2] = 51 /\ w[3] = 100)
  <2>1. /\ t10[1] = "documentation"
        /\ InRange(w, t10) <=> w[1] \in 198 .. 198 /\ w[2] \in 51 .. 51 /\ w[3] \in 100 .. 100
    BY InRangeOf3
  <2> HIDE DEF t10
  <2> QED BY <1>0, <2>1
<1> DEFINE t11 == <<"documentation", <<203, 0, 113>>, <<203, 0, 113>>>>
<1>11. t11[1] = "documentation" /\ (InRange(w, t11) <=> w[1] = 203 /\ w[2] = 0 /\ w[3] = 113)
  <2>1. /\ t11[1] = "documentation"
        /\ InRange(w, t11) <=> w[1] \in 203 .. 203 /\ w[2] \in 0 .. 0 /\ w[3] \in 113 .. 113
    BY InRangeOf3
  <2> HIDE DEF t11
  <2> QED BY <1>0, <2>1
<1> DEFINE t12 == <<"documentation", <<192, 0, 2>>, <<192, 0, 2>>>>
<1>12. t12[1] = "documentation" /\ (InRange(w, t12) <=> w[1] = 192 /\ w[2] = 0 /\ w[3] = 2)
  <2>1. /\ t12[1] = "documentation"
        /\ InRange(w, t12) <=> w[1] \in 192 .. 192 /\ w[2] \in 0 .. 0 /\ w[3] \in 2 .. 2
    BY InRangeOf3
  <2> HIDE DEF t12
  <2> QED BY <1>0, <2>1
<1>13. \A t : t \in Blocks("V4")
        <=> t = t1 \/ t = t2 \/ t = t3 \/ t = t4 \/ t = t5 \/ t = t6 \/ t = t7 \/ t = t8 \/ t = t9
            \/ t = t10 \/ t = t11 \/ t = t12
  BY DEF Blocks
<1> HIDE DEF t1, t2, t3, t4, t5, t6, t7, t8, t9, t10, t11, t12
<1>14. x \in ClassesOfNetwork("V4", w) <=> \E t \in Blocks("V4") : x = t[1] /\ InRange(w, t)
  BY Zenon DEF ClassesOfNetwork, InRange
<1>15. x \in ClassesOfNetwork("V4", w)
        <=> \/ x = t1[1] /\ InRange(w, t1)
            \/ x = t2[1] /\ InRange(w, t2)
            \/ x = t3[1] /\ InRange(w, t3)
            \/ x = t4[1] /\ InRange(w, t4)
            \/ x = t5[1] /\ InRange(w, t5)
            \/ x = t6[1] /\ InRange(w, t6)
            \/ x = t7[1] /\ InRange(w, t7)
            \/ x = t8[1] /\ InRange(w, t8)
            \/ x = t9[1] /\ InRange(w, t9)
            \/ x = t10[1] /\ InRange(w, t10)
            \/ x = t11[1] /\ InRange(w, t11)
            \/ x = t12[1] /\ InRange(w, t12)
  BY <1>13, <1>14
<1> QED BY <1>1, <1>2, <1>3, <1>4, <1>5, <1>6, <1>7, <1>8, <1>9, <1>10, <1>11, <1>12, <1>15 DEF Octets4

\* Those of an IPv6 address.
LEMMA Network6 ==
    ASSUME NEW w \in [1 .. 16 -> Byte], NEW x
    PROVE  x \in ClassesOfNetwork("V6", w)
               <=> \/ Octets6(w, x)
                   \/ x = "wildcard" /\ \A i \in 1 .. 16 : w[i] = 0
                   \/ x = "loopback" /\ \A i \in 1 .. 16 : w[i] = IF i = 16 THEN 1 ELSE 0
<1>0. \A i \in 1 .. 16 : w[i] \in 0 .. 255
  BY DEF Byte
<1> DEFINE t1 == <<"wildcard", [i \in 1 .. 16 |-> 0], [i \in 1 .. 16 |-> 0]>>
<1>1. t1[1] = "wildcard" /\ (InRange(w, t1) <=> \A i \in 1 .. 16 : w[i] = 0)
  <2>1. PICK z : z = [i \in 1 .. 16 |-> 0]
    OBVIOUS
  <2>2. z \in [1 .. 16 -> Byte]
    BY <2>1 DEF Byte
  <2>3. Len(z) = 16
    BY <2>2, SequencesOfBytes
  <2>4. /\ t1[1] = "wildcard"
        /\ InRange(w, t1) <=> \A i \in 1 .. 16 : w[i] \in z[i] .. z[i]
    <3>1. t1 = <<"wildcard", z, z>>
      BY <2>1
    <3>2. /\ <<"wildcard", z, z>>[1] = "wildcard"
          /\ InRange(w, <<"wildcard", z, z>>) <=> \A i \in 1 .. Len(z) : w[i] \in z[i] .. z[i]
      BY InRangeOf, Zenon
    <3> HIDE DEF t1
    <3> QED BY <2>3, <3>1, <3>2
  <2>5. \A i \in 1 .. 16 : w[i] \in z[i] .. z[i] <=> w[i] = 0
    <3> TAKE i \in 1 .. 16
    <3>1. z[i] = 0 /\ z[i] \in 0 .. 255 /\ w[i] \in 0 .. 255
      BY <1>0, <2>1
    <3> QED BY <3>1
  <2> HIDE DEF t1
  <2> QED BY <2>4, <2>5
<1> DEFINE t2 == <<"loopback", [i \in 1 .. 16 |-> IF i = 16 THEN 1 ELSE 0],
                   [i \in 1 .. 16 |-> IF i = 16 THEN 1 ELSE 0]>>
<1>2. t2[1] = "loopback" /\ (InRange(w, t2) <=> \A i \in 1 .. 16 : w[i] = IF i = 16 THEN 1 ELSE 0)
  <2>1. PICK z : z = [i \in 1 .. 16 |-> IF i = 16 THEN 1 ELSE 0]
    OBVIOUS
  <2>2. z \in [1 .. 16 -> Byte]
    BY <2>1 DEF Byte
  <2>3. Len(z) = 16
    BY <2>2, SequencesOfBytes
  <2>4. /\ t2[1] = "loopback"
        /\ InRange(w, t2) <=> \A i \in 1 .. 16 : w[i] \in z[i] .. z[i]
    <3>1. t2 = <<"loopback", z, z>>
      BY <2>1
    <3>2. /\ <<"loopback", z, z>>[1] = "loopback"
          /\ InRange(w, <<"loopback", z, z>>) <=> \A i \in 1 .. Len(z) : w[i] \in z[i] .. z[i]
      BY InRangeOf, Zenon
    <3> HIDE DEF t2
    <3> QED BY <2>3, <3>1, <3>2
  <2>5. \A i \in 1 .. 16 : w[i] \in z[i] .. z[i] <=> w[i] = (IF i = 16 THEN 1 ELSE 0)
    <3> TAKE i \in 1 .. 16
    <3>1. z[i] = (IF i = 16 THEN 1 ELSE 0)
      BY <2>1, Zenon
    <3>2. (IF i = 16 THEN 1 ELSE 0) \in 0 .. 255
      BY SMT
    <3>3. w[i] \in 0 .. 255
      BY <1>0, Zenon
    <3> QED BY <3>1, <3>2, <3>3
  <2> HIDE DEF t2
  <2> QED BY <2>4, <2>5
<1> DEFINE t3 == <<"multicast", <<255>>, <<255>>>>
<1>3. t3[1] = "multicast" /\ (InRange(w, t3) <=> w[1] = 255)
  <2>1. /\ t3[1] = "multicast"
        /\ InRange(w, t3) <=> w[1] \in 255 .. 255
    BY InRangeOf1
  <2> HIDE DEF t3
  <2> QED BY <1>0, <2>1
<1> DEFINE t4 == <<"linklocal", <<254, 128>>, <<254, 191>>>>
<1>4. t4[1] = "linklocal" /\ (InRange(w, t4) <=> w[1] = 254 /\ w[2] \in 128 .. 191)
  <2>1. /\ t4[1] = "linklocal"
        /\ InRange(w, t4) <=> w[1] \in 254 .. 254 /\ w[2] \in 128 .. 191
    BY InRangeOf2
  <2> HIDE DEF t4
  <2> QED BY <1>0, <2>1
<1> DEFINE t5 == <<"sitelocal", <<254, 192>>, <<254, 255>>>>
<1>5. t5[1] = "sitelocal" /\ (InRange(w, t5) <=> w[1] = 254 /\ w[2] \in 192 .. 255)
  <2>1. /\ t5[1] = "sitelocal"
        /\ InRange(w, t5) <=> w[1] \in 254 .. 254 /\ w[2] \in 192 .. 255
    BY InRangeOf2
  <2> HIDE DEF t5
  <2> QED BY <1>0, <2>1
<1> DEFINE t6 == <<"sitelocal", <<252>>, <<253>>>>
<1>6. t6[1] = "sitelocal" /\ (InRange(w, t6) <=> w[1] \in 252 .. 253)
  <2>1. /\ t6[1] = "sitelocal"
        /\ InRange(w, t6) <=> w[1] \in 252 .. 253
    BY InRangeOf1
  <2> HIDE DEF t6
  <2> QED BY <1>0, <2>1
<1> DEFINE t7 == <<"documentation", <<32, 1, 13, 184>>, <<32, 1, 13, 184>>>>
<1>7. t7[1] = "documentation" /\ (InRange(w, t7) <=> w[1] = 32 /\ w[2] = 1 /\ w[3] = 13 /\ w[4] = 184)
  <2>1. /\ t7[1] = "documentation"
        /\ InRange(w, t7) <=> w[1] \in 32 .. 32 /\ w[2] \in 1 .. 1 /\ w[3] \in 13 .. 13 /\ w[4] \in 184 .. 184
    BY InRangeOf4
  <2> HIDE DEF t7
  <2> QED BY <1>0, <2>1
<1>8. \A t : t \in Blocks("V6") <=> t = t1 \/ t = t2 \/ t = t3 \/ t = t4 \/ t = t5 \/ t = t6 \/ t = t7
  BY DEF Blocks
<1> HIDE DEF t1, t2, t3, t4, t5, t6, t7
<1>9. x \in ClassesOfNetwork("V6", w) <=> \E t \in Blocks("V6") : x = t[1] /\ InRange(w, t)
  BY Zenon DEF ClassesOfNetwork, InRange
<1>10. x \in ClassesOfNetwork("V6", w)
        <=> \/ x = t1[1] /\ InRange(w, t1)
            \/ x = t2[1] /\ InRange(w, t2)
            \/ x = t3[1] /\ InRange(w, t3)
            \/ x = t4[1] /\ InRange(w, t4)
            \/ x = t5[1] /\ InRange(w, t5)
            \/ x = t6[1] /\ InRange(w, t6)
            \/ x = t7[1] /\ InRange(w, t7)
  BY <1>8, <1>9
<1> QED BY <1>1, <1>2, <1>3, <1>4, <1>5, <1>6, <1>7, <1>10 DEF Octets6

LEMMA LessOf4 ==
    ASSUME NEW s \in [1 .. 4 -> Byte], NEW t
    PROVE  LessBytes(s, t) <=> \/ s[1] < t[1]
                               \/ s[1] = t[1] /\ s[2] < t[2]
                               \/ s[1] = t[1] /\ s[2] = t[2] /\ s[3] < t[3]
                               \/ s[1] = t[1] /\ s[2] = t[2] /\ s[3] = t[3] /\ s[4] < t[4]
<1>1. Len(s) = 4
  BY FourAreASequence
<1>2. \A i : i \in 1 .. 4 <=> i = 1 \/ i = 2 \/ i = 3 \/ i = 4
  OBVIOUS
<1> DEFINE Same(i) == \A j \in 1 .. i - 1 : s[j] = t[j]
<1>3. /\ Same(1)
      /\ Same(2) <=> s[1] = t[1]
      /\ Same(3) <=> s[1] = t[1] /\ s[2] = t[2]
      /\ Same(4) <=> s[1] = t[1] /\ s[2] = t[2] /\ s[3] = t[3]
  <2>1. /\ \A j : j \notin 1 .. 1 - 1
        /\ \A j : j \in 1 .. 2 - 1 <=> j = 1
        /\ \A j : j \in 1 .. 3 - 1 <=> j = 1 \/ j = 2
        /\ \A j : j \in 1 .. 4 - 1 <=> j = 1 \/ j = 2 \/ j = 3
    OBVIOUS
  <2>2. Same(1)
    BY <2>1
  <2>3. Same(2) <=> s[1] = t[1]
    BY <2>1
  <2>4. Same(3) <=> s[1] = t[1] /\ s[2] = t[2]
    BY <2>1
  <2>5. Same(4) <=> s[1] = t[1] /\ s[2] = t[2] /\ s[3] = t[3]
    BY <2>1
  <2> QED BY <2>2, <2>3, <2>4, <2>5
<1>4. LessBytes(s, t) <=> \E i \in 1 .. 4 : s[i] < t[i] /\ Same(i)
  BY <1>1, Zenon DEF LessBytes
<1> HIDE DEF Same
<1>5. LessBytes(s, t) <=> \/ s[1] < t[1] /\ Same(1)
                          \/ s[2] < t[2] /\ Same(2)
                          \/ s[3] < t[3] /\ Same(3)
                          \/ s[4] < t[4] /\ Same(4)
  BY <1>2, <1>4
<1> QED BY <1>3, <1>5

LEMMA PrivateIs ==
    ASSUME NEW w \in [1 .. 4 -> Byte]
    PROVE  PrivateRange(w) <=> w[1] = 172 /\ w[2] \in 16 .. 31
<1>1. PICK first, last : first = <<172, 16, 0, 0>> /\ last = <<172, 31, 255, 255>>
  OBVIOUS
<1>2. /\ first[1] = 172 /\ first[2] = 16 /\ first[3] = 0 /\ first[4] = 0
      /\ last[1] = 172 /\ last[2] = 31 /\ last[3] = 255 /\ last[4] = 255
  BY <1>1
<1>3. last \in [1 .. 4 -> Byte]
  BY <1>1 DEF Byte
<1>4. w[1] \in 0 .. 255 /\ w[2] \in 0 .. 255 /\ w[3] \in 0 .. 255 /\ w[4] \in 0 .. 255
  BY DEF Byte
<1>5. LessBytes(w, first) <=> \/ w[1] < 172
                              \/ w[1] = 172 /\ w[2] < 16
                              \/ w[1] = 172 /\ w[2] = 16 /\ w[3] < 0
                              \/ w[1] = 172 /\ w[2] = 16 /\ w[3] = 0 /\ w[4] < 0
  BY <1>2, LessOf4
<1>6. LessBytes(last, w) <=> \/ 172 < w[1]
                             \/ 172 = w[1] /\ 31 < w[2]
                             \/ 172 = w[1] /\ 31 = w[2] /\ 255 < w[3]
                             \/ 172 = w[1] /\ 31 = w[2] /\ 255 = w[3] /\ 255 < w[4]
  BY <1>2, <1>3, LessOf4
<1>7. PrivateRange(w) <=> ~LessBytes(w, first) /\ ~LessBytes(last, w)
  BY <1>1, Zenon DEF PrivateRange
<1> QED BY <1>4, <1>5, <1>6, <1>7

\* "unicast" is what is_unicast() adds.
LEMMA WithoutUnicast ==
    ASSUME NEW a, NEW behind, "unicast" \notin Tested(a, behind)
    PROVE  Classes(a, behind) \ {"unicast"} = Tested(a, behind)
BY DEF Classes

LEMMA Turned4 ==
    ASSUME NEW a \in Ips, a.family = "V4", NEW behind
    PROVE  /\ [i \in 1 .. Length(a) |-> Word(a, (i + 3) \div 4)[1 + ((i - 1) % 4)]] = Word(a, 1)
           /\ Classes(a, behind) \ {"unicast"} = ClassesOfNetwork("V4", Word(a, 1))
<1>1. Length(a) = 4 /\ 1 \in 1 .. (Length(a) \div 4)
  BY DEF Length
<1>2. PICK w : w = Word(a, 1) /\ w \in [1 .. 4 -> Byte]
  BY <1>1, WordIs
<1>3. \A i \in 1 .. 4 : (i + 3) \div 4 = 1 /\ 1 + ((i - 1) % 4) = i
  OBVIOUS
<1>4. \A i \in 1 .. 4 : Word(a, (i + 3) \div 4)[1 + ((i - 1) % 4)] = w[i]
  BY <1>2, <1>3
<1>5. [i \in 1 .. Length(a) |-> Word(a, (i + 3) \div 4)[1 + ((i - 1) % 4)]] = w
  BY <1>1, <1>2, <1>4
<1>6. \A x : x \in Tested(a, behind) <=> x \in InBlocks(w, Blocks4) \/ (x = "sitelocal" /\ PrivateRange(w))
  <2>1. Tested(a, behind) = InBlocks(w, Blocks4) \cup (IF PrivateRange(w) THEN {"sitelocal"} ELSE {})
    BY <1>2 DEF Tested, TestedWord
  <2>2. CASE PrivateRange(w)
    BY <2>1, <2>2
  <2>3. CASE ~PrivateRange(w)
    <3>1. Tested(a, behind) = InBlocks(w, Blocks4)
      BY <2>1, <2>3
    <3> QED BY <2>3, <3>1
  <2> QED BY <2>2, <2>3
<1>7. \A x : x \in Tested(a, behind) <=> x \in ClassesOfNetwork("V4", w)
  <2> TAKE x
  <2>1. x \in Tested(a, behind) <=> x \in InBlocks(w, Blocks4) \/ (x = "sitelocal" /\ PrivateRange(w))
    BY <1>6
  <2>2. PrivateRange(w) <=> w[1] = 172 /\ w[2] \in 16 .. 31
    BY <1>2, PrivateIs
  <2>3. w \in [1 .. 4 -> Byte]
    BY <1>2
  <2>4. x \in InBlocks(w, Blocks4) <=> Octets4(w, x)
    BY <2>3, Members4
  <2>5. x \in ClassesOfNetwork("V4", w)
          <=> Octets4(w, x) \/ (x = "sitelocal" /\ w[1] = 172 /\ w[2] \in 16 .. 31)
    BY <2>3, Network4
  <2> QED BY <2>1, <2>2, <2>4, <2>5
<1>8. "unicast" \notin Tested(a, behind)
  BY <1>2, <1>7, Network4 DEF Octets4
<1>9. Tested(a, behind) = ClassesOfNetwork("V4", w)
  BY <1>7, Zenon
<1> QED BY <1>2, <1>5, <1>8, <1>9, WithoutUnicast

LEMMA Turned6 ==
    ASSUME NEW a \in Ips, a.family = "V6", NEW behind, NEW turned,
           turned = [i \in 1 .. Length(a) |-> Word(a, (i + 3) \div 4)[1 + ((i - 1) % 4)]],
           NEW x, x = "loopback" => ~IsIpv4Mapped(a)
    PROVE  x \in Classes(a, behind) \ {"unicast"} <=> x \in ClassesOfNetwork("V6", turned)
<1>1. Length(a) = 16
  BY DEF Length
<1>2. \A k \in 1 .. 4 : Word(a, k) \in [1 .. 4 -> Byte]
  BY <1>1, WordIs
<1>3. \A i \in 1 .. 16 : (i + 3) \div 4 \in 1 .. 4 /\ 1 + ((i - 1) % 4) \in 1 .. 4
                         /\ i = 4 * ((i + 3) \div 4) - 4 + (1 + ((i - 1) % 4))
  OBVIOUS
<1>4. \A k \in 1 .. 4, j \in 1 .. 4 :
          /\ 4 * k - 4 + j \in 1 .. 16
          /\ ((4 * k - 4 + j) + 3) \div 4 = k /\ 1 + (((4 * k - 4 + j) - 1) % 4) = j
  OBVIOUS
<1>5. turned \in [1 .. 16 -> Byte]
  BY <1>1, <1>2, <1>3
<1>6. \A k \in 1 .. 4, j \in 1 .. 4 : turned[4 * k - 4 + j] = Word(a, k)[j]
  BY <1>1, <1>4
<1>7. PICK w : w = Word(a, 1) /\ w \in [1 .. 4 -> Byte]
  BY <1>2
<1>8. w[1] = turned[1] /\ w[2] = turned[2] /\ w[3] = turned[3] /\ w[4] = turned[4]
  <2>1. \A j \in 1 .. 4 : turned[4 * 1 - 4 + j] = w[j]
    BY <1>6, <1>7
  <2> QED BY <2>1
<1>9. \A k \in 1 .. 4 : Word(a, k) = Zero <=> \A j \in 1 .. 4 : Word(a, k)[j] = 0
  <2>1. Zero = [j \in 1 .. 4 |-> 0]
    BY DEF Zero
  <2> QED BY <1>2, <2>1
<1>10. (\A k \in 1 .. 4 : Word(a, k) = Zero) <=> \A i \in 1 .. 16 : turned[i] = 0
  <2>1. ASSUME \A k \in 1 .. 4 : Word(a, k) = Zero, NEW i \in 1 .. 16 PROVE turned[i] = 0
    <3>1. PICK k \in 1 .. 4, j \in 1 .. 4 : i = 4 * k - 4 + j
      BY <1>3
    <3>2. Word(a, k)[j] = 0
      BY <1>9, <2>1
    <3>3. turned[4 * k - 4 + j] = Word(a, k)[j]
      BY <1>6, Zenon
    <3> QED BY <3>1, <3>2, <3>3
  <2>2. ASSUME \A i \in 1 .. 16 : turned[i] = 0, NEW k \in 1 .. 4 PROVE Word(a, k) = Zero
    <3>1. \A j \in 1 .. 4 : Word(a, k)[j] = 0
      <4> TAKE j \in 1 .. 4
      <4>1. 4 * k - 4 + j \in 1 .. 16
        OBVIOUS
      <4>2. turned[4 * k - 4 + j] = 0
        BY <2>2, <4>1, Zenon
      <4>3. turned[4 * k - 4 + j] = Word(a, k)[j]
        BY <1>6, Zenon
      <4> QED BY <4>2, <4>3
    <3> QED BY <1>9, <3>1
  <2> QED BY <2>1, <2>2
<1>11. IsLoopback(a) <=> \A i \in 1 .. 16 : turned[i] = IF i = 16 THEN 1 ELSE 0
  <2>1. Word(a, 4) = <<0, 0, 0, 1>> <=> \A j \in 1 .. 4 : Word(a, 4)[j] = IF j = 4 THEN 1 ELSE 0
    <3>1. <<0, 0, 0, 1>> = [j \in 1 .. 4 |-> IF j = 4 THEN 1 ELSE 0]
      OBVIOUS
    <3> QED BY <1>2, <3>1
  <2>2. IsLoopback(a) <=> /\ \A k \in 1 .. 3 : Word(a, k) = Zero
                          /\ \A j \in 1 .. 4 : Word(a, 4)[j] = IF j = 4 THEN 1 ELSE 0
    BY <2>1, Zenon DEF IsLoopback, IsIpv4Compatible
  <2>3. ASSUME IsLoopback(a), NEW i \in 1 .. 16 PROVE turned[i] = IF i = 16 THEN 1 ELSE 0
    <3>1. PICK k \in 1 .. 4, j \in 1 .. 4 : i = 4 * k - 4 + j
      BY <1>3
    <3>2. turned[i] = Word(a, k)[j]
      BY <1>6, <3>1
    <3>3. CASE k \in 1 .. 3
      <4>1. Word(a, k)[j] = 0
        BY <1>9, <2>2, <2>3, <3>3
      <4>2. i # 16
        BY <3>1, <3>3
      <4> QED BY <3>2, <4>1, <4>2
    <3>4. CASE k = 4
      <4>1. Word(a, k)[j] = IF j = 4 THEN 1 ELSE 0
        BY <2>2, <2>3, <3>4
      <4>2. i = 16 <=> j = 4
        BY <3>1, <3>4
      <4> QED BY <3>2, <4>1, <4>2
    <3> QED BY <3>3, <3>4
  <2>4. ASSUME \A i \in 1 .. 16 : turned[i] = IF i = 16 THEN 1 ELSE 0 PROVE IsLoopback(a)
    <3>1. ASSUME NEW k \in 1 .. 3 PROVE Word(a, k) = Zero
      <4>1. \A j \in 1 .. 4 : Word(a, k)[j] = 0
        <5> TAKE j \in 1 .. 4
        <5>1. 4 * k - 4 + j \in 1 .. 16 /\ 4 * k - 4 + j # 16 /\ k \in 1 .. 4
          OBVIOUS
        <5>2. turned[4 * k - 4 + j] = 0
          BY <2>4, <5>1
        <5> QED BY <1>6, <5>1, <5>2
      <4> QED BY <1>9, <4>1
    <3>2. \A j \in 1 .. 4 : Word(a, 4)[j] = IF j = 4 THEN 1 ELSE 0
      <4> TAKE j \in 1 .. 4
      <4>1. 4 * 4 - 4 + j \in 1 .. 16 /\ (4 * 4 - 4 + j = 16 <=> j = 4) /\ 4 \in 1 .. 4
        OBVIOUS
      <4>2. turned[4 * 4 - 4 + j] = Word(a, 4)[j]
        BY <1>6, <4>1
      <4> QED BY <2>4, <4>1, <4>2
    <3> QED BY <2>2, <3>1, <3>2
  <2> QED BY <2>3, <2>4
<1>12. \A y : y \in Tested(a, behind)
          <=> \/ y \in InBlocks(w, Blocks6)
              \/ y = "wildcard" /\ \A k \in 1 .. 4 : Word(a, k) = Zero
              \/ y = "loopback" /\ IF IsIpv4Mapped(a) THEN behind ELSE IsLoopback(a)
  <2>1. Tested(a, behind)
          = InBlocks(w, Blocks6)
            \cup (IF \A k \in 1 .. 4 : Word(a, k) = Zero THEN {"wildcard"} ELSE {})
            \cup (IF IF IsIpv4Mapped(a) THEN behind ELSE IsLoopback(a) THEN {"loopback"} ELSE {})
    BY <1>7 DEF Tested, TestedWord
  <2> QED BY <2>1
<1>13. "unicast" \notin Tested(a, behind)
  <2>1. "unicast" \notin InBlocks(w, Blocks6)
    BY <1>7, Members6 DEF Octets6
  <2> QED BY <1>12, <2>1
<1>14. x \in Tested(a, behind) <=> x \in ClassesOfNetwork("V6", turned)
  <2>1. x \in InBlocks(w, Blocks6) <=> Octets6(w, x)
    BY <1>7, Members6
  <2>2. x \in ClassesOfNetwork("V6", turned)
          <=> \/ Octets6(turned, x)
              \/ x = "wildcard" /\ \A i \in 1 .. 16 : turned[i] = 0
              \/ x = "loopback" /\ \A i \in 1 .. 16 : turned[i] = IF i = 16 THEN 1 ELSE 0
    BY <1>5, Network6
  <2>3. Octets6(w, x) <=> Octets6(turned, x)
    BY <1>8 DEF Octets6
  <2> QED BY <1>10, <1>11, <1>12, <2>1, <2>2, <2>3
<1> QED BY <1>13, <1>14, WithoutUnicast

\* For every address a caller can have, the tests of its class answer for the
\* address with each of its words turned around - the right answer only for an
\* IPv4 address from a sockaddr, which was turned around before.
THEOREM ClassesAreOfTurnedWords == IpSpec => []ClassesOfTurnedWords
<1>1. IpOk => ClassesOfTurnedWords
  <2> SUFFICES ASSUME ip \in Ips, NEW behind \in BOOLEAN, NEW turned, NEW unsaid,
                      turned = [i \in 1 .. Length(ip) |-> Word(ip, (i + 3) \div 4)[1 + ((i - 1) % 4)]],
                      unsaid = IF ip.family = "V6" /\ IsIpv4Mapped(ip) THEN {"loopback"} ELSE {}
               PROVE  (Classes(ip, behind) \ {"unicast"}) \ unsaid
                          = ClassesOfNetwork(ip.family, turned) \ unsaid
    BY ZenonT(40) DEF IpOk, ClassesOfTurnedWords
  <2>1. CASE ip.family = "V4"
    BY <2>1, Turned4
  <2>2. CASE ip.family = "V6"
    <3> SUFFICES ASSUME NEW x, x \notin unsaid
                 PROVE  x \in Classes(ip, behind) \ {"unicast"} <=> x \in ClassesOfNetwork("V6", turned)
      BY <2>2
    <3>1. x = "loopback" => ~IsIpv4Mapped(ip)
      BY <2>2
    <3> QED BY <2>2, <3>1, Turned6
  <2> QED BY <2>1, <2>2, KindsOfIps
<1> QED BY <1>1, AddressesStayAddresses, PTL

===============================================================================
