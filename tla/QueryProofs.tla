------------------------------ MODULE QueryProofs ------------------------------
(* What TLAPS proves of the query of a URL: that its parameters are those its *)
(* callers have put into it.                                                  *)
EXTENDS UrlProofs

-----------------------------------------------------------------------------
(* What holds of every text, symbol by symbol; and folds.                  *)

\* What holds of no symbol, and of one more, holds of every sequence.
LEMMA ByAppending ==
    ASSUME NEW X, NEW S, <<>> \in S, \A s \in Seq(X), c \in X : s \in S => Append(s, c) \in S
    PROVE  Seq(X) \subseteq S
<1> DEFINE T == {n \in Nat : \A s \in Seq(X) : Len(s) = n => s \in S}
<1>1. 0 \in T
  <2> SUFFICES ASSUME NEW s \in Seq(X), Len(s) = 0 PROVE s \in S
    OBVIOUS
  <2>1. s = <<>>
    BY EmptySeq
  <2> QED BY <2>1
<1>2. \A n \in Nat : n \in T => n + 1 \in T
  <2> SUFFICES ASSUME NEW n \in Nat, n \in T, NEW s \in Seq(X), Len(s) = n + 1 PROVE s \in S
    OBVIOUS
  <2>1. PICK r \in Seq(X), c \in X : s = Append(r, c)
    <3>1. s # <<>>
      BY EmptySeq
    <3> QED BY <3>1, SequenceEmptyOrAppend
  <2>2. Len(r) = n
    <3>1. Len(s) = Len(r) + 1 /\ Len(r) \in Nat
      BY <2>1, AppendProperties, LenProperties
    <3> QED BY <3>1
  <2>3. r \in S
    BY <2>2
  <2> QED BY <2>1, <2>3
<1>3. Nat \subseteq T
  <2> HIDE DEF T
  <2> QED BY <1>1, <1>2, ByInduction
<1> QED BY <1>3, LenProperties

\* The values that a fold goes through, given by a function.
Folds(op, A, base, s, v) ==
    \E h \in [0 .. Len(s) -> A] :
        h[0] = base /\ h[Len(s)] = v /\ \A i \in 1 .. Len(s) : h[i] = op[<<h[i - 1], s[i]>>]

LEMMA StepsOfTable ==
    ASSUME NEW A, NEW C, NEW op \in [A \X C -> A], NEW base \in A, NEW s \in Seq(C),
           NEW iter, iter[{}] = base,
           \A S \in SUBSET (1 .. Len(s)) : S # {} /\ iter[S \ {Max(S)}] \in A =>
               iter[S] = op[<<iter[S \ {Max(S)}], s[Max(S)]>>]
    PROVE  Folds(op, A, base, s, iter[1 .. Len(s)])
<1>0. PICK n \in Nat : n = Len(s)
  BY LenProperties
<1> DEFINE h == [i \in 0 .. n |-> iter[1 .. i]]
           S == {i \in 0 .. n : h[i] \in A}
<1>1. h[0] = base /\ h[n] = iter[1 .. n] /\ DOMAIN h = 0 .. n
  <2>1. 1 .. 0 = {} /\ 0 \in 0 .. n /\ n \in 0 .. n
    OBVIOUS
  <2> QED BY <2>1, Zenon
<1>2. ASSUME NEW i \in 1 .. n, h[i - 1] \in A
      PROVE  h[i] = op[<<h[i - 1], s[i]>>] /\ h[i] \in A
  <2>1. 1 .. i \in SUBSET (1 .. n) /\ 1 .. i # {} /\ Max(1 .. i) = i /\ (1 .. i) \ {i} = 1 .. i - 1
    BY LastOfInterval
  <2>2. h[i] = iter[1 .. i] /\ h[i - 1] = iter[1 .. i - 1]
    <3>1. i \in 0 .. n /\ i - 1 \in 0 .. n
      OBVIOUS
    <3> QED BY <3>1, Zenon
  <2> HIDE DEF h
  <2>3. h[i] = op[<<h[i - 1], s[i]>>]
    BY <1>0, <1>2, <2>1, <2>2, Zenon
  <2>4. s[i] \in C
    BY <1>0, ElementOfSeq, Zenon
  <2>5. <<h[i - 1], s[i]>> \in A \X C
    BY <1>2, <2>4
  <2> QED BY <2>3, <2>5, Zenon
<1>3. 0 .. n \subseteq S
  <2>1. 0 \in S
    <3>1. 0 \in 0 .. n
      OBVIOUS
    <3> HIDE DEF h
    <3> QED BY <1>1, <3>1, Zenon
  <2>2. \A i \in 1 .. n : i - 1 \in S => i \in S
    <3>1. \A i \in 1 .. n : i \in 0 .. n
      OBVIOUS
    <3> HIDE DEF h
    <3> QED BY <1>2, <3>1, Zenon
  <2> HIDE DEF S
  <2> QED BY <2>1, <2>2, UpTo
<1>4. \A i \in 1 .. n : i - 1 \in 0 .. n
  OBVIOUS
<1>5. h = [i \in 0 .. n |-> h[i]]
  OBVIOUS
<1> HIDE DEF h
<1>6. h \in [0 .. n -> A]
  BY <1>3, <1>5
<1>7. \A i \in 1 .. n : h[i] = op[<<h[i - 1], s[i]>>]
  BY <1>2, <1>3, <1>4, Zenon
<1> QED BY <1>0, <1>1, <1>6, <1>7, Zenon DEF Folds

LEMMA FoldsNothing ==
    ASSUME NEW op, NEW A, NEW base, NEW v, Folds(op, A, base, <<>>, v)
    PROVE  v = base
BY EmptySeq DEF Folds

LEMMA FoldsIn ==
    ASSUME NEW op, NEW A, NEW C, NEW base, NEW s \in Seq(C), NEW v, Folds(op, A, base, s, v)
    PROVE  v \in A
<1>1. PICK h \in [0 .. Len(s) -> A] : h[Len(s)] = v
  BY Zenon DEF Folds
<1>2. Len(s) \in 0 .. Len(s)
  BY LenProperties
<1> QED BY <1>1, <1>2, Zenon

\* One symbol more is one step more.
LEMMA FoldsAppended ==
    ASSUME NEW op, NEW A, NEW C, NEW base, NEW s \in Seq(C), NEW c \in C, NEW v, NEW w,
           Folds(op, A, base, s, v), Folds(op, A, base, Append(s, c), w)
    PROVE  w = op[<<v, c>>]
<1>1. PICK n \in Nat : n = Len(s)
  BY LenProperties
<1>2. PICK t : t = Append(s, c) /\ Len(t) = n + 1 /\ t[n + 1] = c /\ \A i \in 1 .. n : t[i] = s[i]
  <2>1. /\ Len(Append(s, c)) = Len(s) + 1 /\ Append(s, c)[Len(s) + 1] = c
        /\ \A i \in 1 .. Len(s) : Append(s, c)[i] = s[i]
    BY AppendProperties
  <2> QED BY <1>1, <2>1, Zenon
<1>3. PICK h : h[0] = base /\ h[n] = v /\ \A i \in 1 .. n : h[i] = op[<<h[i - 1], s[i]>>]
  BY <1>1, Zenon DEF Folds
<1>4. PICK g : g[0] = base /\ g[n + 1] = w /\ \A i \in 1 .. n + 1 : g[i] = op[<<g[i - 1], t[i]>>]
  <2>1. Folds(op, A, base, t, w)
    BY <1>2, Zenon
  <2>2. PICK m : m = Len(t)
    OBVIOUS
  <2>3. PICK g : g[0] = base /\ g[m] = w /\ \A i \in 1 .. m : g[i] = op[<<g[i - 1], t[i]>>]
    BY <2>1, <2>2, Zenon DEF Folds
  <2>4. m = n + 1
    BY <1>2, <2>2
  <2> QED BY <2>3, <2>4
<1> DEFINE S == {i \in 0 .. n : g[i] = h[i]}
<1>5. 0 .. n \subseteq S
  <2>1. 0 \in S
    BY <1>3, <1>4
  <2>2. \A i \in 1 .. n : i - 1 \in S => i \in S
    <3>1. \A i \in 1 .. n : i \in 1 .. n + 1 /\ i \in 0 .. n
      OBVIOUS
    <3> QED BY <1>2, <1>3, <1>4, <3>1, Zenon
  <2> HIDE DEF S
  <2> QED BY <2>1, <2>2, UpTo
<1>6. n \in 0 .. n /\ n + 1 \in 1 .. n + 1 /\ (n + 1) - 1 = n
  OBVIOUS
<1>7. g[n] = v
  BY <1>3, <1>5, <1>6, Zenon
<1>8. g[n + 1] = op[<<g[(n + 1) - 1], t[n + 1]>>]
  BY <1>4, <1>6, Zenon
<1> QED BY <1>2, <1>4, <1>6, <1>7, <1>8, Zenon

-----------------------------------------------------------------------------
(* Texts that are cut at a delimiter.                                      *)

\* One step of a text that is cut.
CutOnce(d, parts, c) ==
    IF c = d THEN Append(parts, <<>>) ELSE Append(Front(parts), Append(Last(parts), c))
Cuttings(X) == {parts \in Seq(Seq(X)) : parts # <<>>}
LEMMA CutOnceIs ==
    ASSUME NEW X, NEW d, NEW parts \in Cuttings(X), NEW c \in X
    PROVE  CutOnce(d, parts, c) \in Cuttings(X)
<1>1. parts \in Seq(Seq(X)) /\ Len(parts) \in Nat /\ Len(parts) # 0
  BY EmptySeq, LenProperties DEF Cuttings
<1>2. Append(parts, <<>>) \in Cuttings(X)
  <2>1. <<>> \in Seq(X)
    BY EmptySeq
  <2> QED BY <1>1, <2>1, AppendProperties DEF Cuttings
<1>3. Append(Last(parts), c) \in Seq(X)
  <2>1. Len(parts) \in 1 .. Len(parts)
    BY <1>1
  <2>2. Last(parts) \in Seq(X)
    BY <1>1, <2>1, ElementOfSeq DEF Last
  <2> QED BY <2>2, AppendProperties
<1>4. Front(parts) \in Seq(Seq(X))
  <2>1. \A i \in 1 .. Len(parts) : parts[i] \in Seq(X)
    BY <1>1, ElementOfSeq
  <2> QED BY <1>1, <2>1, SubSeqProperties DEF Front
<1>5. Append(Front(parts), Append(Last(parts), c)) \in Cuttings(X)
  <2>1. PICK front, last : front = Front(parts) /\ last = Append(Last(parts), c)
    OBVIOUS
  <2>2. front \in Seq(Seq(X)) /\ last \in Seq(X)
    BY <1>3, <1>4, <2>1, Zenon
  <2>3. Append(front, last) \in Seq(Seq(X)) /\ Append(front, last) # <<>>
    BY <2>2, AppendProperties
  <2> QED BY <2>1, <2>3, Zenon DEF Cuttings
<1> QED BY <1>2, <1>5, Zenon DEF CutOnce
LEMMA CutFolds ==
    ASSUME NEW X, NEW d, NEW s \in Seq(X)
    PROVE  Folds([p \in Cuttings(X) \X X |-> CutOnce(d, p[1], p[2])], Cuttings(X), <<<<>>>>, s, Between(s, d))
<1> DEFINE A == Cuttings(X)
           Step(x, c) == CutOnce(d, x, c)
           D == SUBSET (DOMAIN s)
           Is(iter) == iter = [S \in D |-> IF S = {} THEN <<<<>>>> ELSE Step(iter[S \ {Max(S)}], s[Max(S)])]
           op == [p \in A \X X |-> Step(p[1], p[2])]
<1>0. PICK n \in Nat : n = Len(s) /\ DOMAIN s = 1 .. n /\ \A i \in 1 .. n : s[i] \in X
  <2>1. Len(s) \in Nat /\ DOMAIN s = 1 .. Len(s)
    BY LenProperties
  <2>2. \A i \in 1 .. Len(s) : s[i] \in X
    BY ElementOfSeq, Zenon
  <2> QED BY <2>1, <2>2, Zenon
<1>1. <<<<>>>> \in A /\ \A x \in A, c \in X : Step(x, c) \in A
  <2>1. <<<<>>>> \in Cuttings(X)
    <3>1. <<>> \in Seq(X)
      BY EmptySeq
    <3>2. <<<<>>>> \in Seq(Seq(X)) /\ <<<<>>>> # <<>>
      BY <3>1
    <3> QED BY <3>2 DEF Cuttings
  <2> QED BY <2>1, CutOnceIs, Zenon
<1>2. op \in [A \X X -> A] /\ \A x \in A, c \in X : op[<<x, c>>] = Step(x, c)
  <2> HIDE DEF A, Step
  <2>1. \A p \in A \X X : p[1] \in A /\ p[2] \in X
    OBVIOUS
  <2>2. \A p \in A \X X : Step(p[1], p[2]) \in A
    BY <1>1, <2>1, Zenon
  <2>3. op \in [A \X X -> A]
    BY <2>2, Zenon
  <2>4. ASSUME NEW x \in A, NEW c \in X PROVE op[<<x, c>>] = Step(x, c)
    <3>1. <<x, c>> \in A \X X /\ <<x, c>>[1] = x /\ <<x, c>>[2] = c
      OBVIOUS
    <3> QED BY <3>1, Zenon
  <2> QED BY <2>3, <2>4, Zenon
<1>3. \A S \in SUBSET (1 .. n) : S # {} => Max(S) \in 1 .. n /\ S \ {Max(S)} \in SUBSET (1 .. n)
  <2> TAKE S \in SUBSET (1 .. n)
  <2>1. S \subseteq 0 .. n
    OBVIOUS
  <2>2. S # {} => Max(S) \in S
    BY <2>1, MaxOfBounded, Zenon
  <2> QED BY <2>2
<1>4. \E iter : Is(iter)
  <2>1. HasTable(A, op, <<<<>>>>, s, n)
    <3> HIDE DEF op, A, Step
    <3> QED BY <1>0, <1>1, <1>2, FoldTable, Zenon
  <2>2. PICK iter \in [SUBSET (1 .. n) -> A] : \A S \in SUBSET (1 .. n) :
            iter[S] = IF S = {} THEN <<<<>>>> ELSE op[<<iter[S \ {Max(S)}], s[Max(S)]>>]
    BY <2>1, Zenon DEF HasTable, IsTable
  <2>3. \A S \in SUBSET (1 .. n) :
            iter[S] = IF S = {} THEN <<<<>>>> ELSE Step(iter[S \ {Max(S)}], s[Max(S)])
    <3> TAKE S \in SUBSET (1 .. n)
    <3>1. CASE S = {}
      BY <2>2, <3>1, Zenon
    <3>2. CASE S # {}
      <4> HIDE DEF op, Step, A
      <4>1. iter[S \ {Max(S)}] \in A /\ s[Max(S)] \in X
        BY <1>0, <1>3, <3>2, Zenon
      <4>2. op[<<iter[S \ {Max(S)}], s[Max(S)]>>] = Step(iter[S \ {Max(S)}], s[Max(S)])
        BY <1>2, <4>1, Zenon
      <4> QED BY <2>2, <3>2, <4>2, Zenon
    <3> QED BY <3>1, <3>2, Zenon
  <2>4. D = SUBSET (1 .. n)
    BY <1>0, Zenon
  <2> HIDE DEF Step, A
  <2>5. iter = [S \in D |-> IF S = {} THEN <<<<>>>> ELSE Step(iter[S \ {Max(S)}], s[Max(S)])]
    BY <2>3, <2>4
  <2> QED BY <2>5, Zenon
<1>5. Is(CHOOSE iter : Is(iter))
  <2> HIDE DEF Is
  <2> QED BY <1>4, Zenon
<1>6. PICK iter : Is(iter) /\ Between(s, d) = iter[DOMAIN s]
  BY <1>5, Zenon DEF Between, FoldLeft, MapThenFoldSet, CutOnce
<1>7. iter[{}] = <<<<>>>> /\ \A S \in SUBSET (1 .. n) : S # {} =>
          iter[S] = Step(iter[S \ {Max(S)}], s[Max(S)])
  <2>1. {} \in SUBSET (1 .. n) /\ D = SUBSET (1 .. n)
    BY <1>0, Zenon
  <2> HIDE DEF Step, D
  <2> QED BY <1>6, <2>1, Zenon
<1> HIDE DEF op, Step, A, Is, D
<1>8. \A S \in SUBSET (1 .. n) : S # {} /\ iter[S \ {Max(S)}] \in A =>
          iter[S] = op[<<iter[S \ {Max(S)}], s[Max(S)]>>]
  BY <1>0, <1>2, <1>3, <1>7, Zenon
<1>9. Folds(op, A, <<<<>>>>, s, iter[1 .. Len(s)])
  <2>1. op \in [A \X X -> A] /\ <<<<>>>> \in A
    BY <1>1, <1>2, Zenon
  <2>2. \A S \in SUBSET (1 .. Len(s)) : S # {} /\ iter[S \ {Max(S)}] \in A =>
            iter[S] = op[<<iter[S \ {Max(S)}], s[Max(S)]>>]
    BY <1>0, <1>8, Zenon
  <2> QED BY <1>7, <2>1, <2>2, StepsOfTable, Zenon
<1>10. iter[1 .. Len(s)] = Between(s, d)
  BY <1>0, <1>6, Zenon
<1> QED BY <1>9, <1>10, Zenon DEF op, A, Step

\* The pieces of a text, symbol by symbol.
LEMMA BetweenNothing == \A d : Between(<<>>, d) = <<<<>>>>
<1> TAKE d
<1>1. <<>> \in Seq({})
  BY EmptySeq
<1> QED BY <1>1, CutFolds, FoldsNothing, Zenon

LEMMA BetweenIs ==
    ASSUME NEW X, NEW d, NEW s \in Seq(X)
    PROVE  Between(s, d) \in Cuttings(X)
BY CutFolds, FoldsIn, Zenon

LEMMA BetweenAppended ==
    ASSUME NEW X, NEW d, NEW s \in Seq(X), NEW c \in X
    PROVE  Between(Append(s, c), d) = CutOnce(d, Between(s, d), c)
<1> DEFINE op == [p \in Cuttings(X) \X X |-> CutOnce(d, p[1], p[2])]
<1>1. Append(s, c) \in Seq(X)
  BY AppendProperties
<1>2. PICK v : v = Between(s, d) /\ v \in Cuttings(X)
  BY BetweenIs, Zenon
<1>3. Folds(op, Cuttings(X), <<<<>>>>, s, v) /\ Folds(op, Cuttings(X), <<<<>>>>, Append(s, c), Between(Append(s, c), d))
  BY <1>1, <1>2, CutFolds, Zenon
<1>4. op[<<v, c>>] = CutOnce(d, v, c)
  <2>1. <<v, c>> \in Cuttings(X) \X X /\ <<v, c>>[1] = v /\ <<v, c>>[2] = c
    BY <1>2
  <2> QED BY <2>1, Zenon
<1> HIDE DEF op
<1>5. Between(Append(s, c), d) = op[<<v, c>>]
  BY <1>3, FoldsAppended, Zenon
<1> QED BY <1>2, <1>4, <1>5, Zenon

LEMMA FrontAndLast ==
    ASSUME NEW X, NEW p \in Seq(X), p # <<>>
    PROVE  Front(p) \in Seq(X) /\ Last(p) \in X /\ Append(Front(p), Last(p)) = p /\ Len(Front(p)) = Len(p) - 1
<1>1. PICK n \in Nat : n = Len(p) /\ n # 0
  BY EmptySeq, LenProperties
<1>2. \A i \in 1 .. n : p[i] \in X
  BY <1>1, ElementOfSeq
<1>3. PICK f : f = Front(p)
  OBVIOUS
<1>4. f \in Seq(X) /\ Len(f) = n - 1 /\ \A i \in 1 .. n - 1 : f[i] = p[i]
  <2>1. /\ SubSeq(p, 1, n - 1) \in Seq(X) /\ Len(SubSeq(p, 1, n - 1)) = n - 1
        /\ \A i \in 1 .. n - 1 : SubSeq(p, 1, n - 1)[i] = p[i]
    BY <1>1, <1>2, SubSeqProperties
  <2>2. f = SubSeq(p, 1, n - 1)
    BY <1>1, <1>3, Zenon DEF Front
  <2> QED BY <2>1, <2>2, Zenon
<1>5. Last(p) = p[n] /\ p[n] \in X
  BY <1>1, <1>2 DEF Last
<1>6. PICK e : e = Last(p) /\ e \in X /\ e = p[n]
  BY <1>5, Zenon
<1>7. PICK q : q = Append(f, e) /\ q \in Seq(X) /\ Len(q) = n /\ q[n] = e /\ \A i \in 1 .. n - 1 : q[i] = f[i]
  <2>1. /\ Append(f, e) \in Seq(X) /\ Len(Append(f, e)) = Len(f) + 1 /\ Append(f, e)[Len(f) + 1] = e
        /\ \A i \in 1 .. Len(f) : Append(f, e)[i] = f[i]
    BY <1>4, <1>6, AppendProperties
  <2>2. Len(f) = n - 1 /\ Len(f) + 1 = n
    BY <1>4
  <2> QED BY <2>1, <2>2
<1>8. \A i \in 1 .. n : q[i] = p[i]
  BY <1>1, <1>4, <1>6, <1>7
<1>9. q = p
  BY <1>1, <1>7, <1>8, SeqEqual
<1> QED BY <1>1, <1>3, <1>4, <1>6, <1>7, <1>9

LEMMA AppendedIs ==
    ASSUME NEW X, NEW p \in Seq(X), NEW e \in X
    PROVE  Front(Append(p, e)) = p /\ Last(Append(p, e)) = e
<1>1. Append(p, e) \in Seq(X) /\ Append(p, e) # <<>>
  BY AppendProperties
<1>2. PICK q : q = Append(p, e) /\ q \in Seq(X) /\ q # <<>>
  BY <1>1, Zenon
<1>3. PICK f, c : f = Front(q) /\ c = Last(q) /\ f \in Seq(X) /\ c \in X /\ Append(f, c) = Append(p, e)
  BY <1>2, FrontAndLast, Zenon
<1>4. f = p /\ c = e
  BY <1>3, AppendInjective
<1> QED BY <1>2, <1>3, <1>4, Zenon

LEMMA ConcatAppended ==
    ASSUME NEW X, NEW a \in Seq(X), NEW b \in Seq(X), NEW c \in X
    PROVE  a \o Append(b, c) = Append(a \o b, c)
<1>1. <<c>> \in Seq(X) /\ a \o b \in Seq(X)
  BY ConcatProperties
<1>2. Append(b, c) = b \o <<c>> /\ Append(a \o b, c) = (a \o b) \o <<c>>
  BY <1>1, AppendIsConcat
<1>3. (a \o b) \o <<c>> = a \o (b \o <<c>>)
  BY <1>1, ConcatAssociative
<1> QED BY <1>2, <1>3, Zenon

\* What is behind the last delimiter grows by a text without any.
LEMMA BetweenWhole ==
    ASSUME NEW X, NEW d, NEW a \in Seq(X), NEW b \in Seq(X), \A i \in 1 .. Len(b) : b[i] # d
    PROVE  Between(a \o b, d) = Append(Front(Between(a, d)), Last(Between(a, d)) \o b)
<1>1. PICK front, last : /\ front = Front(Between(a, d)) /\ last = Last(Between(a, d))
                         /\ front \in Seq(Seq(X)) /\ last \in Seq(X) /\ Append(front, last) = Between(a, d)
  <2>1. PICK p : p = Between(a, d) /\ p \in Seq(Seq(X)) /\ p # <<>>
    BY BetweenIs, Zenon DEF Cuttings
  <2> QED BY <2>1, FrontAndLast, Zenon
<1> DEFINE Same(x) == Between(a \o x, d) = Append(front, last \o x)
           Free(x) == \A i \in 1 .. Len(x) : x[i] # d
           S == {x \in Seq(X) : Free(x) => Same(x)}
<1>2. <<>> \in S
  <2>1. <<>> \in Seq(X) /\ a \o <<>> = a /\ last \o <<>> = last
    BY <1>1, EmptySeq, ConcatEmptySeq
  <2>2. Same(<<>>)
    BY <1>1, <2>1, Zenon
  <2> QED BY <2>1, <2>2, Zenon
<1>3. \A x \in Seq(X), c \in X : x \in S => Append(x, c) \in S
  <2> SUFFICES ASSUME NEW x \in Seq(X), NEW c \in X, x \in S, Free(Append(x, c)) PROVE Same(Append(x, c))
    <3>1. \A x \in Seq(X), c \in X : Append(x, c) \in Seq(X)
      BY AppendProperties
    <3> HIDE DEF Same, Free
    <3> QED BY <3>1, Zenon
  <2>1. Free(x) /\ c # d
    <3>1. /\ Len(Append(x, c)) = Len(x) + 1 /\ Len(x) \in Nat /\ Append(x, c)[Len(x) + 1] = c
          /\ \A i \in 1 .. Len(x) : Append(x, c)[i] = x[i]
      BY AppendProperties, LenProperties
    <3>2. PICK t : t = Append(x, c)
      OBVIOUS
    <3>3. \A i \in 1 .. Len(x) + 1 : t[i] # d
      BY <3>1, <3>2
    <3>4. Len(x) + 1 \in 1 .. Len(x) + 1 /\ \A i \in 1 .. Len(x) : i \in 1 .. Len(x) + 1
      BY <3>1
    <3> QED BY <3>1, <3>2, <3>3, <3>4, Zenon
  <2>2. Same(x)
    BY <2>1
  <2>3. a \o x \in Seq(X) /\ last \o x \in Seq(X)
    BY <1>1, ConcatProperties
  <2>4. a \o Append(x, c) = Append(a \o x, c) /\ last \o Append(x, c) = Append(last \o x, c)
    <3>1. a \in Seq(X) /\ last \in Seq(X) /\ x \in Seq(X) /\ c \in X
      BY <1>1, Zenon
    <3>2. a \o Append(x, c) = Append(a \o x, c)
      BY ONLY <3>1, ConcatAppended
    <3>3. last \o Append(x, c) = Append(last \o x, c)
      BY ONLY <3>1, ConcatAppended
    <3> QED BY <3>2, <3>3, Zenon
  <2>5. Between(Append(a \o x, c), d) = CutOnce(d, Between(a \o x, d), c)
    BY <2>3, BetweenAppended, Zenon
  <2>6. PICK p, l : p = Append(front, l) /\ l = last \o x /\ l \in Seq(X)
    BY <2>3, Zenon
  <2>7. CutOnce(d, p, c) = Append(Front(p), Append(Last(p), c))
    BY <2>1, Zenon DEF CutOnce
  <2>8. Front(p) = front /\ Last(p) = l
    BY <1>1, <2>6, AppendedIs, Zenon
  <2> QED <3>1. Between(a \o x, d) = p
      BY <2>2, <2>6, Zenon
    <3>2. Between(a \o Append(x, c), d) = Append(front, Append(l, c))
      BY <2>4, <2>5, <2>7, <2>8, <3>1, Zenon
    <3>3. Append(l, c) = last \o Append(x, c)
      BY <2>4, <2>6, Zenon
    <3> QED BY <3>2, <3>3, Zenon
<1>4. b \in S
  <2> HIDE DEF S
  <2>1. Seq(X) \subseteq S
    BY <1>2, <1>3, ByAppending, Zenon
  <2> QED BY <2>1, Zenon
<1> QED BY <1>1, <1>4, Zenon

-----------------------------------------------------------------------------
(* Texts that are encoded and decoded again.                               *)

\* Whatever is reserved, each symbol has its escape, and is found again.
LEMMA EscapeOfEach ==
    ASSUME NEW c \in EscapedSymbols
    PROVE  \E w \in EscapeSymbols : Escapes[w] = c
<1>1. /\ Escapes["%23"] = "#" /\ Escapes["%25"] = "%" /\ Escapes["%26"] = "&" /\ Escapes["%2b"] = "+"
      /\ Escapes["%2f"] = "/" /\ Escapes["%3a"] = ":" /\ Escapes["%3d"] = "=" /\ Escapes["%3f"] = "?"
      /\ Escapes["%40"] = "@" /\ Escapes["%5b"] = "[" /\ Escapes["%5d"] = "]" /\ Escapes["%20"] = " "
  BY DEF Escapes
<1> QED BY <1>1 DEF EscapedSymbols, EscapeSymbols

Encoded(c, R) == IF c \in Illegal \cup R THEN CHOOSE w \in DOMAIN Escapes : Escapes[w] = c ELSE c

LEMMA SymbolEncoded ==
    ASSUME NEW c \in Symbols, NEW R \in SUBSET EscapedSymbols
    PROVE  /\ Encoded(c, R) \in Symbols
           /\ c \in Illegal \cup R => Encoded(c, R) \in EscapeSymbols /\ Escapes[Encoded(c, R)] = c
           /\ c \notin Illegal \cup R => Encoded(c, R) = c
<1>1. CASE c \in Illegal \cup R
  <2>1. c \in EscapedSymbols
    BY <1>1 DEF Illegal, EscapedSymbols
  <2>2. PICK found \in DOMAIN Escapes : Escapes[found] = c
    BY <2>1, EscapeOfEach, EscapesAre, Zenon
  <2>3. PICK w \in EscapeSymbols : Escapes[w] = c /\ w = Encoded(c, R)
    BY <1>1, <2>2, EscapesAre, Zenon DEF Encoded
  <2>4. w \in Symbols
    BY Zenon DEF Symbols
  <2> QED BY <1>1, <2>3, <2>4, Zenon
<1>2. CASE c \notin Illegal \cup R
  BY <1>2, Zenon DEF Encoded
<1> QED BY <1>1, <1>2, Zenon

LEMMA EncodedIs ==
    ASSUME NEW s \in Seq(Symbols), NEW R \in SUBSET EscapedSymbols
    PROVE  /\ Encode(s, R) \in Seq(Symbols) /\ Len(Encode(s, R)) = Len(s)
           /\ \A i \in 1 .. Len(s) : Encode(s, R)[i] = Encoded(s[i], R)
<1>0. PICK n \in Nat : n = Len(s)
  BY LenProperties
<1>1. PICK e : e = Encode(s, R)
  OBVIOUS
<1>2. e = [i \in 1 .. n |-> Encoded(s[i], R)]
  BY <1>0, <1>1, Zenon DEF Encode, Encoded
<1>3. \A i \in 1 .. n : Encoded(s[i], R) \in Symbols
  BY <1>0, ElementOfSeq, SymbolEncoded, Zenon
<1>4. e \in [1 .. n -> Symbols] /\ \A i \in 1 .. n : e[i] = Encoded(s[i], R)
  BY <1>2, <1>3
<1>5. e \in Seq(Symbols)
  BY <1>4, SeqDef
<1>6. Len(e) = n
  BY <1>4, <1>5, LenProperties
<1> QED BY <1>0, <1>1, <1>4, <1>5, <1>6, Zenon

LEMMA EncodedNothing == \A R \in SUBSET EscapedSymbols : Encode(<<>>, R) = <<>>
<1> TAKE R \in SUBSET EscapedSymbols
<1>1. <<>> \in Seq(Symbols) /\ Len(<<>>) = 0
  BY EmptySeq
<1>2. Encode(<<>>, R) \in Seq(Symbols) /\ Len(Encode(<<>>, R)) = 0
  BY <1>1, EncodedIs, Zenon
<1> QED BY <1>2, EmptySeq

LEMMA EncodedAppended ==
    ASSUME NEW s \in Seq(Symbols), NEW c \in Symbols, NEW R \in SUBSET EscapedSymbols
    PROVE  Encode(Append(s, c), R) = Append(Encode(s, R), Encoded(c, R))
<1>0. PICK n \in Nat : n = Len(s)
  BY LenProperties
<1>1. PICK t : /\ t = Append(s, c) /\ t \in Seq(Symbols) /\ Len(t) = n + 1 /\ t[n + 1] = c
               /\ \A i \in 1 .. n : t[i] = s[i]
  <2>1. /\ Append(s, c) \in Seq(Symbols) /\ Len(Append(s, c)) = Len(s) + 1 /\ Append(s, c)[Len(s) + 1] = c
        /\ \A i \in 1 .. Len(s) : Append(s, c)[i] = s[i]
    BY AppendProperties
  <2> QED BY <1>0, <2>1, Zenon
<1>2. PICK e : e = Encode(s, R) /\ e \in Seq(Symbols) /\ Len(e) = n /\ \A i \in 1 .. n : e[i] = Encoded(s[i], R)
  <2>1. /\ Encode(s, R) \in Seq(Symbols) /\ Len(Encode(s, R)) = Len(s)
        /\ \A i \in 1 .. Len(s) : Encode(s, R)[i] = Encoded(s[i], R)
    BY <1>0, EncodedIs, Zenon
  <2> QED BY <1>0, <2>1, Zenon
<1>3. PICK f : /\ f = Encode(t, R) /\ f \in Seq(Symbols) /\ Len(f) = n + 1
               /\ \A i \in 1 .. n + 1 : f[i] = Encoded(t[i], R)
  <2>1. /\ Encode(t, R) \in Seq(Symbols) /\ Len(Encode(t, R)) = Len(t)
        /\ \A i \in 1 .. Len(t) : Encode(t, R)[i] = Encoded(t[i], R)
    BY <1>1, EncodedIs, Zenon
  <2> QED BY <1>1, <2>1, Zenon
<1>4. PICK d : d = Encoded(c, R) /\ d \in Symbols
  BY SymbolEncoded, Zenon
<1>5. PICK g : /\ g = Append(e, d) /\ g \in Seq(Symbols) /\ Len(g) = n + 1 /\ g[n + 1] = d
               /\ \A i \in 1 .. n : g[i] = e[i]
  <2>1. /\ Append(e, d) \in Seq(Symbols) /\ Len(Append(e, d)) = Len(e) + 1 /\ Append(e, d)[Len(e) + 1] = d
        /\ \A i \in 1 .. Len(e) : Append(e, d)[i] = e[i]
    BY <1>2, <1>4, AppendProperties
  <2> QED BY <1>2, <2>1, Zenon
<1>6. \A i \in 1 .. n + 1 : f[i] = g[i]
  <2>1. \A i \in 1 .. n + 1 : i \in 1 .. n \/ i = n + 1
    OBVIOUS
  <2>2. \A i \in 1 .. n : i \in 1 .. n + 1
    OBVIOUS
  <2>3. n + 1 \in 1 .. n + 1
    OBVIOUS
  <2>4. f[n + 1] = g[n + 1]
    BY <1>1, <1>3, <1>4, <1>5, <2>3, Zenon
  <2>5. \A i \in 1 .. n : f[i] = g[i]
    <3> TAKE i \in 1 .. n
    <3>1. t[i] = s[i] /\ f[i] = Encoded(t[i], R)
      BY <1>1, <1>3, <2>2, Zenon
    <3>2. g[i] = e[i] /\ e[i] = Encoded(s[i], R)
      BY <1>2, <1>5, Zenon
    <3> QED BY <3>1, <3>2, Zenon
  <2> QED BY <2>1, <2>4, <2>5, Zenon
<1>7. f = g
  BY <1>3, <1>5, <1>6, SeqEqual
<1> QED BY <1>1, <1>2, <1>3, <1>4, <1>5, <1>7, Zenon

LEMMA EncodedJoined ==
    ASSUME NEW a \in Seq(Symbols), NEW b \in Seq(Symbols), NEW R \in SUBSET EscapedSymbols
    PROVE  Encode(a \o b, R) = Encode(a, R) \o Encode(b, R)
<1> DEFINE S == {x \in Seq(Symbols) : Encode(a \o x, R) = Encode(a, R) \o Encode(x, R)}
<1>0. Encode(a, R) \in Seq(Symbols)
  BY EncodedIs, Zenon
<1>1. <<>> \in S
  <2>1. <<>> \in Seq(Symbols) /\ a \o <<>> = a /\ Encode(a, R) \o <<>> = Encode(a, R)
    BY <1>0, EmptySeq, ConcatEmptySeq
  <2> QED BY <2>1, EncodedNothing, Zenon
<1>2. \A x \in Seq(Symbols), c \in Symbols : x \in S => Append(x, c) \in S
  <2> SUFFICES ASSUME NEW x \in Seq(Symbols), NEW c \in Symbols, x \in S PROVE Append(x, c) \in S
    BY Zenon
  <2>1. Append(x, c) \in Seq(Symbols) /\ a \o x \in Seq(Symbols)
    BY AppendProperties, ConcatProperties
  <2>2. a \o Append(x, c) = Append(a \o x, c)
    BY ConcatAppended
  <2>3. PICK d : d = Encoded(c, R) /\ d \in Symbols
    BY SymbolEncoded, Zenon
  <2>4. PICK e, f : e = Encode(a, R) /\ f = Encode(x, R) /\ e \in Seq(Symbols) /\ f \in Seq(Symbols)
    BY <1>0, EncodedIs, Zenon
  <2>5. e \o Append(f, d) = Append(e \o f, d)
    BY <2>3, <2>4, ConcatAppended
  <2>6. Encode(Append(x, c), R) = Append(f, d)
    BY <2>3, <2>4, EncodedAppended, Zenon
  <2>7. Encode(Append(a \o x, c), R) = Append(Encode(a \o x, R), d)
    BY <2>1, <2>3, EncodedAppended, Zenon
  <2>8. Encode(a \o x, R) = e \o f
    BY <2>4
  <2> QED BY <2>1, <2>2, <2>4, <2>5, <2>6, <2>7, <2>8, Zenon
<1> HIDE DEF S
<1>3. Seq(Symbols) \subseteq S
  BY <1>1, <1>2, ByAppending, Zenon
<1> QED BY <1>3 DEF S

\* Read as a part of a query, an encoded text is what it was.
LEMMA DecodedAsQuery ==
    ASSUME NEW s, Unescaped(s), NEW R \in SUBSET EscapedSymbols, "+" \in R
    PROVE  Decode(PlusIsSpace(Encode(s, R))) = s
<1>0. PICK n \in Nat : s \in Seq(Symbols) /\ n = Len(s) /\ DOMAIN s = 1 .. n
  BY LenProperties DEF Unescaped
<1>1. PICK e : e = Encode(s, R) /\ e \in Seq(Symbols) /\ Len(e) = n /\ \A i \in 1 .. n : e[i] = Encoded(s[i], R)
  <2>1. /\ Encode(s, R) \in Seq(Symbols) /\ Len(Encode(s, R)) = Len(s)
        /\ \A i \in 1 .. Len(s) : Encode(s, R)[i] = Encoded(s[i], R)
    BY <1>0, EncodedIs, Zenon
  <2> QED BY <1>0, <2>1, Zenon
<1>2. \A i \in 1 .. n :
          /\ e[i] \notin {"+", "%", Broken}
          /\ s[i] = IF e[i] \in EscapeSymbols THEN Escapes[e[i]] ELSE e[i]
  <2> TAKE i \in 1 .. n
  <2>1. s[i] \in Symbols /\ s[i] \notin EscapeSymbols \cup {Broken}
    BY <1>0, ElementOfSeq, Zenon DEF Unescaped
  <2>2. EscapeSymbols \cap {"+", "%", Broken} = {}
    BY DEF EscapeSymbols, Broken
  <2>3. "%" \in Illegal \cup R
    BY DEF Illegal
  <2>4. CASE s[i] \in Illegal \cup R
    <3>1. PICK c, d : c = s[i] /\ d = e[i] /\ c \in Symbols /\ c \in Illegal \cup R
      BY <2>1, <2>4, Zenon
    <3>2. d = Encoded(c, R)
      BY <1>1, <3>1, Zenon
    <3>3. d \in EscapeSymbols /\ Escapes[d] = c
      BY ONLY R \in SUBSET EscapedSymbols, <3>1, <3>2, SymbolEncoded, Zenon
    <3> QED BY <2>2, <3>1, <3>3
  <2>5. CASE s[i] \notin Illegal \cup R
    <3>1. e[i] = s[i]
      BY <1>1, <2>1, <2>5, SymbolEncoded, Zenon
    <3> QED BY <2>1, <2>3, <2>5, <3>1
  <2> QED BY <2>4, <2>5, Zenon
<1>3. PlusIsSpace(e) = e
  <2>1. PlusIsSpace(e) = [i \in 1 .. n |-> e[i]]
    BY <1>1, <1>2 DEF PlusIsSpace
  <2>2. e = [i \in 1 .. n |-> e[i]]
    BY <1>1, LenProperties
  <2> QED BY <2>1, <2>2, Zenon
<1>4. Decode(e) = [i \in 1 .. n |-> IF e[i] \in EscapeSymbols THEN Escapes[e[i]] ELSE e[i]]
  BY <1>1, <1>2, EscapesAre DEF Decode, Contains
<1>5. Decode(e) = [i \in 1 .. n |-> s[i]]
  BY <1>2, <1>4
<1>6. s = [i \in 1 .. n |-> s[i]]
  BY <1>0, LenProperties
<1> QED BY <1>1, <1>3, <1>5, <1>6, Zenon

-----------------------------------------------------------------------------
(* The same function of each of several texts.                             *)

\* A function applied to each member of a sequence.
Maps(g, A, B) == g \in [A -> B]
IsEach(e, g, p, B) == e \in Seq(B) /\ Len(e) = Len(p) /\ \A i \in 1 .. Len(p) : e[i] = g[p[i]]
Each(g, p) == [i \in 1 .. Len(p) |-> g[p[i]]]

LEMMA EachIs ==
    ASSUME NEW A, NEW B, NEW g, Maps(g, A, B), NEW p \in Seq(A)
    PROVE  IsEach(Each(g, p), g, p, B)
<1>0. PICK n \in Nat : n = Len(p) /\ \A i \in 1 .. n : p[i] \in A
  BY LenProperties, ElementOfSeq
<1>1. PICK e : e = Each(g, p) /\ e = [i \in 1 .. n |-> g[p[i]]]
  BY <1>0, Zenon DEF Each
<1>2. e \in [1 .. n -> B] /\ \A i \in 1 .. n : e[i] = g[p[i]]
  BY <1>0, <1>1 DEF Maps
<1>3. e \in Seq(B)
  BY <1>2, SeqDef
<1>4. Len(e) = n
  BY <1>2, <1>3, LenProperties
<1> QED BY <1>0, <1>1, <1>2, <1>3, <1>4, Zenon DEF IsEach

LEMMA EachOfNothing ==
    ASSUME NEW A, NEW B, NEW g, Maps(g, A, B)
    PROVE  Each(g, <<>>) = <<>>
<1>1. <<>> \in Seq(A) /\ Len(<<>>) = 0
  BY EmptySeq
<1>2. Each(g, <<>>) \in Seq(B) /\ Len(Each(g, <<>>)) = 0
  <2>1. IsEach(Each(g, <<>>), g, <<>>, B)
    BY <1>1, EachIs, Zenon
  <2> QED BY <1>1, <2>1, Zenon DEF IsEach
<1> QED BY <1>2, EmptySeq

LEMMA EachAppended ==
    ASSUME NEW A, NEW B, NEW g, Maps(g, A, B), NEW p \in Seq(A), NEW c \in A
    PROVE  Each(g, Append(p, c)) = Append(Each(g, p), g[c])
<1>0. PICK n \in Nat : n = Len(p)
  BY LenProperties
<1>1. PICK t : /\ t = Append(p, c) /\ t \in Seq(A) /\ Len(t) = n + 1 /\ t[n + 1] = c
               /\ \A i \in 1 .. n : t[i] = p[i]
  <2>1. /\ Append(p, c) \in Seq(A) /\ Len(Append(p, c)) = Len(p) + 1 /\ Append(p, c)[Len(p) + 1] = c
        /\ \A i \in 1 .. Len(p) : Append(p, c)[i] = p[i]
    BY AppendProperties
  <2> QED BY <1>0, <2>1, Zenon
<1>2. PICK e : e = Each(g, p) /\ e \in Seq(B) /\ Len(e) = n /\ \A i \in 1 .. n : e[i] = g[p[i]]
  <2>1. IsEach(Each(g, p), g, p, B)
    BY EachIs, Zenon
  <2> QED BY <1>0, <2>1, Zenon DEF IsEach
<1>3. PICK f : f = Each(g, t) /\ f \in Seq(B) /\ Len(f) = n + 1 /\ \A i \in 1 .. n + 1 : f[i] = g[t[i]]
  <2>1. PICK f : IsEach(f, g, t, B) /\ f = Each(g, t)
    BY <1>1, EachIs, Zenon
  <2>2. f \in Seq(B) /\ Len(f) = Len(t) /\ \A i \in 1 .. Len(t) : f[i] = g[t[i]]
    BY <2>1, Zenon DEF IsEach
  <2>3. Len(f) = n + 1 /\ \A i \in 1 .. n + 1 : f[i] = g[t[i]]
    BY <1>1, <2>2
  <2> QED BY <1>1, <2>1, <2>2, <2>3, Zenon
<1>4. PICK d : d = g[c] /\ d \in B
  BY DEF Maps
<1>5. PICK h : /\ h = Append(e, d) /\ h \in Seq(B) /\ Len(h) = n + 1 /\ h[n + 1] = d
               /\ \A i \in 1 .. n : h[i] = e[i]
  <2>1. /\ Append(e, d) \in Seq(B) /\ Len(Append(e, d)) = Len(e) + 1 /\ Append(e, d)[Len(e) + 1] = d
        /\ \A i \in 1 .. Len(e) : Append(e, d)[i] = e[i]
    BY <1>2, <1>4, AppendProperties
  <2> QED BY <1>2, <2>1, Zenon
<1>6. \A i \in 1 .. n + 1 : f[i] = h[i]
  <2>1. \A i \in 1 .. n + 1 : i \in 1 .. n \/ i = n + 1
    OBVIOUS
  <2>2. \A i \in 1 .. n : i \in 1 .. n + 1
    OBVIOUS
  <2>3. n + 1 \in 1 .. n + 1
    OBVIOUS
  <2>4. f[n + 1] = h[n + 1]
    BY <1>1, <1>3, <1>4, <1>5, <2>3, Zenon
  <2>5. \A i \in 1 .. n : f[i] = h[i]
    <3> TAKE i \in 1 .. n
    <3>1. t[i] = p[i] /\ f[i] = g[t[i]]
      BY <1>1, <1>3, <2>2, Zenon
    <3>2. h[i] = e[i] /\ e[i] = g[p[i]]
      BY <1>2, <1>5, Zenon
    <3> QED BY <3>1, <3>2, Zenon
  <2> QED BY <2>1, <2>4, <2>5, Zenon
<1>7. f = h
  BY <1>3, <1>5, <1>6, SeqEqual
<1> QED BY <1>1, <1>2, <1>3, <1>4, <1>5, <1>7, Zenon

\* Cut at a symbol that needs no escape, an encoded text is the encoded pieces.
EncodedWith(R) == [x \in Seq(Symbols) |-> Encode(x, R)]

LEMMA EncodedWithIs ==
    ASSUME NEW R \in SUBSET EscapedSymbols
    PROVE  Maps(EncodedWith(R), Seq(Symbols), Seq(Symbols)) /\ \A x \in Seq(Symbols) : EncodedWith(R)[x] = Encode(x, R)
<1>1. \A x \in Seq(Symbols) : Encode(x, R) \in Seq(Symbols)
  BY EncodedIs, Zenon
<1> QED BY <1>1, Zenon DEF EncodedWith, Maps

LEMMA BetweenEncoded ==
    ASSUME NEW R \in SUBSET EscapedSymbols, NEW d \in Symbols, d \notin Illegal \cup R \cup EscapeSymbols,
           NEW s \in Seq(Symbols)
    PROVE  Between(Encode(s, R), d) = Each(EncodedWith(R), Between(s, d))
<1> DEFINE S == {x \in Seq(Symbols) : Between(Encode(x, R), d) = Each(EncodedWith(R), Between(x, d))}
<1>0. PICK g : Maps(g, Seq(Symbols), Seq(Symbols)) /\ g = EncodedWith(R) /\ \A x \in Seq(Symbols) : g[x] = Encode(x, R)
  BY EncodedWithIs, Zenon
<1>e. <<>> \in Seq(Symbols) /\ <<>> \in Seq(Seq(Symbols)) /\ g[<<>>] = <<>>
  <2>1. <<>> \in Seq(Symbols) /\ <<>> \in Seq(Seq(Symbols))
    BY EmptySeq
  <2> QED BY <1>0, <2>1, EncodedNothing, Zenon
<1>1. <<>> \in S
  <2>1. Each(g, <<<<>>>>) = <<<<>>>>
    <3>1. Append(<<>>, <<>>) = <<<<>>>>
      OBVIOUS
    <3>2. Each(g, Append(<<>>, <<>>)) = Append(Each(g, <<>>), g[<<>>])
      <4>1. PICK p, e : p = <<>> /\ e = <<>> /\ Maps(g, Seq(Symbols), Seq(Symbols)) /\ p \in Seq(Seq(Symbols)) /\ e \in Seq(Symbols)
        BY <1>0, <1>e, Zenon
      <4>2. Maps(g, Seq(Symbols), Seq(Symbols)) /\ p \in Seq(Seq(Symbols)) /\ e \in Seq(Symbols)
        BY ONLY <4>1, Zenon
      <4>3. Each(g, Append(p, e)) = Append(Each(g, p), g[e])
        BY ONLY <4>2, EachAppended, SMT
      <4> QED BY <4>1, <4>3, Zenon
    <3> QED BY <1>0, <1>e, <3>1, <3>2, EachOfNothing, Zenon
  <2> QED BY <1>0, <1>e, <2>1, BetweenNothing, EncodedNothing, Zenon
<1>2. \A x \in Seq(Symbols), c \in Symbols : x \in S => Append(x, c) \in S
  <2> SUFFICES ASSUME NEW x \in Seq(Symbols), NEW c \in Symbols, x \in S PROVE Append(x, c) \in S
    BY Zenon
  <2>0. Append(x, c) \in Seq(Symbols)
    BY AppendProperties
  <2>a. Between(Encode(x, R), d) = Each(g, Between(x, d))
    BY <1>0, Zenon
  <2>b. Between(Encode(Append(x, c), R), d) = Each(g, Between(Append(x, c), d)) => Append(x, c) \in S
    BY <1>0, <2>0, Zenon
  <2>c. x \in Seq(Symbols) /\ c \in Symbols /\ d \in Symbols
    OBVIOUS
  <2> HIDE DEF S
  <2>1. PICK e : e = Encode(x, R) /\ e \in Seq(Symbols)
    BY EncodedIs, Zenon
  <2>2. PICK w : w = Encoded(c, R) /\ w \in Symbols
    BY SymbolEncoded, Zenon
  <2>3. w = d <=> c = d
    <3>1. CASE c \in Illegal \cup R
      <4>1. w \in EscapeSymbols
        BY <2>2, <3>1, SymbolEncoded, Zenon
      <4> QED BY <3>1, <4>1
    <3>2. CASE c \notin Illegal \cup R
      <4>1. w = c
        BY <2>2, <3>2, SymbolEncoded, Zenon
      <4> QED BY <4>1
    <3> QED BY <3>1, <3>2
  <2>4. PICK f \in Seq(Seq(Symbols)), l \in Seq(Symbols) : Between(x, d) = Append(f, l)
    <3>1. PICK p : p = Between(x, d) /\ p \in Seq(Seq(Symbols)) /\ p # <<>>
      BY BetweenIs, Zenon DEF Cuttings
    <3>2. Front(p) \in Seq(Seq(Symbols)) /\ Last(p) \in Seq(Symbols) /\ Append(Front(p), Last(p)) = p
      BY <3>1, FrontAndLast, Zenon
    <3> QED BY <3>1, <3>2, Zenon
  <2>d. f \in Seq(Seq(Symbols)) /\ l \in Seq(Symbols) /\ Maps(g, Seq(Symbols), Seq(Symbols))
    BY <1>0, Zenon
  <2>5. PICK F : F = Each(g, f) /\ F \in Seq(Seq(Symbols))
    BY <1>0, EachIs, Zenon DEF IsEach
  <2>6. Between(e, d) = Append(F, g[l])
    <3>1. Between(e, d) = Each(g, Append(f, l))
      BY <2>a, <2>1, <2>4, Zenon
    <3>2. Each(g, Append(f, l)) = Append(Each(g, f), g[l])
      BY ONLY <2>d, EachAppended, SMT
    <3> QED BY <2>5, <3>1, <3>2, Zenon
  <2>7. Between(Encode(Append(x, c), R), d) = CutOnce(d, Append(F, g[l]), w)
    <3>1. Encode(Append(x, c), R) = Append(e, w)
      BY <2>1, <2>2, EncodedAppended, Zenon
    <3>2. Between(Append(e, w), d) = CutOnce(d, Between(e, d), w)
      BY <2>1, <2>2, BetweenAppended
    <3> QED BY <2>6, <3>1, <3>2, Zenon
  <2>8. Between(Append(x, c), d) = CutOnce(d, Append(f, l), c)
    <3>1. Between(Append(x, c), d) = CutOnce(d, Between(x, d), c)
      BY ONLY <2>c, BetweenAppended, Zenon
    <3> QED BY <2>4, <3>1, Zenon
  <2>9. g[l] \in Seq(Symbols) /\ Append(f, l) \in Seq(Seq(Symbols))
    BY <1>0, AppendProperties DEF Maps
  <2>10. CASE c = d
    <3>1. Between(Encode(Append(x, c), R), d) = Append(Append(F, g[l]), <<>>)
      BY <2>3, <2>7, <2>10, Zenon DEF CutOnce
    <3>2. Between(Append(x, c), d) = Append(Append(f, l), <<>>)
      BY <2>8, <2>10, Zenon DEF CutOnce
    <3>3. Each(g, Append(Append(f, l), <<>>)) = Append(Each(g, Append(f, l)), g[<<>>])
      <4>1. PICK p, nil : p = Append(f, l) /\ nil = <<>> /\ p \in Seq(Seq(Symbols)) /\ nil \in Seq(Symbols)
        BY <1>e, <2>9, Zenon
      <4>2. p \in Seq(Seq(Symbols)) /\ nil \in Seq(Symbols)
        BY ONLY <4>1, Zenon
      <4>3. Each(g, Append(p, nil)) = Append(Each(g, p), g[nil])
        BY ONLY <2>d, <4>2, EachAppended, SMT
      <4> QED BY <4>1, <4>3, Zenon
    <3>4. Each(g, Append(f, l)) = Append(Each(g, f), g[l])
      BY ONLY <2>d, EachAppended, SMT
    <3> QED BY <1>e, <2>b, <2>5, <3>1, <3>2, <3>3, <3>4, Zenon
  <2>11. CASE c # d
    <3>1. Between(Encode(Append(x, c), R), d) = Append(F, Append(g[l], w))
      <4>1. Front(Append(F, g[l])) = F /\ Last(Append(F, g[l])) = g[l]
        BY ONLY <2>5, <2>9, AppendedIs, SMT
      <4> QED BY <2>3, <2>7, <2>11, <4>1, Zenon DEF CutOnce
    <3>2. Between(Append(x, c), d) = Append(f, Append(l, c))
      <4>1. Front(Append(f, l)) = f /\ Last(Append(f, l)) = l
        BY ONLY <2>d, AppendedIs, SMT
      <4> QED BY <2>8, <2>11, <4>1, Zenon DEF CutOnce
    <3>3. Append(l, c) \in Seq(Symbols)
      BY AppendProperties
    <3>4. g[Append(l, c)] = Append(g[l], w)
      <4>1. Encode(Append(l, c), R) = Append(Encode(l, R), Encoded(c, R))
        BY EncodedAppended, Zenon
      <4> QED BY <1>0, <2>2, <3>3, <4>1, Zenon
    <3>5. Each(g, Append(f, Append(l, c))) = Append(Each(g, f), g[Append(l, c)])
      <4>1. PICK p : p = Append(l, c) /\ p \in Seq(Symbols)
        BY <3>3, Zenon
      <4>2. p \in Seq(Symbols)
        BY ONLY <4>1, Zenon
      <4>3. Each(g, Append(f, p)) = Append(Each(g, f), g[p])
        BY ONLY <2>d, <4>2, EachAppended, SMT
      <4> QED BY <4>1, <4>3, Zenon
    <3> QED BY <2>b, <2>5, <3>1, <3>2, <3>4, <3>5, Zenon
  <2> QED BY <2>10, <2>11, Zenon
<1> HIDE DEF S
<1>3. Seq(Symbols) \subseteq S
  BY <1>1, <1>2, ByAppending, Zenon
<1> QED BY <1>3 DEF S

-----------------------------------------------------------------------------
(* The pieces of a query, and its parameters.                              *)

\* How the pieces of a query end: f is what is in front of the last ampersand.
Ending(q, f, l) ==
    /\ f \in Seq(Seq(Symbols)) /\ l \in Seq(Symbols)
    /\ Between(q, "&") = Append(f, l)
    /\ l = <<>> => Pieces(q) = f
    /\ l # <<>> => Pieces(q) = Append(f, l)

LEMMA EndingIs ==
    ASSUME NEW q, NEW f \in Seq(Seq(Symbols)), NEW l \in Seq(Symbols), Between(q, "&") = Append(f, l)
    PROVE  Ending(q, f, l)
<1>1. PICK parts : parts = Between(q, "&") /\ parts = Append(f, l)
  OBVIOUS
<1>2. Front(parts) = f /\ Last(parts) = l
  BY <1>1, AppendedIs
<1>3. Pieces(q) = IF Last(parts) = <<>> THEN Front(parts) ELSE parts
  BY <1>1, Zenon DEF Pieces
<1> QED BY <1>1, <1>2, <1>3, Zenon DEF Ending

LEMMA SomeEnding ==
    ASSUME NEW q \in Seq(Symbols)
    PROVE  \E f, l : Ending(q, f, l)
<1>1. PICK p : p = Between(q, "&") /\ p \in Seq(Seq(Symbols)) /\ p # <<>>
  BY BetweenIs, Zenon DEF Cuttings
<1>2. p \in Seq(Seq(Symbols)) /\ p # <<>>
  BY <1>1, Zenon
<1>3. Front(p) \in Seq(Seq(Symbols)) /\ Last(p) \in Seq(Symbols) /\ Append(Front(p), Last(p)) = p
  BY ONLY <1>2, FrontAndLast, Zenon
<1>4. PICK f, l : f \in Seq(Seq(Symbols)) /\ l \in Seq(Symbols) /\ Append(f, l) = Between(q, "&")
  BY <1>1, <1>3, Zenon
<1>5. Ending(q, f, l)
  BY <1>4, EndingIs, Zenon
<1> QED BY <1>5, Zenon

LEMMA PiecesIn ==
    ASSUME NEW q \in Seq(Symbols)
    PROVE  Pieces(q) \in Seq(Seq(Symbols))
<1>1. PICK f, l : Ending(q, f, l)
  BY SomeEnding, Zenon
<1>2. f \in Seq(Seq(Symbols)) /\ l \in Seq(Symbols) /\ (Pieces(q) = f \/ Pieces(q) = Append(f, l))
  BY <1>1, Zenon DEF Ending
<1>3. Append(f, l) \in Seq(Seq(Symbols))
  BY <1>2, AppendProperties
<1> QED BY <1>2, <1>3, Zenon

LEMMA NothingEnds == Ending(<<>>, <<>>, <<>>)
<1>1. <<>> \in Seq(Symbols) /\ <<>> \in Seq(Seq(Symbols)) /\ Append(<<>>, <<>>) = <<<<>>>>
  BY EmptySeq
<1>2. Between(<<>>, "&") = Append(<<>>, <<>>)
  BY <1>1, BetweenNothing, Zenon
<1> QED BY <1>1, <1>2, EndingIs, Zenon

LEMMA AppendEqual ==
    ASSUME NEW X, NEW p \in Seq(X), NEW c \in X, NEW q \in Seq(X), NEW d \in X, Append(p, c) = Append(q, d)
    PROVE  p = q /\ c = d
BY AppendInjective

\* Nothing is behind the last ampersand when that is the last symbol, or none is there.
LEMMA LastPiece ==
    ASSUME NEW q \in Seq(Symbols), NEW f, NEW l, Ending(q, f, l)
    PROVE  l = <<>> <=> (q = <<>> \/ Last(q) = "&")
<1>0. f \in Seq(Seq(Symbols)) /\ l \in Seq(Symbols) /\ Between(q, "&") = Append(f, l)
  BY Zenon DEF Ending
<1>1. CASE q = <<>>
  <2>1. <<>> \in Seq(Symbols) /\ <<>> \in Seq(Seq(Symbols)) /\ Between(q, "&") = Append(<<>>, <<>>)
    BY <1>1, NothingEnds, Zenon DEF Ending
  <2>2. l = <<>>
    BY <1>0, <2>1, AppendEqual
  <2> QED BY <1>1, <2>2, Zenon
<1>2. CASE q # <<>>
  <2>1. PICK r, c : r \in Seq(Symbols) /\ c \in Symbols /\ q = Append(r, c) /\ c = Last(q)
    BY <1>2, FrontAndLast, Zenon
  <2>2. r \in Seq(Symbols) /\ c \in Symbols
    BY <2>1, Zenon
  <2>3. Between(Append(r, c), "&") = CutOnce("&", Between(r, "&"), c)
    BY ONLY <2>2, BetweenAppended, Zenon
  <2>4. PICK g, k : g \in Seq(Seq(Symbols)) /\ k \in Seq(Symbols) /\ Between(r, "&") = Append(g, k)
    <3>1. PICK g, k : Ending(r, g, k)
      BY <2>2, SomeEnding, Zenon
    <3> QED BY <3>1, Zenon DEF Ending
  <2>5. g \in Seq(Seq(Symbols)) /\ k \in Seq(Symbols)
    BY <2>4, Zenon
  <2>6. Front(Append(g, k)) = g /\ Last(Append(g, k)) = k
    BY ONLY <2>5, AppendedIs, SMT
  <2>7. CASE c = "&"
    <3>1. Append(f, l) = Append(Append(g, k), <<>>)
      BY <1>0, <2>1, <2>3, <2>4, <2>7, Zenon DEF CutOnce
    <3>2. PICK p, e : p = Append(g, k) /\ e = <<>>
      OBVIOUS
    <3>3. f \in Seq(Seq(Symbols)) /\ l \in Seq(Symbols) /\ p \in Seq(Seq(Symbols)) /\ e \in Seq(Symbols)
      <4>1. Append(g, k) \in Seq(Seq(Symbols)) /\ <<>> \in Seq(Symbols)
        BY <2>5, AppendProperties, EmptySeq
      <4> QED BY <1>0, <3>2, <4>1, Zenon
    <3>4. Append(f, l) = Append(p, e)
      BY <3>1, <3>2, Zenon
    <3>5. l = e
      BY ONLY <3>3, <3>4, AppendEqual, SMT
    <3> QED BY <2>1, <2>7, <3>2, <3>5, Zenon
  <2>8. CASE c # "&"
    <3>1. Append(f, l) = Append(g, Append(k, c))
      BY <1>0, <2>1, <2>3, <2>4, <2>6, <2>8, Zenon DEF CutOnce
    <3>2. PICK e : e = Append(k, c)
      OBVIOUS
    <3>3. e \in Seq(Symbols) /\ e # <<>>
      <4>1. Append(k, c) \in Seq(Symbols) /\ Append(k, c) # <<>>
        BY <2>2, <2>5, AppendProperties
      <4> QED BY <3>2, <4>1, Zenon
    <3>4. f \in Seq(Seq(Symbols)) /\ l \in Seq(Symbols) /\ g \in Seq(Seq(Symbols)) /\ e \in Seq(Symbols)
      BY <1>0, <2>5, <3>3, Zenon
    <3>5. Append(f, l) = Append(g, e)
      BY <3>1, <3>2, Zenon
    <3>6. l = e
      BY ONLY <3>4, <3>5, AppendEqual, SMT
    <3> QED BY <1>2, <2>1, <2>8, <3>3, <3>6, Zenon
  <2> QED BY <2>7, <2>8, Zenon
<1> QED BY <1>1, <1>2, Zenon

\* What is added behind an ampersand is a piece of its own.
LEMMA PieceAlone ==
    ASSUME NEW b \in Seq(Symbols), b # <<>>, \A i \in 1 .. Len(b) : b[i] # "&"
    PROVE  Pieces(b) = Append(<<>>, b)
<1>1. PICK nil : nil = <<>> /\ nil \in Seq(Symbols) /\ nil \in Seq(Seq(Symbols)) /\ Between(nil, "&") = Append(nil, nil)
  BY NothingEnds, Zenon DEF Ending
<1>2. nil \in Seq(Symbols) /\ b \in Seq(Symbols) /\ \A i \in 1 .. Len(b) : b[i] # "&"
  BY <1>1, Zenon
<1>3. Between(nil \o b, "&") = Append(Front(Between(nil, "&")), Last(Between(nil, "&")) \o b)
  BY ONLY <1>2, BetweenWhole, SMT
<1>4. nil \o b = b
  BY <1>1, ConcatEmptySeq
<1>5. Front(Append(nil, nil)) = nil /\ Last(Append(nil, nil)) = nil
  <2>1. nil \in Seq(Symbols) /\ nil \in Seq(Seq(Symbols))
    BY <1>1, Zenon
  <2> QED BY ONLY <2>1, AppendedIs, SMT
<1>6. Between(b, "&") = Append(nil, b)
  BY <1>1, <1>3, <1>4, <1>5, Zenon
<1>7. Ending(b, nil, b)
  BY <1>1, <1>6, EndingIs, Zenon
<1> QED BY <1>1, <1>7, Zenon DEF Ending

LEMMA PieceAdded ==
    ASSUME NEW q \in Seq(Symbols), NEW f, NEW l, Ending(q, f, l),
           NEW b \in Seq(Symbols), b # <<>>, \A i \in 1 .. Len(b) : b[i] # "&"
    PROVE  Pieces(Append(q, "&") \o b) = Append(Append(f, l), b)
<1>0. f \in Seq(Seq(Symbols)) /\ l \in Seq(Symbols) /\ Between(q, "&") = Append(f, l)
  BY Zenon DEF Ending
<1>1. PICK amp : amp = "&" /\ amp \in Symbols
  <2>1. "&" \in Symbols
    BY DEF Symbols, EscapedSymbols
  <2> QED BY <2>1
<1>2. PICK a : a = Append(q, amp) /\ a \in Seq(Symbols)
  <2>1. Append(q, amp) \in Seq(Symbols)
    BY <1>1, AppendProperties
  <2> QED BY <2>1, Zenon
<1>3. PICK p, nil : p = Append(f, l) /\ nil = <<>> /\ p \in Seq(Seq(Symbols)) /\ nil \in Seq(Symbols)
  <2>1. Append(f, l) \in Seq(Seq(Symbols)) /\ <<>> \in Seq(Symbols)
    BY <1>0, AppendProperties, EmptySeq
  <2> QED BY <2>1, Zenon
<1>4. Between(a, amp) = Append(p, nil)
  <2>1. q \in Seq(Symbols) /\ amp \in Symbols
    BY <1>1, Zenon
  <2>2. Between(Append(q, amp), amp) = CutOnce(amp, Between(q, amp), amp)
    BY ONLY <2>1, BetweenAppended, Zenon
  <2> QED BY <1>0, <1>1, <1>2, <1>3, <2>2, Zenon DEF CutOnce
<1>5. a \in Seq(Symbols) /\ b \in Seq(Symbols) /\ \A i \in 1 .. Len(b) : b[i] # amp
  BY <1>1, <1>2, Zenon
<1>6. Between(a \o b, amp) = Append(Front(Between(a, amp)), Last(Between(a, amp)) \o b)
  BY ONLY <1>5, BetweenWhole, SMT
<1>7. Front(Append(p, nil)) = p /\ Last(Append(p, nil)) = nil
  <2>1. p \in Seq(Seq(Symbols)) /\ nil \in Seq(Symbols)
    BY <1>3, Zenon
  <2> QED BY ONLY <2>1, AppendedIs, SMT
<1>8. nil \o b = b
  BY <1>3, ConcatEmptySeq
<1>9. Between(a \o b, "&") = Append(p, b)
  BY <1>1, <1>4, <1>6, <1>7, <1>8, Zenon
<1>10. Ending(a \o b, p, b)
  BY <1>3, <1>9, EndingIs, Zenon
<1> QED BY <1>1, <1>2, <1>3, <1>10, Zenon DEF Ending

\* A piece read as a name and a value, which are converted.
Reading(C) == [x \in Seq(Symbols) |->
    <<C[Before(x, {"="})], IF Rest(x, {"="}) = <<>> THEN <<>> ELSE C[Tail(Rest(x, {"="}))]>>]
AsQuery == [x \in Seq(Symbols) |-> Decode(PlusIsSpace(x))]
AsItIs == [x \in Seq(Symbols) |-> x]

LEMMA SpacesIs ==
    ASSUME NEW x \in Seq(Symbols)
    PROVE  PlusIsSpace(x) \in Seq(Symbols)
<1>1. Len(x) \in Nat /\ \A i \in 1 .. Len(x) : x[i] \in Symbols
  BY LenProperties, ElementOfSeq
<1>2. " " \in Symbols
  BY DEF Symbols, EscapedSymbols
<1>3. PICK n \in Nat : n = Len(x)
  BY <1>1
<1>4. PlusIsSpace(x) \in [1 .. n -> Symbols]
  BY <1>1, <1>2, <1>3 DEF PlusIsSpace
<1> QED BY <1>4, SeqDef

LEMMA ConversionsAre ==
    Maps(AsQuery, Seq(Symbols), Seq(Symbols)) /\ Maps(AsItIs, Seq(Symbols), Seq(Symbols))
<1>1. \A x \in Seq(Symbols) : Decode(PlusIsSpace(x)) \in Seq(Symbols)
  BY SpacesIs, Decoded, Zenon DEF Unescaped
<1> QED BY <1>1, Zenon DEF Maps, AsQuery, AsItIs

LEMMA ReadingIs ==
    ASSUME NEW C, Maps(C, Seq(Symbols), Seq(Symbols))
    PROVE  /\ Maps(Reading(C), Seq(Symbols), Seq(Symbols) \X Seq(Symbols))
           /\ \A x \in Seq(Symbols) :
                  Reading(C)[x] = <<C[Before(x, {"="})],
                                    IF Rest(x, {"="}) = <<>> THEN <<>> ELSE C[Tail(Rest(x, {"="}))]>>
<1>1. ASSUME NEW x \in Seq(Symbols)
      PROVE  <<C[Before(x, {"="})], IF Rest(x, {"="}) = <<>> THEN <<>> ELSE C[Tail(Rest(x, {"="}))]>>
             \in Seq(Symbols) \X Seq(Symbols)
  <2>1. PICK b, r : b = Before(x, {"="}) /\ r = Rest(x, {"="}) /\ b \in Seq(Symbols) /\ r \in Seq(Symbols)
    BY CutApart, Zenon
  <2>2. C[b] \in Seq(Symbols)
    BY <2>1 DEF Maps
  <2>3. CASE r = <<>>
    BY <2>1, <2>2, <2>3, EmptySeq
  <2>4. CASE r # <<>>
    <3>1. Tail(r) \in Seq(Symbols)
      BY <2>1, <2>4, Behind, Zenon
    <3>2. C[Tail(r)] \in Seq(Symbols)
      BY <3>1 DEF Maps
    <3> QED BY <2>1, <2>2, <2>4, <3>2
  <2> QED BY <2>3, <2>4
<1> QED BY <1>1, Zenon DEF Reading, Maps

LEMMA ParametersAre ==
    ASSUME NEW q \in Seq(Symbols)
    PROVE  /\ Parameters(q, LAMBDA s : Decode(PlusIsSpace(s))) = Each(Reading(AsQuery), Pieces(q))
           /\ Parameters(q, LAMBDA x : x) = Each(Reading(AsItIs), Pieces(q))
<1>1. PICK p, n : p = Pieces(q) /\ p \in Seq(Seq(Symbols)) /\ n = Len(p)
  BY PiecesIn, Zenon
<1>2. \A i \in 1 .. n : p[i] \in Seq(Symbols)
  BY <1>1, ElementOfSeq
<1> DEFINE NameIn(i) == Before(p[i], {"="})
           Behind1(i) == Rest(p[i], {"="})
           Read1(C, i) == <<C[NameIn(i)], IF Behind1(i) = <<>> THEN <<>> ELSE C[Tail(Behind1(i))]>>
           Query1(i) == <<Decode(PlusIsSpace(NameIn(i))),
                          IF Behind1(i) = <<>> THEN <<>> ELSE Decode(PlusIsSpace(Tail(Behind1(i))))>>
           Same1(i) == <<NameIn(i), IF Behind1(i) = <<>> THEN <<>> ELSE Tail(Behind1(i))>>
<1>3. ASSUME NEW i \in 1 .. n
      PROVE  NameIn(i) \in Seq(Symbols) /\ (Behind1(i) # <<>> => Tail(Behind1(i)) \in Seq(Symbols))
  <2>1. PICK x \in Seq(Symbols) : x = p[i]
    BY <1>2, Zenon
  <2>2. Before(x, {"="}) \in Seq(Symbols) /\ Rest(x, {"="}) \in Seq(Symbols)
    BY CutApart, Zenon
  <2>3. PICK r : r = Rest(x, {"="}) /\ r \in Seq(Symbols)
    BY <2>2, Zenon
  <2>4. r # <<>> => Tail(r) \in Seq(Symbols)
    BY <2>3, Behind, Zenon
  <2> QED BY <2>1, <2>2, <2>3, <2>4, Zenon
<1>4. ASSUME NEW C, Maps(C, Seq(Symbols), Seq(Symbols))
      PROVE  Each(Reading(C), p) = [i \in 1 .. n |-> Read1(C, i)]
  <2>1. \A i \in 1 .. n : Reading(C)[p[i]] = Read1(C, i)
    BY <1>2, <1>4, ReadingIs, Zenon
  <2>2. Each(Reading(C), p) = [i \in 1 .. n |-> Reading(C)[p[i]]]
    BY <1>1, Zenon DEF Each
  <2> HIDE DEF Read1
  <2> QED BY <2>1, <2>2
<1>5. \A x \in Seq(Symbols) : AsQuery[x] = Decode(PlusIsSpace(x)) /\ AsItIs[x] = x
  BY Zenon DEF AsQuery, AsItIs
<1>6. Parameters(q, LAMBDA s : Decode(PlusIsSpace(s))) = [i \in 1 .. n |-> Query1(i)]
  BY <1>1, Zenon DEF Parameters
<1>7. Parameters(q, LAMBDA x : x) = [i \in 1 .. n |-> Same1(i)]
  BY <1>1, Zenon DEF Parameters
<1>8. \A i \in 1 .. n : Read1(AsQuery, i) = Query1(i) /\ Read1(AsItIs, i) = Same1(i)
  <2> TAKE i \in 1 .. n
  <2>1. CASE Behind1(i) = <<>>
    BY <1>3, <1>5, <2>1, Zenon
  <2>2. CASE Behind1(i) # <<>>
    BY <1>3, <1>5, <2>2, Zenon
  <2> QED BY <2>1, <2>2, Zenon
<1>9. Each(Reading(AsQuery), p) = [i \in 1 .. n |-> Read1(AsQuery, i)]
  BY <1>4, ConversionsAre, Zenon
<1>10. Each(Reading(AsItIs), p) = [i \in 1 .. n |-> Read1(AsItIs, i)]
  BY <1>4, ConversionsAre, Zenon
<1> HIDE DEF Read1, Query1, Same1
<1>11. [i \in 1 .. n |-> Read1(AsQuery, i)] = [i \in 1 .. n |-> Query1(i)]
  BY <1>8
<1>12. [i \in 1 .. n |-> Read1(AsItIs, i)] = [i \in 1 .. n |-> Same1(i)]
  BY <1>8
<1> QED BY <1>1, <1>6, <1>7, <1>9, <1>10, <1>11, <1>12, Zenon

LEMMA ParametersOfUrl ==
    ASSUME NEW u, u.query \in Seq(Symbols)
    PROVE  GetQueryParameters(u) = Each(Reading(AsQuery), Pieces(u.query))
BY ParametersAre, Zenon DEF GetQueryParameters

-----------------------------------------------------------------------------
(* A parameter that is added to a query.                                   *)

Free(s, D) == \A i \in 1 .. Len(s) : s[i] \notin D

LEMMA FreeJoined ==
    ASSUME NEW a \in Seq(Symbols), NEW b \in Seq(Symbols), NEW D, Free(a, D), Free(b, D)
    PROVE  a \o b \in Seq(Symbols) /\ Free(a \o b, D)
<1>1. PICK t : t = a \o b
  OBVIOUS
<1>2. /\ t \in Seq(Symbols) /\ Len(t) = Len(a) + Len(b) /\ Len(a) \in Nat /\ Len(b) \in Nat
      /\ \A i \in 1 .. Len(a) : t[i] = a[i]
      /\ \A i \in 1 .. Len(b) : t[Len(a) + i] = b[i]
  BY <1>1, Joined
<1>3. ASSUME NEW i \in 1 .. Len(t) PROVE t[i] \notin D
  <2>1. CASE i \in 1 .. Len(a)
    BY <1>2, <2>1 DEF Free
  <2>2. CASE i \notin 1 .. Len(a)
    <3>1. i - Len(a) \in 1 .. Len(b) /\ Len(a) + (i - Len(a)) = i
      BY <1>2, <2>2
    <3>2. t[Len(a) + (i - Len(a))] = b[i - Len(a)]
      BY <1>2, <3>1
    <3> QED BY <3>1, <3>2 DEF Free
  <2> QED BY <2>1, <2>2
<1> QED BY <1>1, <1>2, <1>3 DEF Free

LEMMA EncodedFree ==
    ASSUME NEW s \in Seq(Symbols), NEW R \in SUBSET EscapedSymbols
    PROVE  Free(Encode(s, R), R)
<1>0. PICK n \in Nat : n = Len(s)
  BY LenProperties
<1>1. PICK e : e = Encode(s, R) /\ e \in Seq(Symbols) /\ Len(e) = n /\ \A i \in 1 .. n : e[i] = Encoded(s[i], R)
  <2>1. /\ Encode(s, R) \in Seq(Symbols) /\ Len(Encode(s, R)) = Len(s)
        /\ \A i \in 1 .. Len(s) : Encode(s, R)[i] = Encoded(s[i], R)
    BY EncodedIs, Zenon
  <2> QED BY <1>0, <2>1, Zenon
<1>2. ASSUME NEW i \in 1 .. n PROVE e[i] \notin R
  <2>1. PICK c \in Symbols : c = s[i]
    BY <1>0, ElementOfSeq, Zenon
  <2>2. e[i] = Encoded(c, R)
    BY <1>1, <2>1, Zenon
  <2>3. CASE c \in Illegal \cup R
    <3>1. Encoded(c, R) \in EscapeSymbols
      BY <2>3, SymbolEncoded, Zenon
    <3>2. EscapeSymbols \cap EscapedSymbols = {}
      BY DEF EscapeSymbols, EscapedSymbols
    <3> QED BY <2>2, <3>1, <3>2
  <2>4. CASE c \notin Illegal \cup R
    <3>1. Encoded(c, R) = c
      BY <2>4, SymbolEncoded, Zenon
    <3> QED BY <2>2, <2>4, <3>1
  <2> QED BY <2>3, <2>4, Zenon
<1> QED BY <1>1, <1>2, Zenon DEF Free

\* A parameter as it is added.
PieceOf(p) == (Encode(p[1], ReservedQueryParam) \o <<"=">>) \o Encode(p[2], ReservedQueryParam)

LEMMA PieceIs ==
    ASSUME NEW n, NEW v, Unescaped(n), Unescaped(v)
    PROVE  /\ PieceOf(<<n, v>>) \in Seq(Symbols) /\ PieceOf(<<n, v>>) # <<>>
           /\ Free(PieceOf(<<n, v>>), {"&", "#"})
           /\ Reading(AsQuery)[PieceOf(<<n, v>>)] = <<n, v>>
<1> DEFINE R == ReservedQueryParam
<1>0. R \in SUBSET EscapedSymbols /\ {"&", "=", "#", "+"} \subseteq R
  BY DEF ReservedQueryParam, ReservedQuery, EscapedSymbols
<1>1. PICK a : a = Encode(n, R) /\ a \in Seq(Symbols) /\ Free(a, R)
  BY <1>0, EncodedIs, EncodedFree, Zenon DEF Unescaped
<1>2. PICK b : b = Encode(v, R) /\ b \in Seq(Symbols) /\ Free(b, R)
  BY <1>0, EncodedIs, EncodedFree, Zenon DEF Unescaped
<1>3. PICK eq : eq = "=" /\ eq \in Symbols
  BY DEF Symbols, EscapedSymbols
<1>4. PICK r : r = <<eq>> \o b /\ r \in Seq(Symbols) /\ r # <<>> /\ r[1] = eq /\ Tail(r) = b
  BY <1>2, <1>3, TailOf, Zenon
<1>5. PICK one : one = <<eq>> /\ one \in Seq(Symbols) /\ Len(one) = 1 /\ one[1] = eq
  BY <1>3, One, Zenon
<1>6. PieceOf(<<n, v>>) = a \o r
  <2>1. PieceOf(<<n, v>>) = (a \o one) \o b
    BY <1>1, <1>2, <1>3, <1>5 DEF PieceOf
  <2>2. (a \o one) \o b = a \o (one \o b)
    BY <1>1, <1>2, <1>5, Regrouped, Zenon
  <2> QED BY <1>4, <1>5, <2>1, <2>2, Zenon
<1>7. PICK t : t = a \o r /\ t \in Seq(Symbols) /\ Free(t, {"&", "#"})
  <2>1. Free(a, {"&", "#"}) /\ Free(b, {"&", "#"})
    BY <1>0, <1>1, <1>2 DEF Free
  <2>2. Free(one, {"&", "#"})
    BY <1>3, <1>5 DEF Free
  <2>3. one \o b \in Seq(Symbols) /\ Free(one \o b, {"&", "#"})
    BY <1>2, <1>5, <2>1, <2>2, FreeJoined, Zenon
  <2>4. r = one \o b
    BY <1>4, <1>5, Zenon
  <2> QED BY <1>1, <2>1, <2>3, <2>4, FreeJoined, Zenon
<1>8. Before(t, {"="}) = a /\ Rest(t, {"="}) = r
  <2>1. \A i \in 1 .. Len(a) : a[i] \notin {"="}
    BY <1>0, <1>1 DEF Free
  <2>2. r # <<>> => r[1] \in {"="}
    BY <1>3, <1>4
  <2>3. PICK D : D = {"="}
    OBVIOUS
  <2>4. a \in Seq(Symbols) /\ r \in Seq(Symbols) /\ (\A i \in 1 .. Len(a) : a[i] \notin D) /\ (r # <<>> => r[1] \in D)
    BY <1>1, <1>4, <2>1, <2>2, <2>3, Zenon
  <2>5. Before(a \o r, D) = a /\ Rest(a \o r, D) = r
    BY ONLY <2>4, CutTogether, SMT
  <2> QED BY <1>7, <2>3, <2>5, Zenon
<1>9. t # <<>>
  <2>1. Len(t) = Len(a) + Len(r) /\ Len(a) \in Nat /\ Len(r) \in Nat
    BY <1>1, <1>4, <1>7, Joined, Zenon
  <2>2. Len(r) # 0
    BY <1>4, EmptySeq
  <2>3. Len(t) # 0
    BY <2>1, <2>2
  <2> QED BY <2>3, EmptySeq
<1>10. AsQuery[a] = n /\ AsQuery[b] = v
  <2>1. Decode(PlusIsSpace(a)) = n
    BY <1>0, <1>1, DecodedAsQuery
  <2>2. Decode(PlusIsSpace(b)) = v
    BY <1>0, <1>2, DecodedAsQuery
  <2> QED BY <1>1, <1>2, <2>1, <2>2, Zenon DEF AsQuery
<1>11. Reading(AsQuery)[t] = <<n, v>>
  <2>1. Reading(AsQuery)[t] = <<AsQuery[Before(t, {"="})],
              IF Rest(t, {"="}) = <<>> THEN <<>> ELSE AsQuery[Tail(Rest(t, {"="}))]>>
    BY <1>7, ReadingIs, ConversionsAre, Zenon
  <2> QED BY <1>4, <1>8, <1>10, <2>1, Zenon
<1> QED BY <1>6, <1>7, <1>9, <1>11, Zenon

\* What get_query_parameters() gives when a parameter was added.
Unnamed == <<<<>>, <<>>>>
LEMMA AddedIs ==
    ASSUME NEW u, u.query \in Seq(Symbols), NEW n, NEW v, Unescaped(n), Unescaped(v)
    PROVE  LET q == (IF u.query = <<>> THEN <<>> ELSE Append(u.query, "&")) \o PieceOf(<<n, v>>)
               params == Each(Reading(AsQuery), Pieces(u.query))
           IN  /\ q \in Seq(Symbols)
               /\ Free(u.query, {"#"}) => Free(q, {"#"})
               /\ Each(Reading(AsQuery), Pieces(q)) =
                      params \o (IF u.query # <<>> /\ Last(u.query) = "&" THEN <<Unnamed>> ELSE <<>>)
                             \o <<<<n, v>>>>
               /\ q # <<>> /\ (u.query = <<>> => params = <<>>)
<1>0. PICK b : /\ b = PieceOf(<<n, v>>) /\ b \in Seq(Symbols) /\ b # <<>>
               /\ Free(b, {"&", "#"}) /\ Reading(AsQuery)[b] = <<n, v>>
  BY PieceIs, Zenon
<1>1. PICK g, B : /\ g = Reading(AsQuery) /\ B = Seq(Symbols) \X Seq(Symbols)
                  /\ Maps(g, Seq(Symbols), B)
  BY ReadingIs, ConversionsAre, Zenon
<1>2. PICK p : p = <<n, v>> /\ p \in B
  <2>1. n \in Seq(Symbols) /\ v \in Seq(Symbols)
    BY Zenon DEF Unescaped
  <2>2. <<n, v>> \in Seq(Symbols) \X Seq(Symbols)
    BY <2>1
  <2> QED BY <1>1, <2>2, Zenon
<1>3. PICK w : w = u.query /\ w \in Seq(Symbols)
  OBVIOUS
<1>4. /\ \A i \in 1 .. Len(b) : b[i] # "&"
      /\ Free(b, {"#"})
  BY <1>0 DEF Free
<1>5. CASE w = <<>>
  <2>1. PICK nil : nil = <<>> /\ nil \in Seq(Seq(Symbols)) /\ nil \in Seq(B)
    BY EmptySeq
  <2>2. <<>> \o b = b
    BY <1>0, ConcatEmptySeq
  <2>3. Pieces(b) = Append(nil, b)
    BY <1>0, <1>4, <2>1, PieceAlone, Zenon
  <2>4. nil \in Seq(Seq(Symbols)) /\ b \in Seq(Symbols) /\ Maps(g, Seq(Symbols), B)
    BY <1>0, <1>1, <2>1, Zenon
  <2>5. Each(g, Append(nil, b)) = Append(Each(g, nil), g[b])
    BY ONLY <2>4, EachAppended, SMT
  <2>6. Each(g, nil) = nil
    BY <1>1, <2>1, EachOfNothing, Zenon
  <2>7. Append(nil, p) = <<p>> /\ (nil \o nil) \o <<p>> = <<p>>
    <3>1. Append(nil, p) = <<p>>
      BY <2>1
    <3>2. nil \o nil = nil
      BY <2>1
    <3>3. nil \o <<p>> = <<p>>
      BY <1>2, <2>1, ConcatEmptySeq
    <3> QED BY <3>1, <3>2, <3>3, Zenon
  <2>8. Each(g, Pieces(b)) = (nil \o nil) \o <<p>>
    BY <1>0, <1>1, <1>2, <2>3, <2>5, <2>6, <2>7, Zenon
  <2>9. Pieces(w) = nil
    BY <1>5, <2>1, NothingEnds, Zenon DEF Ending
  <2>10. b \in Seq(Symbols) /\ Free(b, {"#"}) /\ b # <<>>
    BY <1>0, <1>4, Zenon
  <2> QED BY <1>0, <1>1, <1>2, <1>3, <1>5, <2>1, <2>2, <2>6, <2>8, <2>9, <2>10, Zenon
<1>6. CASE w # <<>>
  <2>1. PICK f, l : Ending(w, f, l)
    BY <1>3, SomeEnding, Zenon
  <2>2. f \in Seq(Seq(Symbols)) /\ l \in Seq(Symbols) /\ (l = <<>> => Pieces(w) = f) /\ (l # <<>> => Pieces(w) = Append(f, l))
    BY <2>1, Zenon DEF Ending
  <2>3. l = <<>> <=> Last(w) = "&"
    <3>1. w \in Seq(Symbols) /\ Ending(w, f, l)
      BY <1>3, <2>1, Zenon
    <3>2. l = <<>> <=> (w = <<>> \/ Last(w) = "&")
      BY ONLY <3>1, LastPiece, SMT
    <3> QED BY <1>6, <3>2, Zenon
  <2>4. PICK a : a = Append(w, "&") /\ a \in Seq(Symbols) /\ (Free(w, {"#"}) => Free(a, {"#"})) 
    <3>1. PICK c : c = "&" /\ c \in Symbols
      BY DEF Symbols, EscapedSymbols
    <3>2. PICK one : one = <<c>> /\ one \in Seq(Symbols) /\ Len(one) = 1 /\ one[1] = c
      BY <3>1, One, Zenon
    <3>3. Free(one, {"#"})
      BY <3>1, <3>2 DEF Free
    <3>4. Append(w, c) = w \o one
      BY <1>3, <3>1, <3>2, AppendIsConcat
    <3>5. Append(w, c) \in Seq(Symbols)
      BY <1>3, <3>1, AppendProperties
    <3>6. Free(w, {"#"}) => Free(w \o one, {"#"})
      BY <1>3, <3>2, <3>3, FreeJoined, Zenon
    <3> QED BY <3>1, <3>4, <3>5, <3>6, Zenon
  <2>5. Pieces(a \o b) = Append(Append(f, l), b)
    <3>1. w \in Seq(Symbols) /\ Ending(w, f, l) /\ b \in Seq(Symbols) /\ b # <<>> /\ \A i \in 1 .. Len(b) : b[i] # "&"
      BY <1>0, <1>3, <1>4, <2>1, Zenon
    <3>2. Pieces(Append(w, "&") \o b) = Append(Append(f, l), b)
      BY ONLY <3>1, PieceAdded, SMT
    <3> QED BY <2>4, <3>2, Zenon
  <2>6. PICK m : m = Append(f, l) /\ m \in Seq(Seq(Symbols))
    <3>1. Append(f, l) \in Seq(Seq(Symbols))
      BY <2>2, AppendProperties
    <3> QED BY <3>1, Zenon
  <2>7. Each(g, Append(m, b)) = Append(Each(g, m), g[b])
    <3>1. m \in Seq(Seq(Symbols)) /\ b \in Seq(Symbols) /\ Maps(g, Seq(Symbols), B)
      BY <1>0, <1>1, <2>6, Zenon
    <3> QED BY ONLY <3>1, EachAppended, SMT
  <2>8. Each(g, Append(f, l)) = Append(Each(g, f), g[l])
    <3>1. f \in Seq(Seq(Symbols)) /\ l \in Seq(Symbols) /\ Maps(g, Seq(Symbols), B)
      BY <1>1, <2>2, Zenon
    <3> QED BY ONLY <3>1, EachAppended, SMT
  <2>9. PICK F : F = Each(g, f) /\ F \in Seq(B)
    BY <1>1, <2>2, EachIs, Zenon DEF IsEach
  <2>10. PICK M : M = Each(g, m) /\ M \in Seq(B)
    BY <1>1, <2>6, EachIs, Zenon DEF IsEach
  <2>11. Each(g, Pieces(a \o b)) = Append(M, p)
    BY <1>0, <1>1, <1>2, <2>5, <2>6, <2>7, <2>10, Zenon
  <2>12. Append(M, p) = M \o <<p>>
    BY <1>2, <2>10, AppendIsConcat
  <2>13. CASE l = <<>>
    <3>1. g[l] = Unnamed
      <4>1. Reading(AsQuery)[<<>>] = Unnamed
        <5>1. <<>> \in Seq(Symbols) /\ Len(<<>>) = 0
          BY EmptySeq
        <5>2. Before(<<>>, {"="}) = <<>> /\ Rest(<<>>, {"="}) = <<>>
          <6>1. PICK x : x = <<>> /\ x \in Seq(Symbols) /\ Len(x) = 0
            BY <5>1, Zenon
          <6>2. Before(x, {"="}) \in Seq(Symbols) /\ Rest(x, {"="}) \in Seq(Symbols) /\ Len(Before(x, {"="})) <= Len(x) /\ Len(Rest(x, {"="})) = Len(x) - Len(Before(x, {"="}))
            BY <6>1, CutApart, Zenon
          <6>3. PICK y, z : y = Before(x, {"="}) /\ z = Rest(x, {"="}) /\ y \in Seq(Symbols) /\ z \in Seq(Symbols) /\ Len(y) <= 0 /\ Len(z) = 0 - Len(y)
            BY <6>1, <6>2
          <6>4. Len(y) = 0 /\ Len(z) = 0
            BY <6>3, LenProperties
          <6>5. y = <<>> /\ z = <<>>
            BY <6>3, <6>4, EmptySeq
          <6> QED BY <6>1, <6>3, <6>5, Zenon
        <5>3. Reading(AsQuery)[<<>>] = <<AsQuery[Before(<<>>, {"="})],
              IF Rest(<<>>, {"="}) = <<>> THEN <<>> ELSE AsQuery[Tail(Rest(<<>>, {"="}))]>>
          BY <5>1, ReadingIs, ConversionsAre, Zenon
        <5>4. AsQuery[<<>>] = <<>>
          <6>1. AsQuery[<<>>] = Decode(PlusIsSpace(<<>>))
            BY <5>1, Zenon DEF AsQuery
          <6>2. PlusIsSpace(<<>>) = <<>>
            BY <5>1 DEF PlusIsSpace
          <6>3. Decode(<<>>) \in Seq(Symbols) /\ Len(Decode(<<>>)) <= 0
            BY <5>1, Decoded DEF Unescaped
          <6>4. Decode(<<>>) = <<>>
            <7>1. PICK y : y = Decode(<<>>) /\ y \in Seq(Symbols) /\ Len(y) <= 0
              BY <6>3
            <7>2. Len(y) = 0
              BY <7>1, LenProperties
            <7> QED BY <7>1, <7>2, EmptySeq
          <6> QED BY <6>1, <6>2, <6>4, Zenon
        <5> QED BY <5>2, <5>3, <5>4, Zenon DEF Unnamed
      <4> QED BY <1>1, <2>13, <4>1, Zenon
    <3>2. M = F \o <<Unnamed>>
      <4>1. PICK c : c = Unnamed /\ c \in B
        <5>1. <<<<>>, <<>>>> \in Seq(Symbols) \X Seq(Symbols)
          BY EmptySeq
        <5> QED BY <1>1, <5>1, Zenon DEF Unnamed
      <4>2. Append(F, c) = F \o <<c>>
        BY <2>9, <4>1, AppendIsConcat
      <4> QED BY <2>6, <2>8, <2>9, <2>10, <3>1, <4>1, <4>2, Zenon
    <3>3. Each(g, Pieces(a \o b)) = (F \o <<Unnamed>>) \o <<p>>
      BY <2>11, <2>12, <3>2, Zenon
    <3>4. Each(g, Pieces(w)) = F /\ Last(w) = "&"
      BY <2>2, <2>3, <2>9, <2>13, Zenon
    <3>5. Each(Reading(AsQuery), Pieces(a \o b)) =
            Each(Reading(AsQuery), Pieces(w)) \o (IF w # <<>> /\ Last(w) = "&" THEN <<Unnamed>> ELSE <<>>) \o <<<<n, v>>>>
      BY <1>1, <1>2, <1>6, <3>3, <3>4, Zenon
    <3>6. a \o b \in Seq(Symbols) /\ (Free(w, {"#"}) => Free(a \o b, {"#"}))
      BY <1>0, <1>4, <2>4, FreeJoined, Joined, Zenon
    <3>7. a \o b # <<>>
      BY <1>0, <2>4, ConcatEmptySeq, ConcatProperties, EmptySeq
    <3> QED BY <1>0, <1>3, <1>6, <2>4, <3>5, <3>6, <3>7, Zenon
  <2>14. CASE l # <<>>
    <3>1. Each(g, Pieces(w)) = M /\ Last(w) # "&"
      BY <2>2, <2>3, <2>6, <2>10, <2>14, Zenon
    <3>2. M \o <<>> = M
      BY <2>10, ConcatEmptySeq
    <3>5. Each(Reading(AsQuery), Pieces(a \o b)) =
            Each(Reading(AsQuery), Pieces(w)) \o (IF w # <<>> /\ Last(w) = "&" THEN <<Unnamed>> ELSE <<>>) \o <<<<n, v>>>>
      BY <1>1, <1>2, <1>6, <2>11, <2>12, <3>1, <3>2, Zenon
    <3>6. a \o b \in Seq(Symbols) /\ (Free(w, {"#"}) => Free(a \o b, {"#"}))
      BY <1>0, <1>4, <2>4, FreeJoined, Joined, Zenon
    <3>7. a \o b # <<>>
      BY <1>0, <2>4, ConcatEmptySeq, ConcatProperties, EmptySeq
    <3> QED BY <1>0, <1>3, <1>6, <2>4, <3>5, <3>6, <3>7, Zenon
  <2> QED BY <2>13, <2>14, Zenon
<1> QED BY <1>5, <1>6, Zenon

\* Parts of a text without escapes have none.
LEMMA UnescapedPart ==
    ASSUME NEW s, Unescaped(s), NEW p \in Seq(Symbols), MadeOf(p, s)
    PROVE  Unescaped(p)
<1>1. \A i \in 1 .. Len(p) : \E j \in 1 .. Len(s) : p[i] = s[j]
  BY Zenon DEF MadeOf
<1> QED BY <1>1, Zenon DEF Unescaped

LEMMA CutAndJoined ==
    ASSUME NEW s \in Seq(Symbols), NEW D
    PROVE  s = Before(s, D) \o Rest(s, D)
<1>1. PICK b, r : b = Before(s, D) /\ r = Rest(s, D)
  OBVIOUS
<1>2. PICK n \in Nat, k \in Nat : n = Len(s) /\ k = Len(b)
  BY <1>1, CutApart, LenProperties
<1>3. /\ b \in Seq(Symbols) /\ r \in Seq(Symbols) /\ k <= n /\ Len(r) = n - k
      /\ \A i \in 1 .. k : b[i] = s[i]
      /\ \A i \in 1 .. Len(r) : r[i] = s[k + i]
  <2>1. /\ Before(s, D) \in Seq(Symbols) /\ Rest(s, D) \in Seq(Symbols)
        /\ Len(Before(s, D)) <= Len(s)
        /\ Len(Rest(s, D)) = Len(s) - Len(Before(s, D))
        /\ \A i \in 1 .. Len(Before(s, D)) : Before(s, D)[i] = s[i] /\ s[i] \notin D
        /\ \A i \in 1 .. Len(Rest(s, D)) : Rest(s, D)[i] = s[Len(Before(s, D)) + i]
    BY CutApart
  <2> QED BY <1>1, <1>2, <2>1, Zenon
<1>4. PICK t : /\ t = b \o r /\ t \in Seq(Symbols) /\ Len(t) = k + Len(r)
               /\ \A i \in 1 .. k : t[i] = b[i]
               /\ \A i \in 1 .. Len(r) : t[k + i] = r[i]
  <2>1. /\ b \o r \in Seq(Symbols) /\ Len(b \o r) = Len(b) + Len(r)
        /\ \A i \in 1 .. Len(b) : (b \o r)[i] = b[i]
        /\ \A i \in 1 .. Len(r) : (b \o r)[Len(b) + i] = r[i]
    BY <1>3, Joined
  <2> QED BY <1>2, <2>1, Zenon
<1>5. Len(t) = n
  BY <1>2, <1>3, <1>4
<1>6. ASSUME NEW i \in 1 .. n PROVE t[i] = s[i]
  <2>1. CASE i <= k
    <3>1. i \in 1 .. k
      BY <1>2, <2>1
    <3> QED BY <1>3, <1>4, <3>1, Zenon
  <2>2. CASE i > k
    <3>0. PICK m : m = Len(r) /\ m = n - k
      BY <1>3
    <3>1. PICK j : j \in 1 .. m /\ k + j = i
      <4>1. i - k \in 1 .. n - k /\ k + (i - k) = i
        BY <1>2, <2>2
      <4> QED BY <3>0, <4>1, Zenon
    <3>2. t[k + j] = r[j] /\ r[j] = s[k + j]
      BY <1>3, <1>4, <3>0, <3>1, Zenon
    <3> QED BY <3>1, <3>2, Zenon
  <2> QED BY <1>2, <2>1, <2>2
<1>7. t = s
  BY <1>2, <1>4, <1>5, <1>6, SeqEqual
<1> QED BY <1>1, <1>4, <1>7, Zenon

LEMMA HeadAndTail ==
    ASSUME NEW s \in Seq(Symbols), NEW c \in Symbols, s # <<>>, s[1] = c
    PROVE  s = <<c>> \o Tail(s)
<1>1. PICK t, n : t = Tail(s) /\ n = Len(s) /\ n \in Nat \ {0} /\ t \in Seq(Symbols) /\ Len(t) = n - 1
                  /\ \A i \in 1 .. n - 1 : t[i] = s[i + 1]
  <2>1. Tail(s) \in Seq(Symbols) /\ Len(Tail(s)) = Len(s) - 1 /\ Len(s) \in Nat \ {0}
        /\ \A i \in 1 .. Len(s) - 1 : Tail(s)[i] = s[i + 1]
    BY Behind
  <2> QED BY <2>1, Zenon
<1>2. PICK one : one = <<c>> /\ one \in Seq(Symbols) /\ Len(one) = 1 /\ one[1] = c
  BY One, Zenon
<1>3. PICK w : /\ w = one \o t /\ w \in Seq(Symbols) /\ Len(w) = 1 + (n - 1) /\ w[1] = c
               /\ \A i \in 1 .. n - 1 : w[1 + i] = t[i]
  <2>1. /\ one \o t \in Seq(Symbols) /\ Len(one \o t) = Len(one) + Len(t)
        /\ \A i \in 1 .. Len(one) : (one \o t)[i] = one[i]
        /\ \A i \in 1 .. Len(t) : (one \o t)[Len(one) + i] = t[i]
    BY <1>1, <1>2, Joined
  <2>2. 1 \in 1 .. 1
    OBVIOUS
  <2>3. PICK w : w = one \o t
    OBVIOUS
  <2>4. /\ w \in Seq(Symbols) /\ Len(w) = Len(one) + Len(t)
        /\ \A i \in 1 .. Len(one) : w[i] = one[i]
        /\ \A i \in 1 .. Len(t) : w[Len(one) + i] = t[i]
    BY <2>1, <2>3, Zenon
  <2>5. Len(w) = 1 + (n - 1)
    BY <1>1, <1>2, <2>4, Zenon
  <2>6. w[1] = c
    BY <1>2, <2>2, <2>4, Zenon
  <2>7. \A i \in 1 .. n - 1 : w[1 + i] = t[i]
    BY <1>1, <1>2, <2>4, Zenon
  <2> QED BY <2>3, <2>4, <2>5, <2>6, <2>7, Zenon
<1>4. Len(w) = n
  BY <1>1, <1>3
<1>5. ASSUME NEW i \in 1 .. n PROVE w[i] = s[i]
  <2>1. CASE i = 1
    BY <1>3, <2>1
  <2>2. CASE i # 1
    <3>1. PICK j : j \in 1 .. n - 1 /\ 1 + j = i /\ j + 1 = i
      <4>1. i - 1 \in 1 .. n - 1 /\ 1 + (i - 1) = i /\ (i - 1) + 1 = i
        BY <1>1, <2>2
      <4> QED BY <4>1, Zenon
    <3> QED BY <1>1, <1>3, <3>1, Zenon
  <2> QED BY <2>1, <2>2
<1>6. w = s
  BY <1>1, <1>3, <1>4, <1>5, SeqEqual
<1> QED BY <1>1, <1>2, <1>3, <1>6, Zenon

\* A symbol that needs no escape stays in front.
LEMMA EncodedTail ==
    ASSUME NEW s \in Seq(Symbols), NEW c \in Symbols, s # <<>>, s[1] = c,
           NEW R \in SUBSET EscapedSymbols, c \notin Illegal \cup R
    PROVE  Encode(s, R) # <<>> /\ Encode(s, R)[1] = c /\ Tail(Encode(s, R)) = Encode(Tail(s), R)
<1>1. PICK t : t = Tail(s) /\ t \in Seq(Symbols) /\ s = <<c>> \o t
  BY Behind, HeadAndTail, Zenon
<1>2. PICK one : one = <<c>> /\ one \in Seq(Symbols) /\ Len(one) = 1 /\ one[1] = c
  BY One, Zenon
<1>3. Encode(one, R) = one
  <2>1. PICK e : e = Encode(one, R) /\ e \in Seq(Symbols) /\ Len(e) = 1 /\ \A i \in 1 .. 1 : e[i] = Encoded(one[i], R)
    <3>1. /\ Encode(one, R) \in Seq(Symbols) /\ Len(Encode(one, R)) = Len(one)
          /\ \A i \in 1 .. Len(one) : Encode(one, R)[i] = Encoded(one[i], R)
      BY <1>2, EncodedIs, Zenon
    <3> QED BY <1>2, <3>1, Zenon
  <2>2. Encoded(c, R) = c
    BY SymbolEncoded, Zenon
  <2>3. \A i \in 1 .. 1 : i = 1
    OBVIOUS
  <2>4. \A i \in 1 .. 1 : e[i] = one[i]
    BY <1>2, <2>1, <2>2, <2>3, Zenon
  <2>5. e = one
    BY <1>2, <2>1, <2>4, SeqEqual
  <2> QED BY <2>1, <2>5, Zenon
<1>4. PICK f : f = Encode(t, R) /\ f \in Seq(Symbols)
  BY <1>1, EncodedIs, Zenon
<1>5. Encode(s, R) = <<c>> \o f
  <2>1. Encode(one \o t, R) = Encode(one, R) \o Encode(t, R)
    BY <1>1, <1>2, EncodedJoined, Zenon
  <2> QED BY <1>1, <1>2, <1>3, <1>4, <2>1, Zenon
<1>6. Tail(<<c>> \o f) = f /\ <<c>> \o f # <<>> /\ (<<c>> \o f)[1] = c
  BY <1>4, TailOf, Zenon
<1> QED BY <1>1, <1>4, <1>5, <1>6, Zenon

\* A name and a value that were encoded with the query are read as they were.
LEMMA ReadAsItWas ==
    ASSUME NEW x, Unescaped(x), NEW R \in SUBSET EscapedSymbols, "+" \in R, "=" \notin R
    PROVE  Reading(AsQuery)[Encode(x, R)] = Reading(AsItIs)[x]
<1>0. PICK eq : eq = "=" /\ eq \in Symbols /\ eq \notin Illegal \cup R /\ eq \notin EscapeSymbols
  <2>1. "=" \in Symbols
    BY DEF Symbols, EscapedSymbols
  <2>2. "=" \notin Illegal /\ "=" \notin EscapeSymbols
    BY DEF Illegal, EscapeSymbols
  <2> QED BY <2>1, <2>2, Zenon
<1>1. x \in Seq(Symbols)
  BY Zenon DEF Unescaped
<1>2. PICK D : D = {eq}
  OBVIOUS
<1>3. PICK b, r : /\ b = Before(x, D) /\ r = Rest(x, D) /\ b \in Seq(Symbols) /\ r \in Seq(Symbols) /\ x = b \o r
                  /\ Free(b, D) /\ (r # <<>> => r[1] \in D)
  <2>1. x = Before(x, D) \o Rest(x, D)
    BY <1>1, CutAndJoined, Zenon
  <2>2. /\ Before(x, D) \in Seq(Symbols) /\ Rest(x, D) \in Seq(Symbols)
        /\ \A i \in 1 .. Len(Before(x, D)) : Before(x, D)[i] = x[i] /\ x[i] \notin D
        /\ Rest(x, D) # <<>> => Rest(x, D)[1] \in D
    BY ONLY <1>1, CutApart, SMT
  <2>3. Free(Before(x, D), D)
    BY <2>2, Zenon DEF Free
  <2> QED BY <2>1, <2>2, <2>3, Zenon
<1>4. Unescaped(b) /\ Unescaped(r)
  <2>1. MadeOf(Before(x, D), x) /\ MadeOf(Rest(x, D), x)
    BY <1>1, PartsAreMadeOf, Zenon
  <2> QED BY <1>3, <2>1, UnescapedPart, Zenon
<1>5. PICK B, S : B = Encode(b, R) /\ S = Encode(r, R) /\ B \in Seq(Symbols) /\ S \in Seq(Symbols) /\ Len(S) = Len(r)
  BY <1>3, EncodedIs, Zenon
<1>6. PICK e : e = Encode(x, R) /\ e = B \o S /\ e \in Seq(Symbols)
  <2>1. Encode(b \o r, R) = Encode(b, R) \o Encode(r, R)
    BY <1>3, EncodedJoined, Zenon
  <2>2. Encode(x, R) \in Seq(Symbols)
    BY <1>1, EncodedIs, Zenon
  <2> QED BY <1>3, <1>5, <2>1, <2>2, Zenon
<1>7. \A i \in 1 .. Len(B) : B[i] \notin D
  <2>0. PICK n \in Nat : n = Len(b) /\ Len(B) = n
    <3>1. Len(B) = Len(b)
      BY <1>3, <1>5, EncodedIs, Zenon
    <3> QED BY <1>3, <3>1, LenProperties
  <2>1. \A i \in 1 .. Len(b) : Encode(b, R)[i] = Encoded(b[i], R)
    BY <1>3, EncodedIs, Zenon
  <2> SUFFICES ASSUME NEW i \in 1 .. n PROVE B[i] \notin D
    BY <2>0, Zenon
  <2>2. PICK c \in Symbols : c = b[i] /\ c # eq
    <3>1. b[i] \in Symbols
      BY <1>3, <2>0, ElementOfSeq
    <3>2. b[i] \notin D
      BY <1>3, <2>0, Zenon DEF Free
    <3> QED BY <1>2, <3>1, <3>2
  <2>3. B[i] = Encoded(c, R)
    BY <1>5, <2>0, <2>1, <2>2, Zenon
  <2>4. c \in Illegal \cup R => Encoded(c, R) \in EscapeSymbols
    BY SymbolEncoded, Zenon
  <2>5. c \notin Illegal \cup R => Encoded(c, R) = c
    BY SymbolEncoded, Zenon
  <2>6. B[i] # eq
    BY <1>0, <2>2, <2>3, <2>4, <2>5, Zenon
  <2> QED BY <1>2, <2>6
<1>8. ASSUME r # <<>> PROVE S # <<>> /\ S[1] = eq /\ Tail(S) = Encode(Tail(r), R) /\ Tail(r) \in Seq(Symbols) /\ Unescaped(Tail(r))
  <2>1. r[1] = eq
    BY <1>2, <1>3, <1>8
  <2>2. S # <<>> /\ S[1] = eq /\ Tail(S) = Encode(Tail(r), R)
    <3>1. r \in Seq(Symbols) /\ eq \in Symbols /\ r # <<>> /\ r[1] = eq /\ R \in SUBSET EscapedSymbols /\ eq \notin Illegal \cup R
      BY <1>0, <1>3, <1>8, <2>1, Zenon
    <3>2. Encode(r, R) # <<>> /\ Encode(r, R)[1] = eq /\ Tail(Encode(r, R)) = Encode(Tail(r), R)
      BY ONLY <3>1, EncodedTail, SMT
    <3> QED BY <1>5, <3>2, Zenon
  <2>3. Tail(r) \in Seq(Symbols) /\ MadeOf(Tail(r), r)
    BY <1>3, <1>8, Behind, Zenon
  <2>4. Unescaped(r) /\ Tail(r) \in Seq(Symbols) /\ MadeOf(Tail(r), r)
    BY <1>4, <2>3, Zenon
  <2>5. Unescaped(Tail(r))
    BY ONLY <2>4, UnescapedPart, Zenon
  <2> QED BY <2>2, <2>3, <2>5, Zenon
<1>9. r = <<>> => S = <<>>
  BY <1>5, <1>3, EmptySeq, LenProperties
<1>10. Before(e, D) = B /\ Rest(e, D) = S
  <2>1. B \in Seq(Symbols) /\ S \in Seq(Symbols) /\ (\A i \in 1 .. Len(B) : B[i] \notin D) /\ (S # <<>> => S[1] \in D)
    BY <1>2, <1>5, <1>7, <1>8, <1>9
  <2>2. Before(B \o S, D) = B /\ Rest(B \o S, D) = S
    BY ONLY <2>1, CutTogether, SMT
  <2> QED BY <1>6, <2>2, Zenon
<1>11. Reading(AsQuery)[e] = <<AsQuery[B], IF S = <<>> THEN <<>> ELSE AsQuery[Tail(S)]>>
  BY <1>0, <1>2, <1>6, <1>10, ReadingIs, ConversionsAre, Zenon
<1>12. Reading(AsItIs)[x] = <<AsItIs[b], IF r = <<>> THEN <<>> ELSE AsItIs[Tail(r)]>>
  BY <1>0, <1>1, <1>2, <1>3, ReadingIs, ConversionsAre, Zenon
<1>13. AsQuery[B] = b /\ AsItIs[b] = b
  <2>1. Decode(PlusIsSpace(B)) = b
    BY <1>4, <1>5, DecodedAsQuery, Zenon
  <2> QED BY <1>3, <1>5, <2>1, Zenon DEF AsQuery, AsItIs
<1>14. CASE r = <<>>
  BY <1>6, <1>9, <1>11, <1>12, <1>13, <1>14, Zenon
<1>15. CASE r # <<>>
  <2>1. PICK t : t = Tail(r) /\ t \in Seq(Symbols) /\ Unescaped(t) /\ Tail(S) = Encode(t, R) /\ S # <<>>
    BY <1>8, <1>15, Zenon
  <2>2. Encode(t, R) \in Seq(Symbols)
    BY <2>1, EncodedIs, Zenon
  <2>3. Decode(PlusIsSpace(Encode(t, R))) = t
    BY <2>1, DecodedAsQuery, Zenon
  <2>4. AsQuery[Tail(S)] = t /\ AsItIs[Tail(r)] = t
    BY <2>1, <2>2, <2>3, Zenon DEF AsQuery, AsItIs
  <2> QED BY <1>6, <1>11, <1>12, <1>13, <1>15, <2>1, <2>4, Zenon
<1> QED BY <1>14, <1>15, Zenon

-----------------------------------------------------------------------------
(* A query that is encoded as a whole.                                     *)

\* The pieces of a text without escapes have none.
LEMMA UnescapedPieces ==
    ASSUME NEW s, Unescaped(s)
    PROVE  Pieces(s) \in Seq(Seq(Symbols)) /\ \A i \in 1 .. Len(Pieces(s)) : Unescaped(Pieces(s)[i])
<1> DEFINE U == {c \in Symbols : c \notin EscapeSymbols \cup {Broken}}
<1>1. \A x : x \in Seq(U) => Unescaped(x)
  <2> SUFFICES ASSUME NEW x \in Seq(U) PROVE Unescaped(x)
    BY Zenon
  <2>1. \A i \in 1 .. Len(x) : x[i] \in U
    BY ElementOfSeq
  <2>2. x \in Seq(Symbols)
    <3>1. x \in [1 .. Len(x) -> U] /\ Len(x) \in Nat
      BY LenProperties
    <3>2. U \subseteq Symbols
      OBVIOUS
    <3> HIDE DEF U
    <3>3. x \in [1 .. Len(x) -> Symbols]
      BY <3>1, <3>2
    <3> QED BY <3>1, <3>3, SeqDef
  <2> QED BY <2>1, <2>2, Zenon DEF Unescaped
<1>2. s \in Seq(U)
  <2>1. s \in Seq(Symbols) /\ Len(s) \in Nat /\ DOMAIN s = 1 .. Len(s) /\ \A i \in 1 .. Len(s) : s[i] \in U
    BY LenProperties, ElementOfSeq DEF Unescaped
  <2> HIDE DEF U
  <2>2. s \in [1 .. Len(s) -> U]
    BY <2>1, LenProperties
  <2> QED BY <2>1, <2>2, SeqDef
<1> HIDE DEF U
<1>3. PICK p : p = Between(s, "&") /\ p \in Seq(Seq(U)) /\ p # <<>>
  BY <1>2, BetweenIs, Zenon DEF Cuttings
<1>4. Front(p) \in Seq(Seq(U))
  <2>1. p \in Seq(Seq(U)) /\ p # <<>>
    BY <1>3, Zenon
  <2> QED BY ONLY <2>1, FrontAndLast, Zenon
<1>5. Pieces(s) = IF Last(p) = <<>> THEN Front(p) ELSE p
  BY <1>3, Zenon DEF Pieces
<1>6. PICK q : q = Pieces(s) /\ q \in Seq(Seq(U))
  BY <1>3, <1>4, <1>5, Zenon
<1>7. \A i \in 1 .. Len(q) : q[i] \in Seq(U)
  BY <1>6, ElementOfSeq, Zenon
<1>8. s \in Seq(Symbols)
  BY Zenon DEF Unescaped
<1> QED BY <1>1, <1>6, <1>7, <1>8, PiecesIn, Zenon

\* An encoded query is read as it was before.
LEMMA EncodedQueryIs ==
    ASSUME NEW s, Unescaped(s)
    PROVE  /\ Encode(s, ReservedQuery) \in Seq(Symbols) /\ Free(Encode(s, ReservedQuery), {"#"})
           /\ Each(Reading(AsQuery), Pieces(Encode(s, ReservedQuery))) = Each(Reading(AsItIs), Pieces(s))
<1>0. PICK R : /\ R = ReservedQuery /\ R \in SUBSET EscapedSymbols /\ "+" \in R /\ "=" \notin R /\ "#" \in R
               /\ "&" \notin Illegal \cup R \cup EscapeSymbols
  <2>1. ReservedQuery \in SUBSET EscapedSymbols
    BY DEF ReservedQuery, EscapedSymbols
  <2>2. "+" \in ReservedQuery /\ "=" \notin ReservedQuery /\ "#" \in ReservedQuery
    BY DEF ReservedQuery
  <2>3. "&" \notin Illegal \cup ReservedQuery \cup EscapeSymbols
    BY DEF ReservedQuery, Illegal, EscapeSymbols
  <2> QED BY <2>1, <2>2, <2>3, Zenon
<1>1. s \in Seq(Symbols)
  BY Zenon DEF Unescaped
<1>2. PICK e : e = Encode(s, R) /\ e \in Seq(Symbols) /\ Free(e, R)
  BY <1>0, <1>1, EncodedIs, EncodedFree, Zenon
<1>3. Free(e, {"#"})
  BY <1>0, <1>2 DEF Free
<1>4. PICK g : g = EncodedWith(R) /\ Maps(g, Seq(Symbols), Seq(Symbols)) /\ \A x \in Seq(Symbols) : g[x] = Encode(x, R)
  BY <1>0, EncodedWithIs, Zenon
<1>5. Pieces(e) = Each(g, Pieces(s))
  <2>1. PICK f, l : Ending(s, f, l)
    BY <1>1, SomeEnding, Zenon
  <2>2. /\ f \in Seq(Seq(Symbols)) /\ l \in Seq(Symbols) /\ Between(s, "&") = Append(f, l)
        /\ l = <<>> => Pieces(s) = f
        /\ l # <<>> => Pieces(s) = Append(f, l)
    BY <2>1, Zenon DEF Ending
  <2>3. Between(e, "&") = Each(g, Append(f, l))
    <3>1. PICK d : d = "&" /\ d \in Symbols
      BY DEF Symbols, EscapedSymbols
    <3>2. Between(Encode(s, R), d) = Each(EncodedWith(R), Between(s, d))
      BY <1>0, <1>1, <3>1, BetweenEncoded, Zenon
    <3> QED BY <1>2, <1>4, <2>2, <3>1, <3>2, Zenon
  <2>4. Each(g, Append(f, l)) = Append(Each(g, f), g[l])
    <3>1. f \in Seq(Seq(Symbols)) /\ l \in Seq(Symbols) /\ Maps(g, Seq(Symbols), Seq(Symbols))
      BY <1>4, <2>2, Zenon
    <3> QED BY ONLY <3>1, EachAppended, SMT
  <2>5. PICK F, k : F = Each(g, f) /\ F \in Seq(Seq(Symbols)) /\ k = g[l] /\ k \in Seq(Symbols) /\ k = Encode(l, R)
    <3>1. Each(g, f) \in Seq(Seq(Symbols))
      BY <1>4, <2>2, EachIs, Zenon DEF IsEach
    <3>2. g[l] = Encode(l, R) /\ Encode(l, R) \in Seq(Symbols)
      BY <1>0, <1>4, <2>2, EncodedIs, Zenon
    <3> QED BY <3>1, <3>2, Zenon
  <2>6. k = <<>> <=> l = <<>>
    <3>1. Len(k) = Len(l)
      BY <1>0, <2>2, <2>5, EncodedIs, Zenon
    <3> QED BY <2>2, <2>5, <3>1, EmptySeq, LenProperties
  <2>7. Ending(e, F, k)
    BY <2>3, <2>4, <2>5, EndingIs, Zenon
  <2>8. (k = <<>> => Pieces(e) = F) /\ (k # <<>> => Pieces(e) = Append(F, k))
    BY <2>7, Zenon DEF Ending
  <2> QED BY <2>2, <2>4, <2>5, <2>6, <2>8, Zenon
<1>6. PICK p, n : p = Pieces(s) /\ n = Len(p) /\ p \in Seq(Seq(Symbols)) /\ \A i \in 1 .. n : Unescaped(p[i])
  BY UnescapedPieces, Zenon
<1>7. PICK h : h = Each(g, p) /\ h \in Seq(Seq(Symbols)) /\ Len(h) = n /\ \A i \in 1 .. n : h[i] = g[p[i]]
  <2>1. IsEach(Each(g, p), g, p, Seq(Symbols))
    BY <1>4, <1>6, EachIs, Zenon
  <2> QED BY <1>6, <2>1, Zenon DEF IsEach
<1>8. ASSUME NEW i \in 1 .. n PROVE Reading(AsQuery)[h[i]] = Reading(AsItIs)[p[i]]
  <2>1. PICK x : x = p[i] /\ Unescaped(x) /\ x \in Seq(Symbols)
    BY <1>6, Zenon DEF Unescaped
  <2>2. h[i] = Encode(x, R)
    BY <1>4, <1>7, <2>1, Zenon
  <2>3. Reading(AsQuery)[Encode(x, R)] = Reading(AsItIs)[x]
    BY <1>0, <2>1, ReadAsItWas, Zenon
  <2> QED BY <2>1, <2>2, <2>3, Zenon
<1>9. Each(Reading(AsQuery), h) = Each(Reading(AsItIs), p)
  <2>1. Each(Reading(AsQuery), h) = [i \in 1 .. n |-> Reading(AsQuery)[h[i]]]
    BY <1>7, Zenon DEF Each
  <2>2. Each(Reading(AsItIs), p) = [i \in 1 .. n |-> Reading(AsItIs)[p[i]]]
    BY <1>6, Zenon DEF Each
  <2> QED BY <1>8, <2>1, <2>2
<1> QED BY <1>0, <1>2, <1>3, <1>5, <1>6, <1>7, <1>9, Zenon

-----------------------------------------------------------------------------
(* The query that is read from a text.                                     *)

QueryMarks == {"?", "#"}
\* The query of a text, wherever a URL begins in it.
QueryOf(s) ==
    IF StartsWith(Rest(s, QueryMarks), "?") THEN Before(Tail(Rest(s, QueryMarks)), {"#"}) ELSE <<>>

LEMMA FreePart ==
    ASSUME NEW s \in Seq(Symbols), NEW D, Free(s, D), NEW p \in Seq(Symbols), MadeOf(p, s)
    PROVE  Free(p, D)
<1>1. \A i \in 1 .. Len(p) : \E j \in 1 .. Len(s) : p[i] = s[j]
  BY Zenon DEF MadeOf
<1> QED BY <1>1, Zenon DEF Free

LEMMA QueryOfIs ==
    ASSUME NEW s \in Seq(Symbols)
    PROVE  QueryOf(s) \in Seq(Symbols) /\ Free(QueryOf(s), {"#"})
<1>1. PICK r : r = Rest(s, QueryMarks) /\ r \in Seq(Symbols)
  BY CutApart, Zenon
<1>2. CASE StartsWith(r, "?")
  <2>1. PICK t : t = Tail(r) /\ t \in Seq(Symbols)
    BY <1>1, <1>2, Behind, Zenon DEF StartsWith
  <2>2. Before(t, {"#"}) \in Seq(Symbols) /\ \A i \in 1 .. Len(Before(t, {"#"})) : Before(t, {"#"})[i] = t[i] /\ t[i] \notin {"#"}
    <3>1. t \in Seq(Symbols)
      BY <2>1, Zenon
    <3> QED BY ONLY <3>1, CutApart, SMT
  <2>3. Free(Before(t, {"#"}), {"#"})
    BY <2>2, Zenon DEF Free
  <2>4. QueryOf(s) = Before(t, {"#"})
    BY <1>1, <1>2, <2>1, Zenon DEF QueryOf
  <2> QED BY <2>2, <2>3, <2>4, Zenon
<1>3. CASE ~StartsWith(r, "?")
  <2>1. QueryOf(s) = <<>>
    BY <1>1, <1>3, Zenon DEF QueryOf
  <2> QED BY <2>1, EmptySeq DEF Free
<1> QED BY <1>2, <1>3, Zenon

\* What holds no question mark and no "#" in front of it does not matter.
LEMMA QueryBehind ==
    ASSUME NEW a \in Seq(Symbols), NEW s \in Seq(Symbols), Free(a, QueryMarks)
    PROVE  QueryOf(a \o s) = QueryOf(s)
<1>1. PICK b, r : /\ b = Before(s, QueryMarks) /\ r = Rest(s, QueryMarks) /\ b \in Seq(Symbols) /\ r \in Seq(Symbols)
                  /\ s = b \o r /\ Free(b, QueryMarks) /\ (r # <<>> => r[1] \in QueryMarks)
  <2>1. /\ Before(s, QueryMarks) \in Seq(Symbols) /\ Rest(s, QueryMarks) \in Seq(Symbols)
        /\ \A i \in 1 .. Len(Before(s, QueryMarks)) : Before(s, QueryMarks)[i] = s[i] /\ s[i] \notin QueryMarks
        /\ Rest(s, QueryMarks) # <<>> => Rest(s, QueryMarks)[1] \in QueryMarks
    BY CutApart, Zenon
  <2>2. Free(Before(s, QueryMarks), QueryMarks)
    BY <2>1, Zenon DEF Free
  <2> QED BY <2>1, <2>2, CutAndJoined, Zenon
<1>2. PICK f : f = a \o b /\ f \in Seq(Symbols) /\ Free(f, QueryMarks)
  BY <1>1, FreeJoined, Zenon
<1>3. a \o s = f \o r
  <2>1. a \in Seq(Symbols) /\ b \in Seq(Symbols) /\ r \in Seq(Symbols)
    BY <1>1, Zenon
  <2>2. (a \o b) \o r = a \o (b \o r)
    BY ONLY <2>1, Regrouped, SMT
  <2> QED BY <1>1, <1>2, <2>2, Zenon
<1>4. Rest(f \o r, QueryMarks) = r
  <2>1. f \in Seq(Symbols) /\ r \in Seq(Symbols) /\ (\A i \in 1 .. Len(f) : f[i] \notin QueryMarks) /\ (r # <<>> => r[1] \in QueryMarks)
    BY <1>1, <1>2, Zenon DEF Free
  <2> QED BY ONLY <2>1, CutTogether, SMT
<1> QED BY <1>1, <1>3, <1>4, Zenon DEF QueryOf

LEMMA QueryTaken ==
    ASSUME NEW u \in Parts, NEW s \in Seq(Symbols)
    PROVE  WithPathQueryFragment(u, s).query = QueryOf(s) /\ WithPathQueryFragment(u, s) \in Parts
<1>1. PICK p, q, f : WithPathQueryFragment(u, s) = [u EXCEPT !.path = p, !.query = q, !.fragment = f] /\ q = QueryOf(s)
  BY Zenon DEF WithPathQueryFragment, QueryOf, QueryMarks
<1>2. [u EXCEPT !.path = p, !.query = q, !.fragment = f].query = q
  BY DEF Parts
<1> QED BY <1>1, <1>2, PathQueryFragment, Zenon

LEMMA ParsedQuery ==
    ASSUME NEW s \in Seq(Symbols), ~Throws(Parse(s))
    PROVE  Parse(s) \in Parts /\ Parse(s).query = QueryOf(s)
<1> DEFINE D == {":", "?", "#", "/"}
           scheme == Before(s, D)
           marked == Rest(s, D)
           rest   == Tail(marked)
           local  == SubSeq(rest, 3, Len(rest))
           parsed == Authority(Before(local, Delimiters))
           named  == StartsWith(marked, ":") /\ s[1] \notin {".", ".."}
<1>1. Parse(s) = CASE ~named -> WithPathQueryFragment(NoUrl, s)
                   [] named /\ rest = <<>> -> Thrown
                   [] OTHER ->
                        IF IsPrefix(<<"/", "/">>, rest)
                        THEN IF Throws(parsed) THEN Thrown
                             ELSE WithPathQueryFragment([parsed EXCEPT !.scheme = scheme], Rest(local, Delimiters))
                        ELSE WithPathQueryFragment([NoUrl EXCEPT !.scheme = scheme], rest)
  BY Zenon DEF Parse, Delimiters
<1>2. scheme \in Seq(Symbols) /\ marked \in Seq(Symbols) /\ s = scheme \o marked /\ Free(scheme, D)
  <2>1. /\ Before(s, D) \in Seq(Symbols) /\ Rest(s, D) \in Seq(Symbols)
        /\ \A i \in 1 .. Len(Before(s, D)) : Before(s, D)[i] = s[i] /\ s[i] \notin D
    BY CutApart, Zenon
  <2>2. Free(Before(s, D), D)
    BY <2>1, Zenon DEF Free
  <2> QED BY <2>1, <2>2, CutAndJoined, Zenon
<1>3. Free(scheme, QueryMarks)
  BY <1>2 DEF Free, QueryMarks
<1> HIDE DEF scheme, marked
<1>4. CASE ~named
  <2>1. Parse(s) = WithPathQueryFragment(NoUrl, s)
    BY <1>1, <1>4, Zenon
  <2> QED BY <2>1, NoUrlIs, QueryTaken, Zenon
<1>5. CASE named
  <2>1. marked # <<>> /\ marked[1] = ":"
    BY <1>5, Zenon DEF StartsWith
  <2>2. PICK r : r = Tail(marked) /\ r \in Seq(Symbols) /\ marked = <<":">> \o r
    <3>1. ":" \in Symbols
      BY DEF Symbols, EscapedSymbols
    <3> QED BY <1>2, <2>1, <3>1, Behind, HeadAndTail, Zenon
  <2>3. QueryOf(s) = QueryOf(r)
    <3>1. PICK one : one = <<":">> /\ one \in Seq(Symbols) /\ Free(one, QueryMarks)
      <4>1. ":" \in Symbols
        BY DEF Symbols, EscapedSymbols
      <4>2. <<":">> \in Seq(Symbols) /\ Len(<<":">>) = 1 /\ <<":">>[1] = ":"
        BY <4>1, One
      <4>3. Free(<<":">>, QueryMarks)
        BY <4>2 DEF Free, QueryMarks
      <4> QED BY <4>2, <4>3, Zenon
    <3>2. QueryOf(one \o r) = QueryOf(r)
      BY <2>2, <3>1, QueryBehind, Zenon
    <3>3. QueryOf(scheme \o marked) = QueryOf(marked)
      BY <1>2, <1>3, QueryBehind, Zenon
    <3> QED BY <1>2, <2>2, <3>1, <3>2, <3>3, Zenon
  <2>4. rest = r
    BY <2>2, Zenon
  <2> HIDE DEF rest, named
  <2>5. rest # <<>>
    <3> SUFFICES ASSUME rest = <<>> PROVE FALSE
      OBVIOUS
    <3>1. Parse(s) = Thrown
      BY <1>1, <1>5, Zenon
    <3> QED BY <3>1, Zenon DEF Throws
  <2>6. CASE ~IsPrefix(<<"/", "/">>, rest)
    <3>1. Parse(s) = WithPathQueryFragment([NoUrl EXCEPT !.scheme = scheme], rest)
      BY <1>1, <1>5, <2>5, <2>6, Zenon
    <3>2. PICK v \in Parts : v = [NoUrl EXCEPT !.scheme = scheme]
      BY <1>2, NoUrlIs DEF Parts
    <3> QED BY <2>2, <2>3, <2>4, <3>1, <3>2, QueryTaken, Zenon
  <2>7. CASE IsPrefix(<<"/", "/">>, rest)
    <3>1. ~Throws(parsed) /\ Parse(s) = WithPathQueryFragment([parsed EXCEPT !.scheme = scheme], Rest(local, Delimiters))
      <4>1. Throws(parsed) => Parse(s) = Thrown
        BY <1>1, <1>5, <2>5, <2>7, Zenon
      <4>2. ~Throws(parsed) => Parse(s) = WithPathQueryFragment([parsed EXCEPT !.scheme = scheme], Rest(local, Delimiters))
        BY <1>1, <1>5, <2>5, <2>7, Zenon
      <4> QED BY <4>1, <4>2, Zenon DEF Throws
    <3>2. Len(r) >= 2 /\ r[1] = "/" /\ r[2] = "/" /\ Len(r) \in Nat
      <4> DEFINE slashes == <<"/", "/">>
      <4>0. "/" \in Symbols
        BY DEF Symbols, EscapedSymbols
      <4>1. slashes \in Seq(Symbols) /\ Len(slashes) = 2 /\ slashes[1] = "/" /\ slashes[2] = "/"
        BY <4>0
      <4>2. SubSeq(slashes, 1, Len(slashes)) = slashes
        BY <4>1, SubSeqFull
      <4>3. IsPrefix(slashes, r)
        BY <2>4, <2>7
      <4> HIDE DEF slashes
      <4>4. Len(r) >= 2 /\ SubSeq(r, 1, 2) = slashes
        BY <4>1, <4>2, <4>3 DEF IsPrefix
      <4>5. 2 \in 0 .. Len(r) /\ Len(r) \in Nat
        BY <2>2, <4>4, LenProperties
      <4>6. \A i \in 1 .. 2 : SubSeq(r, 1, 2)[i] = r[i]
        BY <2>2, <4>5, Ends
      <4>7. \A i \in 1 .. 2 : slashes[i] = r[i]
        BY <4>4, <4>6
      <4> QED BY <4>1, <4>4, <4>5, <4>7
    <3>3. PICK h, t : /\ h = SubSeq(r, 1, 2) /\ t = SubSeq(r, 3, Len(r)) /\ h \in Seq(Symbols) /\ t \in Seq(Symbols)
                      /\ r = h \o t /\ Free(h, QueryMarks)
      <4>1. PICK n : n = Len(r) /\ n \in Nat /\ n >= 2 /\ 2 \in 0 .. n
        BY <3>2
      <4>2. r \in Seq(Symbols) /\ 2 \in 0 .. Len(r)
        BY <2>2, <4>1, Zenon
      <4>a. /\ SubSeq(r, 1, 2) \in Seq(Symbols) /\ Len(SubSeq(r, 1, 2)) = 2
            /\ \A i \in 1 .. 2 : SubSeq(r, 1, 2)[i] = r[i]
            /\ SubSeq(r, 2 + 1, Len(r)) \in Seq(Symbols) /\ Len(SubSeq(r, 2 + 1, Len(r))) = Len(r) - 2
            /\ \A i \in 1 .. Len(r) - 2 : SubSeq(r, 2 + 1, Len(r))[i] = r[2 + i]
        BY ONLY <4>2, Ends, Zenon
      <4>b. PICK h, t : h = SubSeq(r, 1, 2) /\ t = SubSeq(r, 2 + 1, Len(r))
        OBVIOUS
      <4>c. t = SubSeq(r, 3, Len(r))
        <5>1. 2 + 1 = 3
          OBVIOUS
        <5> QED BY <4>b, <5>1, Zenon
      <4>d. h \in Seq(Symbols) /\ Len(h) = 2 /\ (\A i \in 1 .. 2 : h[i] = r[i])
        BY <4>a, <4>b, Zenon
      <4>e. t \in Seq(Symbols) /\ Len(t) = n - 2 /\ (\A i \in 1 .. n - 2 : t[i] = r[2 + i])
        BY <4>1, <4>a, <4>b, Zenon
      <4>3. /\ h = SubSeq(r, 1, 2) /\ t = SubSeq(r, 3, Len(r))
            /\ h \in Seq(Symbols) /\ Len(h) = 2 /\ (\A i \in 1 .. 2 : h[i] = r[i])
            /\ t \in Seq(Symbols) /\ Len(t) = n - 2 /\ (\A i \in 1 .. n - 2 : t[i] = r[2 + i])
        BY <4>b, <4>c, <4>d, <4>e, Zenon
      <4>4. PICK w : /\ w = h \o t /\ w \in Seq(Symbols) /\ Len(w) = 2 + (n - 2)
                     /\ (\A i \in 1 .. 2 : w[i] = h[i]) /\ (\A i \in 1 .. n - 2 : w[2 + i] = t[i])
        <5>1. /\ h \o t \in Seq(Symbols) /\ Len(h \o t) = Len(h) + Len(t)
              /\ \A i \in 1 .. Len(h) : (h \o t)[i] = h[i]
              /\ \A i \in 1 .. Len(t) : (h \o t)[Len(h) + i] = t[i]
          BY <4>3, Joined
        <5>2. PICK w : w = h \o t
          OBVIOUS
        <5>3. /\ w \in Seq(Symbols) /\ Len(w) = Len(h) + Len(t)
              /\ \A i \in 1 .. Len(h) : w[i] = h[i]
              /\ \A i \in 1 .. Len(t) : w[Len(h) + i] = t[i]
          BY <5>1, <5>2, Zenon
        <5>4. Len(w) = 2 + (n - 2)
          BY <4>3, <5>3, Zenon
        <5>5. \A i \in 1 .. 2 : w[i] = h[i]
          BY <4>3, <5>3, Zenon
        <5>6. \A i \in 1 .. n - 2 : w[2 + i] = t[i]
          BY <4>3, <5>3, Zenon
        <5> QED BY <5>2, <5>3, <5>4, <5>5, <5>6, Zenon
      <4>5. Len(w) = n
        BY <4>1, <4>3, <4>4
      <4>6. ASSUME NEW i \in 1 .. n PROVE w[i] = r[i]
        <5>1. CASE i <= 2
          <6>1. i \in 1 .. 2
            BY <4>1, <4>3, <5>1
          <6> QED BY <4>3, <4>4, <6>1, Zenon
        <5>2. CASE i > 2
          <6>1. PICK j : j \in 1 .. n - 2 /\ 2 + j = i
            <7>1. i - 2 \in 1 .. n - 2 /\ 2 + (i - 2) = i
              BY <4>1, <4>3, <5>2
            <7> QED BY <7>1, Zenon
          <6> QED BY <4>3, <4>4, <6>1, Zenon
        <5> QED BY <4>1, <4>3, <5>1, <5>2
      <4>7. w = r
        BY <2>2, <4>1, <4>3, <4>4, <4>5, <4>6, SeqEqual
      <4>8. Free(h, QueryMarks)
        <5>1. \A i \in 1 .. 2 : i = 1 \/ i = 2
          OBVIOUS
        <5>2. \A i \in 1 .. 2 : h[i] = "/"
          BY <3>2, <4>3, <5>1
        <5> QED BY <4>3, <5>2 DEF Free, QueryMarks
      <4> QED BY <4>3, <4>4, <4>7, <4>8, Zenon
    <3>4. PICK b, e : /\ b = Before(local, Delimiters) /\ e = Rest(local, Delimiters) /\ b \in Seq(Symbols) /\ e \in Seq(Symbols)
                      /\ local = b \o e /\ Free(b, QueryMarks)
      <4>1. local = t
        BY <2>4, <3>3, Zenon
      <4>2. /\ Before(t, Delimiters) \in Seq(Symbols) /\ Rest(t, Delimiters) \in Seq(Symbols)
            /\ \A i \in 1 .. Len(Before(t, Delimiters)) : Before(t, Delimiters)[i] = t[i] /\ t[i] \notin Delimiters
        BY <3>3, CutApart, Zenon
      <4>3. Free(Before(t, Delimiters), Delimiters)
        BY <4>2, Zenon DEF Free
      <4>4. Free(Before(t, Delimiters), QueryMarks)
        BY <4>3 DEF Free, QueryMarks, Delimiters
      <4> QED BY <3>3, <4>1, <4>2, <4>4, CutAndJoined, Zenon
    <3>5. QueryOf(r) = QueryOf(e)
      <4>1. QueryOf(h \o t) = QueryOf(t)
        BY <3>3, QueryBehind, Zenon
      <4>2. QueryOf(b \o e) = QueryOf(e)
        BY <3>4, QueryBehind, Zenon
      <4>3. local = t
        BY <2>4, <3>3, Zenon
      <4> QED BY <3>3, <3>4, <4>1, <4>2, <4>3, Zenon
    <3>6. PICK v \in Parts : v = [parsed EXCEPT !.scheme = scheme]
      <4>1. parsed \in Parts
        BY <3>1, <3>4, AuthorityIs, Zenon
      <4> HIDE DEF parsed
      <4>2. [parsed EXCEPT !.scheme = scheme] \in Parts
        BY <1>2, <4>1 DEF Parts
      <4> QED BY <4>2, Zenon
    <3> QED BY <2>3, <3>1, <3>4, <3>5, <3>6, QueryTaken, Zenon
  <2> QED BY <2>6, <2>7, Zenon
<1> QED BY <1>4, <1>5, Zenon

-----------------------------------------------------------------------------
(* A URL that is printed and read again.                                   *)

\* A text of symbols of which none is in D.
TextFree(s, D) == s \in Seq(Symbols) /\ Free(s, D)

LEMMA TextJoined ==
    ASSUME NEW a, NEW b, NEW D, TextFree(a, D), TextFree(b, D)
    PROVE  TextFree(a \o b, D)
<1>1. a \in Seq(Symbols) /\ b \in Seq(Symbols) /\ Free(a, D) /\ Free(b, D)
  BY Zenon DEF TextFree
<1>2. a \o b \in Seq(Symbols) /\ Free(a \o b, D)
  BY ONLY <1>1, FreeJoined, Zenon
<1> QED BY <1>2, Zenon DEF TextFree

LEMMA TextOfOne ==
    ASSUME NEW c \in Symbols, NEW D, c \notin D
    PROVE  TextFree(<<c>>, D)
<1>1. PICK one : one = <<c>> /\ one \in Seq(Symbols) /\ Len(one) = 1 /\ one[1] = c
  BY One, Zenon
<1>2. \A i \in 1 .. 1 : i = 1
  OBVIOUS
<1>3. Free(one, D)
  BY <1>1, <1>2, Zenon DEF Free
<1> QED BY <1>1, <1>3, Zenon DEF TextFree

LEMMA TextOfNone == \A D : TextFree(<<>>, D)
BY EmptySeq DEF TextFree, Free

LEMMA PartsPrinted ==
    /\ \A c \in {"@", ":", "/"} : c \in Symbols /\ c \notin QueryMarks
    /\ \A n \in Ports : TextFree(<<":", Numeral(n)>>, QueryMarks)
    /\ TextFree(<<"/", "/">>, QueryMarks)
<1>1. \A c \in {"@", ":", "/"} : c \in Symbols /\ c \notin QueryMarks
  BY DEF Symbols, EscapedSymbols, QueryMarks
<1>2. ASSUME NEW n \in Ports PROVE TextFree(<<":", Numeral(n)>>, QueryMarks)
  <2>1. PICK s, c : s = <<":", Numeral(n)>> /\ c = Numeral(n) /\ s \in Seq(Symbols) /\ Len(s) = 2 /\ s[1] = ":" /\ s[2] = c /\ c \notin Delimiters
    BY ColonIs, Zenon DEF Colon
  <2>2. \A i \in 1 .. 2 : i = 1 \/ i = 2
    OBVIOUS
  <2>3. c \notin QueryMarks /\ ":" \notin QueryMarks
    BY <2>1 DEF QueryMarks, Delimiters
  <2>4. Free(s, QueryMarks)
    BY <2>1, <2>2, <2>3, Zenon DEF Free
  <2> QED BY <2>1, <2>4, Zenon DEF TextFree
<1>3. TextFree(<<"/", "/">>, QueryMarks)
  <2>1. <<"/">> \o <<"/">> = <<"/", "/">>
    BY <1>1, TwoAre
  <2>2. TextFree(<<"/">>, QueryMarks)
    BY <1>1, TextOfOne, Zenon
  <2> QED BY <2>1, <2>2, TextJoined, Zenon
<1> QED BY <1>1, <1>2, <1>3, Zenon

LEMMA FreeOfFewer ==
    ASSUME NEW s, NEW C, NEW D \in SUBSET C, TextFree(s, C)
    PROVE  TextFree(s, D)
BY DEF TextFree, Free

LEMMA PortIs ==
    ASSUME NEW u \in Parts
    PROVE  Port(u) \in Ports
BY DEF Port, WellKnownPort, Parts, Ports

LEMMA AuthorityPrinted ==
    ASSUME NEW u \in Parts, NEW D \in SUBSET QueryMarks, Free(u.user, D), Free(u.host, D)
    PROVE  TextFree(AuthorityOf(u), D)
<1>1. TextFree(u.user, D) /\ TextFree(u.host, D)
  BY Zenon DEF TextFree, Parts
<1>2. TextFree(IF u.user = <<>> THEN <<>> ELSE u.user \o <<"@">>, D)
  <2>1. TextFree(<<"@">>, D)
    <3>1. "@" \in Symbols /\ "@" \notin D
      BY PartsPrinted
    <3> QED BY <3>1, TextOfOne, Zenon
  <2>2. TextFree(u.user \o <<"@">>, D)
    BY <1>1, <2>1, TextJoined, Zenon
  <2> QED BY <2>2, TextOfNone, Zenon
<1>3. TextFree(Bracketed(u.host), D)
  <2>1. PICK b : /\ b = Bracketed(u.host) /\ b \in Seq(Symbols)
                 /\ \A i \in 1 .. Len(b) : b[i] \in {"[", "]"} \/ \E j \in 1 .. Len(u.host) : b[i] = u.host[j]
    <3>1. u.host \in Seq(Symbols)
      BY <1>1, Zenon DEF TextFree
    <3>2. /\ Bracketed(u.host) \in Seq(Symbols)
          /\ \A i \in 1 .. Len(Bracketed(u.host)) :
                 Bracketed(u.host)[i] \in {"[", "]"} \/ \E j \in 1 .. Len(u.host) : Bracketed(u.host)[i] = u.host[j]
      BY ONLY <3>1, BracketedIs, Zenon
    <3> QED BY <3>2, Zenon
  <2>2. "[" \notin D /\ "]" \notin D
    BY DEF QueryMarks
  <2>3. \A i \in 1 .. Len(b) : b[i] \notin D
    BY <2>1, <2>2, Zenon DEF Free
  <2> QED BY <2>1, <2>3, Zenon DEF TextFree, Free
<1>4. TextFree(IF Port(u) = 0 THEN <<>> ELSE <<":", Numeral(Port(u))>>, D)
  <2>1. TextFree(<<":", Numeral(Port(u))>>, D)
    BY PortIs, PartsPrinted, FreeOfFewer, Zenon
  <2> QED BY <2>1, TextOfNone, Zenon
<1> QED BY <1>2, <1>3, <1>4, TextJoined, Zenon DEF AuthorityOf

\* What is printed in front of the query.
TextBefore(u) ==
    LET authority == AuthorityOf(u)
        slash == IF u.path = <<>> THEN u.query # <<>> \/ u.fragment # <<>>
                 ELSE authority # <<>> /\ ~StartsWith(u.path, "/")
    IN  IF u.scheme = <<>> THEN Encode(u.path, ReservedPath)
        ELSE u.scheme \o <<":">>
             \o (IF authority = <<>> /\ u.scheme # <<"file">> THEN <<>> ELSE <<"/", "/">> \o authority)
             \o (IF slash THEN <<"/">> ELSE <<>>) \o Encode(u.path, ReservedPath)

LEMMA PrintedBefore ==
    ASSUME NEW u \in Parts, NEW D \in SUBSET QueryMarks,
           u.scheme = <<>> \/ (Free(u.scheme, D) /\ Free(u.user, D) /\ Free(u.host, D))
    PROVE  TextFree(TextBefore(u), D)
<1>1. TextFree(Encode(u.path, ReservedPath), D)
  <2>1. ReservedPath \in SUBSET EscapedSymbols /\ D \in SUBSET ReservedPath
    BY DEF ReservedPath, EscapedSymbols, QueryMarks
  <2>2. u.path \in Seq(Symbols)
    BY DEF Parts
  <2>3. Encode(u.path, ReservedPath) \in Seq(Symbols) /\ Free(Encode(u.path, ReservedPath), ReservedPath)
    BY <2>1, <2>2, EncodedIs, EncodedFree, Zenon
  <2> QED BY <2>1, <2>3, FreeOfFewer, Zenon DEF TextFree
<1>2. CASE u.scheme = <<>>
  <2>1. TextBefore(u) = Encode(u.path, ReservedPath)
    BY <1>2, Zenon DEF TextBefore
  <2> QED BY <1>1, <2>1, Zenon
<1>3. CASE u.scheme # <<>>
  <2>1. TextFree(u.scheme, D)
    BY <1>3, Zenon DEF TextFree, Parts
  <2>2. TextFree(<<":">>, D) /\ TextFree(<<"/">>, D)
    <3>1. ":" \in Symbols /\ ":" \notin D /\ "/" \in Symbols /\ "/" \notin D
      BY PartsPrinted
    <3> QED BY <3>1, TextOfOne, Zenon
  <2>3. PICK a : a = AuthorityOf(u) /\ TextFree(a, D)
    BY <1>3, AuthorityPrinted, Zenon
  <2>4. TextFree(<<"/", "/">> \o a, D)
    BY <2>3, PartsPrinted, FreeOfFewer, TextJoined, Zenon
  <2>5. TextFree(IF a = <<>> /\ u.scheme # <<"file">> THEN <<>> ELSE <<"/", "/">> \o a, D)
    BY <2>4, TextOfNone, Zenon
  <2>6. ASSUME NEW slash PROVE TextFree(IF slash THEN <<"/">> ELSE <<>>, D)
    BY <2>2, TextOfNone, Zenon
  <2>7. PICK x, y : /\ x = (IF a = <<>> /\ u.scheme # <<"file">> THEN <<>> ELSE <<"/", "/">> \o a)
                    /\ y = (IF (IF u.path = <<>> THEN u.query # <<>> \/ u.fragment # <<>>
                                ELSE a # <<>> /\ ~StartsWith(u.path, "/")) THEN <<"/">> ELSE <<>>)
    OBVIOUS
  <2>8. TextFree(x, D) /\ TextFree(y, D)
    BY <2>5, <2>6, <2>7, Zenon
  <2>9. TextBefore(u) = (((u.scheme \o <<":">>) \o x) \o y) \o Encode(u.path, ReservedPath)
    BY <1>3, <2>3, <2>7, Zenon DEF TextBefore
  <2> QED BY <1>1, <2>1, <2>2, <2>8, <2>9, TextJoined, Zenon
<1> QED BY <1>2, <1>3, Zenon

LEMMA NothingInFront ==
    ASSUME NEW s \in Seq(Symbols), NEW D, s # <<>> => s[1] \in D
    PROVE  Rest(s, D) = s
<1>1. PICK nil : nil = <<>> /\ nil \in Seq(Symbols) /\ Len(nil) = 0
  BY EmptySeq
<1>2. \A i \in 1 .. Len(nil) : nil[i] \notin D
  BY <1>1
<1>3. nil \o s = s
  BY <1>1, ConcatEmptySeq
<1>4. nil \in Seq(Symbols) /\ s \in Seq(Symbols) /\ (\A i \in 1 .. Len(nil) : nil[i] \notin D) /\ (s # <<>> => s[1] \in D)
  BY <1>1, <1>2, Zenon
<1>5. Rest(nil \o s, D) = s
  BY ONLY <1>4, CutTogether, Zenon
<1> QED BY <1>3, <1>5, Zenon

Marked(c, s) == IF s = <<>> THEN <<>> ELSE <<c>> \o s
LEMMA MarkedIs ==
    ASSUME NEW c \in Symbols, NEW s \in Seq(Symbols)
    PROVE  /\ Marked(c, s) \in Seq(Symbols)
           /\ Marked(c, s) # <<>> => Marked(c, s)[1] = c /\ s # <<>>
           /\ s # <<>> => Marked(c, s) = <<c>> \o s /\ Marked(c, s) # <<>> /\ Tail(Marked(c, s)) = s
BY TailOf, EmptySeq, Zenon DEF Marked

\* What the query is read as when it is printed behind what holds no question mark.
LEMMA QueryRead ==
    ASSUME NEW q \in Seq(Symbols), Free(q, {"#"}), NEW f \in Seq(Symbols)
    PROVE  Marked("?", q) \o Marked("#", f) \in Seq(Symbols) /\ QueryOf(Marked("?", q) \o Marked("#", f)) = q
<1>1. "?" \in Symbols /\ "#" \in Symbols /\ "?" # "#"
  BY DEF Symbols, EscapedSymbols
<1>2. PICK b : /\ b = Marked("#", f) /\ b \in Seq(Symbols) /\ (b # <<>> => b[1] = "#")
  BY <1>1, MarkedIs, Zenon
<1>3. CASE q = <<>>
  <2>1. Marked("?", q) \o b = b
    <3>1. Marked("?", q) = <<>>
      BY <1>3, Zenon DEF Marked
    <3>2. <<>> \o b = b
      BY <1>2, ConcatEmptySeq
    <3> QED BY <3>1, <3>2, Zenon
  <2>2. Rest(b, QueryMarks) = b
    <3>1. b \in Seq(Symbols) /\ (b # <<>> => b[1] \in QueryMarks)
      BY <1>2 DEF QueryMarks
    <3> QED BY ONLY <3>1, NothingInFront, Zenon
  <2>3. ~StartsWith(b, "?")
    BY <1>1, <1>2, Zenon DEF StartsWith
  <2>4. QueryOf(b) = <<>>
    BY <2>2, <2>3, Zenon DEF QueryOf
  <2> QED BY <1>2, <1>3, <2>1, <2>4, Zenon
<1>4. CASE q # <<>>
  <2>1. PICK w : w = q \o b /\ w \in Seq(Symbols)
    BY <1>2, Joined, Zenon
  <2>2. PICK t : t = <<"?">> \o w /\ t \in Seq(Symbols) /\ t # <<>> /\ t[1] = "?" /\ Tail(t) = w
    <3>1. "?" \in Symbols /\ w \in Seq(Symbols)
      BY <1>1, <2>1, Zenon
    <3> QED BY ONLY <3>1, TailOf, Zenon
  <2>3. Marked("?", q) \o b = t
    <3>1. PICK one : one = <<"?">> /\ one \in Seq(Symbols)
      BY <1>1, One, Zenon
    <3>2. (one \o q) \o b = one \o (q \o b)
      BY <1>2, <3>1, Regrouped, Zenon
    <3>3. Marked("?", q) = one \o q
      BY <1>4, <3>1, Zenon DEF Marked
    <3> QED BY <2>1, <2>2, <3>1, <3>2, <3>3, Zenon
  <2>4. Rest(t, QueryMarks) = t
    <3>1. t \in Seq(Symbols) /\ (t # <<>> => t[1] \in QueryMarks)
      BY <2>2 DEF QueryMarks
    <3> QED BY ONLY <3>1, NothingInFront, Zenon
  <2>5. StartsWith(t, "?")
    BY <2>2, Zenon DEF StartsWith
  <2>6. Before(w, {"#"}) = q
    <3>1. /\ q \in Seq(Symbols) /\ b \in Seq(Symbols) /\ (\A i \in 1 .. Len(q) : q[i] \notin {"#"})
          /\ (b # <<>> => b[1] \in {"#"})
      BY <1>2, Zenon DEF Free
    <3>2. Before(q \o b, {"#"}) = q
      BY ONLY <3>1, CutTogether, Zenon
    <3> QED BY <2>1, <3>2, Zenon
  <2>7. QueryOf(t) = q
    BY <2>2, <2>4, <2>5, <2>6, Zenon DEF QueryOf
  <2> QED BY <1>2, <2>2, <2>3, <2>7, Zenon
<1> QED BY <1>3, <1>4, Zenon

LEMMA PrintedQuery ==
    ASSUME NEW u \in Parts, Free(u.query, {"#"})
    PROVE  /\ UrlText(u) \in Seq(Symbols)
           /\ u.scheme = <<>> \/ (Free(u.scheme, QueryMarks) /\ Free(u.user, QueryMarks) /\ Free(u.host, QueryMarks)) =>
                  QueryOf(UrlText(u)) = u.query
<1>1. PICK e : /\ e = Marked("?", u.query) \o Marked("#", u.fragment) /\ e \in Seq(Symbols) /\ QueryOf(e) = u.query
  <2>1. u.query \in Seq(Symbols) /\ u.fragment \in Seq(Symbols)
    BY DEF Parts
  <2> QED BY <2>1, QueryRead, Zenon
<1>2. PICK a : a = TextBefore(u) /\ a \in Seq(Symbols)
  <2>1. Free(u.scheme, {}) /\ Free(u.user, {}) /\ Free(u.host, {}) /\ {} \in SUBSET QueryMarks
    BY DEF Free
  <2> QED BY <2>1, PrintedBefore, Zenon DEF TextFree
<1>3. UrlText(u) = a \o e
  <2>1. UrlText(u) = (a \o Marked("?", u.query)) \o Marked("#", u.fragment)
    BY <1>2, Zenon DEF UrlText, TextBefore, Marked
  <2>2. a \in Seq(Symbols) /\ Marked("?", u.query) \in Seq(Symbols) /\ Marked("#", u.fragment) \in Seq(Symbols)
    <3>1. "?" \in Symbols /\ "#" \in Symbols
      BY DEF Symbols, EscapedSymbols
    <3>2. u.query \in Seq(Symbols) /\ u.fragment \in Seq(Symbols)
      BY DEF Parts
    <3> QED BY <1>2, <3>1, <3>2, MarkedIs, Zenon
  <2>3. (a \o Marked("?", u.query)) \o Marked("#", u.fragment) = a \o (Marked("?", u.query) \o Marked("#", u.fragment))
    BY ONLY <2>2, Regrouped, Zenon
  <2> QED BY <1>1, <2>1, <2>3, Zenon
<1>4. UrlText(u) \in Seq(Symbols)
  BY <1>1, <1>2, <1>3, Joined, Zenon
<1>5. ASSUME u.scheme = <<>> \/ (Free(u.scheme, QueryMarks) /\ Free(u.user, QueryMarks) /\ Free(u.host, QueryMarks))
      PROVE  QueryOf(UrlText(u)) = u.query
  <2>1. QueryMarks \in SUBSET QueryMarks
    OBVIOUS
  <2>2. Free(a, QueryMarks)
    BY <1>2, <1>5, <2>1, PrintedBefore, Zenon DEF TextFree
  <2>3. QueryOf(a \o e) = QueryOf(e)
    BY <1>1, <1>2, <2>2, QueryBehind, Zenon
  <2> QED BY <1>1, <1>3, <2>3, Zenon
<1> QED BY <1>4, <1>5, Zenon

\* Reading a printed URL again, as Reprint does.
LEMMA ReprintedQuery ==
    ASSUME NEW u \in Parts, Free(u.query, {"#"}), ~Throws(Parse(UrlText(u))),
           u.scheme = <<>> \/ \A c \in {"?", "#"} : ~Contains(u.scheme \o u.user \o u.host, c)
    PROVE  Parse(UrlText(u)).query = u.query
<1>1. UrlText(u) \in Seq(Symbols)
  BY PrintedQuery, Zenon
<1>2. Parse(UrlText(u)).query = QueryOf(UrlText(u))
  BY <1>1, ParsedQuery, Zenon
<1>3. ASSUME \A c \in {"?", "#"} : ~Contains(u.scheme \o u.user \o u.host, c)
      PROVE  Free(u.scheme, QueryMarks) /\ Free(u.user, QueryMarks) /\ Free(u.host, QueryMarks)
  <2>1. PICK a, b, c : /\ a = u.scheme /\ b = u.user /\ c = u.host
                       /\ a \in Seq(Symbols) /\ b \in Seq(Symbols) /\ c \in Seq(Symbols)
    BY DEF Parts
  <2>2. PICK w : w = a \o b /\ w \in Seq(Symbols)
    BY <2>1, Joined, Zenon
  <2>3. PICK v : v = w \o c /\ v \in Seq(Symbols)
    BY <2>1, <2>2, Joined, Zenon
  <2>4. Free(v, QueryMarks)
    <3>1. ~Contains(v, "?") /\ ~Contains(v, "#")
      BY <1>3, <2>1, <2>2, <2>3, Zenon
    <3>2. \A i \in 1 .. Len(v) : v[i] # "?" /\ v[i] # "#"
      BY <3>1, <2>3, LenProperties DEF Contains
    <3> QED BY <3>2, Zenon DEF Free, QueryMarks
  <2>5. ASSUME NEW x \in Seq(Symbols), NEW y \in Seq(Symbols), NEW z, z = x \o y, Free(z, QueryMarks)
        PROVE  Free(x, QueryMarks) /\ Free(y, QueryMarks)
    <3>0. x \in Seq(Symbols) /\ y \in Seq(Symbols)
      OBVIOUS
    <3>1. /\ Len(z) = Len(x) + Len(y) /\ Len(x) \in Nat /\ Len(y) \in Nat
          /\ \A i \in 1 .. Len(x) : z[i] = x[i]
          /\ \A i \in 1 .. Len(y) : z[Len(x) + i] = y[i]
      <4>1. /\ Len(x \o y) = Len(x) + Len(y) /\ Len(x) \in Nat /\ Len(y) \in Nat
            /\ \A i \in 1 .. Len(x) : (x \o y)[i] = x[i]
            /\ \A i \in 1 .. Len(y) : (x \o y)[Len(x) + i] = y[i]
        BY ONLY <3>0, Joined, Zenon
      <4> QED BY <2>5, <4>1, Zenon
    <3>2. \A i \in 1 .. Len(z) : z[i] \notin QueryMarks
      BY <2>5, Zenon DEF Free
    <3>3. PICK m, n, k : m = Len(x) /\ n = Len(y) /\ k = Len(z)
      OBVIOUS
    <3>4. m \in Nat /\ n \in Nat /\ k = m + n
      BY <3>1, <3>3, Zenon
    <3>5. \A i \in 1 .. m : i \in 1 .. k
      BY ONLY <3>4
    <3>6. \A i \in 1 .. n : m + i \in 1 .. k
      BY ONLY <3>4
    <3> QED BY <3>1, <3>2, <3>3, <3>5, <3>6, Zenon DEF Free
  <2>6. Free(w, QueryMarks) /\ Free(c, QueryMarks)
    BY <2>1, <2>2, <2>3, <2>4, <2>5, Zenon
  <2>7. Free(a, QueryMarks) /\ Free(b, QueryMarks)
    BY <2>1, <2>2, <2>5, <2>6, Zenon
  <2> QED BY <2>1, <2>6, <2>7, Zenon
<1> QED BY <1>2, <1>3, PrintedQuery, Zenon

-----------------------------------------------------------------------------
(* Parameters that are added and set.                                      *)

LEMMA TwoTogether ==
    ASSUME NEW X, NEW a \in X, NEW b \in X
    PROVE  Append(<<a>>, b) = <<a, b>> /\ <<a>> \o <<b>> = <<a, b>>
<1>1. PICK t : t = <<a, b>>
  OBVIOUS
<1>2. t \in Seq(X) /\ Len(t) = 2 /\ t[1] = a /\ t[2] = b
  BY <1>1
<1>3. PICK s : s = <<a>>
  OBVIOUS
<1>4. s \in Seq(X) /\ Len(s) = 1 /\ s[1] = a
  BY <1>3
<1>5. PICK w : w = Append(s, b)
  OBVIOUS
<1>a. s \in Seq(X) /\ b \in X
  BY <1>4
<1>b. /\ Append(s, b) \in Seq(X) /\ Len(Append(s, b)) = Len(s) + 1 /\ Append(s, b)[Len(s) + 1] = b
      /\ \A i \in 1 .. Len(s) : Append(s, b)[i] = s[i]
  BY ONLY <1>a, AppendProperties
<1>6. w \in Seq(X) /\ Len(w) = 2
  BY <1>4, <1>5, <1>b
<1>7. w[2] = b /\ w[1] = s[1]
  <2>2. PICK n : n = Len(s) /\ n = 1
    BY <1>4
  <2>3. w[n + 1] = b /\ \A i \in 1 .. n : w[i] = s[i]
    BY <1>5, <1>b, <2>2, Zenon
  <2> QED BY <2>2, <2>3
<1>8. \A i \in 1 .. 2 : t[i] = w[i]
  <2>1. \A i \in 1 .. 2 : i = 1 \/ i = 2
    OBVIOUS
  <2> QED BY <1>2, <1>4, <1>7, <2>1, Zenon
<1>9. t = w
  BY <1>2, <1>6, <1>8, SeqEqual
<1>10. Append(s, b) = s \o <<b>>
  BY <1>4, AppendIsConcat
<1> QED BY <1>1, <1>3, <1>5, <1>9, <1>10, Zenon

\* The pairs of a name and a value that are given to a URL.
Pairs == {p \in Seq(Symbols) \X Seq(Symbols) : Unescaped(p[1]) /\ Unescaped(p[2])}

LEMMA WithParameterIs ==
    ASSUME NEW u \in Parts, NEW p \in Pairs
    PROVE  LET w == WithParameter(u, p)
               unnamed == u.query # <<>> /\ Last(u.query) = "&"
           IN  /\ w \in Parts /\ w.query # <<>> /\ Last(w.query) # "&"
               /\ Free(u.query, {"#"}) => Free(w.query, {"#"})
               /\ GetQueryParameters(w) =
                      GetQueryParameters(u) \o (IF unnamed THEN <<Unnamed>> ELSE <<>>) \o <<p>>
               /\ u.query = <<>> => GetQueryParameters(u) = <<>>
<1>1. PICK n, v : p = <<n, v>> /\ p[1] = n /\ p[2] = v /\ Unescaped(n) /\ Unescaped(v)
  <2>1. p = <<p[1], p[2]>> /\ Unescaped(p[1]) /\ Unescaped(p[2])
    BY DEF Pairs
  <2> QED BY <2>1, Zenon
<1>2. PICK base : base = (IF u.query = <<>> THEN <<>> ELSE Append(u.query, "&")) /\ base \in Seq(Symbols)
  <2>1. "&" \in Symbols /\ u.query \in Seq(Symbols)
    BY DEF Symbols, EscapedSymbols, Parts
  <2>2. Append(u.query, "&") \in Seq(Symbols) /\ <<>> \in Seq(Symbols)
    BY <2>1, AppendProperties, EmptySeq
  <2> QED BY <2>2, Zenon
<1>3. PICK piece : /\ piece = PieceOf(<<n, v>>) /\ piece \in Seq(Symbols) /\ piece # <<>> /\ Free(piece, {"&", "#"})
  BY <1>1, PieceIs, Zenon
<1>4. PICK q : q = base \o piece
  OBVIOUS
<1>5. WithParameter(u, p) = [u EXCEPT !.query = q]
  <2>1. PICK a, b, c : /\ a = Encode(n, ReservedQueryParam) /\ b = <<"=">> /\ c = Encode(v, ReservedQueryParam)
                       /\ a \in Seq(Symbols) /\ b \in Seq(Symbols) /\ c \in Seq(Symbols)
    <3>1. ReservedQueryParam \in SUBSET EscapedSymbols
      BY DEF ReservedQueryParam, ReservedQuery, EscapedSymbols
    <3>2. n \in Seq(Symbols) /\ v \in Seq(Symbols)
      BY <1>1, Zenon DEF Unescaped
    <3>3. "=" \in Symbols
      BY DEF Symbols, EscapedSymbols
    <3> QED BY <3>1, <3>2, <3>3, EncodedIs, One, Zenon
  <2>2. piece = (a \o b) \o c
    <3>1. PICK nv : nv = <<n, v>>
      OBVIOUS
    <3>2. nv[1] = n /\ nv[2] = v
      BY <3>1
    <3>3. PieceOf(nv) = (a \o b) \o c
      BY <2>1, <3>2, Zenon DEF PieceOf
    <3> QED BY <1>3, <3>1, <3>3, Zenon
  <2>3. WithParameter(u, p) = [u EXCEPT !.query = ((base \o a) \o b) \o c]
    BY <1>1, <1>2, <2>1, Zenon DEF WithParameter
  <2>4. PICK ab : ab = a \o b /\ ab \in Seq(Symbols) /\ base \o a \in Seq(Symbols)
    BY <1>2, <2>1, Joined, Zenon
  <2>5. (base \o a) \o b = base \o ab
    <3>1. base \in Seq(Symbols) /\ a \in Seq(Symbols) /\ b \in Seq(Symbols)
      BY <1>2, <2>1, Zenon
    <3>2. (base \o a) \o b = base \o (a \o b)
      BY ONLY <3>1, Regrouped, Zenon
    <3> QED BY <2>4, <3>2, Zenon
  <2>6. (base \o ab) \o c = base \o (ab \o c)
    <3>1. base \in Seq(Symbols) /\ ab \in Seq(Symbols) /\ c \in Seq(Symbols)
      BY <1>2, <2>1, <2>4, Zenon
    <3> QED BY ONLY <3>1, Regrouped, Zenon
  <2> QED BY <1>4, <2>2, <2>3, <2>4, <2>5, <2>6, Zenon
<1>6. u.query \in Seq(Symbols)
  BY DEF Parts
<1>7. PICK params : params = Each(Reading(AsQuery), Pieces(u.query)) /\ params = GetQueryParameters(u)
  BY <1>6, ParametersOfUrl, Zenon
<1>8. /\ q \in Seq(Symbols) /\ q # <<>>
      /\ Free(u.query, {"#"}) => Free(q, {"#"})
      /\ Each(Reading(AsQuery), Pieces(q)) =
             params \o (IF u.query # <<>> /\ Last(u.query) = "&" THEN <<Unnamed>> ELSE <<>>) \o <<p>>
      /\ u.query = <<>> => params = <<>>
  <2>1. u.query \in Seq(Symbols) /\ Unescaped(n) /\ Unescaped(v)
    BY <1>1, <1>6, Zenon
  <2>2. /\ (IF u.query = <<>> THEN <<>> ELSE Append(u.query, "&")) \o PieceOf(<<n, v>>) \in Seq(Symbols)
        /\ (IF u.query = <<>> THEN <<>> ELSE Append(u.query, "&")) \o PieceOf(<<n, v>>) # <<>>
        /\ Free(u.query, {"#"}) => Free((IF u.query = <<>> THEN <<>> ELSE Append(u.query, "&")) \o PieceOf(<<n, v>>), {"#"})
        /\ Each(Reading(AsQuery), Pieces((IF u.query = <<>> THEN <<>> ELSE Append(u.query, "&")) \o PieceOf(<<n, v>>))) =
               Each(Reading(AsQuery), Pieces(u.query))
               \o (IF u.query # <<>> /\ Last(u.query) = "&" THEN <<Unnamed>> ELSE <<>>) \o <<<<n, v>>>>
        /\ u.query = <<>> => Each(Reading(AsQuery), Pieces(u.query)) = <<>>
    BY ONLY <2>1, AddedIs, Zenon
  <2>3. (IF u.query = <<>> THEN <<>> ELSE Append(u.query, "&")) \o PieceOf(<<n, v>>) = q
    BY <1>2, <1>3, <1>4, Zenon
  <2> QED BY <1>1, <1>7, <2>2, <2>3, Zenon
<1>9. Last(q) # "&"
  <2>1. PICK m, k, l : /\ m = Len(base) /\ k = Len(piece) /\ l = Len(q) /\ m \in Nat /\ k \in Nat /\ l = m + k
                       /\ \A i \in 1 .. k : q[m + i] = piece[i]
    <3>1. /\ Len(base \o piece) = Len(base) + Len(piece) /\ Len(base) \in Nat /\ Len(piece) \in Nat
          /\ \A i \in 1 .. Len(piece) : (base \o piece)[Len(base) + i] = piece[i]
      BY <1>2, <1>3, Joined
    <3> QED BY <1>4, <3>1, Zenon
  <2>2. k # 0
    BY <1>3, <2>1, EmptySeq
  <2>3. k \in 1 .. k /\ m + k = l
    BY <2>1, <2>2
  <2>4. q[l] = piece[k] /\ piece[k] # "&"
    <3>1. q[m + k] = piece[k]
      BY <2>1, <2>3, Zenon
    <3>2. piece[k] \notin {"&", "#"}
      BY <1>3, <2>1, <2>3, Zenon DEF Free
    <3> QED BY <2>3, <3>1, <3>2, Zenon
  <2> QED BY <2>1, <2>4, Zenon DEF Last
<1>10. PICK w \in Parts : w = WithParameter(u, p) /\ w.query = q
  <2>1. [u EXCEPT !.query = q] \in Parts /\ [u EXCEPT !.query = q].query = q
    BY <1>8 DEF Parts
  <2> QED BY <1>5, <2>1, Zenon
<1>11. GetQueryParameters(w) = Each(Reading(AsQuery), Pieces(q))
  BY <1>8, <1>10, ParametersOfUrl, Zenon
<1> QED BY <1>7, <1>8, <1>9, <1>10, <1>11, Zenon

LEMMA ParameterFolds ==
    ASSUME NEW u \in Parts, NEW s \in Seq(Pairs)
    PROVE  Folds([p \in Parts \X Pairs |-> WithParameter(p[1], p[2])], Parts, u, s, FoldLeft(WithParameter, u, s))
<1> DEFINE A == Parts
           Step(x, c) == WithParameter(x, c)
           D == SUBSET (DOMAIN s)
           Is(iter) == iter = [S \in D |-> IF S = {} THEN u ELSE Step(iter[S \ {Max(S)}], s[Max(S)])]
           op == [p \in A \X Pairs |-> Step(p[1], p[2])]
<1>0. PICK n \in Nat : n = Len(s) /\ DOMAIN s = 1 .. n /\ \A i \in 1 .. n : s[i] \in Pairs
  <2>1. Len(s) \in Nat /\ DOMAIN s = 1 .. Len(s)
    BY LenProperties
  <2>2. \A i \in 1 .. Len(s) : s[i] \in Pairs
    BY ElementOfSeq, Zenon
  <2> QED BY <2>1, <2>2, Zenon
<1>1. u \in A /\ \A x \in A, c \in Pairs : Step(x, c) \in A
  BY WithParameterIs, Zenon
<1>2. op \in [A \X Pairs -> A] /\ \A x \in A, c \in Pairs : op[<<x, c>>] = Step(x, c)
  <2> HIDE DEF A, Step
  <2>1. \A p \in A \X Pairs : p[1] \in A /\ p[2] \in Pairs
    OBVIOUS
  <2>2. \A p \in A \X Pairs : Step(p[1], p[2]) \in A
    BY <1>1, <2>1, Zenon
  <2>3. op \in [A \X Pairs -> A]
    BY <2>2, Zenon
  <2>4. ASSUME NEW x \in A, NEW c \in Pairs PROVE op[<<x, c>>] = Step(x, c)
    <3>1. <<x, c>> \in A \X Pairs /\ <<x, c>>[1] = x /\ <<x, c>>[2] = c
      OBVIOUS
    <3> QED BY <3>1, Zenon
  <2> QED BY <2>3, <2>4, Zenon
<1>3. \A S \in SUBSET (1 .. n) : S # {} => Max(S) \in 1 .. n /\ S \ {Max(S)} \in SUBSET (1 .. n)
  <2> TAKE S \in SUBSET (1 .. n)
  <2>1. S \subseteq 0 .. n
    OBVIOUS
  <2>2. S # {} => Max(S) \in S
    BY <2>1, MaxOfBounded, Zenon
  <2> QED BY <2>2
<1>4. \E iter : Is(iter)
  <2>1. HasTable(A, op, u, s, n)
    <3> HIDE DEF op, A, Step
    <3> QED BY <1>0, <1>1, <1>2, FoldTable, Zenon
  <2>2. PICK iter \in [SUBSET (1 .. n) -> A] : \A S \in SUBSET (1 .. n) :
            iter[S] = IF S = {} THEN u ELSE op[<<iter[S \ {Max(S)}], s[Max(S)]>>]
    BY <2>1, Zenon DEF HasTable, IsTable
  <2>3. \A S \in SUBSET (1 .. n) :
            iter[S] = IF S = {} THEN u ELSE Step(iter[S \ {Max(S)}], s[Max(S)])
    <3> TAKE S \in SUBSET (1 .. n)
    <3>1. CASE S = {}
      BY <2>2, <3>1, Zenon
    <3>2. CASE S # {}
      <4> HIDE DEF op, Step, A
      <4>1. iter[S \ {Max(S)}] \in A /\ s[Max(S)] \in Pairs
        BY <1>0, <1>3, <3>2, Zenon
      <4>2. op[<<iter[S \ {Max(S)}], s[Max(S)]>>] = Step(iter[S \ {Max(S)}], s[Max(S)])
        BY <1>2, <4>1, Zenon
      <4> QED BY <2>2, <3>2, <4>2, Zenon
    <3> QED BY <3>1, <3>2, Zenon
  <2>4. D = SUBSET (1 .. n)
    BY <1>0, Zenon
  <2> HIDE DEF Step, A
  <2>5. iter = [S \in D |-> IF S = {} THEN u ELSE Step(iter[S \ {Max(S)}], s[Max(S)])]
    BY <2>3, <2>4
  <2> QED BY <2>5, Zenon
<1>5. Is(CHOOSE iter : Is(iter))
  <2> HIDE DEF Is
  <2> QED BY <1>4, Zenon
<1>6. PICK iter : Is(iter) /\ FoldLeft(WithParameter, u, s) = iter[DOMAIN s]
  BY <1>5, Zenon DEF FoldLeft, MapThenFoldSet
<1>7. iter[{}] = u /\ \A S \in SUBSET (1 .. n) : S # {} =>
          iter[S] = Step(iter[S \ {Max(S)}], s[Max(S)])
  <2>1. {} \in SUBSET (1 .. n) /\ D = SUBSET (1 .. n)
    BY <1>0, Zenon
  <2> HIDE DEF Step, D
  <2> QED BY <1>6, <2>1, Zenon
<1> HIDE DEF op, Step, A, Is, D
<1>8. \A S \in SUBSET (1 .. n) : S # {} /\ iter[S \ {Max(S)}] \in A =>
          iter[S] = op[<<iter[S \ {Max(S)}], s[Max(S)]>>]
  BY <1>0, <1>2, <1>3, <1>7, Zenon
<1>9. Folds(op, A, u, s, iter[1 .. Len(s)])
  <2>1. op \in [A \X Pairs -> A] /\ u \in A
    BY <1>1, <1>2, Zenon
  <2>2. \A S \in SUBSET (1 .. Len(s)) : S # {} /\ iter[S \ {Max(S)}] \in A =>
            iter[S] = op[<<iter[S \ {Max(S)}], s[Max(S)]>>]
    BY <1>0, <1>8, Zenon
  <2> QED BY <1>7, <2>1, <2>2, StepsOfTable, Zenon
<1>10. iter[1 .. Len(s)] = FoldLeft(WithParameter, u, s)
  BY <1>0, <1>6, Zenon
<1> QED BY <1>9, <1>10, Zenon DEF op, A, Step

\* The parameters that are set are those that are read.
LEMMA ParametersSet ==
    ASSUME NEW u \in Parts, u.query = <<>>, NEW p \in Pairs, NEW q \in Pairs
    PROVE  LET w == FoldLeft(WithParameter, u, <<p, q>>)
           IN  w \in Parts /\ Free(w.query, {"#"}) /\ GetQueryParameters(w) = <<p, q>>
<1> DEFINE op == [x \in Parts \X Pairs |-> WithParameter(x[1], x[2])]
<1>1. PICK none, one, two : /\ none = <<>> /\ one = Append(none, p) /\ two = Append(one, q)
                            /\ none \in Seq(Pairs) /\ one \in Seq(Pairs) /\ two \in Seq(Pairs)
                            /\ one = <<p>> /\ two = <<p, q>>
  <2>1. <<>> \in Seq(Pairs) /\ Append(<<>>, p) = <<p>> /\ Append(<<p>>, q) = <<p, q>>
    <3>1. PICK a, b : a = p /\ b = q
      OBVIOUS
    <3>2. <<>> \in Seq(Pairs) /\ Append(<<>>, a) = <<a>>
      BY EmptySeq
    <3>3. Append(<<a>>, b) = <<a, b>>
      <4>1. a \in {a, b} /\ b \in {a, b}
        OBVIOUS
      <4> QED BY ONLY <4>1, TwoTogether, Zenon
    <3> QED BY <3>1, <3>2, <3>3, Zenon
  <2>2. Append(<<>>, p) \in Seq(Pairs)
    BY <2>1, AppendProperties
  <2>3. Append(Append(<<>>, p), q) \in Seq(Pairs)
    BY <2>2, AppendProperties
  <2> QED BY <2>1, <2>2, <2>3, Zenon
<1>2. PICK w0, w1, w2 : /\ w0 = FoldLeft(WithParameter, u, none) /\ w1 = FoldLeft(WithParameter, u, one)
                        /\ w2 = FoldLeft(WithParameter, u, two)
                        /\ Folds(op, Parts, u, none, w0) /\ Folds(op, Parts, u, one, w1)
                        /\ Folds(op, Parts, u, two, w2)
  <2>1. \A s \in Seq(Pairs) : Folds(op, Parts, u, s, FoldLeft(WithParameter, u, s))
    BY ParameterFolds, Zenon
  <2> HIDE DEF op
  <2> QED BY <1>1, <2>1, Zenon
<1>3. \A x \in Parts, c \in Pairs : op[<<x, c>>] = WithParameter(x, c)
  <2> TAKE x \in Parts, c \in Pairs
  <2>1. <<x, c>> \in Parts \X Pairs /\ <<x, c>>[1] = x /\ <<x, c>>[2] = c
    OBVIOUS
  <2> QED BY <2>1, Zenon
<1> HIDE DEF op
<1>4. w0 = u
  BY <1>1, <1>2, FoldsNothing, Zenon
<1>5. w1 = WithParameter(u, p)
  <2>1. w1 = op[<<w0, p>>]
    <3>1. /\ none \in Seq(Pairs) /\ p \in Pairs /\ Folds(op, Parts, u, none, w0)
          /\ Folds(op, Parts, u, Append(none, p), w1)
      BY <1>1, <1>2, Zenon
    <3> QED BY ONLY <3>1, FoldsAppended, SMT
  <2> QED BY <1>3, <1>4, <2>1, Zenon
<1>6. /\ w1 \in Parts /\ w1.query # <<>> /\ Last(w1.query) # "&"
      /\ Free(w1.query, {"#"})
      /\ GetQueryParameters(w1) = <<>> \o <<>> \o <<p>>
  <2>1. Free(u.query, {"#"})
    BY EmptySeq DEF Free
  <2> QED BY <1>5, <2>1, WithParameterIs, Zenon
<1>7. w2 = WithParameter(w1, q)
  <2>1. w2 = op[<<w1, q>>]
    <3>1. /\ one \in Seq(Pairs) /\ q \in Pairs /\ Folds(op, Parts, u, one, w1)
          /\ Folds(op, Parts, u, Append(one, q), w2)
      BY <1>1, <1>2, Zenon
    <3> QED BY ONLY <3>1, FoldsAppended, SMT
  <2> QED BY <1>3, <1>6, <2>1, Zenon
<1>8. w2 \in Parts /\ Free(w2.query, {"#"}) /\ GetQueryParameters(w2) = GetQueryParameters(w1) \o <<>> \o <<q>>
  BY <1>6, <1>7, WithParameterIs, Zenon
<1>9. (<<>> \o <<>> \o <<p>>) \o <<>> \o <<q>> = <<p, q>>
  <2>1. PICK x, y, xs, ys : x = p /\ y = q /\ xs = <<x>> /\ ys = <<y>>
    OBVIOUS
  <2>2. xs \in Seq({x, y}) /\ ys \in Seq({x, y}) /\ <<>> \in Seq({x, y})
    BY <2>1
  <2>3. <<>> \o <<>> = <<>> /\ <<>> \o xs = xs /\ xs \o <<>> = xs
    BY <2>2, ConcatEmptySeq
  <2>4. xs \o ys = <<x, y>>
    <3>1. x \in {x, y} /\ y \in {x, y}
      OBVIOUS
    <3>2. <<x>> \o <<y>> = <<x, y>>
      BY ONLY <3>1, TwoTogether, Zenon
    <3> QED BY <2>1, <3>2, Zenon
  <2> QED BY <2>1, <2>3, <2>4, Zenon
<1> QED BY <1>1, <1>2, <1>6, <1>8, <1>9, Zenon

-----------------------------------------------------------------------------
(* A path that is normalized.                                              *)

Texts == Seq(Symbols)
\* One step through the parts of a path.
TakenPart(segments, part) == IF part = <<>> THEN segments ELSE Append(segments, part)
LEMMA TakenPartIs ==
    /\ <<>> \in Seq(Texts)
    /\ \A x \in Seq(Texts), c \in Texts : TakenPart(x, c) \in Seq(Texts)
<1>1. \A x \in Seq(Texts), c \in Texts : Append(x, c) \in Seq(Texts)
  BY AppendProperties
<1>2. <<>> \in Seq(Texts)
  BY EmptySeq
<1> QED BY <1>1, <1>2, Zenon DEF TakenPart
LEMMA SegmentFolds ==
    ASSUME NEW s \in Seq(Texts)
    PROVE  Folds([p \in Seq(Texts) \X Texts |-> TakenPart(p[1], p[2])], Seq(Texts), <<>>, s, FoldLeft(LAMBDA segments, part : IF part = <<>> THEN segments ELSE Append(segments, part), <<>>, s))
<1> DEFINE A == Seq(Texts)
           Step(x, c) == TakenPart(x, c)
           D == SUBSET (DOMAIN s)
           Is(iter) == iter = [S \in D |-> IF S = {} THEN <<>> ELSE Step(iter[S \ {Max(S)}], s[Max(S)])]
           op == [p \in A \X Texts |-> Step(p[1], p[2])]
<1>0. PICK n \in Nat : n = Len(s) /\ DOMAIN s = 1 .. n /\ \A i \in 1 .. n : s[i] \in Texts
  <2>1. Len(s) \in Nat /\ DOMAIN s = 1 .. Len(s)
    BY LenProperties
  <2>2. \A i \in 1 .. Len(s) : s[i] \in Texts
    BY ElementOfSeq, Zenon
  <2> QED BY <2>1, <2>2, Zenon
<1>1. <<>> \in A /\ \A x \in A, c \in Texts : Step(x, c) \in A
  BY TakenPartIs, Zenon
<1>2. op \in [A \X Texts -> A] /\ \A x \in A, c \in Texts : op[<<x, c>>] = Step(x, c)
  <2> HIDE DEF A, Step
  <2>1. \A p \in A \X Texts : p[1] \in A /\ p[2] \in Texts
    OBVIOUS
  <2>2. \A p \in A \X Texts : Step(p[1], p[2]) \in A
    BY <1>1, <2>1, Zenon
  <2>3. op \in [A \X Texts -> A]
    BY <2>2, Zenon
  <2>4. ASSUME NEW x \in A, NEW c \in Texts PROVE op[<<x, c>>] = Step(x, c)
    <3>1. <<x, c>> \in A \X Texts /\ <<x, c>>[1] = x /\ <<x, c>>[2] = c
      OBVIOUS
    <3> QED BY <3>1, Zenon
  <2> QED BY <2>3, <2>4, Zenon
<1>3. \A S \in SUBSET (1 .. n) : S # {} => Max(S) \in 1 .. n /\ S \ {Max(S)} \in SUBSET (1 .. n)
  <2> TAKE S \in SUBSET (1 .. n)
  <2>1. S \subseteq 0 .. n
    OBVIOUS
  <2>2. S # {} => Max(S) \in S
    BY <2>1, MaxOfBounded, Zenon
  <2> QED BY <2>2
<1>4. \E iter : Is(iter)
  <2>1. HasTable(A, op, <<>>, s, n)
    <3> HIDE DEF op, A, Step
    <3> QED BY <1>0, <1>1, <1>2, FoldTable, Zenon
  <2>2. PICK iter \in [SUBSET (1 .. n) -> A] : \A S \in SUBSET (1 .. n) :
            iter[S] = IF S = {} THEN <<>> ELSE op[<<iter[S \ {Max(S)}], s[Max(S)]>>]
    BY <2>1, Zenon DEF HasTable, IsTable
  <2>3. \A S \in SUBSET (1 .. n) :
            iter[S] = IF S = {} THEN <<>> ELSE Step(iter[S \ {Max(S)}], s[Max(S)])
    <3> TAKE S \in SUBSET (1 .. n)
    <3>1. CASE S = {}
      BY <2>2, <3>1, Zenon
    <3>2. CASE S # {}
      <4> HIDE DEF op, Step, A
      <4>1. iter[S \ {Max(S)}] \in A /\ s[Max(S)] \in Texts
        BY <1>0, <1>3, <3>2, Zenon
      <4>2. op[<<iter[S \ {Max(S)}], s[Max(S)]>>] = Step(iter[S \ {Max(S)}], s[Max(S)])
        BY <1>2, <4>1, Zenon
      <4> QED BY <2>2, <3>2, <4>2, Zenon
    <3> QED BY <3>1, <3>2, Zenon
  <2>4. D = SUBSET (1 .. n)
    BY <1>0, Zenon
  <2> HIDE DEF Step, A
  <2>5. iter = [S \in D |-> IF S = {} THEN <<>> ELSE Step(iter[S \ {Max(S)}], s[Max(S)])]
    BY <2>3, <2>4
  <2> QED BY <2>5, Zenon
<1>5. Is(CHOOSE iter : Is(iter))
  <2> HIDE DEF Is
  <2> QED BY <1>4, Zenon
<1>6. PICK iter : Is(iter) /\ FoldLeft(LAMBDA segments, part : IF part = <<>> THEN segments ELSE Append(segments, part), <<>>, s) = iter[DOMAIN s]
  BY <1>5, Zenon DEF FoldLeft, MapThenFoldSet, TakenPart
<1>7. iter[{}] = <<>> /\ \A S \in SUBSET (1 .. n) : S # {} =>
          iter[S] = Step(iter[S \ {Max(S)}], s[Max(S)])
  <2>1. {} \in SUBSET (1 .. n) /\ D = SUBSET (1 .. n)
    BY <1>0, Zenon
  <2> HIDE DEF Step, D
  <2> QED BY <1>6, <2>1, Zenon
<1> HIDE DEF op, Step, A, Is, D
<1>8. \A S \in SUBSET (1 .. n) : S # {} /\ iter[S \ {Max(S)}] \in A =>
          iter[S] = op[<<iter[S \ {Max(S)}], s[Max(S)]>>]
  BY <1>0, <1>2, <1>3, <1>7, Zenon
<1>9. Folds(op, A, <<>>, s, iter[1 .. Len(s)])
  <2>1. op \in [A \X Texts -> A] /\ <<>> \in A
    BY <1>1, <1>2, Zenon
  <2>2. \A S \in SUBSET (1 .. Len(s)) : S # {} /\ iter[S \ {Max(S)}] \in A =>
            iter[S] = op[<<iter[S \ {Max(S)}], s[Max(S)]>>]
    BY <1>0, <1>8, Zenon
  <2> QED BY <1>7, <2>1, <2>2, StepsOfTable, Zenon
<1>10. iter[1 .. Len(s)] = FoldLeft(LAMBDA segments, part : IF part = <<>> THEN segments ELSE Append(segments, part), <<>>, s)
  BY <1>0, <1>6, Zenon
<1> QED BY <1>9, <1>10, Zenon DEF op, A, Step

LEMMA SegmentsIn ==
    ASSUME NEW path \in Seq(Symbols)
    PROVE  Segments(path) \in Seq(Texts)
<1>1. PICK p : p = Between(path, "/") /\ p \in Seq(Texts)
  BY BetweenIs, Zenon DEF Cuttings, Texts
<1>2. FoldLeft(LAMBDA segments, part : IF part = <<>> THEN segments ELSE Append(segments, part), <<>>, p) \in Seq(Texts)
  BY <1>1, SegmentFolds, FoldsIn, Zenon
<1> QED BY <1>1, <1>2, Zenon DEF Segments

\* One step of normalize() through the segments.
Normalizing(u, done, s) ==
    CASE s = <<".">> -> done
      [] s = <<"..">> /\ Popped(done) -> Front(done)
      [] s = <<"..">> /\ done = <<>> /\ u.scheme # <<>> -> done
      [] OTHER -> Append(done, s)
LEMMA NormalizingIs ==
    ASSUME NEW u
    PROVE  <<>> \in Seq(Texts) /\ \A x \in Seq(Texts), c \in Texts : Normalizing(u, x, c) \in Seq(Texts)
<1>1. ASSUME NEW x \in Seq(Texts), NEW c \in Texts PROVE Normalizing(u, x, c) \in Seq(Texts)
  <2>1. Append(x, c) \in Seq(Texts)
    BY AppendProperties
  <2>2. Popped(x) => Front(x) \in Seq(Texts)
    BY FrontAndLast, Zenon DEF Popped
  <2> QED BY <2>1, <2>2 DEF Normalizing
<1>2. <<>> \in Seq(Texts)
  BY EmptySeq
<1> QED BY <1>1, <1>2, Zenon
LEMMA NormalizedFolds ==
    ASSUME NEW u, Segments(u.path) \in Seq(Texts)
    PROVE  Folds([p \in Seq(Texts) \X Texts |-> Normalizing(u, p[1], p[2])], Seq(Texts), <<>>, Segments(u.path), NormalizedSegments(u))
<1> DEFINE s == Segments(u.path)
<1>s. s \in Seq(Texts)
  OBVIOUS
<1> HIDE DEF s
<1> USE <1>s
<1> DEFINE A == Seq(Texts)
           Step(x, c) == Normalizing(u, x, c)
           D == SUBSET (DOMAIN s)
           Is(iter) == iter = [S \in D |-> IF S = {} THEN <<>> ELSE Step(iter[S \ {Max(S)}], s[Max(S)])]
           op == [p \in A \X Texts |-> Step(p[1], p[2])]
<1>0. PICK n \in Nat : n = Len(s) /\ DOMAIN s = 1 .. n /\ \A i \in 1 .. n : s[i] \in Texts
  <2>1. Len(s) \in Nat /\ DOMAIN s = 1 .. Len(s)
    BY LenProperties
  <2>2. \A i \in 1 .. Len(s) : s[i] \in Texts
    BY ElementOfSeq, Zenon
  <2> QED BY <2>1, <2>2, Zenon
<1>1. <<>> \in A /\ \A x \in A, c \in Texts : Step(x, c) \in A
  BY NormalizingIs, Zenon
<1>2. op \in [A \X Texts -> A] /\ \A x \in A, c \in Texts : op[<<x, c>>] = Step(x, c)
  <2> HIDE DEF A, Step
  <2>1. \A p \in A \X Texts : p[1] \in A /\ p[2] \in Texts
    OBVIOUS
  <2>2. \A p \in A \X Texts : Step(p[1], p[2]) \in A
    BY <1>1, <2>1, Zenon
  <2>3. op \in [A \X Texts -> A]
    BY <2>2, Zenon
  <2>4. ASSUME NEW x \in A, NEW c \in Texts PROVE op[<<x, c>>] = Step(x, c)
    <3>1. <<x, c>> \in A \X Texts /\ <<x, c>>[1] = x /\ <<x, c>>[2] = c
      OBVIOUS
    <3> QED BY <3>1, Zenon
  <2> QED BY <2>3, <2>4, Zenon
<1>3. \A S \in SUBSET (1 .. n) : S # {} => Max(S) \in 1 .. n /\ S \ {Max(S)} \in SUBSET (1 .. n)
  <2> TAKE S \in SUBSET (1 .. n)
  <2>1. S \subseteq 0 .. n
    OBVIOUS
  <2>2. S # {} => Max(S) \in S
    BY <2>1, MaxOfBounded, Zenon
  <2> QED BY <2>2
<1>4. \E iter : Is(iter)
  <2>1. HasTable(A, op, <<>>, s, n)
    <3> HIDE DEF op, A, Step
    <3> QED BY <1>0, <1>1, <1>2, FoldTable, Zenon
  <2>2. PICK iter \in [SUBSET (1 .. n) -> A] : \A S \in SUBSET (1 .. n) :
            iter[S] = IF S = {} THEN <<>> ELSE op[<<iter[S \ {Max(S)}], s[Max(S)]>>]
    BY <2>1, Zenon DEF HasTable, IsTable
  <2>3. \A S \in SUBSET (1 .. n) :
            iter[S] = IF S = {} THEN <<>> ELSE Step(iter[S \ {Max(S)}], s[Max(S)])
    <3> TAKE S \in SUBSET (1 .. n)
    <3>1. CASE S = {}
      BY <2>2, <3>1, Zenon
    <3>2. CASE S # {}
      <4> HIDE DEF op, Step, A
      <4>1. iter[S \ {Max(S)}] \in A /\ s[Max(S)] \in Texts
        BY <1>0, <1>3, <3>2, Zenon
      <4>2. op[<<iter[S \ {Max(S)}], s[Max(S)]>>] = Step(iter[S \ {Max(S)}], s[Max(S)])
        BY <1>2, <4>1, Zenon
      <4> QED BY <2>2, <3>2, <4>2, Zenon
    <3> QED BY <3>1, <3>2, Zenon
  <2>4. D = SUBSET (1 .. n)
    BY <1>0, Zenon
  <2> HIDE DEF Step, A
  <2>5. iter = [S \in D |-> IF S = {} THEN <<>> ELSE Step(iter[S \ {Max(S)}], s[Max(S)])]
    BY <2>3, <2>4
  <2> QED BY <2>5, Zenon
<1>5. Is(CHOOSE iter : Is(iter))
  <2> HIDE DEF Is
  <2> QED BY <1>4, Zenon
<1>6. PICK iter : Is(iter) /\ NormalizedSegments(u) = iter[DOMAIN s]
  BY <1>5, Zenon DEF NormalizedSegments, FoldLeft, MapThenFoldSet, Normalizing, s
<1>7. iter[{}] = <<>> /\ \A S \in SUBSET (1 .. n) : S # {} =>
          iter[S] = Step(iter[S \ {Max(S)}], s[Max(S)])
  <2>1. {} \in SUBSET (1 .. n) /\ D = SUBSET (1 .. n)
    BY <1>0, Zenon
  <2> HIDE DEF Step, D
  <2> QED BY <1>6, <2>1, Zenon
<1> HIDE DEF op, Step, A, Is, D
<1>8. \A S \in SUBSET (1 .. n) : S # {} /\ iter[S \ {Max(S)}] \in A =>
          iter[S] = op[<<iter[S \ {Max(S)}], s[Max(S)]>>]
  BY <1>0, <1>2, <1>3, <1>7, Zenon
<1>9. Folds(op, A, <<>>, s, iter[1 .. Len(s)])
  <2>1. op \in [A \X Texts -> A] /\ <<>> \in A
    BY <1>1, <1>2, Zenon
  <2>2. \A S \in SUBSET (1 .. Len(s)) : S # {} /\ iter[S \ {Max(S)}] \in A =>
            iter[S] = op[<<iter[S \ {Max(S)}], s[Max(S)]>>]
    BY <1>0, <1>8, Zenon
  <2> QED BY <1>7, <2>1, <2>2, StepsOfTable, Zenon
<1>10. iter[1 .. Len(s)] = NormalizedSegments(u)
  BY <1>0, <1>6, Zenon
<1> QED BY <1>9, <1>10, Zenon DEF op, A, Step, s

LEMMA NormalizedSegmentsIn ==
    ASSUME NEW u, u.path \in Seq(Symbols)
    PROVE  NormalizedSegments(u) \in Seq(Texts)
<1>1. PICK p : p = Segments(u.path) /\ p \in Seq(Texts)
  BY SegmentsIn, Zenon
<1> QED BY <1>1, NormalizedFolds, FoldsIn, Zenon

\* One step of build_path().
PathStart(u, segments, leading) ==
    CASE leading -> <<"/">>
      [] ~leading /\ u.scheme = <<>> /\ Contains(segments[1], ":") -> <<".", "/">>
      [] OTHER -> <<>>
BuiltPath(u, segments, leading) ==
    LET Joining(path, i) == path \o (IF i = 1 THEN PathStart(u, segments, leading) ELSE <<"/">>) \o segments[i]
    IN  FoldLeftDomain(Joining, <<>>, segments)
Built(start, segments, path, i) == path \o (IF i = 1 THEN start ELSE <<"/">>) \o segments[i]
LEMMA BuiltIs ==
    ASSUME NEW I, NEW segments, \A i \in I : segments[i] \in Texts, NEW start \in Texts
    PROVE  <<>> \in Texts /\ \A x \in Texts, i \in I : Built(start, segments, x, i) \in Texts
<1>1. ASSUME NEW x \in Texts, NEW i \in I PROVE Built(start, segments, x, i) \in Texts
  <2>1. (IF i = 1 THEN start ELSE <<"/">>) \in Seq(Symbols)
    <3>1. "/" \in Symbols
      BY DEF Symbols, EscapedSymbols
    <3>2. start \in Texts
      BY <1>1
    <3> QED BY <3>1, <3>2, One, Zenon DEF Texts
  <2>2. x \o (IF i = 1 THEN start ELSE <<"/">>) \in Seq(Symbols)
    BY <1>1, <2>1, Joined, Zenon DEF Texts
  <2>3. segments[i] \in Seq(Symbols)
    BY Zenon DEF Texts
  <2> QED BY <2>2, <2>3, Joined, Zenon DEF Texts, Built
<1>2. <<>> \in Texts
  BY EmptySeq DEF Texts
<1> QED BY <1>1, <1>2, Zenon
LEMMA BuiltFolds ==
    ASSUME NEW I, NEW u, NEW segments, \A i \in I : segments[i] \in Texts, NEW leading,
           PathStart(u, segments, leading) \in Texts, [i \in DOMAIN segments |-> i] \in Seq(I)
    PROVE  Folds([p \in Texts \X I |-> Built(PathStart(u, segments, leading), segments, p[1], p[2])], Texts, <<>>, [i \in DOMAIN segments |-> i], BuiltPath(u, segments, leading))
<1> DEFINE s == [i \in DOMAIN segments |-> i]
<1>s. s \in Seq(I)
  OBVIOUS
<1> HIDE DEF s
<1> USE <1>s
<1> DEFINE A == Texts
           Step(x, c) == Built(PathStart(u, segments, leading), segments, x, c)
           D == SUBSET (DOMAIN s)
           Is(iter) == iter = [S \in D |-> IF S = {} THEN <<>> ELSE Step(iter[S \ {Max(S)}], s[Max(S)])]
           op == [p \in A \X I |-> Step(p[1], p[2])]
<1>0. PICK n \in Nat : n = Len(s) /\ DOMAIN s = 1 .. n /\ \A i \in 1 .. n : s[i] \in I
  <2>1. Len(s) \in Nat /\ DOMAIN s = 1 .. Len(s)
    BY LenProperties
  <2>2. \A i \in 1 .. Len(s) : s[i] \in I
    BY ElementOfSeq, Zenon
  <2> QED BY <2>1, <2>2, Zenon
<1>1. <<>> \in A /\ \A x \in A, c \in I : Step(x, c) \in A
  BY BuiltIs, Zenon
<1>2. op \in [A \X I -> A] /\ \A x \in A, c \in I : op[<<x, c>>] = Step(x, c)
  <2> HIDE DEF A, Step
  <2>1. \A p \in A \X I : p[1] \in A /\ p[2] \in I
    OBVIOUS
  <2>2. \A p \in A \X I : Step(p[1], p[2]) \in A
    BY <1>1, <2>1, Zenon
  <2>3. op \in [A \X I -> A]
    BY <2>2, Zenon
  <2>4. ASSUME NEW x \in A, NEW c \in I PROVE op[<<x, c>>] = Step(x, c)
    <3>1. <<x, c>> \in A \X I /\ <<x, c>>[1] = x /\ <<x, c>>[2] = c
      OBVIOUS
    <3> QED BY <3>1, Zenon
  <2> QED BY <2>3, <2>4, Zenon
<1>3. \A S \in SUBSET (1 .. n) : S # {} => Max(S) \in 1 .. n /\ S \ {Max(S)} \in SUBSET (1 .. n)
  <2> TAKE S \in SUBSET (1 .. n)
  <2>1. S \subseteq 0 .. n
    OBVIOUS
  <2>2. S # {} => Max(S) \in S
    BY <2>1, MaxOfBounded, Zenon
  <2> QED BY <2>2
<1>4. \E iter : Is(iter)
  <2>1. HasTable(A, op, <<>>, s, n)
    <3> HIDE DEF op, A, Step
    <3> QED BY <1>0, <1>1, <1>2, FoldTable, Zenon
  <2>2. PICK iter \in [SUBSET (1 .. n) -> A] : \A S \in SUBSET (1 .. n) :
            iter[S] = IF S = {} THEN <<>> ELSE op[<<iter[S \ {Max(S)}], s[Max(S)]>>]
    BY <2>1, Zenon DEF HasTable, IsTable
  <2>3. \A S \in SUBSET (1 .. n) :
            iter[S] = IF S = {} THEN <<>> ELSE Step(iter[S \ {Max(S)}], s[Max(S)])
    <3> TAKE S \in SUBSET (1 .. n)
    <3>1. CASE S = {}
      BY <2>2, <3>1, Zenon
    <3>2. CASE S # {}
      <4> HIDE DEF op, Step, A
      <4>1. iter[S \ {Max(S)}] \in A /\ s[Max(S)] \in I
        BY <1>0, <1>3, <3>2, Zenon
      <4>2. op[<<iter[S \ {Max(S)}], s[Max(S)]>>] = Step(iter[S \ {Max(S)}], s[Max(S)])
        BY <1>2, <4>1, Zenon
      <4> QED BY <2>2, <3>2, <4>2, Zenon
    <3> QED BY <3>1, <3>2, Zenon
  <2>4. D = SUBSET (1 .. n)
    BY <1>0, Zenon
  <2> HIDE DEF Step, A
  <2>5. iter = [S \in D |-> IF S = {} THEN <<>> ELSE Step(iter[S \ {Max(S)}], s[Max(S)])]
    BY <2>3, <2>4
  <2> QED BY <2>5, Zenon
<1>5. Is(CHOOSE iter : Is(iter))
  <2> HIDE DEF Is
  <2> QED BY <1>4, Zenon
<1>6. PICK iter : Is(iter) /\ BuiltPath(u, segments, leading) = iter[DOMAIN s]
  BY <1>5, Zenon DEF BuiltPath, FoldLeftDomain, FoldLeft, MapThenFoldSet, Built, s
<1>7. iter[{}] = <<>> /\ \A S \in SUBSET (1 .. n) : S # {} =>
          iter[S] = Step(iter[S \ {Max(S)}], s[Max(S)])
  <2>1. {} \in SUBSET (1 .. n) /\ D = SUBSET (1 .. n)
    BY <1>0, Zenon
  <2> HIDE DEF Step, D
  <2> QED BY <1>6, <2>1, Zenon
<1> HIDE DEF op, Step, A, Is, D
<1>8. \A S \in SUBSET (1 .. n) : S # {} /\ iter[S \ {Max(S)}] \in A =>
          iter[S] = op[<<iter[S \ {Max(S)}], s[Max(S)]>>]
  BY <1>0, <1>2, <1>3, <1>7, Zenon
<1>9. Folds(op, A, <<>>, s, iter[1 .. Len(s)])
  <2>1. op \in [A \X I -> A] /\ <<>> \in A
    BY <1>1, <1>2, Zenon
  <2>2. \A S \in SUBSET (1 .. Len(s)) : S # {} /\ iter[S \ {Max(S)}] \in A =>
            iter[S] = op[<<iter[S \ {Max(S)}], s[Max(S)]>>]
    BY <1>0, <1>8, Zenon
  <2> QED BY <1>7, <2>1, <2>2, StepsOfTable, Zenon
<1>10. iter[1 .. Len(s)] = BuiltPath(u, segments, leading)
  BY <1>0, <1>6, Zenon
<1> QED BY <1>9, <1>10, Zenon DEF op, A, Step, s

LEMMA BuiltPathIn ==
    ASSUME NEW u, NEW segments \in Seq(Texts), NEW leading, NEW trailing
    PROVE  BuildPath(u, segments, leading, trailing) \in Seq(Symbols)
<1>1. PICK m \in Nat : m = Len(segments) /\ DOMAIN segments = 1 .. m /\ \A i \in 1 .. m : segments[i] \in Texts
  <2>1. Len(segments) \in Nat /\ DOMAIN segments = 1 .. Len(segments)
    BY LenProperties
  <2>2. \A i \in 1 .. Len(segments) : segments[i] \in Texts
    BY ElementOfSeq, Zenon
  <2> QED BY <2>1, <2>2, Zenon
<1>3. PathStart(u, segments, leading) \in Texts
  <2>1. "/" \in Symbols /\ "." \in Symbols
    BY DEF Symbols, EscapedSymbols
  <2>2. <<"/">> \in Texts /\ <<".", "/">> \in Texts /\ <<>> \in Texts
    BY <2>1 DEF Texts
  <2> QED BY <2>2 DEF PathStart
<1>5. [i \in DOMAIN segments |-> i] \in Seq(1 .. m)
  BY <1>1
<1>6. BuiltPath(u, segments, leading) \in Texts
  BY <1>1, <1>3, <1>5, BuiltFolds, FoldsIn, Zenon
<1>7. BuildPath(u, segments, leading, trailing) =
          BuiltPath(u, segments, leading) \o (IF trailing THEN <<"/">> ELSE <<>>)
  BY Zenon DEF BuildPath, BuiltPath, PathStart
<1>8. (IF trailing THEN <<"/">> ELSE <<>>) \in Seq(Symbols)
  <2>1. "/" \in Symbols
    BY DEF Symbols, EscapedSymbols
  <2> QED BY <2>1, One, EmptySeq, Zenon
<1> QED BY <1>6, <1>7, <1>8, Joined, Zenon DEF Texts

LEMMA NormalizedIn ==
    ASSUME NEW u \in Parts
    PROVE  Normalized(u) \in Parts /\ Normalized(u).query = u.query
<1>1. u.path \in Seq(Symbols)
  BY DEF Parts
<1>2. PICK p : p = BuildPath(u, NormalizedSegments(u), StartsWith(u.path, "/"), Last(u.path) = "/") /\ p \in Seq(Symbols)
  BY <1>1, NormalizedSegmentsIn, BuiltPathIn, Zenon
<1>3. Normalized(u) = IF u.path = <<>> THEN u ELSE [u EXCEPT !.path = p]
  BY <1>2, Zenon DEF Normalized
<1>4. [u EXCEPT !.path = p] \in Parts /\ [u EXCEPT !.path = p].query = u.query
  BY <1>2 DEF Parts
<1> QED BY <1>3, <1>4, Zenon

-----------------------------------------------------------------------------
(* What callers have put into the query comes back.                        *)

\* What a URL in the hands of a caller is, whatever was called.
UrlReads(u, ps) == u \in Parts /\ Free(u.query, {"#"}) /\ GetQueryParameters(u) = ps
UrlInvariant == url # Thrown => UrlReads(url, parameters)

LEMMA SomeTexts ==
    ASSUME NEW s, s \in SomeUrls \cup SomeAssigned \cup SomeSchemes \cup SomeAuthorities \cup SomeHosts \cup SomeUsers
                        \cup SomePaths \cup SomeQueries \cup SomeRawQueries
    PROVE  s \in Seq(Symbols)
<1>1. s \in Seq(STRING)
  BY UrlTextsAssumption
<1>2. STRING \subseteq Symbols
  BY DEF Symbols
<1> QED BY <1>1, <1>2, SeqMonotonic, Zenon

LEMMA PlainIs ==
    ASSUME NEW s \in Seq(Symbols), NoEscapes(s)
    PROVE  Unescaped(s)
BY EscapesAre, Zenon DEF NoEscapes, Unescaped

LEMMA PairsGiven == SomeParameters \subseteq Pairs
<1> SUFFICES ASSUME NEW p \in SomeParameters PROVE p \in Pairs
  OBVIOUS
<1>1. p \in Seq(STRING) \X Seq(STRING) /\ NoEscapes(p[1]) /\ NoEscapes(p[2])
  BY PlainAssumption
<1>2. STRING \subseteq Symbols
  BY DEF Symbols
<1>3. p \in Seq(Symbols) \X Seq(Symbols)
  <2>1. Seq(STRING) \subseteq Seq(Symbols)
    BY <1>2, SeqMonotonic, Zenon
  <2> QED BY <1>1, <2>1
<1>4. p[1] \in Seq(Symbols) /\ p[2] \in Seq(Symbols)
  BY <1>3
<1>5. Unescaped(p[1]) /\ Unescaped(p[2])
  BY <1>1, <1>4, PlainIs, Zenon
<1> QED BY <1>3, <1>5 DEF Pairs

LEMMA NothingRead ==
    ASSUME NEW u \in Parts, u.query = <<>>
    PROVE  UrlReads(u, <<>>)
<1>1. <<<<>>, <<>>>> \in Pairs
  <2>1. Unescaped(<<>>) /\ <<>> \in Seq(Symbols)
    BY EmptySeq DEF Unescaped
  <2> QED BY <2>1 DEF Pairs
<1>2. GetQueryParameters(u) = <<>>
  BY <1>1, WithParameterIs, Zenon
<1>3. Free(u.query, {"#"})
  BY EmptySeq DEF Free
<1> QED BY <1>2, <1>3, Zenon DEF UrlReads

\* A call that leaves the query as it was.
LEMMA SameQuery ==
    ASSUME NEW u, NEW ps, UrlReads(u, ps), NEW w \in Parts, w.query = u.query
    PROVE  UrlReads(w, ps)
<1>1. u.query \in Seq(Symbols)
  BY DEF UrlReads, Parts
<1>2. GetQueryParameters(w) = GetQueryParameters(u)
  BY <1>1, ParametersOfUrl, Zenon
<1> QED BY <1>2, Zenon DEF UrlReads

LEMMA PartsChanged ==
    ASSUME NEW u \in Parts, NEW s \in Seq(Symbols)
    PROVE  /\ [u EXCEPT !.scheme = s] \in Parts /\ [u EXCEPT !.scheme = s].query = u.query
           /\ [u EXCEPT !.host = s] \in Parts /\ [u EXCEPT !.host = s].query = u.query
           /\ [u EXCEPT !.user = s] \in Parts /\ [u EXCEPT !.user = s].query = u.query
           /\ [u EXCEPT !.path = s] \in Parts /\ [u EXCEPT !.path = s].query = u.query
           /\ [u EXCEPT !.fragment = s] \in Parts /\ [u EXCEPT !.fragment = s].query = u.query
BY DEF Parts

LEMMA PortChanged ==
    ASSUME NEW u \in Parts, NEW n \in Ports
    PROVE  [u EXCEPT !.port = n] \in Parts /\ [u EXCEPT !.port = n].query = u.query
BY DEF Parts

LEMMA QueryChanged ==
    ASSUME NEW u \in Parts, NEW s \in Seq(Symbols)
    PROVE  [u EXCEPT !.query = s] \in Parts /\ [u EXCEPT !.query = s].query = s
BY DEF Parts

LEMMA TextRead ==
    ASSUME NEW s \in Seq(Symbols), ~Throws(Parse(s))
    PROVE  UrlReads(Parse(s), GetQueryParameters(Parse(s)))
BY ParsedQuery, QueryOfIs, Zenon DEF UrlReads

LEMMA CallReads ==
    ASSUME NEW name, NEW u, NEW ps, Called(name, u, ps), UrlReads(u, ps)
    PROVE  UrlInvariant'
BY Zenon DEF Called, UrlInvariant

LEMMA ChangeReads ==
    ASSUME NEW name, NEW u \in Parts, Changed(name, u), UrlReads(url, parameters), u.query = url.query
    PROVE  UrlInvariant'
BY SameQuery, CallReads, Zenon DEF Changed

LEMMA PortCalled ==
    ASSUME UrlReads(url, parameters), NEW n \in Ports, SetPort(n)
    PROVE  UrlInvariant'
<1>1. url \in Parts
  BY Zenon DEF UrlReads
<1>2. PICK u \in Parts : u = [url EXCEPT !.port = n] /\ u.query = url.query
  BY <1>1, PortChanged, Zenon
<1>3. Changed("set_port", u)
  BY <1>2, Zenon DEF SetPort
<1> QED BY <1>2, <1>3, ChangeReads, Zenon

LEMMA PartsCalled ==
    ASSUME UrlReads(url, parameters)
    PROVE  /\ Normalize => UrlInvariant'
           /\ ClearUrl => UrlInvariant'
           /\ \A s \in SomeSchemes : SetScheme(s) => UrlInvariant'
           /\ \A s \in SomeHosts : SetHost(s) => UrlInvariant'
           /\ \A n \in SomePorts : SetPort(n) => UrlInvariant'
           /\ \A s \in SomeUsers : SetUserInfo(s) => UrlInvariant'
           /\ \A s \in SomePaths : SetPath(s) => UrlInvariant'
           /\ \A s \in SomeQueries : SetFragment(s) => UrlInvariant'
           /\ \A s \in SomeRawQueries : SetRawFragment(s) => UrlInvariant'
<1>0. url \in Parts /\ 0 \in Ports
  BY DEF UrlReads, Ports
<1>1. Normalize => UrlInvariant'
  BY <1>0, NormalizedIn, ChangeReads, Zenon DEF Normalize
<1>2. ClearUrl => UrlInvariant'
  <2>1. NoUrl.query = <<>>
    BY DEF NoUrl
  <2> QED BY <2>1, NoUrlIs, NothingRead, CallReads, Zenon DEF ClearUrl
<1>3. ASSUME NEW s \in SomeSchemes, SetScheme(s) PROVE UrlInvariant'
  <2>1. s \in Seq(Symbols)
    BY SomeTexts, Zenon
  <2> QED BY <1>0, <1>3, <2>1, PartsChanged, ChangeReads, Zenon DEF SetScheme
<1>4. ASSUME NEW s \in SomeHosts, SetHost(s) PROVE UrlInvariant'
  <2>1. s \in Seq(Symbols)
    BY SomeTexts, Zenon
  <2> QED BY <1>0, <1>4, <2>1, PartsChanged, ChangeReads, Zenon DEF SetHost
<1>5. ASSUME NEW n \in SomePorts, SetPort(n) PROVE UrlInvariant'
  <2>1. n \in Ports /\ SetPort(n) /\ UrlReads(url, parameters)
    BY <1>5, PortsAssumption DEF Ports
  <2> QED BY ONLY <2>1, PortCalled, SMT
<1>6. ASSUME NEW s \in SomeUsers, SetUserInfo(s) PROVE UrlInvariant'
  <2>1. s \in Seq(Symbols)
    BY SomeTexts, Zenon
  <2>2. Decode(s) \in Seq(Symbols)
    BY <2>1, Decoded, Zenon DEF Unescaped
  <2> QED BY <1>0, <1>6, <2>2, PartsChanged, ChangeReads, Zenon DEF SetUserInfo
<1>7. ASSUME NEW s \in SomePaths, SetPath(s) PROVE UrlInvariant'
  <2>1. s \in Seq(Symbols)
    BY SomeTexts, Zenon
  <2>2. Decode(s) \in Seq(Symbols)
    BY <2>1, Decoded, Zenon DEF Unescaped
  <2> QED BY <1>0, <1>7, <2>2, PartsChanged, ChangeReads, Zenon DEF SetPath
<1>8. ASSUME NEW s \in SomeQueries, SetFragment(s) PROVE UrlInvariant'
  <2>1. s \in Seq(Symbols) /\ {} \in SUBSET EscapedSymbols
    BY SomeTexts, Zenon
  <2>2. Encode(s, {}) \in Seq(Symbols)
    BY <2>1, EncodedIs, Zenon
  <2> QED BY <1>0, <1>8, <2>2, PartsChanged, ChangeReads, Zenon DEF SetFragment
<1>9. ASSUME NEW s \in SomeRawQueries, SetRawFragment(s) PROVE UrlInvariant'
  <2>1. s \in Seq(Symbols)
    BY SomeTexts, Zenon
  <2> QED BY <1>0, <1>9, <2>1, PartsChanged, ChangeReads, Zenon DEF SetRawFragment
<1> QED BY <1>1, <1>2, <1>3, <1>4, <1>5, <1>6, <1>7, <1>8, <1>9

LEMMA QueryCalled ==
    ASSUME UrlReads(url, parameters)
    PROVE  /\ \A s \in SomePaths : SetPathQueryFragment(s) => UrlInvariant'
           /\ \A s \in SomeQueries : SetQuery(s) => UrlInvariant'
           /\ \A s \in SomeRawQueries : SetRawQuery(s) => UrlInvariant'
           /\ \A p \in SomeParameters : AddQueryParameter(p) => UrlInvariant'
           /\ \A p, q \in SomeParameters : SetQueryParameters(<<p, q>>) => UrlInvariant'
<1>0. url \in Parts /\ Free(url.query, {"#"}) /\ parameters = GetQueryParameters(url) /\ 0 \in Ports
  BY DEF UrlReads, Ports
<1>1. ASSUME NEW s \in SomePaths, SetPathQueryFragment(s) PROVE UrlInvariant'
  <2>1. s \in Seq(Symbols)
    BY SomeTexts, Zenon
  <2>2. PICK u \in Parts : u = WithPathQueryFragment(url, s) /\ u.query = QueryOf(s)
    BY <1>0, <2>1, QueryTaken, Zenon
  <2>3. UrlReads(u, GetQueryParameters(u))
    BY <2>1, <2>2, QueryOfIs, Zenon DEF UrlReads
  <2> QED BY <1>1, <2>2, <2>3, CallReads, Zenon DEF SetPathQueryFragment
<1>2. ASSUME NEW s \in SomeQueries, SetQuery(s) PROVE UrlInvariant'
  <2>1. s \in Seq(Symbols) /\ Unescaped(s)
    BY SomeTexts, PlainAssumption, PlainIs, Zenon
  <2>2. PICK e : e = Encode(s, ReservedQuery) /\ e \in Seq(Symbols) /\ Free(e, {"#"})
                 /\ Each(Reading(AsQuery), Pieces(e)) = Each(Reading(AsItIs), Pieces(s))
    BY <2>1, EncodedQueryIs, Zenon
  <2>3. PICK u \in Parts : u = [url EXCEPT !.query = e] /\ u.query = e
    BY <1>0, <2>2, QueryChanged, Zenon
  <2>4. UrlReads(u, Each(Reading(AsItIs), Pieces(s)))
    BY <2>2, <2>3, ParametersOfUrl, Zenon DEF UrlReads
  <2>5. Parameters(s, LAMBDA x : x) = Each(Reading(AsItIs), Pieces(s))
    BY <2>1, ParametersAre, Zenon
  <2>6. Called("set_query", u, Parameters(s, LAMBDA x : x))
    BY <1>2, <2>2, <2>3, Zenon DEF SetQuery
  <2> QED BY <2>4, <2>5, <2>6, CallReads, Zenon
<1>3. ASSUME NEW s \in SomeRawQueries, SetRawQuery(s) PROVE UrlInvariant'
  <2>1. s \in Seq(Symbols)
    BY SomeTexts, Zenon
  <2>2. Free(s, {"#"})
    <3>1. ~Contains(s, "#")
      BY EncodedAssumption
    <3> QED BY <2>1, <3>1, LenProperties DEF Contains, Free
  <2>3. PICK u \in Parts : u = [url EXCEPT !.query = s] /\ u.query = s
    BY <1>0, <2>1, QueryChanged, Zenon
  <2>4. UrlReads(u, Each(Reading(AsQuery), Pieces(s)))
    BY <2>1, <2>2, <2>3, ParametersOfUrl, Zenon DEF UrlReads
  <2>5. Parameters(s, LAMBDA x : Decode(PlusIsSpace(x))) = Each(Reading(AsQuery), Pieces(s))
    BY <2>1, ParametersAre, Zenon
  <2>6. Called("set_raw_query", u, Parameters(s, LAMBDA x : Decode(PlusIsSpace(x))))
    BY <1>3, <2>3, Zenon DEF SetRawQuery
  <2> QED BY <2>4, <2>5, <2>6, CallReads, Zenon
<1>4. ASSUME NEW p \in SomeParameters, AddQueryParameter(p) PROVE UrlInvariant'
  <2>1. p \in Pairs
    BY PairsGiven
  <2>2. PICK ps : ps = parameters \o (IF url.query # <<>> /\ Last(url.query) = "&" THEN <<Unnamed>> ELSE <<>>) \o <<p>>
    OBVIOUS
  <2>3. UrlReads(WithParameter(url, p), ps)
    BY <1>0, <2>1, <2>2, WithParameterIs, Zenon DEF UrlReads
  <2>4. Called("add_query_parameter", WithParameter(url, p), ps)
    BY <1>4, <2>2, Zenon DEF AddQueryParameter, Unnamed
  <2> QED BY <2>3, <2>4, CallReads, Zenon
<1>5. ASSUME NEW p \in SomeParameters, NEW q \in SomeParameters, SetQueryParameters(<<p, q>>) PROVE UrlInvariant'
  <2>1. p \in Pairs /\ q \in Pairs
    BY PairsGiven
  <2>2. PICK u \in Parts : u = [url EXCEPT !.query = <<>>] /\ u.query = <<>>
    BY <1>0, EmptySeq, QueryChanged, Zenon
  <2>3. UrlReads(FoldLeft(WithParameter, u, <<p, q>>), <<p, q>>)
    BY <2>1, <2>2, ParametersSet, Zenon DEF UrlReads
  <2>4. Called("set_query_parameters", FoldLeft(WithParameter, u, <<p, q>>), <<p, q>>)
    BY <1>5, <2>2, Zenon DEF SetQueryParameters
  <2> QED BY <2>3, <2>4, CallReads, Zenon
<1> QED BY <1>1, <1>2, <1>3, <1>4, <1>5, Zenon

LEMMA TextsCalled ==
    ASSUME UrlReads(url, parameters)
    PROVE  /\ \A s \in SomeAuthorities : SetAuthority(s) => UrlInvariant'
           /\ \A chars \in SomeAssigned : Assign(chars) => UrlInvariant'
           /\ Reprint => UrlInvariant'
<1>0. url \in Parts /\ Free(url.query, {"#"}) /\ parameters = GetQueryParameters(url)
  BY DEF UrlReads
<1>1. ASSUME NEW s \in SomeAuthorities, SetAuthority(s) PROVE UrlInvariant'
  <2>1. s \in Seq(Symbols)
    BY SomeTexts, Zenon
  <2>2. PICK a : a = Authority(Before(s, {"/", "?", "#"}))
    OBVIOUS
  <2>3. ~Throws(a) => a \in Parts
    BY <2>1, <2>2, CutApart, AuthorityIs, Zenon
  <2>4. PICK v \in Parts : v = IF Throws(a) THEN NoUrl ELSE a
    BY <2>3, NoUrlIs, Zenon
  <2>5. PICK u : u = [url EXCEPT !.user = v.user, !.host = v.host, !.port = v.port]
    OBVIOUS
  <2>6. u \in Parts /\ u.query = url.query
    BY <1>0, <2>4, <2>5 DEF Parts
  <2>7. Changed("set_authority", u)
    BY <1>1, <2>2, <2>4, <2>5, Zenon DEF SetAuthority
  <2> QED BY <2>6, <2>7, ChangeReads, Zenon
<1>2. ASSUME NEW chars \in SomeAssigned, Assign(chars) PROVE UrlInvariant'
  <2>1. chars \in Seq(Symbols)
    BY SomeTexts, Zenon
  <2>2. CASE Throws(Parse(chars))
    <3>1. PICK scheme : scheme = Before(chars, {":", "?", "#", "/"}) /\ scheme \in Seq(Symbols)
      <4>1. Before(chars, {":", "?", "#", "/"}) \in Seq(Symbols)
        BY ONLY <2>1, CutApart, Zenon
      <4> QED BY <4>1, Zenon
    <3>2. PICK left : left = IF Len(chars) = Len(scheme) + 1 THEN NoUrl ELSE [NoUrl EXCEPT !.scheme = scheme]
      OBVIOUS
    <3>3. NoUrl.query = <<>> /\ [NoUrl EXCEPT !.scheme = scheme].query = <<>> /\ [NoUrl EXCEPT !.scheme = scheme] \in Parts
      BY <3>1, NoUrlIs DEF NoUrl, Parts
    <3>4. left \in Parts /\ left.query = <<>>
      BY <3>2, <3>3, NoUrlIs, Zenon
    <3>5. Called("assign", left, <<>>)
      BY <1>2, <2>2, <3>1, <3>2, Zenon DEF Assign
    <3> QED BY <3>4, <3>5, NothingRead, CallReads, Zenon
  <2>3. CASE ~Throws(Parse(chars))
    <3>1. Called("assign", Parse(chars), GetQueryParameters(Parse(chars)))
      BY <1>2, <2>3, Zenon DEF Assign
    <3> QED BY <2>1, <2>3, <3>1, TextRead, CallReads, Zenon
  <2> QED BY <2>2, <2>3, Zenon
<1>3. ASSUME Reprint PROVE UrlInvariant'
  <2>1. PICK chars : chars = UrlText(url) /\ chars \in Seq(Symbols)
    BY <1>0, PrintedQuery, Zenon
  <2>2. PICK u : u = Parse(chars) /\ ~Throws(u)
    BY <1>3, <2>1, Zenon DEF Reprint
  <2>3. u \in Parts /\ UrlReads(u, GetQueryParameters(u))
    BY <2>1, <2>2, TextRead, Zenon DEF UrlReads
  <2> DEFINE cut == url.scheme # <<>> /\ \E c \in {"?", "#"} : Contains(url.scheme \o url.user \o url.host, c)
  <2>4. Called("reprint", u, IF cut THEN GetQueryParameters(u) ELSE parameters)
    BY <1>3, <2>1, <2>2, Zenon DEF Reprint
  <2>5. ~cut => u.query = url.query
    BY <1>0, <2>1, <2>2, ReprintedQuery, Zenon
  <2> HIDE DEF cut
  <2>6. CASE cut
    <3>1. Called("reprint", u, GetQueryParameters(u))
      BY <2>4, <2>6, Zenon
    <3> QED BY <2>3, <3>1, CallReads, Zenon
  <2>7. CASE ~cut
    <3>1. Called("reprint", u, parameters)
      BY <2>4, <2>7, Zenon
    <3>2. UrlReads(u, parameters)
      BY <2>3, <2>5, <2>7, SameQuery, Zenon
    <3> QED BY <3>1, <3>2, CallReads, Zenon
  <2> QED BY <2>6, <2>7, Zenon
<1> QED BY <1>1, <1>2, <1>3, Zenon

LEMMA OnAnObject == UrlNext => url # Thrown
<1>1. \A name, u, ps : Called(name, u, ps) \/ Changed(name, u) => url # Thrown
  BY Zenon DEF Called, Changed
<1>2. Normalize \/ Reprint \/ ClearUrl => url # Thrown
  BY <1>1, Zenon DEF Normalize, Reprint, ClearUrl
<1>3. \A s : SetScheme(s) \/ SetHost(s) \/ SetUserInfo(s) \/ SetPath(s) \/ SetAuthority(s)
             \/ SetFragment(s) \/ SetRawFragment(s) => url # Thrown
  BY <1>1, Zenon DEF SetScheme, SetHost, SetUserInfo, SetPath, SetAuthority, SetFragment, SetRawFragment
<1>4. \A s : SetPathQueryFragment(s) \/ SetQuery(s) \/ SetRawQuery(s) => url # Thrown
  BY <1>1, Zenon DEF SetPathQueryFragment, SetQuery, SetRawQuery
<1>5. \A p : AddQueryParameter(p) \/ SetQueryParameters(p) => url # Thrown
  BY <1>1, Zenon DEF AddQueryParameter, SetQueryParameters
<1>6. \A chars : Assign(chars) => url # Thrown
  BY <1>1, Zenon DEF Assign
<1>7. \A n \in SomePorts : SetPort(n) => url # Thrown
  BY <1>1, Zenon DEF SetPort
<1> QED BY <1>2, <1>3, <1>4, <1>5, <1>6, <1>7, Zenon DEF UrlNext

LEMMA UrlInvariantKept == UrlSpec => []UrlInvariant
<1>1. UrlInit => UrlInvariant
  <2> SUFFICES ASSUME UrlInit PROVE UrlInvariant
    OBVIOUS
  <2>1. PICK t \in SomeUrls : url = Parse(t) /\ url # Thrown /\ parameters = GetQueryParameters(url)
    BY Zenon DEF UrlInit
  <2>2. t \in Seq(Symbols)
    BY SomeTexts, Zenon
  <2> QED BY <2>1, <2>2, TextRead, Zenon DEF UrlInvariant, Throws
<1>2. UrlInvariant /\ [UrlNext]_urlVars => UrlInvariant'
  <2> SUFFICES ASSUME UrlInvariant, [UrlNext]_urlVars PROVE UrlInvariant'
    OBVIOUS
  <2>1. CASE UNCHANGED urlVars
    BY <2>1 DEF urlVars, UrlInvariant, UrlReads
  <2>2. CASE UrlNext
    <3>1. url # Thrown
      BY <2>2, OnAnObject, Zenon
    <3>2. UrlReads(url, parameters)
      BY <3>1, Zenon DEF UrlInvariant
    <3> QED BY <2>2, <3>2, PartsCalled, QueryCalled, TextsCalled DEF UrlNext
  <2> QED BY <2>1, <2>2, Zenon
<1> QED BY <1>1, <1>2, PTL DEF UrlSpec

\* The parameters that are read from the query are those the callers have put
\* into it, whatever they are and whatever is called in between.
THEOREM ParametersKept == UrlSpec => []ParametersComeBack
<1>1. UrlInvariant => ParametersComeBack
  BY Zenon DEF UrlInvariant, UrlReads, ParametersComeBack
<1> QED BY <1>1, UrlInvariantKept, PTL

================================================================================
