----------------------------- MODULE ServerProofs -----------------------------
(* What TLAPS proves of the connection pool, of the service that uses it,   *)
(* and of the whole server, for any number of threads, nodes, connections,  *)
(* requests and failures.                                                   *)
EXTENDS Server, Scrape, FiniteSetTheorems, TLAPS

-----------------------------------------------------------------------------
(* The connection pool.                                                    *)

\* What App passes to the constructor: as many connections as HTTP threads.
EnoughConnections == PoolSize >= Cardinality(Threads)

LEMMA NextNodeInNodes ==
    ASSUME PoolTypeOK, NEW k \in Kinds, Count(k) > 0
    PROVE  NextNum(k) \in Nat /\ NextNode(k) \in Nodes /\ NextNode(k)[1] = k
<1>1. Count(k) \in Nat \ {0} /\ last_used[k] \in Nat
  BY NodesAssumption DEF Count, PoolTypeOK
<1>2. NextNum(k) \in 0 .. Count(k) - 1
  BY <1>1 DEF NextNum
<1> QED BY <1>2, <1>1 DEF NextNode, Nodes, NodesOf, Kinds

LEMMA PoolTypeInit == PoolInit => PoolTypeOK
<1> SUFFICES ASSUME PoolInit PROVE PoolTypeOK
    OBVIOUS
<1>1. \A n \in Nodes : [i \in 1 .. PoolSize |-> <<n, i>>] \in Seq(Conns)
  BY PoolSizeAssumption DEF Conns
<1>2. idle \in [Nodes -> Seq(Conns)]
  BY <1>1 DEF PoolInit, Opened
<1>3. /\ last_used \in [Kinds -> Nat]
      /\ lent \in [Threads -> SUBSET (Nodes \X Conns)]
      /\ \A t \in Threads : \A a, b \in lent[t] : a = b
      /\ preferred \in [Threads -> Kinds] /\ exhausted \in BOOLEAN
  BY DEF PoolInit, Opened, Kinds
<1> QED BY <1>2, <1>3 DEF PoolTypeOK

\* What get_connection does when it hands out a connection.
LEMMA GetEffect ==
    ASSUME PoolTypeOK, NEW t \in Threads, NEW kind \in Kinds, Get(t, kind)
    PROVE  \E n \in Nodes, c \in Conns :
               /\ lent[t] = {}
               /\ idle[n] \in Seq(Conns) /\ Len(idle[n]) \in Nat \ {0}
               /\ c = Head(idle[n])
               /\ idle' = [idle EXCEPT ![n] = Tail(@)]
               /\ lent' = [lent EXCEPT ![t] = {<<n, c>>}]
               /\ UNCHANGED exhausted
<1> DEFINE n == NextNode(KindFor(kind))
<1>1. KindFor(kind) \in Kinds /\ Count(KindFor(kind)) > 0
  BY DEF Get, NeedsOne, Pop, KindFor, Kinds
<1>2. n \in Nodes
  BY <1>1, NextNodeInNodes
<1>3. idle[n] \in Seq(Conns) /\ idle[n] # <<>>
  BY <1>2 DEF PoolTypeOK, Get, NeedsOne, Pop
<1>4. Head(idle[n]) \in Conns /\ Len(idle[n]) \in Nat \ {0}
  BY <1>3
<1> QED BY <1>2, <1>3, <1>4 DEF Get, NeedsOne, Pop

LEMMA PoolTypeStep == PoolTypeOK /\ [PoolNext]_poolVars => PoolTypeOK'
<1> SUFFICES ASSUME PoolTypeOK, [PoolNext]_poolVars PROVE PoolTypeOK'
    OBVIOUS
<1>1. ASSUME NEW t \in Threads, NEW kind \in Kinds, Get(t, kind) PROVE PoolTypeOK'
  <2> DEFINE k == KindFor(kind)
             n == NextNode(k)
  <2>1. k \in Kinds /\ Count(k) > 0
    BY <1>1 DEF Get, NeedsOne, Pop, KindFor, Kinds
  <2>2. NextNum(k) \in Nat /\ n \in Nodes
    BY <2>1, NextNodeInNodes
  <2>3. /\ idle[n] \in Seq(Conns) /\ Head(idle[n]) \in Conns
        /\ Tail(idle[n]) \in Seq(Conns)
    <3>1. idle[n] \in Seq(Conns) /\ idle[n] # <<>>
      BY <1>1, <2>2 DEF Get, NeedsOne, Pop, PoolTypeOK
    <3> QED BY <3>1
  <2>4. idle' \in [Nodes -> Seq(Conns)] /\ last_used' \in [Kinds -> Nat]
    BY <1>1, <2>1, <2>2, <2>3 DEF Get, NeedsOne, Pop, PoolTypeOK
  <2>5. /\ lent' \in [Threads -> SUBSET (Nodes \X Conns)]
        /\ \A u \in Threads : \A a, b \in lent'[u] : a = b
    <3>1. lent' = [lent EXCEPT ![t] = {<<n, Head(idle[n])>>}]
      BY <1>1 DEF Get, NeedsOne, Pop
    <3>2. {<<n, Head(idle[n])>>} \in SUBSET (Nodes \X Conns)
      BY <2>2, <2>3
    <3> HIDE DEF n
    <3> QED BY <3>1, <3>2 DEF PoolTypeOK
  <2>7. preferred' \in [Threads -> Kinds] /\ exhausted' \in BOOLEAN
    BY <1>1 DEF Get, NeedsOne, Pop, PoolTypeOK
  <2> QED BY <2>4, <2>5, <2>7 DEF PoolTypeOK
<1>2. ASSUME NEW t \in Threads, NEW kind \in Kinds, GetThrows(t, kind) PROVE PoolTypeOK'
  <2>1. last_used' \in [Kinds -> Nat]
    <3>1. KindFor(kind) \in Kinds
      BY DEF KindFor, Kinds
    <3>2. CASE Count(KindFor(kind)) > 0
      BY <1>2, <3>1, <3>2, NextNodeInNodes DEF GetThrows, NeedsOne, PoolTypeOK
    <3>3. CASE ~ (Count(KindFor(kind)) > 0)
      BY <1>2, <3>3 DEF GetThrows, NeedsOne, PoolTypeOK
    <3> QED BY <3>2, <3>3
  <2>2. UNCHANGED <<idle, lent, preferred>> /\ exhausted' = TRUE
    BY <1>2 DEF GetThrows, NeedsOne
  <2> QED BY <2>1, <2>2 DEF PoolTypeOK
<1>3. ASSUME NEW t \in Threads, Release(t) PROVE PoolTypeOK'
  <2>1. PICK lease \in lent[t] :
            /\ idle' = [idle EXCEPT ![lease[1]] = Append(@, lease[2])]
            /\ lent' = [lent EXCEPT ![t] = {}]
    BY <1>3 DEF Release, Push
  <2>2. lease[1] \in Nodes /\ lease[2] \in Conns
    BY DEF PoolTypeOK
  <2>3. idle' \in [Nodes -> Seq(Conns)]
    BY <2>1, <2>2 DEF PoolTypeOK
  <2>4. /\ lent' \in [Threads -> SUBSET (Nodes \X Conns)]
        /\ \A u \in Threads : \A a, b \in lent'[u] : a = b
    BY <2>1 DEF PoolTypeOK
  <2>5. UNCHANGED <<last_used, exhausted>> /\ preferred' \in [Threads -> Kinds]
    BY <1>3 DEF Release, Push, PoolTypeOK, Kinds
  <2> QED BY <2>3, <2>4, <2>5 DEF PoolTypeOK
<1>4. CASE UNCHANGED poolVars
  BY <1>4 DEF poolVars, PoolTypeOK
<1> QED BY <1>1, <1>2, <1>3, <1>4 DEF PoolNext

\* What release_connection does.
LEMMA ReleaseEffect ==
    ASSUME PoolTypeOK, NEW t \in Threads, Release(t)
    PROVE  \E n \in Nodes, c \in Conns :
               /\ lent[t] = {<<n, c>>}
               /\ idle[n] \in Seq(Conns)
               /\ idle' = [idle EXCEPT ![n] = Append(@, c)]
               /\ lent' = [lent EXCEPT ![t] = {}]
               /\ UNCHANGED exhausted
<1>1. PICK lease \in lent[t] :
            /\ idle' = [idle EXCEPT ![lease[1]] = Append(@, lease[2])]
            /\ lent' = [lent EXCEPT ![t] = {}]
            /\ UNCHANGED exhausted
  BY DEF Release, Push
<1>2. lease \in Nodes \X Conns /\ lent[t] = {lease}
  BY DEF PoolTypeOK
<1>3. lease[1] \in Nodes /\ lease[2] \in Conns /\ lease = <<lease[1], lease[2]>>
  BY <1>2
<1>4. idle[lease[1]] \in Seq(Conns)
  BY <1>3 DEF PoolTypeOK
<1> QED BY <1>1, <1>2, <1>3, <1>4

-----------------------------------------------------------------------------
(* Conservation, by counting the threads that hold a connection of a node. *)
LEMMA InThreads == \A n : Holders(n) \subseteq Threads /\ Holders(n)' \subseteq Threads
BY DEF Holders

LEMMA HoldersFinite ==
    \A n : /\ IsFiniteSet(Holders(n)) /\ Cardinality(Holders(n)) \in Nat
           /\ Cardinality(Holders(n)) <= Cardinality(Threads)
           /\ Holders(n) # Threads => Cardinality(Holders(n)) < Cardinality(Threads)
<1> TAKE n
<1>1. Holders(n) \subseteq Threads
  BY DEF Holders
<1> QED BY <1>1, ThreadsAssumption, FS_Subset, FS_CardinalityType

LEMMA ConservedInit == PoolInit => Conserved
<1> SUFFICES ASSUME PoolInit, NEW n \in Nodes
             PROVE  Len(idle[n]) + Cardinality(Holders(n)) = PoolSize
    BY DEF Conserved
<1>1. Len(idle[n]) = PoolSize
  BY PoolSizeAssumption DEF PoolInit, Opened
<1>2. Holders(n) = {}
  BY DEF PoolInit, Opened, Holders
<1> QED BY <1>1, <1>2, FS_EmptySet, PoolSizeAssumption

LEMMA ConservedStep ==
    PoolTypeOK /\ Conserved /\ [PoolNext]_poolVars => Conserved'
<1> SUFFICES ASSUME PoolTypeOK, Conserved, [PoolNext]_poolVars PROVE Conserved'
    OBVIOUS
<1>a. \A n \in Nodes : idle[n] \in Seq(Conns)
  BY DEF PoolTypeOK
<1>b. lent \in [Threads -> SUBSET (Nodes \X Conns)]
  BY DEF PoolTypeOK
<1>1. ASSUME NEW t \in Threads, NEW kind \in Kinds, Get(t, kind) PROVE Conserved'
  <2>1. PICK n \in Nodes, c \in Conns :
               /\ lent[t] = {}
               /\ idle[n] \in Seq(Conns) /\ Len(idle[n]) \in Nat \ {0}
               /\ idle' = [idle EXCEPT ![n] = Tail(@)]
               /\ lent' = [lent EXCEPT ![t] = {<<n, c>>}]
    BY <1>1, GetEffect
  <2> SUFFICES \A m \in Nodes : Len(idle'[m]) + Cardinality(Holders(m)') = PoolSize
      BY ZenonT(20) DEF Conserved
  <2> TAKE m \in Nodes
  <2>3. CASE m = n
    <3>a. lent'[t] = {<<n, c>>} /\ \A u \in Threads \ {t} : lent'[u] = lent[u]
      BY <2>1, <1>b
    <3>b. <<n, c>> \in lent'[t] /\ <<n, c>>[1] = n
      BY <3>a
    <3>c. t \in Holders(n)' /\ t \notin Holders(n)
      BY <3>b, <2>1 DEF Holders
    <3>d. \A u \in Threads \ {t} : u \in Holders(n)' <=> u \in Holders(n)
      BY <3>a DEF Holders
    <3>1. Holders(n)' = Holders(n) \cup {t} /\ t \notin Holders(n)
      BY <3>c, <3>d, InThreads
    <3>2. Cardinality(Holders(n)') = Cardinality(Holders(n)) + 1
      BY <3>1, HoldersFinite, FS_AddElement
    <3>3. Len(idle'[n]) = Len(idle[n]) - 1
      BY <2>1, <1>a DEF PoolTypeOK
    <3>4. Len(idle[n]) + Cardinality(Holders(n)) = PoolSize /\ Len(idle[n]) \in Nat
      BY <2>1 DEF Conserved
    <3> QED BY <2>3, <3>2, <3>3, <3>4, HoldersFinite
  <2>4. CASE m # n
    <3>a. /\ \A u \in Threads \ {t} : lent'[u] = lent[u]
          /\ \A lease \in lent[t] \cup lent'[t] : lease[1] = n
      BY <2>1, <1>b
    <3>b. \A u \in Threads : u \in Holders(m)' <=> u \in Holders(m)
      BY <3>a, <2>4 DEF Holders
    <3>c. Holders(m)' = Holders(m)
      BY <3>b, InThreads
    <3>d. idle'[m] = idle[m]
      BY <2>1, <2>4 DEF PoolTypeOK
    <3>1. Holders(m)' = Holders(m) /\ idle'[m] = idle[m]
      BY <3>c, <3>d
    <3> QED BY <3>1 DEF Conserved
  <2> QED BY <2>3, <2>4
<1>2. ASSUME NEW t \in Threads, NEW kind \in Kinds, GetThrows(t, kind) PROVE Conserved'
  BY <1>2 DEF GetThrows, NeedsOne, Conserved, Holders
<1>3. ASSUME NEW t \in Threads, Release(t) PROVE Conserved'
  <2>1. PICK n \in Nodes, c \in Conns :
               /\ lent[t] = {<<n, c>>}
               /\ idle[n] \in Seq(Conns)
               /\ idle' = [idle EXCEPT ![n] = Append(@, c)]
               /\ lent' = [lent EXCEPT ![t] = {}]
    BY <1>3, ReleaseEffect
  <2> SUFFICES \A m \in Nodes : Len(idle'[m]) + Cardinality(Holders(m)') = PoolSize
      BY ZenonT(20) DEF Conserved
  <2> TAKE m \in Nodes
  <2>3. CASE m = n
    <3>a. lent'[t] = {} /\ \A u \in Threads \ {t} : lent'[u] = lent[u]
      BY <2>1, <1>b
    <3>b. <<n, c>> \in lent[t] /\ <<n, c>>[1] = n
      BY <2>1
    <3>c. t \in Holders(n) /\ t \notin Holders(n)'
      BY <3>a, <3>b DEF Holders
    <3>d. \A u \in Threads \ {t} : u \in Holders(n)' <=> u \in Holders(n)
      BY <3>a DEF Holders
    <3>1. Holders(n)' = Holders(n) \ {t} /\ t \in Holders(n)
      BY <3>c, <3>d, InThreads
    <3>2. Cardinality(Holders(n)') = Cardinality(Holders(n)) - 1
      BY <3>1, HoldersFinite, FS_RemoveElement
    <3>3. Len(idle'[n]) = Len(idle[n]) + 1 /\ Len(idle[n]) \in Nat
      BY <2>1 DEF PoolTypeOK
    <3> QED BY <2>3, <3>2, <3>3, HoldersFinite DEF Conserved
  <2>4. CASE m # n
    <3>a. /\ \A u \in Threads \ {t} : lent'[u] = lent[u]
          /\ \A lease \in lent[t] \cup lent'[t] : lease[1] = n
      BY <2>1, <1>b
    <3>b. \A u \in Threads : u \in Holders(m)' <=> u \in Holders(m)
      BY <3>a, <2>4 DEF Holders
    <3>c. Holders(m)' = Holders(m)
      BY <3>b, InThreads
    <3>d. idle'[m] = idle[m]
      BY <2>1, <2>4 DEF PoolTypeOK
    <3>1. Holders(m)' = Holders(m) /\ idle'[m] = idle[m]
      BY <3>c, <3>d
    <3> QED BY <3>1 DEF Conserved
  <2> QED BY <2>3, <2>4
<1>4. CASE UNCHANGED poolVars
  BY <1>4 DEF poolVars, Conserved, Holders
<1> QED BY <1>1, <1>2, <1>3, <1>4 DEF PoolNext

\* No connection is lost or made: idle and lent ones of a node are always the
\* PoolSize connections that the constructor opened.
THEOREM ConnectionsConserved == PoolSpec => []Conserved
BY PoolTypeInit, PoolTypeStep, ConservedInit, ConservedStep, PTL DEF PoolSpec

-----------------------------------------------------------------------------
(* A thread that asks holds nothing, so it is not among the holders, so    *)
(* the node has an idle connection.                                        *)
LEMMA NoThrow ==
    ASSUME EnoughConnections, Masters > 0, PoolTypeOK, Conserved,
           NEW t \in Threads, NEW kind \in Kinds
    PROVE  ~ GetThrows(t, kind)
<1> SUFFICES ASSUME GetThrows(t, kind) PROVE FALSE
    OBVIOUS
<1> DEFINE k == KindFor(kind)
           n == NextNode(k)
<1>1. k \in Kinds /\ Count(k) > 0
  BY DEF KindFor, Kinds, Count
<1>2. n \in Nodes
  BY <1>1, NextNodeInNodes
<1>3. idle[n] = <<>> /\ lent[t] = {}
  BY <1>1 DEF GetThrows, NeedsOne
<1>4. t \notin Holders(n)
  BY <1>3 DEF Holders
<1>5. Cardinality(Holders(n)) < Cardinality(Threads)
  BY <1>4, HoldersFinite
<1>6. Len(idle[n]) = 0 /\ Len(idle[n]) + Cardinality(Holders(n)) = PoolSize
  BY <1>2, <1>3 DEF Conserved
<1>7. Cardinality(Threads) \in Nat /\ Cardinality(Holders(n)) \in Nat
  BY ThreadsAssumption, FS_CardinalityType, HoldersFinite
<1> HIDE DEF n
<1> QED BY <1>5, <1>6, <1>7, PoolSizeAssumption DEF EnoughConnections

\* With a master and as many connections per node as threads, which is what
\* App configures, get_connection never throws "No connections available".
THEOREM NobodyIsTurnedAway ==
    ASSUME EnoughConnections, Masters > 0
    PROVE  PoolSpec => []NeverExhausted
<1>1. PoolInit => NeverExhausted
  BY DEF PoolInit, Opened, NeverExhausted
<1>2. PoolTypeOK /\ Conserved /\ NeverExhausted /\ [PoolNext]_poolVars => NeverExhausted'
  <2> SUFFICES ASSUME PoolTypeOK, Conserved, NeverExhausted, [PoolNext]_poolVars
               PROVE  UNCHANGED exhausted
      BY DEF NeverExhausted
  <2>1. ASSUME NEW t \in Threads, NEW kind \in Kinds, GetThrows(t, kind) PROVE FALSE
    BY <2>1, NoThrow
  <2>2. ASSUME NEW t \in Threads, NEW kind \in Kinds, Get(t, kind) PROVE UNCHANGED exhausted
    BY <2>2, GetEffect
  <2>3. ASSUME NEW t \in Threads, Release(t) PROVE UNCHANGED exhausted
    BY <2>3, ReleaseEffect
  <2> QED BY <2>1, <2>2, <2>3 DEF PoolNext, poolVars
<1> QED BY <1>1, <1>2, PoolTypeInit, PoolTypeStep, ConservedInit, ConservedStep, PTL
        DEF PoolSpec

-----------------------------------------------------------------------------
(* Exclusive use: each of the four parts of Exclusive under Get and Release. *)
LEMMA ExclusiveInit == PoolInit => Exclusive
<1> SUFFICES ASSUME PoolInit PROVE Exclusive
    OBVIOUS
<1>1. \A n \in Nodes : /\ Len(idle[n]) = PoolSize
                       /\ \A i \in 1 .. PoolSize : idle[n][i] = <<n, i>>
  BY PoolSizeAssumption DEF PoolInit, Opened
<1>2. \A t \in Threads : lent[t] = {}
  BY DEF PoolInit, Opened
<1> QED BY <1>1, <1>2 DEF Exclusive, AtHome, IdleOnce, IdleOrLent, LentOnce

LEMMA ExclusiveGet ==
    ASSUME PoolTypeOK, Exclusive, NEW t \in Threads, NEW kind \in Kinds, Get(t, kind)
    PROVE  Exclusive'
<1>1. PICK n \in Nodes, c \in Conns :
               /\ lent[t] = {}
               /\ idle[n] \in Seq(Conns) /\ Len(idle[n]) \in Nat \ {0}
               /\ c = Head(idle[n])
               /\ idle' = [idle EXCEPT ![n] = Tail(@)]
               /\ lent' = [lent EXCEPT ![t] = {<<n, c>>}]
  BY GetEffect
<1>2. /\ lent'[t] = {<<n, c>>}
      /\ \A u \in Threads \ {t} : lent'[u] = lent[u]
      /\ \A u \in Threads : lent[u] \subseteq Nodes \X Conns
  BY <1>1 DEF PoolTypeOK
<1>3. /\ c = idle[n][1] /\ 1 \in 1 .. Len(idle[n])
      /\ Len(idle'[n]) = Len(idle[n]) - 1
      /\ \A i \in 1 .. Len(idle'[n]) : idle'[n][i] = idle[n][i + 1] /\ i + 1 \in 1 .. Len(idle[n])
      /\ \A m \in Nodes \ {n} : idle'[m] = idle[m]
  <2>1. idle'[n] = Tail(idle[n]) /\ \A m \in Nodes \ {n} : idle'[m] = idle[m]
    BY <1>1 DEF PoolTypeOK
  <2>2. \A s \in Seq(Conns) : Len(s) \in Nat \ {0} =>
           /\ Head(s) = s[1] /\ Len(Tail(s)) = Len(s) - 1
           /\ \A i \in 1 .. Len(s) - 1 : Tail(s)[i] = s[i + 1]
    OBVIOUS
  <2>0. idle[n] \in Seq(Conns) /\ Len(idle[n]) \in Nat \ {0} /\ c = Head(idle[n])
    BY <1>1
  <2>3. c = idle[n][1] /\ 1 \in 1 .. Len(idle[n]) /\ Len(idle'[n]) = Len(idle[n]) - 1
    <3>1. Head(idle[n]) = idle[n][1] /\ Len(Tail(idle[n])) = Len(idle[n]) - 1
      BY <2>0, <2>2
    <3> QED BY <3>1, <2>0, <2>1
  <2>4. \A i \in 1 .. Len(idle'[n]) : idle'[n][i] = idle[n][i + 1] /\ i + 1 \in 1 .. Len(idle[n])
    BY <2>0, <2>1, <2>2, <2>3
  <2> QED BY <2>1, <2>3, <2>4
<1>4. \A m \in Nodes : \A i \in 1 .. Len(idle'[m]) :
         \E j \in 1 .. Len(idle[m]) : idle'[m][i] = idle[m][j]
  BY <1>3
<1>5. c[1] = n
  BY <1>3 DEF Exclusive, AtHome
<1>6. AtHome'
  <2>1. \A m \in Nodes : \A i \in 1 .. Len(idle'[m]) : idle'[m][i][1] = m
    BY <1>4 DEF Exclusive, AtHome
  <2>2. \A u \in Threads : \A lease \in lent'[u] : lease[2][1] = lease[1]
    BY <1>2, <1>5 DEF Exclusive, AtHome
  <2> QED BY <2>1, <2>2 DEF AtHome
<1>7. IdleOnce'
  <2> SUFFICES \A m \in Nodes : \A i, j \in 1 .. Len(idle'[m]) : i # j => idle'[m][i] # idle'[m][j]
      BY DEF IdleOnce
  <2> TAKE m \in Nodes
  <2>1. CASE m = n
    BY <2>1, <1>3, SMTT(40) DEF Exclusive, IdleOnce
  <2>2. CASE m # n
    BY <2>2, <1>3 DEF Exclusive, IdleOnce
  <2> QED BY <2>1, <2>2
<1>8. IdleOrLent'
  <2> SUFFICES ASSUME NEW u \in Threads, NEW lease \in lent'[u],
                      NEW i \in 1 .. Len(idle'[lease[1]])
               PROVE  idle'[lease[1]][i] # lease[2]
      BY DEF IdleOrLent
  <2>1. CASE u = t
    <3>1. lease[1] = n /\ lease[2] = c
      BY <2>1, <1>2
    <3>2. i \in 1 .. Len(idle'[n])
      BY <3>1
    <3>3. i + 1 \in 1 .. Len(idle[n]) /\ i + 1 # 1
      BY <3>2, <1>3
    <3>4. idle[n][i + 1] # idle[n][1]
      BY <3>3, <1>3 DEF Exclusive, IdleOnce
    <3> QED BY <3>1, <3>2, <3>4, <1>3
  <2>2. CASE u # t
    <3>1. lease \in lent[u] /\ lease[1] \in Nodes
      BY <2>2, <1>2
    <3>2. PICK j \in 1 .. Len(idle[lease[1]]) : idle'[lease[1]][i] = idle[lease[1]][j]
      BY <3>1, <1>4
    <3> QED BY <3>1, <3>2 DEF Exclusive, IdleOrLent
  <2> QED BY <2>1, <2>2
<1>9. LentOnce'
  <2>1. \A u \in Threads \ {t} : \A b \in lent[u] : b[2] # c
    <3> TAKE u \in Threads \ {t}
    <3> TAKE b \in lent[u]
    <3>1. b[1] \in Nodes /\ b[2][1] = b[1]
      BY <1>2 DEF Exclusive, AtHome
    <3>2. CASE b[1] = n
      BY <3>2, <1>3 DEF Exclusive, IdleOrLent
    <3>3. CASE b[1] # n
      BY <3>1, <3>3, <1>5
    <3> QED BY <3>2, <3>3
  <2> SUFFICES ASSUME NEW u \in Threads, NEW v \in Threads, u # v,
                      NEW a \in lent'[u], NEW b \in lent'[v]
               PROVE  a[2] # b[2]
      BY DEF LentOnce
  <2>2. CASE u = t
    BY <2>1, <2>2, <1>2
  <2>3. CASE v = t
    BY <2>1, <2>3, <1>2
  <2>4. CASE u # t /\ v # t
    BY <2>4, <1>2 DEF Exclusive, LentOnce
  <2> QED BY <2>2, <2>3, <2>4
<1> QED BY <1>6, <1>7, <1>8, <1>9 DEF Exclusive

LEMMA ExclusiveRelease ==
    ASSUME PoolTypeOK, Exclusive, NEW t \in Threads, Release(t)
    PROVE  Exclusive'
<1>1. PICK n \in Nodes, c \in Conns :
               /\ lent[t] = {<<n, c>>}
               /\ idle[n] \in Seq(Conns)
               /\ idle' = [idle EXCEPT ![n] = Append(@, c)]
               /\ lent' = [lent EXCEPT ![t] = {}]
  BY ReleaseEffect
<1>2. /\ lent'[t] = {}
      /\ \A u \in Threads \ {t} : lent'[u] = lent[u]
      /\ \A u \in Threads : lent[u] \subseteq Nodes \X Conns
  BY <1>1 DEF PoolTypeOK
<1>3. /\ Len(idle[n]) \in Nat /\ Len(idle'[n]) = Len(idle[n]) + 1
      /\ \A i \in 1 .. Len(idle[n]) : idle'[n][i] = idle[n][i]
      /\ idle'[n][Len(idle[n]) + 1] = c
      /\ \A m \in Nodes \ {n} : idle'[m] = idle[m]
  <2>1. idle'[n] = Append(idle[n], c) /\ \A m \in Nodes \ {n} : idle'[m] = idle[m]
    BY <1>1 DEF PoolTypeOK
  <2> QED BY <1>1, <2>1
<1>4. /\ c[1] = n
      /\ \A i \in 1 .. Len(idle[n]) : idle[n][i] # c
      /\ \A u \in Threads \ {t} : \A b \in lent[u] : b[2] # c
  <2>1. <<n, c>> \in lent[t] /\ <<n, c>>[1] = n /\ <<n, c>>[2] = c
    BY <1>1
  <2> QED BY <2>1 DEF Exclusive, AtHome, IdleOrLent, LentOnce
<1>5. \A m \in Nodes : \A i \in 1 .. Len(idle'[m]) :
         \/ m = n /\ idle'[m][i] = c /\ i = Len(idle[n]) + 1
         \/ i \in 1 .. Len(idle[m]) /\ idle'[m][i] = idle[m][i]
  BY <1>3, SMTT(40)
<1>6. AtHome'
  <2>1. \A m \in Nodes : \A i \in 1 .. Len(idle'[m]) : idle'[m][i][1] = m
    BY <1>4, <1>5 DEF Exclusive, AtHome
  <2>2. \A u \in Threads : \A lease \in lent'[u] : lease[2][1] = lease[1]
    BY <1>2 DEF Exclusive, AtHome
  <2> QED BY <2>1, <2>2 DEF AtHome
<1>7. IdleOnce'
  <2> SUFFICES ASSUME NEW m \in Nodes,
                      NEW i \in 1 .. Len(idle'[m]), NEW j \in 1 .. Len(idle'[m]), i # j
               PROVE  idle'[m][i] # idle'[m][j]
      BY DEF IdleOnce
  <2> QED BY <1>4, <1>5 DEF Exclusive, IdleOnce
<1>8. IdleOrLent'
  <2> SUFFICES ASSUME NEW u \in Threads, NEW lease \in lent'[u],
                      NEW i \in 1 .. Len(idle'[lease[1]])
               PROVE  idle'[lease[1]][i] # lease[2]
      BY DEF IdleOrLent
  <2>1. u # t /\ lease \in lent[u] /\ lease[1] \in Nodes
    BY <1>2
  <2> QED BY <2>1, <1>4, <1>5 DEF Exclusive, IdleOrLent
<1>9. LentOnce'
  BY <1>2 DEF Exclusive, LentOnce
<1> QED BY <1>6, <1>7, <1>8, <1>9 DEF Exclusive

\* No connection is in two queues or hands at once, so no two threads ever run
\* statements on the same pqxx::connection, which is not thread-safe.
THEOREM ConnectionsExclusive == PoolSpec => []Exclusive
<1>1. PoolTypeOK /\ Exclusive /\ [PoolNext]_poolVars => Exclusive'
  <2> SUFFICES ASSUME PoolTypeOK, Exclusive, [PoolNext]_poolVars PROVE Exclusive'
      OBVIOUS
  <2>1. ASSUME NEW t \in Threads, NEW kind \in Kinds, Get(t, kind) PROVE Exclusive'
    BY <2>1, ExclusiveGet
  <2>2. ASSUME UNCHANGED <<idle, lent>> PROVE Exclusive'
    BY <2>2 DEF Exclusive, AtHome, IdleOnce, IdleOrLent, LentOnce
  <2>3. ASSUME NEW t \in Threads, NEW kind \in Kinds, GetThrows(t, kind) PROVE Exclusive'
    BY <2>2, <2>3 DEF GetThrows, NeedsOne
  <2>4. ASSUME NEW t \in Threads, Release(t) PROVE Exclusive'
    BY <2>4, ExclusiveRelease
  <2>5. CASE UNCHANGED poolVars
    BY <2>2, <2>5 DEF poolVars
  <2> QED BY <2>1, <2>3, <2>4, <2>5 DEF PoolNext
<1> QED BY <1>1, PoolTypeInit, PoolTypeStep, ExclusiveInit, PTL DEF PoolSpec

-----------------------------------------------------------------------------
\* The type invariant: a thread holds one connection of a node at most.
THEOREM PoolTypeCorrect == PoolSpec => []PoolTypeOK
BY PoolTypeInit, PoolTypeStep, PTL DEF PoolSpec

LEMMA RoutedStep == PoolTypeOK /\ RoutedByRole /\ [PoolNext]_poolVars => RoutedByRole'
<1> SUFFICES ASSUME PoolTypeOK, RoutedByRole, [PoolNext]_poolVars PROVE RoutedByRole'
    OBVIOUS
<1>1. ASSUME NEW t \in Threads, NEW kind \in Kinds, Get(t, kind) PROVE RoutedByRole'
  <2> DEFINE k == KindFor(kind)
             n == NextNode(k)
  <2>1. k = "REPLICA" <=> kind = "REPLICA" /\ Replicas > 0
    BY DEF KindFor, Kinds
  <2>2. lent' = [lent EXCEPT ![t] = {<<n, Head(idle[n])>>}] /\ n[1] = k
    BY <1>1 DEF Get, NeedsOne, NextNode
  <2>3. preferred' = [preferred EXCEPT ![t] = kind]
    BY <1>1 DEF Get
  <2> HIDE DEF n, k
  <2> SUFFICES ASSUME NEW u \in Threads, NEW lease \in lent'[u]
               PROVE  lease[1][1] = "REPLICA" <=> preferred'[u] = "REPLICA" /\ Replicas > 0
      BY DEF RoutedByRole
  <2>4. CASE u = t
    BY <2>1, <2>2, <2>3, <2>4 DEF PoolTypeOK
  <2>5. CASE u # t
    BY <2>2, <2>3, <2>5 DEF PoolTypeOK, RoutedByRole
  <2> QED BY <2>4, <2>5
<1>2. ASSUME NEW t \in Threads, Release(t) PROVE RoutedByRole'
  BY <1>2 DEF Release, PoolTypeOK, RoutedByRole
<1>3. ASSUME UNCHANGED <<lent, preferred>> PROVE RoutedByRole'
  BY <1>3 DEF RoutedByRole
<1>4. ASSUME NEW t \in Threads, NEW kind \in Kinds, GetThrows(t, kind) PROVE RoutedByRole'
  BY <1>3, <1>4 DEF GetThrows
<1> QED BY <1>1, <1>2, <1>3, <1>4 DEF PoolNext, poolVars

\* Writes go to a master, and reads leave the master alone as soon as there is
\* a replica, however many of both there are.
THEOREM RolesRespected == PoolSpec => []RoutedByRole
<1>1. PoolInit => RoutedByRole
  BY DEF PoolInit, RoutedByRole
<1> QED BY <1>1, PoolTypeInit, PoolTypeStep, RoutedStep, PTL DEF PoolSpec

LEMMA ThrowingStep ==
    ASSUME PoolTypeOK, Conserved, [PoolNext]_poolVars, lent' = lent,
           NEW k \in Kinds, last_used'[k] # last_used[k]
    PROVE  Cardinality(Holders(<<k, last_used'[k]>>)) = PoolSize
<1>0. \A t \in Threads : \A s : [lent EXCEPT ![t] = s][t] = s
  BY DEF PoolTypeOK
<1>1. ASSUME NEW t \in Threads, NEW kind \in Kinds, Get(t, kind) PROVE FALSE
  <2>1. lent[t] = {} /\ \E lease : lent' = [lent EXCEPT ![t] = {lease}]
    BY <1>1, GetEffect
  <2> QED BY <2>1, <1>0
<1>2. ASSUME NEW t \in Threads, Release(t) PROVE FALSE
  <2>1. lent[t] # {} /\ lent' = [lent EXCEPT ![t] = {}]
    BY <1>2, ReleaseEffect
  <2> QED BY <2>1, <1>0
<1>3. PICK t \in Threads, kind \in Kinds : GetThrows(t, kind)
  BY <1>1, <1>2 DEF PoolNext, poolVars
<1> DEFINE n == NextNode(KindFor(kind))
<1>4. /\ KindFor(kind) = k /\ Count(k) > 0
      /\ idle[n] = <<>>
      /\ last_used'[k] = NextNum(k)
  <2>1. KindFor(kind) \in Kinds
    BY DEF KindFor, Kinds
  <2> QED BY <1>3, <2>1 DEF GetThrows, PoolTypeOK
<1>5. n \in Nodes /\ n = <<k, last_used'[k]>>
  BY <1>4, NextNodeInNodes DEF NextNode
<1>6. Len(idle[n]) = 0 /\ Len(idle[n]) + Cardinality(Holders(n)) = PoolSize
  BY <1>4, <1>5 DEF Conserved
<1> HIDE DEF n
<1> QED BY <1>5, <1>6, HoldersFinite

\* get_connection throws only while all PoolSize connections of the node that
\* Round Robin chose are lent to threads.
THEOREM ThrowsForCause == PoolSpec => ThrowsOnlyWhenAllLent
<1> DEFINE OnlyWhenAllLent ==
        lent' = lent =>
            \A k \in Kinds : last_used'[k] # last_used[k] =>
                Cardinality(Holders(<<k, last_used'[k]>>)) = PoolSize
<1>1. PoolTypeOK /\ Conserved /\ [PoolNext]_poolVars => [OnlyWhenAllLent]_poolVars
  BY ThrowingStep
<1>2. PoolSpec => []PoolTypeOK /\ []Conserved
  BY PoolTypeCorrect, ConnectionsConserved, PTL
<1> QED BY <1>1, <1>2, PTL DEF PoolSpec, ThrowsOnlyWhenAllLent

-----------------------------------------------------------------------------
(* The handlers.                                                           *)

\* The handlers use the pool only as ConnectionPool allows.
LEMMA HandlersUsePool == [ServiceNext]_serviceVars => [PoolNext]_poolVars
<1> SUFFICES ASSUME [ServiceNext]_serviceVars PROVE [PoolNext]_poolVars
    OBVIOUS
<1>1. \A ep : Preference(ep) \in Kinds
  BY DEF Preference, Kinds
<1>2. ASSUME NEW t \in Threads, Connect(t) PROVE PoolNext
  BY <1>1, <1>2 DEF Connect, PoolNext
<1>3. ASSUME NEW t \in Threads, ConnectFails(t) PROVE PoolNext
  BY <1>1, <1>3 DEF ConnectFails, PoolNext
<1>4. ASSUME NEW t \in Threads, GiveBack(t) PROVE PoolNext
  BY <1>4 DEF GiveBack, Destructor, PoolNext
<1>5. ASSUME NEW t \in Threads, Handle(t), ~Connect(t), ~ConnectFails(t), ~GiveBack(t)
      PROVE  UNCHANGED poolVars
  BY <1>5, ZenonT(40) DEF Handle, RejectPath, NoRoute, Probe, Dispatch, HandlerThrows, RejectInput,
        RejectNoDb, UseDb, CountHost, QueryFails, Search, NotFound, Found, WrongPassword,
        Insert, Commit, CommitFails, CommitInDoubt, CountTotal, CountOutcome, Respond,
        LocalOnly, InPlace
<1>6. ASSUME NEW t \in Threads, NEW ep, NEW input, NEW user, Receive(t, ep, input, user)
      PROVE  UNCHANGED poolVars
  BY <1>6 DEF Receive
<1>7. ASSUME NEW n, Replicate(n) \/ NodeStops(n) PROVE UNCHANGED poolVars
  BY <1>7 DEF Replicate, NodeStops
<1>8. CASE UNCHANGED serviceVars
  BY <1>8 DEF serviceVars
<1> QED BY <1>2, <1>3, <1>4, <1>5, <1>6, <1>7, <1>8 DEF ServiceNext

\* So what ConnectionPoolProofs shows of the pool holds in the service.
THEOREM ServiceUsesPool == ServiceSpec => PoolSpec
<1>1. ServiceInit => PoolInit
  BY DEF ServiceInit
<1> QED BY <1>1, HandlersUsePool, PTL DEF ServiceSpec, PoolSpec

-----------------------------------------------------------------------------
(* The type invariant, and which requests are where.                       *)

\* Only requests of the API reach a handler, and only registrations a commit.
InApi == {"handler", "connect", "tally", "query", "commit", "release", "count", "outcome"}
PhaseFits ==
    \A t \in Threads :
        /\ phase[t] \in InApi => req[t].ep \in Api
        /\ phase[t] = "commit" => req[t].ep = "register"

Types == ServiceTypeOK /\ PhaseFits

LEMMA TypesInit == ServiceInit => Types
<1> SUFFICES ASSUME ServiceInit PROVE Types
    OBVIOUS
<1>1. PoolTypeOK
  BY PoolTypeInit DEF ServiceInit
<1>2. NoRequest \in Requests /\ NoResponse \in Responses
  BY DEF NoRequest, NoResponse, Requests, Responses, Statuses
<1>3. ServiceTypeOK
  BY <1>1, <1>2, BoundsAssumption DEF ServiceInit, ServiceTypeOK, ResponseFits, Phases
<1>4. PhaseFits
  BY DEF ServiceInit, PhaseFits, InApi
<1> QED BY <1>3, <1>4 DEF Types

LEMMA InputsAreInputs ==
    \A ep \in Endpoints : Inputs(ep) \subseteq {"malformed", "invalid", "dbRejects", "valid"}
BY DEF Inputs

ThreadTypes ==
    /\ phase \in [Threads -> Phases] /\ req \in [Threads -> Requests]
    /\ res \in [Threads -> Responses]
    /\ ResponseFits /\ PhaseFits

\* A reply, with its record as one value.
LEMMA ReplyTypes ==
    ASSUME ThreadTypes, NEW t \in Threads, NEW to \in {"release", "count", "respond"},
           NEW r \in Responses, r.ok <=> ~(r.status >= 400),
           phase' = [phase EXCEPT ![t] = to], req' = req, res' = [res EXCEPT ![t] = r],
           phase[t] \in InApi \/ to = "respond"
    PROVE  ThreadTypes'
BY DEF ThreadTypes, ResponseFits, IsError, PhaseFits, InApi, Phases

\* Responses whose status fits the value that the handler returns.
Replied == {r \in Responses : r.ok <=> ~(r.status >= 400)}

LEMMA RefusalIsReply ==
    ASSUME NEW c \in {400, 404, 413, 500, 501, 503}, NEW b \in {"none", "json", "html"}
    PROVE  [status |-> c, body |-> b, ok |-> FALSE] \in Replied
<1> SUFFICES ASSUME NEW r, r = [status |-> c, body |-> b, ok |-> FALSE] PROVE r \in Replied
    OBVIOUS
<1>1. r \in Responses
  BY DEF Responses, Statuses
<1>2. ~r.ok /\ r.status = c
  OBVIOUS
<1> QED BY <1>1, <1>2 DEF Replied

LEMMA SuccessIsReply ==
    ASSUME NEW b \in {"text", "json"}
    PROVE  [status |-> 200, body |-> b, ok |-> TRUE] \in Replied
<1> SUFFICES ASSUME NEW r, r = [status |-> 200, body |-> b, ok |-> TRUE] PROVE r \in Replied
    OBVIOUS
<1>1. r \in Responses
  BY DEF Responses, Statuses
<1>2. r.ok /\ r.status = 200
  OBVIOUS
<1> QED BY <1>1, <1>2 DEF Replied

\* The handler of t replies and goes on from `from` to `to`.
Answers(t, from, to) ==
    /\ phase[t] = from /\ phase' = [phase EXCEPT ![t] = to] /\ req' = req
    /\ \E r \in Replied : res' = [res EXCEPT ![t] = r]

LEMMA AnswersTypes ==
    ASSUME ThreadTypes, NEW t \in Threads, NEW from, NEW to \in {"release", "count", "respond"},
           Answers(t, from, to), from \in InApi \/ to = "respond"
    PROVE  ThreadTypes'
<1>1. PICK r \in Replied : res' = [res EXCEPT ![t] = r]
  BY DEF Answers
<1> QED BY <1>1, ReplyTypes DEF Answers, Replied

\* Every action of a handler that replies is one of these.
LEMMA HandlersAnswer ==
    ASSUME NEW t \in Threads
    PROVE  /\ RejectPath(t) \/ NoRoute(t) \/ Probe(t) => Answers(t, "routing", "respond")
           /\ HandlerThrows(t) => Answers(t, "handler", "respond")
           /\ RejectInput(t) \/ RejectNoDb(t) => Answers(t, "handler", "count")
           /\ ConnectFails(t) => Answers(t, "connect", "count")
           /\ QueryFails(t) \/ Search(t) \/ NotFound(t) \/ Found(t) \/ WrongPassword(t)
                => Answers(t, "query", "release")
           /\ CommitFails(t) \/ CommitInDoubt(t) => Answers(t, "commit", "release")
<1>1. RejectPath(t) => Answers(t, "routing", "respond")
  <2>1. [status |-> 501, body |-> "none", ok |-> FALSE] \in Replied
    BY RefusalIsReply
  <2> QED BY <2>1 DEF RejectPath, Answers, Replies, Goes
<1>2. NoRoute(t) => Answers(t, "routing", "respond")
  <2>1. [status |-> 404, body |-> "none", ok |-> FALSE] \in Replied
    BY RefusalIsReply
  <2>2. [status |-> 413, body |-> "none", ok |-> FALSE] \in Replied
    BY RefusalIsReply
  <2> SUFFICES ASSUME NoRoute(t) PROVE Answers(t, "routing", "respond")
      OBVIOUS
  <2>3. /\ phase[t] = "routing" /\ phase' = [phase EXCEPT ![t] = "respond"] /\ req' = req
        /\ \/ res' = [res EXCEPT ![t] = [status |-> 404, body |-> "none", ok |-> FALSE]]
           \/ res' = [res EXCEPT ![t] = [status |-> 413, body |-> "none", ok |-> FALSE]]
    BY DEF NoRoute, Replies, Goes
  <2> QED BY <2>1, <2>2, <2>3 DEF Answers
<1>3. Probe(t) => Answers(t, "routing", "respond")
  <2>1. [status |-> 200, body |-> "text", ok |-> TRUE] \in Replied
    BY SuccessIsReply
  <2> QED BY <2>1 DEF Probe, Answers, Replies, Goes
<1>4. HandlerThrows(t) => Answers(t, "handler", "respond")
  <2>1. [status |-> 500, body |-> "html", ok |-> FALSE] \in Replied
    BY RefusalIsReply
  <2> QED BY <2>1 DEF HandlerThrows, Answers, Replies, Goes
<1>5. RejectInput(t) => Answers(t, "handler", "count")
  <2>1. [status |-> 400, body |-> "none", ok |-> FALSE] \in Replied
    BY RefusalIsReply
  <2> QED BY <2>1 DEF RejectInput, Answers, Replies, Goes
<1>6. RejectNoDb(t) => Answers(t, "handler", "count")
  <2>1. [status |-> 503, body |-> "json", ok |-> FALSE] \in Replied
    BY RefusalIsReply
  <2> QED BY <2>1 DEF RejectNoDb, Answers, Replies, Goes
<1>7. ConnectFails(t) => Answers(t, "connect", "count")
  <2>1. [status |-> 500, body |-> "json", ok |-> FALSE] \in Replied
    BY RefusalIsReply
  <2> QED BY <2>1 DEF ConnectFails, Answers, Replies, Goes
<1>8. QueryFails(t) => Answers(t, "query", "release")
  <2>1. [status |-> 500, body |-> "json", ok |-> FALSE] \in Replied
    BY RefusalIsReply
  <2> QED BY <2>1 DEF QueryFails, Answers, Replies, Goes
<1>9. Search(t) => Answers(t, "query", "release")
  <2>1. [status |-> 200, body |-> "json", ok |-> TRUE] \in Replied
    BY SuccessIsReply
  <2> QED BY <2>1 DEF Search, Answers, Replies, Goes
<1>10. NotFound(t) => Answers(t, "query", "release")
  <2>1. [status |-> 404, body |-> "json", ok |-> FALSE] \in Replied
    BY RefusalIsReply
  <2> QED BY <2>1 DEF NotFound, Answers, Replies, Goes
<1>11. Found(t) => Answers(t, "query", "release")
  <2>1. [status |-> 200, body |-> "json", ok |-> TRUE] \in Replied
    BY SuccessIsReply
  <2> QED BY <2>1 DEF Found, Answers, Replies, Goes
<1>12. WrongPassword(t) => Answers(t, "query", "release")
  <2>1. [status |-> 400, body |-> "none", ok |-> FALSE] \in Replied
    BY RefusalIsReply
  <2> QED BY <2>1 DEF WrongPassword, ReturnOnMismatch, Answers, Replies, Goes
<1>13. CommitFails(t) => Answers(t, "commit", "release")
  <2>1. [status |-> 500, body |-> "json", ok |-> FALSE] \in Replied
    BY RefusalIsReply
  <2> QED BY <2>1 DEF CommitFails, Answers, Replies, Goes
<1>14. CommitInDoubt(t) => Answers(t, "commit", "release")
  <2>1. [status |-> 500, body |-> "json", ok |-> FALSE] \in Replied
    BY RefusalIsReply
  <2> QED BY <2>1 DEF CommitInDoubt, Answers, Replies, Goes
<1> QED BY <1>1, <1>2, <1>3, <1>4, <1>5, <1>6, <1>7, <1>8, <1>9, <1>10, <1>11, <1>12, <1>13, <1>14

LEMMA HandleThreadTypes ==
    ASSUME ThreadTypes, committed \in Nat, NEW t \in Threads, Handle(t) PROVE ThreadTypes'
<1>1. ASSUME NEW from, NEW to \in {"release", "count", "respond"},
             Answers(t, from, to), from \in InApi \/ to = "respond"
      PROVE  ThreadTypes'
  BY <1>1, AnswersTypes
<1>2. ASSUME Answers(t, "routing", "respond") \/ Answers(t, "handler", "respond")
      PROVE  ThreadTypes'
  BY <1>2, <1>1
<1>3. ASSUME Answers(t, "handler", "count") \/ Answers(t, "connect", "count")
      PROVE  ThreadTypes'
  BY <1>3, <1>1 DEF InApi
<1>4. ASSUME Answers(t, "query", "release") \/ Answers(t, "commit", "release")
      PROVE  ThreadTypes'
  BY <1>4, <1>1 DEF InApi
<1>5. ASSUME UNCHANGED <<phase, req, res>> PROVE ThreadTypes'
  BY <1>5 DEF ThreadTypes, ResponseFits, PhaseFits, IsError
<1> USE DEF ThreadTypes, ResponseFits, PhaseFits, IsError, Phases, Goes, InApi
<1>6. ASSUME Dispatch(t) \/ UseDb(t) \/ Connect(t) \/ CountHost(t) \/ Insert(t) PROVE ThreadTypes'
  BY <1>6 DEF Dispatch, UseDb, Connect, CountHost, Insert
<1>7. ASSUME GiveBack(t) \/ CountTotal(t) \/ CountOutcome(t) PROVE ThreadTypes'
  BY <1>7 DEF GiveBack, CountTotal, CountOutcome
<1>8. ASSUME Commit(t) PROVE ThreadTypes'
  <2>1. phase' = [phase EXCEPT ![t] = "release"] /\ phase[t] = "commit"
    BY <1>8 DEF Commit, Goes
  <2>2. PICK r : r = [req[t] EXCEPT !.user = committed + 1] /\ req' = [req EXCEPT ![t] = r]
    BY <1>8 DEF Commit, ThreadTypes
  <2>3. r \in Requests /\ r.ep = req[t].ep
    BY <2>2 DEF ThreadTypes, Requests
  <2>4. PICK s : /\ s = [status |-> res[t].status, body |-> "json", ok |-> TRUE]
                 /\ res' = [res EXCEPT ![t] = s]
    BY <1>8 DEF Commit, ThreadTypes
  <2>5. s \in Responses /\ s.status = 200 /\ s.ok
    <3>1. res[t].status = 200
      BY <2>1 DEF ThreadTypes, ResponseFits, NoResponse
    <3>2. s \in Replied
      BY <2>4, <3>1, SuccessIsReply
    <3>3. s.status = 200 /\ (s.ok <=> ~(s.status >= 400))
      BY <2>4, <3>1, <3>2 DEF Replied
    <3> QED BY <3>2, <3>3 DEF Replied
  <2>6. ResponseFits'
    BY <2>1, <2>4, <2>5 DEF ThreadTypes, ResponseFits, IsError
  <2>7. PhaseFits'
    BY <2>1, <2>2, <2>3 DEF ThreadTypes, PhaseFits
  <2> QED BY <2>1, <2>2, <2>3, <2>4, <2>5, <2>6, <2>7 DEF ThreadTypes
<1>9. ASSUME Respond(t) PROVE ThreadTypes'
  <2>1. /\ phase' = [phase EXCEPT ![t] = "idle"] /\ phase[t] = "respond"
        /\ req' = [req EXCEPT ![t] = NoRequest] /\ res' = [res EXCEPT ![t] = NoResponse]
    BY <1>9 DEF Respond, Goes
  <2>2. NoRequest \in Requests /\ NoResponse \in Responses
    BY DEF NoRequest, NoResponse, Requests, Responses, Statuses
  <2> HIDE DEF NoRequest
  <2>3. ResponseFits'
    BY <2>1 DEF ThreadTypes, ResponseFits, IsError
  <2>4. PhaseFits'
    BY <2>1 DEF ThreadTypes, PhaseFits
  <2> QED BY <2>1, <2>2, <2>3, <2>4 DEF ThreadTypes
<1> HIDE DEF ThreadTypes, Goes
<1> QED BY <1>2, <1>3, <1>4, <1>6, <1>7, <1>8, <1>9, HandlersAnswer DEF Handle

\* What a handler may change apart from its own position, request and response.
CounterTypes ==
    /\ total \in [Api -> Nat] /\ failed \in [Api -> Nat] /\ observed \in [Api -> Nat]
    /\ toHost \in [Nodes -> Nat]
    /\ answered \in [Endpoints -> Nat] /\ errors \in [Endpoints -> Nat]
    /\ thrown \in [Endpoints -> Nat]
UserTypes ==
    /\ broken \subseteq Nodes /\ committed \in Nat
    /\ acked \subseteq Nat /\ inDoubt \subseteq Nat
counting == <<metrics, answered, errors, thrown>>
counted  == <<broken, committed, acked, inDoubt>>

\* The actions that neither count nor write to the database.
LEMMA Quiet ==
    ASSUME NEW t \in Threads, Handle(t)
    PROVE  /\ \/ HandlerThrows(t) \/ CountHost(t) \/ CountTotal(t) \/ CountOutcome(t)
              \/ Respond(t) \/ UNCHANGED counting
           /\ Commit(t) \/ CommitInDoubt(t) \/ Respond(t) \/ UNCHANGED counted
           /\ UNCHANGED <<received, db_pool, applied>>
BY ZenonT(40) DEF Handle, RejectPath, NoRoute, Probe, Dispatch, HandlerThrows, RejectInput, RejectNoDb,
       UseDb, Connect, ConnectFails, CountHost, QueryFails, Search, NotFound, Found,
       WrongPassword, Insert, Commit, CommitFails, CommitInDoubt, GiveBack, CountTotal,
       CountOutcome, Respond, LocalOnly, InPlace, counting, counted, metrics, database, history

LEMMA Bump ==
    ASSUME NEW S, NEW f \in [S -> Nat], NEW e, NEW a \in Nat
    PROVE  [f EXCEPT ![e] = @ + a] \in [S -> Nat]
<1>1. CASE e \in S
  BY <1>1
<1>2. CASE e \notin S
  BY <1>2
<1> QED BY <1>1, <1>2

LEMMA HandleCounterTypes ==
    ASSUME CounterTypes, NEW t \in Threads, Handle(t) PROVE CounterTypes'
<1> USE DEF CounterTypes, metrics
<1>1. ASSUME HandlerThrows(t) PROVE CounterTypes'
  <2>1. /\ thrown' = [thrown EXCEPT ![req[t].ep] = @ + 1]
        /\ UNCHANGED <<total, failed, observed, toHost, answered, errors>>
    BY <1>1 DEF HandlerThrows
  <2> QED BY <2>1, Bump
<1>2. ASSUME CountHost(t) PROVE CounterTypes'
  <2>1. PICK n : toHost' = [toHost EXCEPT ![n] = @ + 1]
    BY <1>2 DEF CountHost
  <2>2. UNCHANGED <<total, failed, observed, answered, errors, thrown>>
    BY <1>2 DEF CountHost, history
  <2> QED BY <2>1, <2>2, Bump
<1>3. ASSUME CountTotal(t) PROVE CounterTypes'
  <2>1. /\ total' = [total EXCEPT ![req[t].ep] = @ + 1]
        /\ UNCHANGED <<failed, observed, toHost, answered, errors, thrown>>
    BY <1>3 DEF CountTotal, history
  <2> QED BY <2>1, Bump
<1>4. ASSUME CountOutcome(t) PROVE CounterTypes'
  <2> DEFINE a == IF Timed(t) THEN 1 ELSE 0
             b == IF res[t].ok THEN 0 ELSE 1
  <2>1. /\ observed' = [observed EXCEPT ![req[t].ep] = @ + a]
        /\ failed' = [failed EXCEPT ![req[t].ep] = @ + b]
    BY <1>4 DEF CountOutcome
  <2>3. a \in Nat /\ b \in Nat
    OBVIOUS
  <2>2. UNCHANGED <<total, toHost, answered, errors, thrown>>
    BY <1>4 DEF CountOutcome, history
  <2> HIDE DEF a, b
  <2> QED BY <2>1, <2>2, <2>3, Bump
<1>5. ASSUME Respond(t) PROVE CounterTypes'
  <2> DEFINE a == IF IsError(t) THEN 1 ELSE 0
  <2>1. /\ answered' = [answered EXCEPT ![req[t].ep] = @ + 1]
        /\ errors' = [errors EXCEPT ![req[t].ep] = @ + a]
    BY <1>5 DEF Respond
  <2>3. a \in Nat
    OBVIOUS
  <2>2. UNCHANGED <<total, failed, observed, toHost, thrown>>
    BY <1>5 DEF Respond
  <2> HIDE DEF a
  <2> QED BY <2>1, <2>2, <2>3, Bump
<1> QED BY <1>1, <1>2, <1>3, <1>4, <1>5, Quiet DEF counting

LEMMA HandleUserTypes ==
    ASSUME UserTypes, req \in [Threads -> Requests], NEW t \in Threads, Handle(t) PROVE UserTypes'
<1> USE DEF UserTypes
<1>1. ASSUME Commit(t) PROVE UserTypes'
  <2>1. committed' = committed + 1 /\ UNCHANGED <<broken, acked, inDoubt>>
    BY <1>1 DEF Commit, CommitTx, InPlace, history
  <2> QED BY <2>1
<1>2. ASSUME CommitInDoubt(t) PROVE UserTypes'
  <2>1. /\ committed' = committed + 1 /\ inDoubt' = inDoubt \cup {committed + 1}
        /\ broken' = broken \cup {Master} /\ UNCHANGED acked
    BY <1>2 DEF CommitInDoubt
  <2>2. Master \in Nodes
    BY MasterAssumption, NodesAssumption DEF Master, Nodes, NodesOf, Count
  <2> QED BY <2>1, <2>2
<1>3. ASSUME Respond(t) PROVE UserTypes'
  <2>1. acked' \subseteq acked \cup {req[t].user} /\ UNCHANGED <<broken, committed, inDoubt>>
    BY <1>3 DEF Respond, database
  <2>2. req[t].user \in Nat
    BY DEF Requests
  <2> QED BY <2>1, <2>2
<1> QED BY <1>1, <1>2, <1>3, Quiet DEF counted

LEMMA ReceiveTypes ==
    ASSUME Types, NEW t \in Threads, NEW ep \in Endpoints, NEW input \in Inputs(ep),
           NEW user \in Nat, Receive(t, ep, input, user)
    PROVE  ThreadTypes' /\ received' \in 0 .. MaxRequests
<1>1. PICK r : r = [ep |-> ep, input |-> input, user |-> user] /\ req' = [req EXCEPT ![t] = r]
  BY DEF Receive
<1>2. r \in Requests
  BY <1>1, InputsAreInputs DEF Requests
<1>3. /\ phase[t] = "idle" /\ phase' = [phase EXCEPT ![t] = "routing"] /\ res' = res
      /\ received < MaxRequests /\ received' = received + 1
  BY DEF Receive, Goes
<1>4. ThreadTypes /\ received \in 0 .. MaxRequests
  BY DEF Types, ServiceTypeOK, ThreadTypes
<1> USE DEF ThreadTypes
<1>5. phase' \in [Threads -> Phases] /\ req' \in [Threads -> Requests] /\ PhaseFits'
  BY <1>1, <1>2, <1>3, <1>4 DEF Phases, PhaseFits, InApi
<1>6. res' \in [Threads -> Responses] /\ ResponseFits'
  BY <1>3, <1>4 DEF ResponseFits, IsError
<1>7. received' \in 0 .. MaxRequests
  BY <1>3, <1>4, BoundsAssumption
<1> QED BY <1>5, <1>6, <1>7

\* The parts of the type invariant, and the others that no handler changes.
OtherTypes == /\ db_pool \in BOOLEAN /\ applied \in [NodesOf("REPLICA") -> Nat]
              /\ received \in 0 .. MaxRequests

LEMMA TypesParts ==
    /\ Types <=> PoolTypeOK /\ ThreadTypes /\ CounterTypes /\ UserTypes /\ OtherTypes
    /\ Types' <=> PoolTypeOK' /\ ThreadTypes' /\ CounterTypes' /\ UserTypes' /\ OtherTypes'
BY DEF Types, ServiceTypeOK, ThreadTypes, CounterTypes, UserTypes, OtherTypes

LEMMA TypesStep == Types /\ [ServiceNext]_serviceVars => Types'
<1> SUFFICES ASSUME Types, [ServiceNext]_serviceVars PROVE Types'
    OBVIOUS
<1>a. PoolTypeOK /\ ThreadTypes /\ CounterTypes /\ UserTypes /\ OtherTypes
  BY TypesParts
<1>b. PoolTypeOK'
  BY <1>a, HandlersUsePool, PoolTypeStep
<1>c. ASSUME UNCHANGED <<phase, req, res>> PROVE ThreadTypes'
  BY <1>a, <1>c DEF ThreadTypes, ResponseFits, PhaseFits, IsError
<1>d. ASSUME UNCHANGED counting PROVE CounterTypes'
  BY <1>a, <1>d DEF CounterTypes, counting, metrics
<1>e. ASSUME UNCHANGED counted PROVE UserTypes'
  BY <1>a, <1>e DEF UserTypes, counted
<1>f. ASSUME UNCHANGED <<db_pool, applied, received>> PROVE OtherTypes'
  BY <1>a, <1>f DEF OtherTypes
<1>1. ASSUME NEW t \in Threads, Handle(t) PROVE Types'
  <2>1. ThreadTypes'
    BY <1>1, <1>a, HandleThreadTypes DEF UserTypes
  <2>2. CounterTypes'
    BY <1>1, <1>a, HandleCounterTypes
  <2>3. UserTypes'
    BY <1>1, <1>a, HandleUserTypes DEF ThreadTypes
  <2>4. OtherTypes'
    BY <1>1, <1>f, Quiet
  <2> QED BY <1>b, <2>1, <2>2, <2>3, <2>4, TypesParts
<1>2. ASSUME NEW t \in Threads, NEW ep \in Endpoints, NEW input \in Inputs(ep),
             NEW user \in Nat, Receive(t, ep, input, user)
      PROVE  Types'
  <2>1. ThreadTypes' /\ received' \in 0 .. MaxRequests
    BY <1>2, ReceiveTypes
  <2>2. UNCHANGED <<counting, counted, db_pool, applied>>
    BY <1>2 DEF Receive, counting, counted, database
  <2> QED BY <1>a, <1>b, <1>d, <1>e, <2>1, <2>2, TypesParts DEF OtherTypes
<1>3. ASSUME NEW n \in NodesOf("REPLICA"), Replicate(n) PROVE Types'
  <2>1. applied' = [applied EXCEPT ![n] = @ + 1]
    BY <1>3 DEF Replicate
  <2>2. UNCHANGED <<phase, req, res, counting, counted, db_pool, received>>
    BY <1>3 DEF Replicate, counting, counted, history
  <2>3. OtherTypes'
    BY <1>a, <2>1, <2>2, Bump DEF OtherTypes
  <2> QED BY <1>b, <1>c, <1>d, <1>e, <2>2, <2>3, TypesParts
<1>4. ASSUME NEW n \in Nodes, NodeStops(n) PROVE Types'
  <2>1. UserTypes'
    BY <1>4, <1>a DEF NodeStops, UserTypes, history
  <2>2. UNCHANGED <<phase, req, res, counting, db_pool, applied, received>>
    BY <1>4 DEF NodeStops, counting, history
  <2> QED BY <1>b, <1>c, <1>d, <1>f, <2>1, <2>2, TypesParts
<1>5. CASE UNCHANGED serviceVars
  <2>1. UNCHANGED <<phase, req, res, counting, counted, db_pool, applied, received>>
    BY <1>5 DEF serviceVars, counting, counted, database, history
  <2> QED BY <1>b, <1>c, <1>d, <1>e, <1>f, <2>1, TypesParts
<1>6. ASSUME NEW t \in Threads, NEW ep \in Endpoints, NEW input \in Inputs(ep) \cap Payloads, NEW user \in Users,
             Receive(t, ep, input, IF ep \in {"login", "get"} THEN user ELSE 0)
      PROVE  Types'
  <2>1. (IF ep \in {"login", "get"} THEN user ELSE 0) \in Nat
    BY UsersAssumption
  <2> QED BY <1>6, <1>2, <2>1
<1> QED BY <1>1, <1>3, <1>4, <1>5, <1>6 DEF ServiceNext

\* The variables have their types, and a response is a proper one: on no way
\* through a handler do its return value and its status contradict each other.
THEOREM ServiceTypeCorrect == ServiceSpec => []ServiceTypeOK
<1>1. Types => ServiceTypeOK
  BY DEF Types
<1> QED BY <1>1, TypesInit, TypesStep, PTL DEF ServiceSpec

-----------------------------------------------------------------------------
\* However many threads handle requests, none of them holds a connection when
\* it is outside its try block, and none is inside without one.
THEOREM ConnectionsHeldInTryOnly == ServiceSpec => []HeldOnlyInTry
<1>1. ServiceInit => HeldOnlyInTry
  BY DEF ServiceInit, PoolInit, HeldOnlyInTry
<1>2. Types /\ HeldOnlyInTry /\ [ServiceNext]_serviceVars => HeldOnlyInTry'
  <2> SUFFICES ASSUME Types, HeldOnlyInTry, [ServiceNext]_serviceVars PROVE HeldOnlyInTry'
      OBVIOUS
  <2>a. PoolTypeOK /\ phase \in [Threads -> Phases]
    BY DEF Types, ServiceTypeOK
  <2>b. lent \in [Threads -> SUBSET (Nodes \X Conns)]
    BY <2>a DEF PoolTypeOK
  <2>1. ASSUME NEW t \in Threads, Connect(t) PROVE HeldOnlyInTry'
    <3>1. \E c : lent' = [lent EXCEPT ![t] = {c}]
      <4>1. Preference(req[t].ep) \in Kinds /\ Get(t, Preference(req[t].ep))
        BY <2>1 DEF Connect, Preference, Kinds
      <4> QED BY <4>1, <2>a, GetEffect
    <3> QED BY <2>1, <2>a, <2>b, <3>1 DEF Connect, Goes, HeldOnlyInTry
  <2>2. ASSUME NEW t \in Threads, GiveBack(t) PROVE HeldOnlyInTry'
    <3>1. lent' = [lent EXCEPT ![t] = {}]
      BY <2>2 DEF GiveBack, Destructor, Release
    <3> QED BY <2>2, <2>a, <2>b, <3>1 DEF GiveBack, Goes, HeldOnlyInTry
  <2>3. ASSUME UNCHANGED lent, NEW t \in Threads, NEW to, phase' = [phase EXCEPT ![t] = to],
               to \in {"tally", "query", "commit", "release"}
                   <=> phase[t] \in {"tally", "query", "commit", "release"}
        PROVE  HeldOnlyInTry'
    BY <2>3, <2>a DEF HeldOnlyInTry
  <2>4. ASSUME NEW t \in Threads, Handle(t), ~Connect(t), ~GiveBack(t) PROVE HeldOnlyInTry'
    <3>1. UNCHANGED lent
      BY <2>4, ZenonT(60) DEF Handle, RejectPath, NoRoute, Probe, Dispatch, HandlerThrows, RejectInput,
            RejectNoDb, UseDb, CountHost, QueryFails, Search, NotFound, Found, WrongPassword,
            Insert, Commit, CommitFails, CommitInDoubt, CountTotal, CountOutcome, Respond,
            LocalOnly, InPlace, ConnectFails, GetThrows, poolVars
    <3>2. \E from, to : /\ phase[t] = from /\ phase' = [phase EXCEPT ![t] = to]
                        /\ to \in {"tally", "query", "commit", "release"}
                               <=> from \in {"tally", "query", "commit", "release"}
      BY <2>4 DEF Handle, RejectPath, NoRoute, Probe, Dispatch, HandlerThrows, RejectInput,
            RejectNoDb, UseDb, CountHost, QueryFails, Search, NotFound, Found, WrongPassword,
            Insert, Commit, CommitFails, CommitInDoubt, CountTotal, CountOutcome, Respond,
            ConnectFails, Replies, Goes
    <3> QED BY <3>1, <3>2, <2>3
  <2>5. ASSUME NEW t \in Threads, NEW ep, NEW input, NEW user, Receive(t, ep, input, user)
        PROVE  HeldOnlyInTry'
    BY <2>5, <2>3 DEF Receive, Goes, poolVars
  <2>6. ASSUME UNCHANGED <<phase, lent>> PROVE HeldOnlyInTry'
    BY <2>6 DEF HeldOnlyInTry
  <2>7. ASSUME NEW n, Replicate(n) \/ NodeStops(n) \/ UNCHANGED serviceVars PROVE HeldOnlyInTry'
    BY <2>6, <2>7 DEF Replicate, NodeStops, poolVars, serviceVars
  <2> QED BY <2>1, <2>2, <2>4, <2>5, <2>7 DEF ServiceNext
<1> QED BY <1>1, <1>2, TypesInit, TypesStep, PTL DEF ServiceSpec

\* What ConnectionPoolProofs shows of the pool, for the service: its threads
\* lose, share and misroute no connection ...
THEOREM ServiceKeepsConnections == ServiceSpec => [](Conserved /\ Exclusive /\ RoutedByRole)
BY ServiceUsesPool, ConnectionsConserved, ConnectionsExclusive, RolesRespected, PTL

\* ... and if the pool is not smaller than their number, all of them get one.
THEOREM NoHandlerIsTurnedAway ==
    ASSUME EnoughConnections PROVE ServiceSpec => []NeverExhausted
<1>1. PoolSpec => []NeverExhausted
  BY NobodyIsTurnedAway, MasterAssumption
<1> QED BY <1>1, ServiceUsesPool, PTL

-----------------------------------------------------------------------------
(* The counters, by counting the threads in each phase.                    *)
LEMMA Joins ==
    ASSUME NEW A, NEW B, A \subseteq Threads, NEW t \in Threads, t \notin A, B = A \cup {t}
    PROVE  Cardinality(B) = Cardinality(A) + 1 /\ Cardinality(A) \in Nat
<1>1. IsFiniteSet(A)
  BY ThreadsAssumption, FS_Subset
<1> QED BY <1>1, FS_AddElement, FS_CardinalityType

LEMMA CountsOf ==
    ASSUME ThreadTypes, NEW t \in Threads, NEW ep
    PROVE  /\ CountTotal(t) =>
                With(ep, {"outcome"})' =
                    IF req[t].ep = ep THEN With(ep, {"outcome"}) \cup {t} ELSE With(ep, {"outcome"})
           /\ CountOutcome(t) =>
                With(ep, {"outcome"}) =
                    IF req[t].ep = ep THEN With(ep, {"outcome"})' \cup {t} ELSE With(ep, {"outcome"})'
<1> USE DEF ThreadTypes, With
<1>1. ASSUME CountTotal(t)
      PROVE  With(ep, {"outcome"})' =
                IF req[t].ep = ep THEN With(ep, {"outcome"}) \cup {t} ELSE With(ep, {"outcome"})
  <2>1. phase[t] = "count" /\ phase' = [phase EXCEPT ![t] = "outcome"] /\ req' = req
    BY <1>1 DEF CountTotal, Goes
  <2>2. \A u \in Threads : u \in With(ep, {"outcome"})'
            <=> u \in With(ep, {"outcome"}) \/ (u = t /\ req[t].ep = ep)
    BY <2>1
  <2> QED BY <2>2
<1>2. ASSUME CountOutcome(t)
      PROVE  With(ep, {"outcome"}) =
                IF req[t].ep = ep THEN With(ep, {"outcome"})' \cup {t} ELSE With(ep, {"outcome"})'
  <2>1. phase[t] = "outcome" /\ phase' = [phase EXCEPT ![t] = "respond"] /\ req' = req
    BY <1>2 DEF CountOutcome, Goes
  <2>2. \A u \in Threads : u \in With(ep, {"outcome"})
            <=> u \in With(ep, {"outcome"})' \/ (u = t /\ req[t].ep = ep)
    BY <2>1
  <2> QED BY <2>2
<1> QED BY <1>1, <1>2

\* A step that neither enters nor leaves the increments.
LEMMA NoOutcome ==
    ASSUME ThreadTypes, NEW ep, NEW t \in Threads, NEW to,
           phase' = [phase EXCEPT ![t] = to], phase[t] # "outcome", to # "outcome",
           \A u \in Threads \ {t} : req'[u] = req[u]
    PROVE  With(ep, {"outcome"})' = With(ep, {"outcome"})
<1>1. \A u \in Threads : u \in With(ep, {"outcome"})' <=> u \in With(ep, {"outcome"})
  BY DEF With, ThreadTypes
<1> QED BY <1>1 DEF With

\* Where the other actions of a handler go.
LEMMA Moves ==
    ASSUME ThreadTypes, NEW t \in Threads, Handle(t), ~CountTotal(t), ~CountOutcome(t)
    PROVE  /\ \E to : /\ phase' = [phase EXCEPT ![t] = to] /\ phase[t] # "outcome"
                      /\ to # "outcome"
           /\ \A u \in Threads \ {t} : req'[u] = req[u] /\ res'[u] = res[u]
<1> USE DEF ThreadTypes
<1>1. \E to : phase' = [phase EXCEPT ![t] = to] /\ phase[t] # "outcome" /\ to # "outcome"
  BY DEF Handle, RejectPath, NoRoute, Probe, Dispatch, HandlerThrows, RejectInput, RejectNoDb,
       UseDb, Connect, ConnectFails, CountHost, QueryFails, Search, NotFound, Found,
       WrongPassword, Insert, Commit, CommitFails, CommitInDoubt, GiveBack, Respond, Replies, Goes
<1>2. \/ req' = req \/ \E r : req' = [req EXCEPT ![t] = r]
  BY DEF Handle, RejectPath, NoRoute, Probe, Dispatch, HandlerThrows, RejectInput, RejectNoDb,
       UseDb, Connect, ConnectFails, CountHost, QueryFails, Search, NotFound, Found,
       WrongPassword, Insert, Commit, CommitFails, CommitInDoubt, GiveBack, Respond, Replies, Goes
<1>3. \/ res' = res \/ \E r : res' = [res EXCEPT ![t] = r]
  BY DEF Handle, RejectPath, NoRoute, Probe, Dispatch, HandlerThrows, RejectInput, RejectNoDb,
       UseDb, Connect, ConnectFails, CountHost, QueryFails, Search, NotFound, Found,
       WrongPassword, Insert, Commit, CommitFails, CommitInDoubt, GiveBack, Respond, Replies, Goes
<1> QED BY <1>1, <1>2, <1>3

\* At every moment, total = failed + observed + the requests between the two
\* increments.
LEMMA MetricsAgree == ServiceSpec => []MetricsFit
<1>1. ServiceInit => MetricsFit
  <2> SUFFICES ASSUME ServiceInit, NEW ep \in Api
               PROVE  total[ep] = failed[ep] + observed[ep] + Cardinality(With(ep, {"outcome"}))
      BY DEF MetricsFit
  <2>1. With(ep, {"outcome"}) = {}
    BY DEF ServiceInit, With
  <2>2. total[ep] = 0 /\ failed[ep] = 0 /\ observed[ep] = 0
    BY DEF ServiceInit
  <2> QED BY <2>1, <2>2, FS_EmptySet
<1>2. Types /\ MetricsFit /\ [ServiceNext]_serviceVars => MetricsFit'
  <2> SUFFICES ASSUME Types, MetricsFit, [ServiceNext]_serviceVars PROVE MetricsFit'
      OBVIOUS
  <2>a. ThreadTypes /\ CounterTypes
    BY TypesParts
  <2>b. ASSUME UNCHANGED <<total, failed, observed>>,
               \A ep \in Api : With(ep, {"outcome"})' = With(ep, {"outcome"})
        PROVE  MetricsFit'
    BY <2>b DEF MetricsFit
  <2>c. \A ep : With(ep, {"outcome"}) \subseteq Threads /\ With(ep, {"outcome"})' \subseteq Threads
    BY DEF With
  <2>1. ASSUME NEW t \in Threads, CountTotal(t) PROVE MetricsFit'
    <3> SUFFICES ASSUME NEW ep \in Api
                 PROVE  total'[ep] = failed'[ep] + observed'[ep] + Cardinality(With(ep, {"outcome"})')
        BY DEF MetricsFit
    <3> DEFINE A == With(ep, {"outcome"})
    <3>1. total' = [total EXCEPT ![req[t].ep] = @ + 1] /\ failed' = failed /\ observed' = observed
      BY <2>1 DEF CountTotal
    <3>2. total[ep] = failed[ep] + observed[ep] + Cardinality(A)
      BY DEF MetricsFit
    <3>3. A' = IF req[t].ep = ep THEN A \cup {t} ELSE A
      BY <2>1, <2>a, CountsOf
    <3>4. t \notin A /\ A \subseteq Threads
      BY <2>1 DEF With, CountTotal, Goes
    <3> HIDE DEF A
    <3>5. CASE req[t].ep = ep
      <4>1. Cardinality(A') = Cardinality(A) + 1 /\ Cardinality(A) \in Nat
        BY <3>3, <3>4, <3>5, Joins
      <4> QED BY <3>1, <3>2, <3>5, <4>1, <2>a DEF CounterTypes, A
    <3>6. CASE req[t].ep # ep
      BY <3>1, <3>2, <3>3, <3>6, <2>a DEF CounterTypes, A
    <3> QED BY <3>5, <3>6
  <2>2. ASSUME NEW t \in Threads, CountOutcome(t) PROVE MetricsFit'
    <3> SUFFICES ASSUME NEW ep \in Api
                 PROVE  total'[ep] = failed'[ep] + observed'[ep] + Cardinality(With(ep, {"outcome"})')
        BY DEF MetricsFit
    <3> DEFINE A == With(ep, {"outcome"})
               a == IF res[t].ok THEN 1 ELSE 0
               b == IF res[t].ok THEN 0 ELSE 1
    <3>1. /\ total' = total
          /\ observed' = [observed EXCEPT ![req[t].ep] = @ + a]
          /\ failed' = [failed EXCEPT ![req[t].ep] = @ + b]
      BY <2>2 DEF CountOutcome, Timed
    <3>2. total[ep] = failed[ep] + observed[ep] + Cardinality(A)
      BY DEF MetricsFit
    <3>3. A = IF req[t].ep = ep THEN A' \cup {t} ELSE A'
      BY <2>2, <2>a, CountsOf
    <3>4. t \notin A' /\ A' \subseteq Threads
      BY <2>2, <2>a DEF With, CountOutcome, Goes, ThreadTypes
    <3>7. a \in Nat /\ b \in Nat /\ a + b = 1
      OBVIOUS
    <3> HIDE DEF A, a, b
    <3>5. CASE req[t].ep = ep
      <4>1. Cardinality(A) = Cardinality(A') + 1 /\ Cardinality(A') \in Nat
        BY <3>3, <3>4, <3>5, Joins
      <4>2. /\ observed'[ep] = observed[ep] + a /\ failed'[ep] = failed[ep] + b
            /\ total'[ep] = total[ep]
            /\ observed[ep] \in Nat /\ failed[ep] \in Nat /\ total[ep] \in Nat
        BY <3>1, <3>5, <2>a DEF CounterTypes
      <4>3. total[ep] = (failed[ep] + b) + (observed[ep] + a) + Cardinality(A')
        BY <3>2, <3>7, <4>1, <4>2
      <4> QED BY <4>2, <4>3 DEF A
    <3>6. CASE req[t].ep # ep
      <4>2. /\ observed'[ep] = observed[ep] /\ failed'[ep] = failed[ep]
            /\ total'[ep] = total[ep]
        BY <3>1, <3>6, <2>a DEF CounterTypes
      <4> QED BY <3>2, <3>3, <3>6, <4>2 DEF A
    <3> QED BY <3>5, <3>6
  <2>3. ASSUME NEW t \in Threads, Handle(t), ~CountTotal(t), ~CountOutcome(t) PROVE MetricsFit'
    <3>1. \A ep : With(ep, {"outcome"})' = With(ep, {"outcome"})
      BY <2>3, <2>a, Moves, NoOutcome
    <3>2. UNCHANGED <<total, failed, observed>>
      BY <2>3, ZenonT(60) DEF Handle, RejectPath, NoRoute, Probe, Dispatch, HandlerThrows, RejectInput,
            RejectNoDb, UseDb, Connect, ConnectFails, CountHost, QueryFails, Search, NotFound,
            Found, WrongPassword, Insert, Commit, CommitFails, CommitInDoubt, GiveBack, Respond,
            LocalOnly, InPlace, metrics
    <3> QED BY <3>1, <3>2, <2>b
  <2>4. ASSUME NEW t \in Threads, NEW ep, NEW input, NEW user, Receive(t, ep, input, user)
        PROVE  MetricsFit'
    <3>1. /\ phase' = [phase EXCEPT ![t] = "routing"] /\ phase[t] # "outcome"
          /\ \A u \in Threads \ {t} : req'[u] = req[u]
          /\ UNCHANGED <<total, failed, observed>>
      BY <2>4, <2>a DEF Receive, Goes, metrics, ThreadTypes
    <3> QED BY <3>1, <2>a, <2>b, NoOutcome
  <2>5. ASSUME NEW n, Replicate(n) \/ NodeStops(n) \/ UNCHANGED serviceVars PROVE MetricsFit'
    <3>1. UNCHANGED <<phase, req, total, failed, observed>>
      BY <2>5 DEF Replicate, NodeStops, serviceVars, metrics
    <3> QED BY <3>1, <2>b DEF With
  <2> QED BY <2>1, <2>2, <2>3, <2>4, <2>5 DEF ServiceNext
<1> QED BY <1>1, <1>2, TypesInit, TypesStep, PTL DEF ServiceSpec

-----------------------------------------------------------------------------
(* The scrape, which reads while the threads count.                        *)
LEMMA CountersGrow ==
    ASSUME Types, [ServiceNext]_serviceVars, NEW ep \in Api
    PROVE  /\ failed[ep] \in Nat /\ failed'[ep] \in Nat /\ failed[ep] <= failed'[ep]
           /\ observed[ep] \in Nat /\ observed'[ep] \in Nat /\ observed[ep] <= observed'[ep]
<1>1. CounterTypes /\ CounterTypes'
  BY TypesStep, TypesParts
<1>2. \/ UNCHANGED <<failed, observed>>
      \/ \E t \in Threads : CountOutcome(t)
  <2>1. ASSUME NEW t \in Threads, Handle(t), ~CountOutcome(t) PROVE UNCHANGED <<failed, observed>>
    BY <2>1, ZenonT(60) DEF Handle, RejectPath, NoRoute, Probe, Dispatch, HandlerThrows, RejectInput,
          RejectNoDb, UseDb, Connect, ConnectFails, CountHost, QueryFails, Search, NotFound,
          Found, WrongPassword, Insert, Commit, CommitFails, CommitInDoubt, GiveBack, CountTotal,
          Respond, LocalOnly, InPlace, metrics
  <2>2. ASSUME NEW t, NEW e, NEW input, NEW user, Receive(t, e, input, user)
        PROVE  UNCHANGED <<failed, observed>>
    BY <2>2 DEF Receive, metrics
  <2>3. ASSUME NEW n, Replicate(n) \/ NodeStops(n) \/ UNCHANGED serviceVars
        PROVE  UNCHANGED <<failed, observed>>
    BY <2>3 DEF Replicate, NodeStops, serviceVars, metrics
  <2> QED BY <2>1, <2>2, <2>3 DEF ServiceNext
<1>3. ASSUME NEW t \in Threads, CountOutcome(t)
      PROVE  failed[ep] <= failed'[ep] /\ observed[ep] <= observed'[ep]
  <2>1. PICK a \in Nat : observed' = [observed EXCEPT ![req[t].ep] = @ + a]
    BY <1>3 DEF CountOutcome
  <2>2. PICK b \in Nat : failed' = [failed EXCEPT ![req[t].ep] = @ + b]
    BY <1>3 DEF CountOutcome
  <2>3. failed'[ep] \in {failed[ep], failed[ep] + b} /\ observed'[ep] \in {observed[ep], observed[ep] + a}
    BY <1>1, <2>1, <2>2 DEF CounterTypes
  <2> QED BY <1>1, <2>3 DEF CounterTypes
<1> QED BY <1>1, <1>2, <1>3 DEF CounterTypes

LEMMA StepOfScrape == [ScrapeNext]_scrapeVars => [ServiceNext]_serviceVars
BY DEF ScrapeNext, scrapeVars, Collect, ReadTotal, ReadFailed, ReadTimed, Shows

\* A scrape changes nothing: every theorem on ServiceSpec is one on ScrapeSpec.
THEOREM ScrapeOnlyReads == ScrapeSpec => ServiceSpec
<1>1. ScrapeInit => ServiceInit
  BY DEF ScrapeInit
<1> QED BY <1>1, StepOfScrape, PTL DEF ScrapeSpec, ServiceSpec

\* What the values read so far say, with those that are still to be read.
SampleTypes ==
    /\ sample.step \in {"none", "total", "failed", "timed"} /\ sample.ep \in Api
    /\ sample.total \in Nat /\ sample.failed \in Nat /\ sample.timed \in Nat /\ sample.between \in Nat
    /\ sample = [step |-> sample.step, ep |-> sample.ep, total |-> sample.total,
                 failed |-> sample.failed, timed |-> sample.timed, between |-> sample.between]

SampleKeepsUp ==
    /\ sample.step = "total" =>
          sample.total <= failed[sample.ep] + observed[sample.ep] + sample.between
    /\ sample.step = "failed" =>
          /\ sample.failed <= failed[sample.ep]
          /\ sample.total <= sample.failed + observed[sample.ep] + sample.between
    /\ sample.step = "timed" =>
          /\ sample.failed <= failed[sample.ep] /\ sample.timed <= observed[sample.ep]
          /\ sample.total <= sample.failed + sample.timed + sample.between

LEMMA SampleInit == ScrapeInit => SampleTypes /\ SampleKeepsUp
BY DEF ScrapeInit, NoSample, SampleTypes, SampleKeepsUp, Api

LEMMA SampleStep ==
    Types /\ MetricsFit /\ SampleTypes /\ SampleKeepsUp /\ [ScrapeNext]_scrapeVars
        => SampleTypes' /\ SampleKeepsUp'
<1> SUFFICES ASSUME Types, MetricsFit, SampleTypes, SampleKeepsUp, [ScrapeNext]_scrapeVars
             PROVE  SampleTypes' /\ SampleKeepsUp'
    OBVIOUS
<1>a. \A ep \in Api : /\ total[ep] \in Nat /\ failed[ep] \in Nat /\ observed[ep] \in Nat
                      /\ Cardinality(With(ep, {"outcome"})) \in Nat
                      /\ total[ep] = failed[ep] + observed[ep] + Cardinality(With(ep, {"outcome"}))
  <2> TAKE ep \in Api
  <2>1. IsFiniteSet(With(ep, {"outcome"}))
    BY ThreadsAssumption, FS_Subset DEF With
  <2> QED BY <2>1, FS_CardinalityType, TypesParts DEF CounterTypes, MetricsFit
<1>1. ASSUME NEW ep \in Observed, ReadTotal(ep) PROVE SampleTypes' /\ SampleKeepsUp'
  <2> DEFINE c == Cardinality(With(ep, {"outcome"}))
  <2>1. ep \in Api
    BY ObservedAssumption
  <2>2. /\ UNCHANGED <<failed, observed>>
        /\ sample' = [step |-> "total", ep |-> ep, total |-> total[ep], failed |-> 0, timed |-> 0,
                      between |-> c]
    BY <1>1 DEF ReadTotal, Shows, NoSample, serviceVars, metrics
  <2>3. /\ total[ep] \in Nat /\ failed[ep] \in Nat /\ observed[ep] \in Nat /\ c \in Nat
        /\ total[ep] = failed[ep] + observed[ep] + c
    BY <1>a, <2>1
  <2> HIDE DEF c
  <2> QED BY <2>1, <2>2, <2>3 DEF SampleTypes, SampleKeepsUp
<1>2. CASE ReadFailed
  <2>1. /\ sample.step = "total" /\ UNCHANGED <<failed, observed>>
        /\ sample' = [step |-> "failed", ep |-> sample.ep, total |-> sample.total,
                      failed |-> failed[sample.ep], timed |-> sample.timed, between |-> sample.between]
    BY <1>2 DEF ReadFailed, Shows, SampleTypes, serviceVars, metrics
  <2> QED BY <1>a, <2>1 DEF SampleTypes, SampleKeepsUp
<1>3. CASE ReadTimed
  <2>1. /\ sample.step = "failed" /\ UNCHANGED <<failed, observed>>
        /\ sample' = [step |-> "timed", ep |-> sample.ep, total |-> sample.total,
                      failed |-> sample.failed, timed |-> observed[sample.ep], between |-> sample.between]
    BY <1>3 DEF ReadTimed, Shows, SampleTypes, serviceVars, metrics
  <2> QED BY <1>a, <2>1 DEF SampleTypes, SampleKeepsUp
<1>4. CASE [ServiceNext]_serviceVars /\ UNCHANGED sample
  <2>1. sample.ep \in Api
    BY DEF SampleTypes
  <2>2. PICK e \in Api : e = sample.ep
    BY <2>1
  <2>3. /\ failed[e] \in Nat /\ failed'[e] \in Nat /\ failed[e] <= failed'[e]
        /\ observed[e] \in Nat /\ observed'[e] \in Nat /\ observed[e] <= observed'[e]
    BY <1>4, CountersGrow
  <2> QED BY <1>4, <2>2, <2>3 DEF SampleTypes, SampleKeepsUp
<1> QED BY <1>1, <1>2, <1>3, <1>4 DEF ScrapeNext, Collect, scrapeVars

\* However far the threads count between the three reads of a scrape, failed and
\* timed requests cover the total it shows, but for the requests that were between
\* the two increments when it began, and no more than is counted when it ends.
THEOREM SamplesAgree == ScrapeSpec => []SampleFits
<1>1. ScrapeSpec => [](Types /\ MetricsFit)
  BY ScrapeOnlyReads, MetricsAgree, TypesInit, TypesStep, PTL DEF ServiceSpec
<1>2. Types /\ MetricsFit /\ SampleTypes /\ SampleKeepsUp => SampleFits
  <2> SUFFICES ASSUME Types, MetricsFit, SampleTypes, SampleKeepsUp, sample.step = "timed"
               PROVE  /\ sample.total <= sample.failed + sample.timed + sample.between
                      /\ sample.failed + sample.timed <= total[sample.ep]
      BY DEF SampleFits
  <2>1. PICK e \in Api : e = sample.ep
    BY DEF SampleTypes
  <2>2. IsFiniteSet(With(e, {"outcome"}))
    BY ThreadsAssumption, FS_Subset DEF With
  <2>3. PICK c \in Nat : c = Cardinality(With(e, {"outcome"}))
    BY <2>2, FS_CardinalityType
  <2>4. /\ total[e] \in Nat /\ failed[e] \in Nat /\ observed[e] \in Nat
        /\ total[e] = failed[e] + observed[e] + c
    BY <2>3, TypesParts DEF CounterTypes, MetricsFit
  <2> QED BY <2>1, <2>4 DEF SampleTypes, SampleKeepsUp
<1> QED BY <1>1, <1>2, SampleInit, SampleStep, PTL DEF ScrapeSpec

-----------------------------------------------------------------------------
(* The failed and the timed requests, against the answers.                 *)

\* The requests of ep that are about to be answered: with an error, without.
Bad(ep)  == {t \in With(ep, {"respond"}) : IsError(t)}
Good(ep) == With(ep, {"respond"}) \ Bad(ep)

LEMMA FitsByEndpoint ==
    /\ FailedFitsAnswers <=> \A ep \in Api \cap Endpoints :
           /\ failed[ep] + thrown[ep] = errors[ep] + Cardinality(Bad(ep))
           /\ observed[ep] = answered[ep] - errors[ep] + Cardinality(Good(ep))
    /\ FailedFitsAnswers' <=> \A ep \in Api \cap Endpoints :
           /\ failed'[ep] + thrown'[ep] = errors'[ep] + Cardinality(Bad(ep)')
           /\ observed'[ep] = answered'[ep] - errors'[ep] + Cardinality(Good(ep)')
BY DEF FailedFitsAnswers, Bad, Good

LEMMA SendingFinite ==
    \A ep : /\ Bad(ep) \subseteq Threads /\ Good(ep) \subseteq Threads
            /\ Bad(ep)' \subseteq Threads /\ Good(ep)' \subseteq Threads
            /\ Cardinality(Bad(ep)) \in Nat /\ Cardinality(Good(ep)) \in Nat
            /\ Cardinality(Bad(ep)') \in Nat /\ Cardinality(Good(ep)') \in Nat
<1> SUFFICES ASSUME NEW ep
             PROVE  /\ Bad(ep) \subseteq Threads /\ Good(ep) \subseteq Threads
                    /\ Bad(ep)' \subseteq Threads /\ Good(ep)' \subseteq Threads
                    /\ Cardinality(Bad(ep)) \in Nat /\ Cardinality(Good(ep)) \in Nat
                    /\ Cardinality(Bad(ep)') \in Nat /\ Cardinality(Good(ep)') \in Nat
    OBVIOUS
<1>1. /\ Bad(ep) \subseteq Threads /\ Good(ep) \subseteq Threads
      /\ Bad(ep)' \subseteq Threads /\ Good(ep)' \subseteq Threads
  BY DEF Bad, Good, With
<1>2. \A A : A \subseteq Threads => Cardinality(A) \in Nat
  BY ThreadsAssumption, FS_Subset, FS_CardinalityType
<1> QED BY <1>1, <1>2

\* A request reaches the point where it is answered.
LEMMA Arrives ==
    ASSUME ThreadTypes, NEW t \in Threads, NEW ep, phase[t] # "respond",
           phase' = [phase EXCEPT ![t] = "respond"], req' = req,
           res' = res \/ \E r : res' = [res EXCEPT ![t] = r]
    PROVE  /\ req[t].ep = ep /\ IsError(t)' =>
                /\ Bad(ep)' = Bad(ep) \cup {t} /\ Good(ep)' = Good(ep)
                /\ t \notin Bad(ep)
           /\ req[t].ep = ep /\ ~IsError(t)' =>
                /\ Bad(ep)' = Bad(ep) /\ Good(ep)' = Good(ep) \cup {t}
                /\ t \notin Good(ep)
           /\ req[t].ep # ep => Bad(ep)' = Bad(ep) /\ Good(ep)' = Good(ep)
<1>1. \A u \in Threads \ {t} : phase'[u] = phase[u] /\ req'[u] = req[u] /\ res'[u] = res[u]
  BY DEF ThreadTypes
<1>2. \A u \in Threads \ {t} : (u \in Bad(ep)' <=> u \in Bad(ep)) /\ (u \in Good(ep)' <=> u \in Good(ep))
  BY <1>1 DEF Bad, Good, With, IsError
<1>3. phase'[t] = "respond" /\ req'[t] = req[t]
  BY DEF ThreadTypes
<1>4. t \notin Bad(ep) /\ t \notin Good(ep)
  BY DEF Bad, Good, With
<1>5. /\ t \in Bad(ep)' <=> req[t].ep = ep /\ IsError(t)'
      /\ t \in Good(ep)' <=> req[t].ep = ep /\ ~IsError(t)'
  BY <1>3 DEF Bad, Good, With
<1>6. /\ Bad(ep) \subseteq Threads /\ Good(ep) \subseteq Threads
      /\ Bad(ep)' \subseteq Threads /\ Good(ep)' \subseteq Threads
  BY SendingFinite
<1> QED BY <1>2, <1>4, <1>5, <1>6

\* ... and leaves it.
LEMMA Leaves ==
    ASSUME ThreadTypes, NEW t \in Threads, NEW ep, Respond(t)
    PROVE  /\ req[t].ep = ep /\ IsError(t) =>
                /\ Bad(ep) = Bad(ep)' \cup {t} /\ Good(ep)' = Good(ep)
                /\ t \notin Bad(ep)'
           /\ req[t].ep = ep /\ ~IsError(t) =>
                /\ Bad(ep)' = Bad(ep) /\ Good(ep) = Good(ep)' \cup {t}
                /\ t \notin Good(ep)'
           /\ req[t].ep # ep => Bad(ep)' = Bad(ep) /\ Good(ep)' = Good(ep)
<1>0. /\ phase[t] = "respond" /\ phase' = [phase EXCEPT ![t] = "idle"]
      /\ req' = [req EXCEPT ![t] = NoRequest] /\ res' = [res EXCEPT ![t] = NoResponse]
  BY DEF Respond, Goes
<1>1. \A u \in Threads \ {t} : phase'[u] = phase[u] /\ req'[u] = req[u] /\ res'[u] = res[u]
  BY <1>0 DEF ThreadTypes
<1>2. \A u \in Threads \ {t} : (u \in Bad(ep)' <=> u \in Bad(ep)) /\ (u \in Good(ep)' <=> u \in Good(ep))
  BY <1>1 DEF Bad, Good, With, IsError
<1>3. phase'[t] = "idle"
  BY <1>0 DEF ThreadTypes
<1>4. t \notin Bad(ep)' /\ t \notin Good(ep)'
  BY <1>3 DEF Bad, Good, With
<1>5. /\ t \in Bad(ep) <=> req[t].ep = ep /\ IsError(t)
      /\ t \in Good(ep) <=> req[t].ep = ep /\ ~IsError(t)
  BY <1>0 DEF Bad, Good, With
<1>6. /\ Bad(ep) \subseteq Threads /\ Good(ep) \subseteq Threads
      /\ Bad(ep)' \subseteq Threads /\ Good(ep)' \subseteq Threads
  BY SendingFinite
<1> QED BY <1>2, <1>4, <1>5, <1>6

LEMMA Stays ==
    ASSUME ThreadTypes, NEW t \in Threads, NEW ep, phase[t] # "respond",
           NEW to, phase' = [phase EXCEPT ![t] = to], to # "respond",
           \A u \in Threads \ {t} : req'[u] = req[u] /\ res'[u] = res[u]
    PROVE  Bad(ep)' = Bad(ep) /\ Good(ep)' = Good(ep)
<1>1. \A u \in Threads : (u \in Bad(ep)' <=> u \in Bad(ep)) /\ (u \in Good(ep)' <=> u \in Good(ep))
  BY DEF Bad, Good, With, IsError, ThreadTypes
<1> QED BY <1>1, SendingFinite

\* The failed counter and the number of timed requests are those of the
\* answers, but for the requests that threw and the answers on their way.
THEOREM FailuresAgree == ServiceSpec => []FailedFitsAnswers
<1>1. ServiceInit => FailedFitsAnswers
  <2> SUFFICES ASSUME ServiceInit, NEW ep \in Api \cap Endpoints
               PROVE  /\ failed[ep] + thrown[ep] = errors[ep] + Cardinality(Bad(ep))
                      /\ observed[ep] = answered[ep] - errors[ep] + Cardinality(Good(ep))
      BY FitsByEndpoint
  <2>1. Bad(ep) = {} /\ Good(ep) = {}
    BY DEF ServiceInit, With, Bad, Good
  <2>2. failed[ep] = 0 /\ observed[ep] = 0 /\ thrown[ep] = 0 /\ errors[ep] = 0 /\ answered[ep] = 0
    BY DEF ServiceInit
  <2> QED BY <2>1, <2>2, FS_EmptySet
<1>2. Types /\ FailedFitsAnswers /\ [ServiceNext]_serviceVars => FailedFitsAnswers'
  <2> SUFFICES ASSUME Types, FailedFitsAnswers, [ServiceNext]_serviceVars PROVE FailedFitsAnswers'
      OBVIOUS
  <2>a. ThreadTypes /\ CounterTypes
    BY TypesParts
  <2>b. ASSUME UNCHANGED <<failed, observed, thrown, errors, answered>>,
               \A ep \in Api : Bad(ep)' = Bad(ep) /\ Good(ep)' = Good(ep)
        PROVE  FailedFitsAnswers'
    BY <2>b, FitsByEndpoint
  <2>c. \A ep \in Api \cap Endpoints :
           /\ failed[ep] + thrown[ep] = errors[ep] + Cardinality(Bad(ep))
           /\ observed[ep] = answered[ep] - errors[ep] + Cardinality(Good(ep))
           /\ failed[ep] \in Nat /\ thrown[ep] \in Nat /\ errors[ep] \in Nat
           /\ observed[ep] \in Nat /\ answered[ep] \in Nat
    BY <2>a, FitsByEndpoint DEF CounterTypes
  <2>1. ASSUME NEW t \in Threads, RejectPath(t) \/ NoRoute(t) \/ Probe(t) PROVE FailedFitsAnswers'
    <3>1. /\ phase[t] = "routing" /\ phase' = [phase EXCEPT ![t] = "respond"] /\ req' = req
          /\ \E r : res' = [res EXCEPT ![t] = r]
          /\ req[t].ep \notin Api
          /\ UNCHANGED <<failed, observed, thrown, errors, answered>>
      BY <2>1 DEF RejectPath, NoRoute, Probe, Replies, Goes, LocalOnly, metrics, history, Api, Probes
    <3> QED BY <3>1, <2>a, <2>b, Arrives
  <2>2. ASSUME NEW t \in Threads, HandlerThrows(t) PROVE FailedFitsAnswers'
    <3> SUFFICES ASSUME NEW ep \in Api \cap Endpoints
                 PROVE  /\ failed'[ep] + thrown'[ep] = errors'[ep] + Cardinality(Bad(ep)')
                        /\ observed'[ep] = answered'[ep] - errors'[ep] + Cardinality(Good(ep)')
        BY FitsByEndpoint
    <3>c. /\ failed[ep] + thrown[ep] = errors[ep] + Cardinality(Bad(ep))
          /\ observed[ep] = answered[ep] - errors[ep] + Cardinality(Good(ep))
          /\ failed[ep] \in Nat /\ thrown[ep] \in Nat /\ errors[ep] \in Nat
          /\ observed[ep] \in Nat /\ answered[ep] \in Nat
          /\ Cardinality(Bad(ep)) \in Nat /\ Cardinality(Good(ep)) \in Nat
          /\ Cardinality(Bad(ep)') \in Nat /\ Cardinality(Good(ep)') \in Nat
      BY <2>c, SendingFinite
    <3>1. PICK r : /\ r = [status |-> 500, body |-> "html", ok |-> FALSE]
                   /\ res' = [res EXCEPT ![t] = r]
      BY <2>2 DEF HandlerThrows
    <3>2. r.status = 500
      BY <3>1
    <3>3. /\ phase[t] = "handler" /\ phase' = [phase EXCEPT ![t] = "respond"] /\ req' = req
          /\ thrown' = [thrown EXCEPT ![req[t].ep] = @ + 1]
          /\ UNCHANGED <<failed, observed, errors, answered>>
      BY <2>2 DEF HandlerThrows, Goes, metrics
    <3>4. IsError(t)'
      BY <3>1, <3>2, <2>a DEF IsError, ThreadTypes
    <3>5. CASE req[t].ep = ep
      <4>1. /\ Bad(ep)' = Bad(ep) \cup {t} /\ Good(ep)' = Good(ep) /\ t \notin Bad(ep)
        BY <3>1, <3>3, <3>4, <3>5, <2>a, Arrives
      <4>2. Cardinality(Bad(ep)') = Cardinality(Bad(ep)) + 1
        BY <4>1, Joins, SendingFinite
      <4>3. thrown'[ep] = thrown[ep] + 1
        BY <3>3, <3>5, <2>a DEF CounterTypes
      <4>4. /\ failed'[ep] = failed[ep] /\ errors'[ep] = errors[ep]
            /\ observed'[ep] = observed[ep] /\ answered'[ep] = answered[ep]
            /\ Cardinality(Good(ep)') = Cardinality(Good(ep))
        BY <3>3, <4>1
      <4> QED BY <4>2, <4>3, <4>4, <3>c
    <3>6. CASE req[t].ep # ep
      <4>1. Bad(ep)' = Bad(ep) /\ Good(ep)' = Good(ep)
        BY <3>1, <3>3, <3>6, <2>a, Arrives
      <4>2. thrown'[ep] = thrown[ep]
        BY <3>3, <3>6, <2>a DEF CounterTypes
      <4> QED BY <3>3, <4>1, <4>2, <3>c
    <3> QED BY <3>5, <3>6
  <2>3. ASSUME NEW t \in Threads, CountOutcome(t) PROVE FailedFitsAnswers'
    <3> SUFFICES ASSUME NEW ep \in Api \cap Endpoints
                 PROVE  /\ failed'[ep] + thrown'[ep] = errors'[ep] + Cardinality(Bad(ep)')
                        /\ observed'[ep] = answered'[ep] - errors'[ep] + Cardinality(Good(ep)')
        BY FitsByEndpoint
    <3>c. /\ failed[ep] + thrown[ep] = errors[ep] + Cardinality(Bad(ep))
          /\ observed[ep] = answered[ep] - errors[ep] + Cardinality(Good(ep))
          /\ failed[ep] \in Nat /\ thrown[ep] \in Nat /\ errors[ep] \in Nat
          /\ observed[ep] \in Nat /\ answered[ep] \in Nat
          /\ Cardinality(Bad(ep)) \in Nat /\ Cardinality(Good(ep)) \in Nat
          /\ Cardinality(Bad(ep)') \in Nat /\ Cardinality(Good(ep)') \in Nat
      BY <2>c, SendingFinite
    <3> DEFINE a == IF res[t].ok THEN 1 ELSE 0
               b == IF res[t].ok THEN 0 ELSE 1
    <3>1. /\ phase[t] = "outcome" /\ phase' = [phase EXCEPT ![t] = "respond"]
          /\ req' = req /\ res' = res
          /\ observed' = [observed EXCEPT ![req[t].ep] = @ + a]
          /\ failed' = [failed EXCEPT ![req[t].ep] = @ + b]
          /\ UNCHANGED <<thrown, errors, answered>>
      BY <2>3 DEF CountOutcome, Timed, Goes, history
    <3>1u. thrown'[ep] = thrown[ep] /\ errors'[ep] = errors[ep] /\ answered'[ep] = answered[ep]
      BY <3>1
    <3>2. IsError(t)' <=> ~res[t].ok
      BY <3>1, <2>a DEF IsError, ThreadTypes, ResponseFits
    <3>5. CASE req[t].ep = ep
      <4>1. observed'[ep] = observed[ep] + a /\ failed'[ep] = failed[ep] + b
        BY <3>1, <3>5, <2>a DEF CounterTypes
      <4>2. CASE res[t].ok
        <5>1. /\ Bad(ep)' = Bad(ep) /\ Good(ep)' = Good(ep) \cup {t} /\ t \notin Good(ep)
          BY <3>1, <3>2, <3>5, <4>2, <2>a, Arrives
        <5>2. Cardinality(Good(ep)') = Cardinality(Good(ep)) + 1
          BY <5>1, Joins, SendingFinite
        <5>3. a = 1 /\ b = 0
          BY <4>2
        <5>4. Cardinality(Bad(ep)') = Cardinality(Bad(ep))
          BY <5>1
        <5> HIDE DEF a, b
        <5> QED BY <3>1u, <4>1, <5>2, <5>3, <5>4, <3>c
      <4>3. CASE ~res[t].ok
        <5>1. /\ Bad(ep)' = Bad(ep) \cup {t} /\ Good(ep)' = Good(ep) /\ t \notin Bad(ep)
          BY <3>1, <3>2, <3>5, <4>3, <2>a, Arrives
        <5>2. Cardinality(Bad(ep)') = Cardinality(Bad(ep)) + 1
          BY <5>1, Joins, SendingFinite
        <5>3. a = 0 /\ b = 1
          BY <4>3
        <5>4. Cardinality(Good(ep)') = Cardinality(Good(ep))
          BY <5>1
        <5> HIDE DEF a, b
        <5> QED BY <3>1u, <4>1, <5>2, <5>3, <5>4, <3>c
      <4> QED BY <4>2, <4>3
    <3>6. CASE req[t].ep # ep
      <4>1. Bad(ep)' = Bad(ep) /\ Good(ep)' = Good(ep)
        BY <3>1, <3>6, <2>a, Arrives
      <4>2. observed'[ep] = observed[ep] /\ failed'[ep] = failed[ep]
        BY <3>1, <3>6, <2>a DEF CounterTypes
      <4>3. Cardinality(Bad(ep)') = Cardinality(Bad(ep)) /\ Cardinality(Good(ep)') = Cardinality(Good(ep))
        BY <4>1
      <4> QED BY <3>1u, <4>2, <4>3, <3>c
    <3> QED BY <3>5, <3>6
  <2>4. ASSUME NEW t \in Threads, Respond(t) PROVE FailedFitsAnswers'
    <3> SUFFICES ASSUME NEW ep \in Api \cap Endpoints
                 PROVE  /\ failed'[ep] + thrown'[ep] = errors'[ep] + Cardinality(Bad(ep)')
                        /\ observed'[ep] = answered'[ep] - errors'[ep] + Cardinality(Good(ep)')
        BY FitsByEndpoint
    <3>c. /\ failed[ep] + thrown[ep] = errors[ep] + Cardinality(Bad(ep))
          /\ observed[ep] = answered[ep] - errors[ep] + Cardinality(Good(ep))
          /\ failed[ep] \in Nat /\ thrown[ep] \in Nat /\ errors[ep] \in Nat
          /\ observed[ep] \in Nat /\ answered[ep] \in Nat
          /\ Cardinality(Bad(ep)) \in Nat /\ Cardinality(Good(ep)) \in Nat
          /\ Cardinality(Bad(ep)') \in Nat /\ Cardinality(Good(ep)') \in Nat
      BY <2>c, SendingFinite
    <3> DEFINE a == IF IsError(t) THEN 1 ELSE 0
    <3>1. /\ answered' = [answered EXCEPT ![req[t].ep] = @ + 1]
          /\ errors' = [errors EXCEPT ![req[t].ep] = @ + a]
          /\ UNCHANGED <<failed, observed, thrown>>
      BY <2>4 DEF Respond, metrics
    <3>5. CASE req[t].ep = ep
      <4>1. answered'[ep] = answered[ep] + 1 /\ errors'[ep] = errors[ep] + a
        BY <3>1, <3>5, <2>a DEF CounterTypes
      <4>2. CASE IsError(t)
        <5>1. /\ Bad(ep) = Bad(ep)' \cup {t} /\ Good(ep)' = Good(ep) /\ t \notin Bad(ep)'
          BY <2>4, <3>5, <4>2, <2>a, Leaves
        <5>2. Cardinality(Bad(ep)) = Cardinality(Bad(ep)') + 1
          BY <5>1, Joins, SendingFinite
        <5>3. a = 1
          BY <4>2
        <5> HIDE DEF a
        <5> QED BY <3>1, <4>1, <5>1, <5>2, <5>3, <3>c
      <4>3. CASE ~IsError(t)
        <5>1. /\ Bad(ep)' = Bad(ep) /\ Good(ep) = Good(ep)' \cup {t} /\ t \notin Good(ep)'
          BY <2>4, <3>5, <4>3, <2>a, Leaves
        <5>2. Cardinality(Good(ep)) = Cardinality(Good(ep)') + 1
          BY <5>1, Joins, SendingFinite
        <5>3. a = 0
          BY <4>3
        <5> HIDE DEF a
        <5>4. errors'[ep] = errors[ep]
          BY <4>1, <5>3, <3>c
        <5>5. failed'[ep] + thrown'[ep] = errors'[ep] + Cardinality(Bad(ep)')
          BY <3>1, <5>1, <5>4, <3>c
        <5>6. observed'[ep] = observed[ep] /\ answered'[ep] = answered[ep] + 1
          BY <3>1, <4>1
        <5>7. observed'[ep] = answered'[ep] - errors'[ep] + Cardinality(Good(ep)')
          BY <5>2, <5>4, <5>6, <3>c
        <5> QED BY <5>5, <5>7
      <4> QED BY <4>2, <4>3
    <3>6. CASE req[t].ep # ep
      <4>1. Bad(ep)' = Bad(ep) /\ Good(ep)' = Good(ep)
        BY <2>4, <3>6, <2>a, Leaves
      <4>2. answered'[ep] = answered[ep] /\ errors'[ep] = errors[ep]
        BY <3>1, <3>6, <2>a DEF CounterTypes
      <4> QED BY <3>1, <4>1, <4>2, <3>c
    <3> QED BY <3>5, <3>6
  <2>5. ASSUME NEW t \in Threads, Handle(t), ~RejectPath(t), ~NoRoute(t), ~Probe(t),
               ~HandlerThrows(t), ~CountOutcome(t), ~Respond(t)
        PROVE  FailedFitsAnswers'
    <3>1. \E to : phase' = [phase EXCEPT ![t] = to] /\ phase[t] # "respond" /\ to # "respond"
      BY <2>5, SMTT(40) DEF Handle, Dispatch, RejectInput, RejectNoDb, UseDb, Connect, ConnectFails,
            CountHost, QueryFails, Search, NotFound, Found, WrongPassword, Insert, Commit,
            CommitFails, CommitInDoubt, GiveBack, CountTotal, Replies, Goes
    <3>2. /\ req' = req \/ \E r : req' = [req EXCEPT ![t] = r]
          /\ res' = res \/ \E r : res' = [res EXCEPT ![t] = r]
      BY <2>5 DEF Handle, Dispatch, RejectInput, RejectNoDb, UseDb, Connect, ConnectFails,
            CountHost, QueryFails, Search, NotFound, Found, WrongPassword, Insert, Commit,
            CommitFails, CommitInDoubt, GiveBack, CountTotal, Replies, Goes
    <3>3. UNCHANGED <<failed, observed, thrown, errors, answered>>
      BY <2>5 DEF Handle, Dispatch, RejectInput, RejectNoDb, UseDb, Connect, ConnectFails,
            CountHost, QueryFails, Search, NotFound, Found, WrongPassword, Insert, Commit,
            CommitFails, CommitInDoubt, GiveBack, CountTotal, LocalOnly, InPlace, metrics, history
    <3>4. \A u \in Threads \ {t} : req'[u] = req[u] /\ res'[u] = res[u]
      BY <3>2, <2>a DEF ThreadTypes
    <3> QED BY <3>1, <3>3, <3>4, <2>a, <2>b, Stays
  <2>6. ASSUME NEW t \in Threads, NEW ep, NEW input, NEW user, Receive(t, ep, input, user)
        PROVE  FailedFitsAnswers'
    <3>1. /\ phase' = [phase EXCEPT ![t] = "routing"] /\ phase[t] # "respond"
          /\ \A u \in Threads \ {t} : req'[u] = req[u] /\ res'[u] = res[u]
          /\ UNCHANGED <<failed, observed, thrown, errors, answered>>
      BY <2>6, <2>a DEF Receive, Goes, metrics, ThreadTypes
    <3> QED BY <3>1, <2>a, <2>b, Stays
  <2>7. ASSUME NEW n, Replicate(n) \/ NodeStops(n) \/ UNCHANGED serviceVars PROVE FailedFitsAnswers'
    <3>1. UNCHANGED <<phase, req, res, failed, observed, thrown, errors, answered>>
      BY <2>7 DEF Replicate, NodeStops, serviceVars, metrics, history
    <3> QED BY <3>1, <2>b DEF With, Bad, Good, IsError
  <2> QED BY <2>1, <2>2, <2>3, <2>4, <2>5, <2>6, <2>7 DEF ServiceNext
<1> QED BY <1>1, <1>2, TypesInit, TypesStep, PTL DEF ServiceSpec

-----------------------------------------------------------------------------
(* Registered users, and who has been told of them.                        *)

\* t brings the answer that its registration has succeeded.
Brings(t) ==
    /\ phase[t] \in {"release", "count", "outcome", "respond"} /\ req[t].ep = "register"
    /\ res[t].ok

\* AckedIsCommitted, one user at a time.  It is not inductive: a user who has
\* been told must not be on the way to anybody else, so the users on the way
\* are different ones.
Accounted ==
    /\ acked \subseteq 1 .. committed /\ inDoubt \subseteq 1 .. committed
    /\ acked \cap inDoubt = {}
    /\ \A t \in Threads : Brings(t) =>
          /\ req[t].user \in 1 .. committed
          /\ req[t].user \notin acked /\ req[t].user \notin inDoubt
    /\ \A n \in 1 .. committed :
          n \in acked \/ n \in inDoubt \/ \E t \in Threads : Brings(t) /\ req[t].user = n
    /\ \A t, u \in Threads :
          Brings(t) /\ Brings(u) /\ req[t].user = req[u].user => t = u

LEMMA AccountedImplies == Accounted => AckedIsCommitted
<1> SUFFICES ASSUME Accounted PROVE AckedIsCommitted
    OBVIOUS
<1> DEFINE bringing == {u \in With("register", {"release", "count", "outcome", "respond"}) : res[u].ok}
           onTheWay == {req[t].user : t \in bringing}
<1>1. \A t : t \in bringing <=> t \in Threads /\ Brings(t)
  BY DEF With, Brings
<1> HIDE DEF bringing
<1>2. \A n : n \in onTheWay <=> \E t \in Threads : Brings(t) /\ req[t].user = n
  BY <1>1
<1> HIDE DEF onTheWay
<1>5. PICK S : S = 1 .. committed
  OBVIOUS
<1>6. /\ acked \subseteq S /\ inDoubt \subseteq S /\ acked \cap inDoubt = {}
      /\ \A n \in onTheWay : n \in S /\ n \notin acked /\ n \notin inDoubt
      /\ \A n \in S : n \in acked \/ n \in inDoubt \/ n \in onTheWay
  <2>1. \A n \in onTheWay : n \in S /\ n \notin acked /\ n \notin inDoubt
    BY <1>2, <1>5 DEF Accounted
  <2>2. \A n \in S : n \in acked \/ n \in inDoubt \/ n \in onTheWay
    BY <1>2, <1>5 DEF Accounted
  <2> QED BY <1>5, <2>1, <2>2 DEF Accounted
<1>3. acked \cup inDoubt \cup onTheWay = 1 .. committed
  <2>1. acked \cup inDoubt \cup onTheWay = S
    BY <1>6
  <2> QED BY <2>1, <1>5
<1>4. acked \cap onTheWay = {} /\ (acked \cup onTheWay) \cap inDoubt = {}
  BY <1>6
<1> QED BY <1>3, <1>4 DEF AckedIsCommitted, bringing, onTheWay

\* A step on which nobody is registered or told.
LEMMA AccountedStays ==
    ASSUME Accounted, UNCHANGED <<acked, inDoubt, committed>>,
           \A t \in Threads : /\ Brings(t)' <=> Brings(t)
                              /\ Brings(t) => req'[t].user = req[t].user
    PROVE  Accounted'
BY DEF Accounted

LEMMA AccountedHandle ==
    ASSUME Types, Accounted, NEW t \in Threads, Handle(t) PROVE Accounted'
<1>a. ThreadTypes /\ UserTypes
  BY TypesParts
<1>t. phase \in [Threads -> Phases] /\ req \in [Threads -> Requests] /\ res \in [Threads -> Responses]
  BY <1>a DEF ThreadTypes
<1>b. ASSUME \A u \in Threads \ {t} : phase'[u] = phase[u] /\ req'[u] = req[u] /\ res'[u] = res[u]
      PROVE  \A u \in Threads \ {t} : (Brings(u)' <=> Brings(u)) /\ req'[u].user = req[u].user
  BY <1>b DEF Brings
<1>1. ASSUME Commit(t) PROVE Accounted'
  <2>1. /\ phase[t] = "commit" /\ phase' = [phase EXCEPT ![t] = "release"]
        /\ committed' = committed + 1 /\ UNCHANGED <<acked, inDoubt>>
    BY <1>1 DEF Commit, Goes, CommitTx, InPlace, history
  <2>2. PICK r : r = [req[t] EXCEPT !.user = committed + 1] /\ req' = [req EXCEPT ![t] = r]
    BY <1>1, <1>t DEF Commit
  <2>3. r.user = committed + 1 /\ r.ep = "register"
    BY <2>1, <2>2, <1>a DEF ThreadTypes, Requests, PhaseFits
  <2>4. PICK s : /\ s = [status |-> res[t].status, body |-> "json", ok |-> TRUE]
                 /\ res' = [res EXCEPT ![t] = s]
    BY <1>1, <1>t DEF Commit
  <2>5. \A u \in Threads \ {t} : (Brings(u)' <=> Brings(u)) /\ req'[u].user = req[u].user
    BY <1>b, <1>t, <2>1, <2>2, <2>4
  <2>6. ~Brings(t) /\ Brings(t)' /\ req'[t].user = committed + 1
    BY <1>t, <2>1, <2>2, <2>3, <2>4 DEF Brings
  <2>7. committed \in Nat
    BY <1>a DEF UserTypes
  <2>8. 1 .. committed' = (1 .. committed) \cup {committed + 1} /\ committed + 1 \notin 1 .. committed
    BY <2>1, <2>7
  <2> QED BY <2>1, <2>5, <2>6, <2>8 DEF Accounted
<1>2. ASSUME CommitInDoubt(t) PROVE Accounted'
  <2>1. /\ phase[t] = "commit" /\ phase' = [phase EXCEPT ![t] = "release"] /\ req' = req
        /\ committed' = committed + 1 /\ inDoubt' = inDoubt \cup {committed + 1} /\ acked' = acked
    BY <1>2 DEF CommitInDoubt, Replies, Goes
  <2>2. PICK s : s = [status |-> 500, body |-> "json", ok |-> FALSE] /\ res' = [res EXCEPT ![t] = s]
    BY <1>2 DEF CommitInDoubt, Replies
  <2>3. \A u \in Threads \ {t} : (Brings(u)' <=> Brings(u)) /\ req'[u].user = req[u].user
    BY <1>b, <1>t, <2>1, <2>2
  <2>4. ~Brings(t) /\ ~Brings(t)'
    BY <1>t, <2>1, <2>2 DEF Brings
  <2>5. committed \in Nat
    BY <1>a DEF UserTypes
  <2>6. 1 .. committed' = (1 .. committed) \cup {committed + 1} /\ committed + 1 \notin 1 .. committed
    BY <2>1, <2>5
  <2>p. /\ acked' \subseteq 1 .. committed' /\ inDoubt' \subseteq 1 .. committed'
        /\ acked' \cap inDoubt' = {}
    <3>1. /\ acked \subseteq 1 .. committed /\ inDoubt \subseteq 1 .. committed
          /\ acked \cap inDoubt = {}
      BY DEF Accounted
    <3>2. committed + 1 \notin acked /\ committed + 1 \in 1 .. committed'
      BY <3>1, <2>1, <2>5, <2>6
    <3>3. 1 .. committed \subseteq 1 .. committed'
      BY <2>6
    <3> QED BY <2>1, <3>1, <3>2, <3>3
  <2>q. \A u \in Threads : Brings(u)' =>
            /\ req'[u].user \in 1 .. committed'
            /\ req'[u].user \notin acked' /\ req'[u].user \notin inDoubt'
    BY <2>1, <2>3, <2>4, <2>6 DEF Accounted
  <2>r. \A n \in 1 .. committed' :
            n \in acked' \/ n \in inDoubt' \/ \E u \in Threads : Brings(u)' /\ req'[u].user = n
    BY <2>1, <2>3, <2>4, <2>6 DEF Accounted
  <2>s. \A u, v \in Threads :
            Brings(u)' /\ Brings(v)' /\ req'[u].user = req'[v].user => u = v
    BY <2>1, <2>3, <2>4, <2>6 DEF Accounted
  <2> QED BY <2>p, <2>q, <2>r, <2>s DEF Accounted
<1>3. ASSUME Respond(t) PROVE Accounted'
  <2>1. /\ phase[t] = "respond" /\ phase' = [phase EXCEPT ![t] = "idle"]
        /\ req' = [req EXCEPT ![t] = NoRequest] /\ res' = [res EXCEPT ![t] = NoResponse]
        /\ UNCHANGED <<committed, inDoubt>>
        /\ acked' = IF req[t].ep = "register" /\ ~IsError(t) THEN acked \cup {req[t].user} ELSE acked
    BY <1>3 DEF Respond, Goes, database
  <2>2. res[t].ok <=> ~IsError(t)
    BY <2>1, <1>a DEF ThreadTypes, ResponseFits
  <2>3. \A u \in Threads \ {t} : (Brings(u)' <=> Brings(u)) /\ req'[u].user = req[u].user
    BY <1>b, <1>t, <2>1
  <2>4. ~Brings(t)' /\ acked' = IF Brings(t) THEN acked \cup {req[t].user} ELSE acked
    BY <1>t, <2>1, <2>2 DEF Brings
  <2>1a. UNCHANGED <<committed, inDoubt>>
    BY <2>1
  <2>p. /\ acked' \subseteq 1 .. committed' /\ inDoubt' \subseteq 1 .. committed'
        /\ acked' \cap inDoubt' = {}
    <3>1. /\ acked \subseteq 1 .. committed /\ inDoubt \subseteq 1 .. committed
          /\ acked \cap inDoubt = {}
          /\ Brings(t) => req[t].user \in 1 .. committed /\ req[t].user \notin inDoubt
      BY DEF Accounted
    <3>2. CASE Brings(t)
      <4>1. acked' = acked \cup {req[t].user}
        BY <2>4, <3>2
      <4> QED BY <2>1a, <3>1, <3>2, <4>1
    <3>3. CASE ~Brings(t)
      <4>1. acked' = acked
        BY <2>4, <3>3
      <4> QED BY <2>1a, <3>1, <4>1
    <3> QED BY <3>2, <3>3
  <2>q. \A u \in Threads : Brings(u)' =>
            /\ req'[u].user \in 1 .. committed'
            /\ req'[u].user \notin acked' /\ req'[u].user \notin inDoubt'
    BY <2>1a, <2>3, <2>4 DEF Accounted
  <2>r. \A n \in 1 .. committed' :
            n \in acked' \/ n \in inDoubt' \/ \E u \in Threads : Brings(u)' /\ req'[u].user = n
    BY <2>1a, <2>3, <2>4 DEF Accounted
  <2>s. \A u, v \in Threads :
            Brings(u)' /\ Brings(v)' /\ req'[u].user = req'[v].user => u = v
    BY <2>1a, <2>3, <2>4 DEF Accounted
  <2> QED BY <2>p, <2>q, <2>r, <2>s DEF Accounted
<1>4. ASSUME ~Commit(t), ~CommitInDoubt(t), ~Respond(t) PROVE Accounted'
  <2>1. UNCHANGED counted
    BY <1>4, Quiet
  <2>2. UNCHANGED <<acked, inDoubt, committed>>
    BY <2>1 DEF counted
  <2>3. \E to : phase' = [phase EXCEPT ![t] = to]
    BY <1>4 DEF Handle, RejectPath, NoRoute, Probe, Dispatch, HandlerThrows, RejectInput,
          RejectNoDb, UseDb, Connect, ConnectFails, CountHost, QueryFails, Search, NotFound,
          Found, WrongPassword, Insert, CommitFails, GiveBack, CountTotal, CountOutcome,
          Replies, Goes
  <2>4. req' = req /\ (res' = res \/ \E s : res' = [res EXCEPT ![t] = s])
    BY <1>4 DEF Handle, RejectPath, NoRoute, Probe, Dispatch, HandlerThrows, RejectInput,
          RejectNoDb, UseDb, Connect, ConnectFails, CountHost, QueryFails, Search, NotFound,
          Found, WrongPassword, Insert, CommitFails, GiveBack, CountTotal, CountOutcome,
          Replies, Goes
  <2>5. \A u \in Threads \ {t} : (Brings(u)' <=> Brings(u)) /\ req'[u].user = req[u].user
    BY <1>b, <1>t, <2>3, <2>4
  <2>6. CASE GiveBack(t) \/ CountTotal(t) \/ CountOutcome(t)
    <3>1. Brings(t)' <=> Brings(t)
      BY <2>6, <1>t DEF GiveBack, CountTotal, CountOutcome, Goes, Brings
    <3> QED BY <2>2, <2>4, <2>5, <3>1, AccountedStays
  <2>7. CASE Dispatch(t) \/ UseDb(t) \/ Connect(t) \/ CountHost(t) \/ Insert(t)
    <3>1. ~Brings(t)' /\ ~Brings(t)
      BY <2>7, <1>t DEF Dispatch, UseDb, Connect, CountHost, Insert, Goes, Brings
    <3> QED BY <2>2, <2>4, <2>5, <3>1, AccountedStays
  <2>8. ASSUME NEW s, res' = [res EXCEPT ![t] = s], ~s.ok \/ req[t].ep # "register",
               phase[t] \in {"routing", "handler", "connect", "query", "commit"}
        PROVE  Accounted'
    <3>1. ~Brings(t)' /\ ~Brings(t)
      BY <2>4, <2>8, <1>t DEF Brings
    <3> QED BY <2>2, <2>4, <2>5, <3>1, AccountedStays
  <2>9. CASE \/ RejectPath(t) \/ NoRoute(t) \/ HandlerThrows(t) \/ RejectInput(t) \/ RejectNoDb(t)
             \/ ConnectFails(t) \/ QueryFails(t) \/ NotFound(t) \/ WrongPassword(t) \/ CommitFails(t)
    <3>1. /\ \E c, b : res' = [res EXCEPT ![t] = [status |-> c, body |-> b, ok |-> FALSE]]
          /\ phase[t] \in {"routing", "handler", "connect", "query", "commit"}
      BY <2>9 DEF RejectPath, NoRoute, HandlerThrows, RejectInput, RejectNoDb, ConnectFails,
            QueryFails, NotFound, WrongPassword, ReturnOnMismatch, CommitFails, Replies, Goes
    <3>2. PICK c, b : res' = [res EXCEPT ![t] = [status |-> c, body |-> b, ok |-> FALSE]]
      BY <3>1
    <3>3. PICK s : s = [status |-> c, body |-> b, ok |-> FALSE]
      OBVIOUS
    <3>4. ~s.ok /\ res' = [res EXCEPT ![t] = s]
      BY <3>2, <3>3
    <3> QED BY <3>1, <3>4, <2>8
  <2>10. CASE Probe(t) \/ Search(t) \/ Found(t)
    <3>1. /\ \E s : res' = [res EXCEPT ![t] = s]
          /\ phase[t] \in {"routing", "query"} /\ req[t].ep # "register"
      BY <2>10 DEF Probe, Search, Found, Replies, Goes, Probes
    <3> QED BY <3>1, <2>8
  <2> QED BY <1>4, <2>6, <2>7, <2>9, <2>10 DEF Handle
<1> QED BY <1>1, <1>2, <1>3, <1>4

\* Nobody is told of a registration that the master has not committed, and
\* every committed one is told, on its way, or in doubt: exactly one of them.
THEOREM AckedAreCommitted == ServiceSpec => []AckedIsCommitted
<1>1. ServiceInit => Accounted
  BY DEF ServiceInit, Accounted, Brings
<1>2. Types /\ Accounted /\ [ServiceNext]_serviceVars => Accounted'
  <2> SUFFICES ASSUME Types, Accounted, [ServiceNext]_serviceVars PROVE Accounted'
      OBVIOUS
  <2>1. ASSUME NEW t \in Threads, Handle(t) PROVE Accounted'
    BY <2>1, AccountedHandle
  <2>2. ASSUME NEW t \in Threads, NEW ep, NEW input, NEW user, Receive(t, ep, input, user)
        PROVE  Accounted'
    <3>1. /\ phase[t] = "idle" /\ phase' = [phase EXCEPT ![t] = "routing"] /\ res' = res
          /\ \E r : req' = [req EXCEPT ![t] = r]
          /\ UNCHANGED <<acked, inDoubt, committed>>
      BY <2>2 DEF Receive, Goes, database
    <3>2. \A u \in Threads : (Brings(u)' <=> Brings(u)) /\ (Brings(u) => req'[u].user = req[u].user)
      BY <3>1 DEF Brings, Types, ServiceTypeOK
    <3> QED BY <3>1, <3>2, AccountedStays
  <2>3. ASSUME NEW n, Replicate(n) \/ NodeStops(n) \/ UNCHANGED serviceVars PROVE Accounted'
    <3>1. UNCHANGED <<phase, req, res, acked, inDoubt, committed>>
      BY <2>3 DEF Replicate, NodeStops, serviceVars, database, history
    <3> QED BY <3>1, AccountedStays DEF Brings
  <2> QED BY <2>1, <2>2, <2>3 DEF ServiceNext
<1> QED BY <1>1, <1>2, TypesInit, TypesStep, AccountedImplies, PTL DEF ServiceSpec

-----------------------------------------------------------------------------
(* Reads and the master: a read that holds a connection asked for a        *)
(* replica, so by RoutedByRole its node is one.                            *)
Asked ==
    \A t \in Threads :
        phase[t] \in {"tally", "query", "commit", "release"} => preferred[t] = Preference(req[t].ep)

LEMMA AskedHandle ==
    ASSUME Types, Asked, NEW t \in Threads, Handle(t) PROVE Asked'
<1>a. /\ phase \in [Threads -> Phases] /\ req \in [Threads -> Requests]
      /\ preferred \in [Threads -> Kinds]
  BY DEF Types, ServiceTypeOK, PoolTypeOK
<1>1. ASSUME Connect(t) PROVE Asked'
  <2>1. /\ phase' = [phase EXCEPT ![t] = "tally"] /\ req' = req
        /\ preferred' = [preferred EXCEPT ![t] = Preference(req[t].ep)]
    BY <1>1 DEF Connect, Goes, Get
  <2> QED BY <2>1, <1>a DEF Asked, Preference
<1>2. ASSUME GiveBack(t) PROVE Asked'
  <2>1. /\ phase' = [phase EXCEPT ![t] = "count"] /\ req' = req
        /\ preferred' = [preferred EXCEPT ![t] = "REPLICA"]
    BY <1>2 DEF GiveBack, Destructor, Release, Goes
  <2> QED BY <2>1, <1>a DEF Asked, Preference
<1>3. ASSUME ~Connect(t), ~GiveBack(t) PROVE Asked'
  <2>1. preferred' = preferred
    BY <1>3, ZenonT(40) DEF Handle, RejectPath, NoRoute, Probe, Dispatch, HandlerThrows, RejectInput,
          RejectNoDb, UseDb, ConnectFails, GetThrows, CountHost, QueryFails, Search, NotFound,
          Found, WrongPassword, Insert, Commit, CommitFails, CommitInDoubt, CountTotal,
          CountOutcome, Respond, LocalOnly, InPlace, poolVars
  <2>2. \E from, to : /\ phase[t] = from /\ phase' = [phase EXCEPT ![t] = to]
                      /\ to \in {"tally", "query", "commit", "release"}
                             <=> from \in {"tally", "query", "commit", "release"}
    BY <1>3, SMTT(40) DEF Handle, RejectPath, NoRoute, Probe, Dispatch, HandlerThrows, RejectInput,
          RejectNoDb, UseDb, CountHost, QueryFails, Search, NotFound, Found, WrongPassword,
          Insert, Commit, CommitFails, CommitInDoubt, CountTotal, CountOutcome, Respond,
          ConnectFails, Replies, Goes
  <2>3. CASE Respond(t)
    <3>1. phase' = [phase EXCEPT ![t] = "idle"] /\ \E r : req' = [req EXCEPT ![t] = r]
      BY <2>3 DEF Respond, Goes
    <3> QED BY <2>1, <3>1, <1>a DEF Asked, Preference
  <2>4. CASE Commit(t)
    <3>1. PICK r : r = [req[t] EXCEPT !.user = committed + 1] /\ req' = [req EXCEPT ![t] = r]
      BY <2>4, <1>a DEF Commit
    <3>2. r.ep = req[t].ep
      BY <3>1, <1>a DEF Requests
    <3> QED BY <2>1, <2>2, <3>1, <3>2, <1>a DEF Asked, Preference
  <2>5. CASE ~Respond(t) /\ ~Commit(t)
    <3>1. req' = req
      BY <1>3, <2>5 DEF Handle, RejectPath, NoRoute, Probe, Dispatch, HandlerThrows, RejectInput,
            RejectNoDb, UseDb, ConnectFails, CountHost, QueryFails, Search, NotFound, Found,
            WrongPassword, Insert, CommitFails, CommitInDoubt, CountTotal, CountOutcome, Replies
    <3> QED BY <2>1, <2>2, <3>1, <1>a DEF Asked, Preference
  <2> QED BY <2>3, <2>4, <2>5
<1> QED BY <1>1, <1>2, <1>3

\* A read of good data that has been answered with 500.
Failing(t) == req[t].ep \in Reads /\ req[t].input = "valid" /\ res[t].status = 500
Excused == exhausted \/ broken \cap NodesOf("REPLICA") # {}

LEMMA ExcusedStays == Types /\ [ServiceNext]_serviceVars /\ Excused => Excused'
<1> SUFFICES ASSUME Types, [ServiceNext]_serviceVars, Excused PROVE Excused'
    OBVIOUS
<1>1. exhausted => exhausted'
  <2>1. [PoolNext]_poolVars
    BY HandlersUsePool
  <2> QED BY <2>1 DEF PoolNext, poolVars, Get, GetThrows, Release
<1>2. broken \subseteq broken'
  <2>1. ASSUME NEW t \in Threads, Handle(t) PROVE broken \subseteq broken'
    <3>1. Commit(t) \/ Respond(t) \/ UNCHANGED counted => UNCHANGED broken
      BY DEF Commit, Respond, counted, database
    <3>2. CommitInDoubt(t) => broken \subseteq broken'
      BY DEF CommitInDoubt
    <3> QED BY <2>1, <3>1, <3>2, Quiet
  <2>2. ASSUME NEW t \in Threads, NEW ep, NEW input, NEW user, Receive(t, ep, input, user)
        PROVE  broken' = broken
    BY <2>2 DEF Receive, database
  <2>3. ASSUME NEW n, Replicate(n) \/ NodeStops(n) \/ UNCHANGED serviceVars
        PROVE  broken \subseteq broken'
    BY <2>3 DEF Replicate, NodeStops, serviceVars, database
  <2> QED BY <2>1, <2>2, <2>3 DEF ServiceNext
<1> QED BY <1>1, <1>2 DEF Excused

LEMMA FailingHandle ==
    ASSUME Types, Asked, RoutedByRole, Replicas > 0, NEW t \in Threads, Handle(t),
           Failing(t)', ~Failing(t)
    PROVE  Excused'
<1>a. /\ phase \in [Threads -> Phases] /\ req \in [Threads -> Requests]
      /\ res \in [Threads -> Responses] /\ PhaseFits
  BY DEF Types, ServiceTypeOK
<1>1. CASE QueryFails(t)
  <2>1. /\ phase[t] = "query" /\ req' = req /\ UNCHANGED broken
        /\ Dead(t) \/ req[t].input = "dbRejects"
    BY <1>1 DEF QueryFails, Replies, Goes, Throws, database
  <2>2. req[t].ep \in Reads /\ req[t].input = "valid"
    BY <2>1 DEF Failing
  <2>3. PICK lease \in lent[t] : lease[1] \in broken
    BY <2>1, <2>2 DEF Dead
  <2>4. preferred[t] = "REPLICA"
    BY <2>1, <2>2 DEF Asked, Preference, Reads
  <2>5. lease[1][1] = "REPLICA" /\ lease[1] \in Nodes
    BY <2>4 DEF RoutedByRole, Types, ServiceTypeOK, PoolTypeOK
  <2>6. lease[1] \in NodesOf("REPLICA")
    BY <2>5 DEF Nodes, NodesOf
  <2> QED BY <2>1, <2>3, <2>6 DEF Excused
<1>2. CASE ConnectFails(t)
  BY <1>2 DEF ConnectFails, GetThrows, Excused
<1>3. CASE HandlerThrows(t)
  BY <1>3, <1>a DEF HandlerThrows, Failing
<1>4. CASE CommitFails(t) \/ CommitInDoubt(t)
  <2>1. req' = req /\ phase[t] = "commit"
    BY <1>4 DEF CommitFails, CommitInDoubt, Replies, Goes
  <2> QED BY <2>1, <1>a DEF PhaseFits, Failing, Reads
<1>5. CASE Commit(t)
  <2>1. phase[t] = "commit"
    BY <1>5 DEF Commit, Goes
  <2>2. PICK r : r = [req[t] EXCEPT !.user = committed + 1] /\ req' = [req EXCEPT ![t] = r]
    BY <1>5, <1>a DEF Commit
  <2>3. r.ep = "register"
    BY <2>1, <2>2, <1>a DEF PhaseFits, Requests
  <2> QED BY <2>2, <2>3, <1>a DEF Failing, Reads
<1>6. CASE Respond(t)
  <2>1. PICK r : r = NoRequest /\ req' = [req EXCEPT ![t] = r]
    BY <1>6 DEF Respond
  <2>2. r.ep = "other"
    BY <2>1 DEF NoRequest
  <2> QED BY <2>1, <2>2, <1>a DEF Failing, Reads
<1>7. res'[t].status = 500
  BY DEF Failing
<1>8. CASE \/ RejectPath(t) \/ NoRoute(t) \/ Probe(t) \/ RejectInput(t) \/ RejectNoDb(t)
           \/ Search(t) \/ NotFound(t) \/ Found(t) \/ WrongPassword(t)
  <2>1. RejectPath(t) => res'[t].status = 501
    BY <1>a DEF RejectPath, Replies
  <2>2. NoRoute(t) => res'[t].status \in {404, 413}
    BY <1>a DEF NoRoute, Replies
  <2>3. RejectInput(t) => res'[t].status = 400
    BY <1>a DEF RejectInput, Replies
  <2>4. RejectNoDb(t) => res'[t].status = 503
    BY <1>a DEF RejectNoDb, Replies
  <2>5. NotFound(t) => res'[t].status = 404
    BY <1>a DEF NotFound, Replies
  <2>6. WrongPassword(t) => res'[t].status = 400
    BY <1>a DEF WrongPassword, Replies
  <2>7. Probe(t) => res'[t].status = 200
    BY <1>a DEF Probe, Replies
  <2>8. Search(t) => res'[t].status = 200
    BY <1>a DEF Search, Replies
  <2>9. Found(t) => res'[t].status = 200
    BY <1>a DEF Found, Replies
  <2> QED BY <1>7, <1>8, <2>1, <2>2, <2>3, <2>4, <2>5, <2>6, <2>7, <2>8, <2>9
<1>9. CASE \/ Dispatch(t) \/ UseDb(t) \/ Connect(t) \/ CountHost(t) \/ Insert(t)
           \/ GiveBack(t) \/ CountTotal(t) \/ CountOutcome(t)
  <2>1. req' = req /\ res' = res
    BY <1>9 DEF Dispatch, UseDb, Connect, CountHost, Insert, GiveBack, CountTotal, CountOutcome
  <2> QED BY <2>1 DEF Failing
<1> QED BY <1>1, <1>2, <1>3, <1>4, <1>5, <1>6, <1>8, <1>9 DEF Handle

\* While no replica has stopped and the pool has connections, no read fails:
\* whatever happens to the master.
THEOREM ReadsNeedNoMaster == ServiceSpec => []ReadsWithoutMaster
<1>1. ServiceInit => Asked /\ ReadsWithoutMaster
  BY DEF ServiceInit, Asked, ReadsWithoutMaster, NoRequest, Reads
<1>2. Types /\ RoutedByRole /\ Asked /\ ReadsWithoutMaster /\ [ServiceNext]_serviceVars
        => Asked' /\ ReadsWithoutMaster'
  <2> SUFFICES ASSUME Types, RoutedByRole, Asked, ReadsWithoutMaster, [ServiceNext]_serviceVars
               PROVE  Asked' /\ ReadsWithoutMaster'
      OBVIOUS
  <2>a. /\ ReadsWithoutMaster <=> \A t \in Threads : Replicas > 0 /\ Failing(t) => Excused
        /\ ReadsWithoutMaster' <=> \A t \in Threads : Replicas > 0 /\ Failing(t)' => Excused'
    BY DEF ReadsWithoutMaster, Failing, Excused
  <2>b. ASSUME \A t \in Threads : Failing(t)' => Failing(t) PROVE ReadsWithoutMaster'
    BY <2>a, <2>b, ExcusedStays
  <2>t. /\ phase \in [Threads -> Phases] /\ req \in [Threads -> Requests]
        /\ res \in [Threads -> Responses] /\ ResponseFits
    BY DEF Types, ServiceTypeOK
  <2>1. ASSUME NEW t \in Threads, Handle(t) PROVE Asked' /\ ReadsWithoutMaster'
    <3>1. \A u \in Threads \ {t} : req'[u] = req[u] /\ res'[u] = res[u]
      <4>1. CASE CountTotal(t) \/ CountOutcome(t)
        BY <4>1 DEF CountTotal, CountOutcome
      <4> QED BY <2>1, <4>1, Moves, TypesParts
    <3>2. \A u \in Threads \ {t} : Failing(u)' => Failing(u)
      BY <3>1 DEF Failing
    <3>3. ASSUME Replicas > 0, Failing(t)', ~Failing(t) PROVE Excused'
      BY <2>1, <3>3, FailingHandle
    <3> QED BY <2>1, <2>a, <3>2, <3>3, AskedHandle, ExcusedStays
  <2>2. ASSUME NEW t \in Threads, NEW ep, NEW input, NEW user, Receive(t, ep, input, user)
        PROVE  Asked' /\ ReadsWithoutMaster'
    <3>1. /\ phase[t] = "idle" /\ phase' = [phase EXCEPT ![t] = "routing"] /\ res' = res
          /\ \E r : req' = [req EXCEPT ![t] = r] /\ preferred' = preferred
      BY <2>2 DEF Receive, Goes, poolVars
    <3>2. res[t].status = 200
      BY <3>1, <2>t DEF ResponseFits, NoResponse
    <3>3. \A u \in Threads : Failing(u)' => Failing(u)
      BY <3>1, <3>2, <2>t DEF Failing
    <3>4. Asked'
      BY <3>1, <2>t DEF Asked, Preference
    <3> QED BY <2>b, <3>3, <3>4
  <2>3. ASSUME NEW n, Replicate(n) \/ NodeStops(n) \/ UNCHANGED serviceVars
        PROVE  Asked' /\ ReadsWithoutMaster'
    <3>1. UNCHANGED <<phase, req, res, preferred>>
      BY <2>3 DEF Replicate, NodeStops, serviceVars, poolVars
    <3> QED BY <3>1, <2>b DEF Asked, Failing
  <2> QED BY <2>1, <2>2, <2>3 DEF ServiceNext
<1>3. ServiceSpec => []RoutedByRole
  BY ServiceKeepsConnections, PTL
<1> QED BY <1>1, <1>2, <1>3, TypesInit, TypesStep, PTL DEF ServiceSpec

-----------------------------------------------------------------------------
(* Round Robin over the replicas.  Node 0 comes last in every round: the   *)
(* nodes up to last_used are one request ahead of it, and the others even. *)
Replica(i) == <<"REPLICA", i>>
Ahead(i) == IF 1 <= i /\ i <= last_used["REPLICA"] THEN 1 ELSE 0
InTurn ==
    /\ Replicas > 0 => last_used["REPLICA"] \in 0 .. Replicas - 1
    /\ ~exhausted =>
          \A i \in 0 .. Replicas - 1 : RequestsTo(Replica(i)) = RequestsTo(Replica(0)) + Ahead(i)

LEMMA UncountedFinite ==
    \A n : /\ Uncounted(n) \subseteq Threads /\ Cardinality(Uncounted(n)) \in Nat
           /\ Uncounted(n)' \subseteq Threads /\ Cardinality(Uncounted(n)') \in Nat
<1> SUFFICES ASSUME NEW n
             PROVE  /\ Uncounted(n) \subseteq Threads /\ Cardinality(Uncounted(n)) \in Nat
                    /\ Uncounted(n)' \subseteq Threads /\ Cardinality(Uncounted(n)') \in Nat
    OBVIOUS
<1>1. Uncounted(n) \subseteq Threads /\ Uncounted(n)' \subseteq Threads
  BY DEF Uncounted
<1> QED BY <1>1, ThreadsAssumption, FS_Subset, FS_CardinalityType

LEMMA ReplicaNode ==
    \A i \in 0 .. Replicas - 1 : Replica(i) \in Nodes /\ Replica(i) \in NodesOf("REPLICA")
BY DEF Replica, Nodes, NodesOf, Count

LEMMA RequestsAreNat ==
    ASSUME Types, NEW i \in 0 .. Replicas - 1 PROVE RequestsTo(Replica(i)) \in Nat
BY ReplicaNode, UncountedFinite DEF RequestsTo, Types, ServiceTypeOK

LEMMA InTurnImplies == Types /\ InTurn => HostsEven
<1> SUFFICES ASSUME Types, InTurn, ~exhausted,
                    NEW m \in NodesOf("REPLICA"), NEW n \in NodesOf("REPLICA")
             PROVE  RequestsTo(m) <= RequestsTo(n) + 1
    BY DEF HostsEven
<1>1. PICK i \in 0 .. Replicas - 1, j \in 0 .. Replicas - 1 : m = Replica(i) /\ n = Replica(j)
  BY DEF NodesOf, Count, Replica
<1>2. /\ RequestsTo(m) = RequestsTo(Replica(0)) + Ahead(i)
      /\ RequestsTo(n) = RequestsTo(Replica(0)) + Ahead(j)
  BY <1>1 DEF InTurn
<1>3. Ahead(i) \in {0, 1} /\ Ahead(j) \in {0, 1}
  BY DEF Ahead
<1>4. 0 \in 0 .. Replicas - 1
  BY NodesAssumption
<1>5. RequestsTo(Replica(0)) \in Nat
  BY <1>4, RequestsAreNat
<1> QED BY <1>2, <1>3, <1>5

LEMMA InTurnStays ==
    ASSUME InTurn, last_used' = last_used, exhausted' = exhausted,
           \A i \in 0 .. Replicas - 1 : RequestsTo(Replica(i))' = RequestsTo(Replica(i))
    PROVE  InTurn'
<1>1. \A i \in 0 .. Replicas - 1 : Ahead(i)' = Ahead(i)
  BY DEF Ahead
<1>2. Replicas > 0 => 0 \in 0 .. Replicas - 1
  BY NodesAssumption
<1>3. ASSUME NEW i \in 0 .. Replicas - 1, ~exhausted
      PROVE  RequestsTo(Replica(i))' = RequestsTo(Replica(0))' + Ahead(i)'
  <2>1. 0 \in 0 .. Replicas - 1
    BY NodesAssumption
  <2> QED BY <1>1, <1>3, <2>1 DEF InTurn
<1> QED BY <1>3 DEF InTurn

\* Where Round Robin goes next.
LEMMA NextReplica ==
    ASSUME InTurn, Replicas > 0
    PROVE  LET used == last_used["REPLICA"]
           IN  NextNum("REPLICA") = IF used + 1 < Replicas THEN used + 1 ELSE 0
<1>1. Replicas \in Nat /\ last_used["REPLICA"] \in 0 .. Replicas - 1
  BY NodesAssumption DEF InTurn
<1>2. \A r, x \in Nat : x < r => x % r = x
  BY Z3
<1>3. \A r \in Nat \ {0} : r % r = 0
  BY Z3
<1>4. CASE last_used["REPLICA"] + 1 < Replicas
  BY <1>1, <1>2, <1>4 DEF NextNum, Count
<1>5. CASE ~(last_used["REPLICA"] + 1 < Replicas)
  <2>1. last_used["REPLICA"] + 1 = Replicas
    BY <1>1, <1>5
  <2> QED BY <1>1, <1>3, <1>5, <2>1 DEF NextNum, Count
<1> QED BY <1>4, <1>5

LEMMA InTurnConnect ==
    ASSUME Types, InTurn, NEW t \in Threads, Connect(t) PROVE InTurn'
<1>0. PICK k, n : k = KindFor(Preference(req[t].ep)) /\ n = NextNode(k)
  OBVIOUS
<1>a. phase \in [Threads -> Phases] /\ lent \in [Threads -> SUBSET (Nodes \X Conns)]
  BY DEF Types, ServiceTypeOK, PoolTypeOK
<1>1. /\ phase[t] = "connect" /\ phase' = [phase EXCEPT ![t] = "tally"]
      /\ toHost' = toHost /\ exhausted' = exhausted
      /\ lent[t] = {} /\ \E c : lent' = [lent EXCEPT ![t] = {<<n, c>>}]
      /\ last_used' = [last_used EXCEPT ![k] = NextNum(k)]
  BY <1>0 DEF Connect, Goes, Get, NeedsOne, metrics
<1>2. k \in Kinds /\ (k = "REPLICA" => Replicas > 0) /\ n[1] = k /\ n = <<k, NextNum(k)>>
  BY <1>0 DEF KindFor, Kinds, NextNode
<1>3. \A m : Uncounted(m)' = IF m = n THEN Uncounted(m) \cup {t} ELSE Uncounted(m)
  <2> TAKE m
  <2>1. \A u \in Threads \ {t} : phase'[u] = phase[u] /\ lent'[u] = lent[u]
    BY <1>1, <1>a
  <2>2. phase'[t] = "tally" /\ \E c : lent'[t] = {<<n, c>>}
    BY <1>1, <1>a
  <2>3. \A u \in Threads \ {t} : u \in Uncounted(m)' <=> u \in Uncounted(m)
    <3> TAKE u \in Threads \ {t}
    <3>1. u \in Holders(m)' <=> u \in Holders(m)
      BY <2>1 DEF Holders
    <3> QED BY <2>1, <3>1 DEF Uncounted
  <2>4. t \in Uncounted(m)' <=> m = n
    <3>1. PICK c : lent'[t] = {<<n, c>>}
      BY <2>2
    <3>2. (\E lease \in lent'[t] : lease[1] = m) <=> m = n
      BY <3>1
    <3>3. t \in Holders(m)' <=> m = n
      BY <3>2 DEF Holders
    <3> QED BY <2>2, <3>3 DEF Uncounted
  <2>5. t \notin Uncounted(m)
    BY <1>1 DEF Uncounted
  <2> QED BY <2>3, <2>4, <2>5, UncountedFinite
<1>4. \A m : t \notin Uncounted(m)
  BY <1>1 DEF Uncounted
<1>5. CASE k = "MASTER"
  <2>1. \A i \in 0 .. Replicas - 1 : Replica(i) # n
    BY <1>2, <1>5 DEF Replica
  <2>2. \A i \in 0 .. Replicas - 1 : RequestsTo(Replica(i))' = RequestsTo(Replica(i))
    BY <2>1, <1>1, <1>3 DEF RequestsTo
  <2>3. last_used'["REPLICA"] = last_used["REPLICA"]
    BY <1>1, <1>5 DEF Types, ServiceTypeOK, PoolTypeOK, Kinds
  <2>4. \A i \in 0 .. Replicas - 1 : Ahead(i)' = Ahead(i)
    BY <2>3 DEF Ahead
  <2>5. Replicas > 0 => 0 \in 0 .. Replicas - 1
    BY NodesAssumption
  <2>6. ASSUME NEW i \in 0 .. Replicas - 1, ~exhausted
        PROVE  RequestsTo(Replica(i))' = RequestsTo(Replica(0))' + Ahead(i)'
    <3>1. 0 \in 0 .. Replicas - 1
      BY NodesAssumption
    <3> QED BY <2>2, <2>4, <2>6, <3>1 DEF InTurn
  <2> QED BY <1>1, <2>3, <2>6 DEF InTurn
<1>6. CASE k = "REPLICA"
  <2>0. PICK used, next : used = last_used["REPLICA"] /\ next = NextNum("REPLICA")
    OBVIOUS
  <2>1. Replicas > 0 /\ n = Replica(next) /\ last_used'["REPLICA"] = next
    BY <1>1, <1>2, <1>6, <2>0 DEF Replica, Types, ServiceTypeOK, PoolTypeOK
  <2>2. next = IF used + 1 < Replicas THEN used + 1 ELSE 0
    BY <2>0, <2>1, NextReplica
  <2>3. used \in 0 .. Replicas - 1 /\ Replicas \in Nat
    BY <2>0, <2>1, NodesAssumption DEF InTurn
  <2>4. next \in 0 .. Replicas - 1
    BY <2>1, <2>2, <2>3
  <2>5. /\ RequestsTo(n)' = RequestsTo(n) + 1
        /\ \A i \in 0 .. Replicas - 1 :
              i # next => RequestsTo(Replica(i))' = RequestsTo(Replica(i))
    <3>1. RequestsTo(n)' = RequestsTo(n) + 1
      <4>1. Uncounted(n)' = Uncounted(n) \cup {t}
        BY <1>3
      <4>2. Cardinality(Uncounted(n)') = Cardinality(Uncounted(n)) + 1
        BY <4>1, <1>4, UncountedFinite, Joins
      <4>3. n \in Nodes
        BY <2>1, <2>4, ReplicaNode
      <4>4. toHost[n] \in Nat /\ Cardinality(Uncounted(n)) \in Nat
        BY <4>3, UncountedFinite DEF Types, ServiceTypeOK
      <4> QED BY <4>2, <4>4, <1>1 DEF RequestsTo
    <3>2. \A i \in 0 .. Replicas - 1 : i # next => Replica(i) # n
      BY <2>1 DEF Replica
    <3> QED BY <3>1, <3>2, <1>1, <1>3 DEF RequestsTo
  <2>6. ASSUME NEW i \in 0 .. Replicas - 1, ~exhausted
        PROVE  RequestsTo(Replica(i))' = RequestsTo(Replica(0))' + Ahead(i)'
    <3>1. 0 \in 0 .. Replicas - 1
      BY <2>3
    <3>2. /\ RequestsTo(Replica(i)) = RequestsTo(Replica(0)) + Ahead(i)
          /\ RequestsTo(n) = RequestsTo(Replica(0)) + Ahead(next)
          /\ RequestsTo(Replica(0)) \in Nat /\ RequestsTo(Replica(i)) \in Nat
      BY <2>6, <2>1, <2>4, <3>1, RequestsAreNat DEF InTurn
    <3>3. /\ Ahead(i) = IF 1 <= i /\ i <= used THEN 1 ELSE 0
          /\ Ahead(i)' = IF 1 <= i /\ i <= next THEN 1 ELSE 0
          /\ Ahead(next) = 0
      BY <2>0, <2>1, <2>2, <2>3 DEF Ahead
    <3>4. CASE next = 0
      <4>1. RequestsTo(Replica(0))' = RequestsTo(Replica(0)) + 1
        BY <2>1, <2>5, <3>4
      <4>2. CASE i = 0
        BY <3>3, <3>4, <4>1, <4>2, <3>2
      <4>3. CASE i # 0
        <5>1. RequestsTo(Replica(i))' = RequestsTo(Replica(i))
          BY <2>5, <3>4, <4>3
        <5>2. used = Replicas - 1
          BY <2>2, <2>3, <3>4
        <5>3. Ahead(i) = 1 /\ Ahead(i)' = 0
          BY <3>3, <3>4, <4>3, <5>2, <2>3
        <5> QED BY <3>2, <4>1, <5>1, <5>3
      <4> QED BY <4>2, <4>3
    <3>5. CASE next # 0
      <4>1. RequestsTo(Replica(0))' = RequestsTo(Replica(0))
        BY <2>5, <3>1, <3>5
      <4>2. next = used + 1
        BY <2>2, <3>5
      <4>3. CASE i = next
        <5>1. RequestsTo(Replica(i))' = RequestsTo(Replica(i)) + 1
          BY <2>1, <2>5, <4>3
        <5>2. Ahead(i) = 0 /\ Ahead(i)' = 1
          BY <3>3, <4>2, <4>3, <2>3
        <5> QED BY <3>2, <4>1, <5>1, <5>2
      <4>4. CASE i # next
        <5>1. RequestsTo(Replica(i))' = RequestsTo(Replica(i))
          BY <2>5, <4>4
        <5>2. Ahead(i)' = Ahead(i)
          BY <3>3, <4>2, <4>4, <2>3
        <5> QED BY <3>2, <4>1, <5>1, <5>2
      <4> QED BY <4>3, <4>4
    <3> QED BY <3>4, <3>5
  <2> QED BY <1>1, <2>1, <2>4, <2>6 DEF InTurn
<1> QED BY <1>2, <1>5, <1>6 DEF Kinds

LEMMA InTurnCountHost ==
    ASSUME Types, InTurn, NEW t \in Threads, CountHost(t) PROVE InTurn'
<1>a. /\ phase \in [Threads -> Phases] /\ PoolTypeOK /\ toHost \in [Nodes -> Nat]
      /\ lent \in [Threads -> SUBSET (Nodes \X Conns)]
  BY DEF Types, ServiceTypeOK, PoolTypeOK
<1>1. PICK lease \in lent[t] : toHost' = [toHost EXCEPT ![lease[1]] = @ + 1]
  BY DEF CountHost, Tag
<1>2. /\ phase[t] = "tally" /\ phase' = [phase EXCEPT ![t] = "query"]
      /\ UNCHANGED <<lent, last_used, exhausted>>
  BY DEF CountHost, Goes, poolVars
<1>3. lease[1] \in Nodes /\ \A other \in lent[t] : other = lease
  BY <1>a DEF PoolTypeOK
<1>4. \A m : Uncounted(m) = IF m = lease[1] THEN Uncounted(m)' \cup {t} ELSE Uncounted(m)'
  <2> TAKE m
  <2>1. \A u \in Threads \ {t} : u \in Uncounted(m)' <=> u \in Uncounted(m)
    BY <1>2, <1>a DEF Uncounted, Holders
  <2>2. t \in Uncounted(m) <=> m = lease[1]
    BY <1>2, <1>3 DEF Uncounted, Holders
  <2>3. t \notin Uncounted(m)'
    BY <1>2, <1>a DEF Uncounted
  <2> QED BY <2>1, <2>2, <2>3, UncountedFinite
<1>5. \A m \in Nodes : RequestsTo(m)' = RequestsTo(m)
  <2> TAKE m \in Nodes
  <2>1. CASE m = lease[1]
    <3>1. t \notin Uncounted(m)'
      BY <1>2, <1>a DEF Uncounted
    <3>2. Cardinality(Uncounted(m)) = Cardinality(Uncounted(m)') + 1
      BY <1>4, <2>1, <3>1, UncountedFinite, Joins
    <3>3. toHost'[m] = toHost[m] + 1 /\ toHost[m] \in Nat
      BY <1>1, <1>a, <2>1
    <3> QED BY <3>2, <3>3, UncountedFinite DEF RequestsTo
  <2>2. CASE m # lease[1]
    <3>1. toHost'[m] = toHost[m] /\ Uncounted(m)' = Uncounted(m)
      BY <1>1, <1>4, <1>a, <2>2
    <3> QED BY <3>1 DEF RequestsTo
  <2> QED BY <2>1, <2>2
<1> QED BY <1>2, <1>5, ReplicaNode, InTurnStays

LEMMA InTurnFails ==
    ASSUME Types, InTurn, NEW t \in Threads, ConnectFails(t) PROVE InTurn'
<1> DEFINE k == KindFor(Preference(req[t].ep))
<1>1. exhausted' /\ (last_used' = last_used \/ last_used' = [last_used EXCEPT ![k] = NextNum(k)])
  BY DEF ConnectFails, GetThrows
<1>2. Replicas > 0 => last_used'["REPLICA"] \in 0 .. Replicas - 1
  <2> SUFFICES ASSUME Replicas > 0 PROVE last_used'["REPLICA"] \in 0 .. Replicas - 1
      OBVIOUS
  <2>1. last_used["REPLICA"] \in 0 .. Replicas - 1 /\ Replicas \in Nat
    BY NodesAssumption DEF InTurn
  <2>2. NextNum("REPLICA") \in 0 .. Replicas - 1
    BY <2>1, NextReplica
  <2> HIDE DEF k
  <2>3. CASE k = "REPLICA"
    BY <1>1, <2>1, <2>2, <2>3 DEF Types, ServiceTypeOK, PoolTypeOK, Kinds
  <2>4. CASE k # "REPLICA"
    BY <1>1, <2>1, <2>4 DEF Types, ServiceTypeOK, PoolTypeOK, Kinds
  <2> QED BY <2>3, <2>4
<1> QED BY <1>1, <1>2 DEF InTurn

LEMMA InTurnHandle ==
    ASSUME Types, InTurn, NEW t \in Threads, Handle(t) PROVE InTurn'
<1>1. ASSUME ~Connect(t), ~ConnectFails(t), ~CountHost(t) PROVE InTurn'
  <2>1. /\ UNCHANGED <<last_used, exhausted, toHost>>
        /\ lent' = lent \/ lent' = [lent EXCEPT ![t] = {}]
    BY <1>1, ZenonT(60) DEF Handle, RejectPath, NoRoute, Probe, Dispatch, HandlerThrows, RejectInput,
          RejectNoDb, UseDb, QueryFails, Search, NotFound, Found, WrongPassword, Insert, Commit,
          CommitFails, CommitInDoubt, GiveBack, Destructor, Release, CountTotal, CountOutcome,
          Respond, LocalOnly, InPlace, poolVars, metrics
  <2>2. \E to : phase[t] # "tally" /\ to # "tally" /\ phase' = [phase EXCEPT ![t] = to]
    BY <1>1 DEF Handle, RejectPath, NoRoute, Probe, Dispatch, HandlerThrows, RejectInput,
          RejectNoDb, UseDb, QueryFails, Search, NotFound, Found, WrongPassword, Insert, Commit,
          CommitFails, CommitInDoubt, GiveBack, CountTotal, CountOutcome, Respond, Replies, Goes
  <2>a. phase \in [Threads -> Phases] /\ lent \in [Threads -> SUBSET (Nodes \X Conns)]
    BY DEF Types, ServiceTypeOK, PoolTypeOK
  <2>3. \A m : \A u \in Threads : u \in Uncounted(m)' <=> u \in Uncounted(m)
    BY <2>1, <2>2, <2>a DEF Uncounted, Holders
  <2>4. \A m : Uncounted(m)' = Uncounted(m)
    BY <2>3, UncountedFinite
  <2> QED BY <2>1, <2>4, InTurnStays DEF RequestsTo
<1> QED BY <1>1, InTurnConnect, InTurnFails, InTurnCountHost

\* However many replicas there are, Round Robin gives none of them more than
\* one request more than another.
THEOREM ReplicasShareReads == ServiceSpec => []HostsEven
<1>1. ServiceInit => InTurn
  <2> SUFFICES ASSUME ServiceInit PROVE InTurn
      OBVIOUS
  <2>1. \A n : Uncounted(n) = {}
    BY DEF ServiceInit, Uncounted
  <2>2. \A i \in 0 .. Replicas - 1 : RequestsTo(Replica(i)) = 0
    <3>1. \A n : Cardinality(Uncounted(n)) = 0
      BY <2>1, FS_EmptySet
    <3>2. \A n \in Nodes : toHost[n] = 0
      BY DEF ServiceInit
    <3> QED BY <3>1, <3>2, ReplicaNode DEF RequestsTo
  <2>3. last_used["REPLICA"] = 0
    BY DEF ServiceInit, PoolInit, Kinds
  <2>4. \A i \in 0 .. Replicas - 1 : 0 \in 0 .. Replicas - 1 /\ Ahead(i) = 0
    BY <2>3, NodesAssumption DEF Ahead
  <2> QED BY <2>2, <2>3, <2>4, NodesAssumption DEF InTurn
<1>2. Types /\ InTurn /\ [ServiceNext]_serviceVars => InTurn'
  <2> SUFFICES ASSUME Types, InTurn, [ServiceNext]_serviceVars PROVE InTurn'
      OBVIOUS
  <2>a. phase \in [Threads -> Phases]
    BY DEF Types, ServiceTypeOK
  <2>b. ASSUME UNCHANGED <<lent, last_used, exhausted, toHost>>,
               \A u \in Threads : phase'[u] = "tally" <=> phase[u] = "tally"
        PROVE  InTurn'
    <3>1. \A m : Uncounted(m)' = Uncounted(m)
      BY <2>b DEF Uncounted, Holders
    <3> QED BY <2>b, <3>1, InTurnStays DEF RequestsTo
  <2>1. ASSUME NEW t \in Threads, Handle(t) PROVE InTurn'
    BY <2>1, InTurnHandle
  <2>2. ASSUME NEW t \in Threads, NEW ep, NEW input, NEW user, Receive(t, ep, input, user)
        PROVE  InTurn'
    BY <2>2, <2>a, <2>b DEF Receive, Goes, poolVars, metrics
  <2>3. ASSUME NEW n, Replicate(n) \/ NodeStops(n) \/ UNCHANGED serviceVars PROVE InTurn'
    BY <2>3, <2>b DEF Replicate, NodeStops, serviceVars, poolVars, metrics
  <2> QED BY <2>1, <2>2, <2>3 DEF ServiceNext
<1> QED BY <1>1, <1>2, TypesInit, TypesStep, InTurnImplies, PTL DEF ServiceSpec

-----------------------------------------------------------------------------
(* The server.                                                            *)

\* Behind its sockets and queue, the server is the service of its handlers.
LEMMA StepIsServiceStep == [Next]_allVars => [ServiceNext]_serviceVars
<1> SUFFICES ASSUME [Next]_allVars PROVE [ServiceNext]_serviceVars
    OBVIOUS
<1>1. ASSUME NEW k, Accept(k) \/ \E t \in Threads : Serve(t, k) PROVE UNCHANGED serviceVars
  BY <1>1 DEF Accept, Serve
<1>2. ASSUME NEW t \in Threads, NEW ep \in Endpoints, NEW input \in Inputs(ep) \cap Payloads, NEW user \in Users,
             ReceiveNext(t, ep, input, IF ep \in {"login", "get"} THEN user ELSE 0)
      PROVE  ServiceNext
  BY <1>2 DEF ReceiveNext, ServiceNext
<1>3. ASSUME NEW t \in Threads, Work(t) PROVE [ServiceNext]_serviceVars
  BY <1>3 DEF Work, Proceed, Finish, ServiceNext
<1>4. ASSUME StopListening \/ Shutdown \/ SpuriousWait PROVE UNCHANGED serviceVars
  BY <1>4 DEF StopListening, Shutdown, WaitReturns, WaitTest, WaitBlock, SpuriousWait, Waits
<1>5. ASSUME Database PROVE ServiceNext
  BY <1>5 DEF Database, ServiceNext
<1>6. CASE UNCHANGED allVars
  BY <1>6 DEF allVars
<1> QED BY <1>1, <1>2, <1>3, <1>4, <1>5, <1>6 DEF Next

\* So every theorem on ServiceSpec is one on the server.
THEOREM ServerIsService == Spec => ServiceSpec
<1>1. Init => ServiceInit
  BY DEF Init
<1> QED BY <1>1, StepIsServiceStep, PTL DEF Spec, ServiceSpec

-----------------------------------------------------------------------------
LEMMA ServesInit == Init => ServesWithinPool
<1> SUFFICES ASSUME Init PROVE ServesWithinPool
    OBVIOUS
<1>1. /\ status = [k \in Connections |-> "new"] /\ open = TRUE
      /\ listening = TRUE /\ waiting = "test" /\ sockets = {}
      /\ carries = [t \in Threads |-> NoConnection] /\ left = [t \in Threads |-> 0]
      /\ phase = [t \in Threads |-> "idle"]
  BY DEF Init, Pool!ServiceInit, ServiceInit, Connections
<1>2. 0 \in 0 .. KeepAliveMax
  BY ConnectionsAssumption
<1>3. sockets = {k \in Connections : status[k] \in {"queued", "running", "refused"}}
  BY <1>1
<1> QED BY <1>1, <1>2, <1>3 DEF ServesWithinPool

LEMMA ServesStep == Types /\ ServesWithinPool /\ [Next]_allVars => ServesWithinPool'
<1> SUFFICES ASSUME Types, ServesWithinPool, [Next]_allVars PROVE ServesWithinPool'
    OBVIOUS
<1>0. KeepAliveMax \in Nat \ {0} /\ \A k \in Connections : k # NoConnection
  BY ConnectionsAssumption DEF Connections, Pool!Ids, NoConnection
<1>p. phase \in [Threads -> Phases]
  BY DEF Types, ServiceTypeOK
<1> USE DEF ServesWithinPool
<1>1. ASSUME NEW k \in Connections, Accept(k) PROVE ServesWithinPool'
  <2>1. /\ status[k] = "new" /\ UNCHANGED <<open, listening, waiting, carries, left, phase>>
        /\ \E s \in {"queued", "refused"} : status' = [status EXCEPT ![k] = s]
        /\ sockets' = sockets \cup {k}
    BY <1>1 DEF Accept, Pool!Submit, Pool!In, Enqueued, serviceVars
  <2>2. sockets' = {j \in Connections : status'[j] \in {"queued", "running", "refused"}}
    BY <2>1
  <2>3. \A t \in Threads : carries[t] # NoConnection => status'[carries[t]] = "running"
    BY <2>1
  <2> QED BY <2>1, <2>2, <2>3
<1>2. ASSUME NEW k \in Connections, NEW t \in Threads, Serve(t, k) PROVE ServesWithinPool'
  <2>1. /\ status[k] = "queued" /\ status' = [status EXCEPT ![k] = "running"]
        /\ carries[t] = NoConnection /\ carries' = [carries EXCEPT ![t] = k]
        /\ left' = [left EXCEPT ![t] = KeepAliveMax]
        /\ UNCHANGED <<open, listening, waiting, sockets, phase>>
    BY <1>2 DEF Serve, Pool!Start, Pool!In, serviceVars
  <2>2. sockets' = {j \in Connections : status'[j] \in {"queued", "running", "refused"}}
    BY <2>1
  <2>3. \A u \in Threads \ {t} : carries[u] # k
    BY <2>1, <1>0
  <2> QED BY <2>1, <2>2, <2>3, <1>0
<1>3. ASSUME NEW t \in Threads, NEW ep, NEW input, NEW user, ReceiveNext(t, ep, input, user)
      PROVE  ServesWithinPool'
  <2>1. /\ left[t] > 0 /\ left' = [left EXCEPT ![t] = @ - 1]
        /\ phase' = [phase EXCEPT ![t] = "routing"]
        /\ UNCHANGED <<status, open, listening, waiting, carries, sockets>>
    BY <1>3 DEF ReceiveNext, Receive, Goes, Spend
  <2> QED BY <2>1, <1>0, <1>p
<1>4. ASSUME NEW t \in Threads, Proceed(t) PROVE ServesWithinPool'
  <2>1. UNCHANGED serverVars /\ \E to : phase[t] # "idle" /\ phase' = [phase EXCEPT ![t] = to]
    BY <1>4, SMTT(40) DEF Proceed, Handle, RejectPath, NoRoute, Probe, Dispatch, HandlerThrows, RejectInput,
          RejectNoDb, UseDb, Connect, ConnectFails, CountHost, QueryFails, Search, NotFound,
          Found, WrongPassword, Insert, Commit, CommitFails, CommitInDoubt, GiveBack, CountTotal,
          CountOutcome, Respond, Replies, Goes
  <2> QED BY <2>1, <1>p DEF serverVars
<1>5. ASSUME NEW t \in Threads, Finish(t) PROVE ServesWithinPool'
  <2>1. PICK k \in Connections :
            /\ carries[t] = k /\ status[k] = "running" /\ status' = [status EXCEPT ![k] = "done"]
            /\ carries' = [carries EXCEPT ![t] = NoConnection]
            /\ left' = [left EXCEPT ![t] = 0] /\ sockets' = sockets \ {k}
            /\ phase[t] = "idle" /\ UNCHANGED <<open, listening, phase>>
            /\ waiting' \in {waiting, "test"}
    BY <1>5 DEF Finish, BetweenRequests, Pool!End, Pool!In, serviceVars
  <2>2. sockets' = {j \in Connections : status'[j] \in {"queued", "running", "refused"}}
    BY <2>1
  <2>3. \A u \in Threads \ {t} : carries[u] # k
    BY <2>1, <1>0
  <2>4. \A j \in Connections : status'[j] = "running" => \E u \in Threads : carries'[u] = j
    <3> SUFFICES ASSUME NEW j \in Connections, status'[j] = "running"
                 PROVE  \E u \in Threads : carries'[u] = j
        OBVIOUS
    <3>1. j # k /\ status[j] = "running"
      BY <2>1
    <3>2. PICK u \in Threads : carries[u] = j
      BY <3>1
    <3> QED BY <2>1, <3>1, <3>2
  <2> QED BY <2>1, <2>2, <2>3, <2>4, <1>0
<1>6. ASSUME StopListening \/ Shutdown \/ SpuriousWait PROVE ServesWithinPool'
  BY <1>6 DEF StopListening, Shutdown, WaitReturns, WaitTest, WaitBlock, SpuriousWait, Waits, Pool!Close, serviceVars
<1>7. ASSUME Database \/ UNCHANGED allVars PROVE ServesWithinPool'
  BY <1>7 DEF Database, Replicate, NodeStops, allVars, serverVars, serviceVars
<1> HIDE DEF ServesWithinPool
<1> QED BY <1>1, <1>2, <1>3, <1>4, <1>5, <1>6, <1>7 DEF Next, Work

\* The threads of the pool serve one connection each, every served connection
\* has its thread, and handlers run nowhere else.
THEOREM ServedByThePool == Spec => []ServesWithinPool
<1>1. Spec => []Types
  BY ServerIsService, TypesInit, TypesStep, PTL DEF ServiceSpec
<1> QED BY <1>1, ServesInit, ServesStep, PTL DEF Spec

-----------------------------------------------------------------------------
\* Nobody is served, or waits, once the pool is gone.
Drained == ~open => \A k \in Connections : status[k] \notin {"queued", "running"}

LEMMA DrainedStep == ServesWithinPool /\ Drained /\ [Next]_allVars => Drained'
<1> SUFFICES ASSUME ServesWithinPool, Drained, [Next]_allVars PROVE Drained'
    OBVIOUS
<1>0. status \in [Connections -> {"new", "queued", "running", "done", "refused"}] /\ open \in BOOLEAN
  BY DEF ServesWithinPool
<1> USE DEF Drained
<1>1. ASSUME NEW k \in Connections, Accept(k) PROVE Drained'
  BY <1>1 DEF Accept, Pool!Submit
<1>2. ASSUME NEW k \in Connections, NEW t \in Threads, Serve(t, k) PROVE Drained'
  BY <1>0, <1>2 DEF Serve, Pool!Start, Pool!In, Connections
<1>3. ASSUME NEW t \in Threads, Finish(t) PROVE Drained'
  BY <1>0, <1>3 DEF Finish, Pool!End, Pool!In, Connections
<1>4. CASE Shutdown \/ SpuriousWait
  BY <1>0, <1>4 DEF Shutdown, WaitReturns, WaitTest, WaitBlock, SpuriousWait, Waits, Pool!Close, Pool!In, Connections
<1>5. ASSUME UNCHANGED <<status, open>> PROVE Drained'
  BY <1>5
<1>6. ASSUME NEW t \in Threads, NEW ep, NEW input, NEW user, ReceiveNext(t, ep, input, user)
      PROVE  Drained'
  BY <1>5, <1>6 DEF ReceiveNext
<1>7. ASSUME NEW t \in Threads, Proceed(t) PROVE Drained'
  BY <1>5, <1>7 DEF Proceed, serverVars
<1>8. CASE StopListening \/ Database \/ UNCHANGED allVars
  BY <1>5, <1>8 DEF StopListening, Database, serverVars, allVars
<1> HIDE DEF Drained
<1> QED BY <1>1, <1>2, <1>3, <1>4, <1>6, <1>7, <1>8 DEF Next, Work

\* A server whose threads are all idle has nothing on its way.
LEMMA IdleIsQuiet ==
    ASSUME Types, Conserved, HeldOnlyInTry, MetricsFit, FailedFitsAnswers, AckedIsCommitted,
           ServesWithinPool, Drained, ~open
    PROVE  QuietAfterShutdown
<1>1. \A t \in Threads : phase[t] = "idle"
  BY DEF ServesWithinPool, Drained
<1>2. \A n \in Nodes : Len(idle[n]) = PoolSize
  <2> TAKE n \in Nodes
  <2>1. \A t \in Threads : lent[t] = {}
    BY <1>1 DEF HeldOnlyInTry
  <2>2. Holders(n) = {}
    BY <2>1 DEF Holders
  <2>3. Cardinality(Holders(n)) = 0
    BY <2>2, FS_EmptySet
  <2>4. Len(idle[n]) \in Nat
    BY DEF Types, ServiceTypeOK, PoolTypeOK
  <2> QED BY <2>3, <2>4, PoolSizeAssumption DEF Conserved
<1>3. ASSUME NEW ep \in Api \cap Endpoints
      PROVE  total[ep] + thrown[ep] = answered[ep] /\ total[ep] = failed[ep] + observed[ep]
  <2>1. With(ep, {"outcome"}) = {} /\ Bad(ep) = {} /\ Good(ep) = {}
    BY <1>1 DEF With, Bad, Good
  <2>2. /\ Cardinality(With(ep, {"outcome"})) = 0
        /\ Cardinality(Bad(ep)) = 0 /\ Cardinality(Good(ep)) = 0
    BY <2>1, FS_EmptySet
  <2>3. /\ total[ep] \in Nat /\ failed[ep] \in Nat /\ observed[ep] \in Nat
        /\ answered[ep] \in Nat /\ errors[ep] \in Nat /\ thrown[ep] \in Nat
    BY DEF Types, ServiceTypeOK
  <2>4. total[ep] = failed[ep] + observed[ep]
    BY <2>2, <2>3 DEF MetricsFit
  <2>5. failed[ep] + thrown[ep] = errors[ep] /\ observed[ep] = answered[ep] - errors[ep]
    BY <2>2, <2>3, FitsByEndpoint
  <2> QED BY <2>3, <2>4, <2>5
<1>4. acked \cup inDoubt = 1 .. committed
  BY <1>1 DEF AckedIsCommitted, With
<1>5. sockets = Pool!In("refused")
  BY DEF ServesWithinPool, Drained, Pool!In, Connections
<1> QED BY <1>2, <1>3, <1>4, <1>5 DEF QuietAfterShutdown

\* When wait_all() has returned, every request that was read is answered, and
\* counted unless its handler threw, every connection to the database is back, every registration is
\* told or in doubt, and only sockets that the queue refused are still open.
THEOREM ShutdownIsQuiet == Spec => []QuietAfterShutdown
<1>1. Init => Drained
  BY DEF Init, Pool!ServiceInit, Drained
<1>2. Spec => []Types
  BY ServerIsService, TypesInit, TypesStep, PTL DEF ServiceSpec
<1>3. Spec => []Drained
  BY <1>1, DrainedStep, ServedByThePool, PTL DEF Spec
<1>4. Spec => [](Conserved /\ HeldOnlyInTry /\ MetricsFit /\ FailedFitsAnswers /\ AckedIsCommitted)
  BY ServerIsService, ServiceKeepsConnections, ConnectionsHeldInTryOnly, MetricsAgree,
     FailuresAgree, AckedAreCommitted, PTL
<1>5. Types /\ Conserved /\ HeldOnlyInTry /\ MetricsFit /\ FailedFitsAnswers /\ AckedIsCommitted
          /\ ServesWithinPool /\ Drained => QuietAfterShutdown
  BY IdleIsQuiet DEF QuietAfterShutdown
<1> QED BY <1>2, <1>3, <1>4, <1>5, ServedByThePool, PTL

\* With as many connections to each node as the pool has threads, which is how
\* App configures it, no request is told that there is no connection.
THEOREM ServerNeverExhausted ==
    ASSUME EnoughConnections PROVE Spec => []NeverExhausted
BY ServerIsService, NoHandlerIsTurnedAway, PTL

-----------------------------------------------------------------------------
(* The server and the pool of threads.                                     *)

LEMMA StepIsPoolStep == [Next]_allVars => [Pool!ServiceNext]_(Pool!serviceVars)
<1> SUFFICES ASSUME [Next]_allVars PROVE [Pool!ServiceNext]_(Pool!serviceVars)
    OBVIOUS
<1> USE DEF Connections, Pool!serviceVars, Pool!ServiceNext
<1>1. ASSUME NEW k \in Connections, Accept(k) PROVE Pool!ServiceNext
  BY <1>1 DEF Accept
<1>2. ASSUME NEW k \in Connections, NEW t \in Threads, Serve(t, k) PROVE Pool!ServiceNext
  BY <1>2 DEF Serve
<1>3. ASSUME NEW t \in Threads, NEW ep, NEW input, NEW user, ReceiveNext(t, ep, input, user)
      PROVE  UNCHANGED Pool!serviceVars
  BY <1>3 DEF ReceiveNext
<1>4. ASSUME NEW t \in Threads, Proceed(t) PROVE UNCHANGED Pool!serviceVars
  BY <1>4 DEF Proceed, serverVars
<1>5. ASSUME NEW t \in Threads, Finish(t) PROVE Pool!ServiceNext
  BY <1>5 DEF Finish, Pool!End, Pool!In
<1>6. CASE Shutdown \/ SpuriousWait
  BY <1>6 DEF Shutdown, WaitReturns, WaitTest, WaitBlock, SpuriousWait, Waits
<1>7. CASE StopListening \/ Database \/ UNCHANGED allVars
  BY <1>7 DEF StopListening, Database, serverVars, allVars
<1> QED BY <1>1, <1>2, <1>3, <1>4, <1>5, <1>6, <1>7 DEF Next, Work

\* To its pool, the server is a client like any other: it does nothing with a
\* connection that TaskService, and so ThreadPool, does not provide for.
THEOREM ServerUsesPool ==
    Spec => Pool!ServiceInit /\ [][Pool!ServiceNext]_(Pool!serviceVars)
<1>1. Init => Pool!ServiceInit
  BY DEF Init
<1> QED BY <1>1, StepIsPoolStep, PTL DEF Spec

\* The bounds of the process: the queue and the threads hold what they are made
\* for, a place among the running connections is a free thread and the other way
\* round, and all other descriptors are those of refused connections.
Bounded ==
    /\ Cardinality(Pool!In("queued")) <= Capacity
    /\ Cardinality(Pool!In("running")) <= Cardinality(Threads)
    /\ Cardinality(Pool!In("running")) < Cardinality(Threads) <=> \E t \in Threads : carries[t] = NoConnection
    /\ Cardinality(sockets \ Pool!In("refused")) <= Capacity + Cardinality(Threads)

LEMMA StatusFinite ==
    \A s : IsFiniteSet(Pool!In(s)) /\ Cardinality(Pool!In(s)) \in Nat
<1> TAKE s
<1>1. IsFiniteSet(Pool!Ids)
  BY ConnectionsAssumption, FS_Interval DEF Pool!Ids
<1>2. Pool!In(s) \subseteq Pool!Ids
  BY DEF Pool!In
<1> QED BY <1>1, <1>2, FS_Subset, FS_CardinalityType

QueueBounded == Cardinality(Pool!In("queued")) <= Capacity

LEMMA SamePoolCardinality == \A S : Pool!Cardinality(S) = Cardinality(S)
BY DEF Cardinality, Pool!Cardinality, IsFiniteSet, Pool!IsFiniteSet

LEMMA QueueBoundedStep == ServesWithinPool /\ QueueBounded /\ [Next]_allVars => QueueBounded'
<1> SUFFICES ASSUME ServesWithinPool, QueueBounded, [Next]_allVars PROVE QueueBounded'
    OBVIOUS
<1>0. status \in [Pool!Ids -> {"new", "queued", "running", "done", "refused"}]
  BY DEF ServesWithinPool, Connections
<1>1. CASE UNCHANGED status
  BY <1>1 DEF QueueBounded, Pool!In
<1>2. ASSUME NEW k \in Pool!Ids, Pool!Submit(k) PROVE QueueBounded'
  <2>1. CASE Pool!Room
    <3>1. Pool!In("queued")' = Pool!In("queued") \cup {k}
      BY <1>0, <1>2, <2>1 DEF Pool!Submit, Pool!In
    <3>2. Cardinality(Pool!In("queued")') <= Cardinality(Pool!In("queued")) + 1
      BY <3>1, StatusFinite, FS_AddElement, SMTT(40)
    <3>3. Cardinality(Pool!In("queued")) < Capacity
      BY <2>1, SamePoolCardinality DEF Pool!Room
    <3>4. Cardinality(Pool!In("queued")') \in Nat
      BY <3>1, StatusFinite, FS_AddElement, FS_CardinalityType
    <3> QED BY <3>2, <3>3, <3>4, StatusFinite, CapacityAssumption DEF QueueBounded
  <2>2. CASE ~Pool!Room
    <3>1. Pool!In("queued")' = Pool!In("queued")
      BY <1>0, <1>2, <2>2 DEF Pool!Submit, Pool!In
    <3> QED BY <3>1 DEF QueueBounded
  <2> QED BY <2>1, <2>2
<1>3. ASSUME NEW k \in Pool!Ids, Pool!Start(k) \/ Pool!End(k) PROVE QueueBounded'
  <2>1. Pool!In("queued")' \subseteq Pool!In("queued")
    BY <1>0, <1>3 DEF Pool!Start, Pool!End, Pool!In
  <2>2. Cardinality(Pool!In("queued")') <= Cardinality(Pool!In("queued"))
        /\ Cardinality(Pool!In("queued")') \in Nat
    BY <2>1, StatusFinite, FS_Subset, FS_CardinalityType
  <2> QED BY <2>2, StatusFinite, CapacityAssumption DEF QueueBounded
<1>4. [Pool!ServiceNext]_(Pool!serviceVars)
  BY StepIsPoolStep
<1> QED BY <1>1, <1>2, <1>3, <1>4 DEF Pool!ServiceNext, Pool!serviceVars, Pool!Close

LEMMA IsBijection ==
    ASSUME NEW S, NEW T, NEW f \in [S -> T],
           \A a, b \in S : f[a] = f[b] => a = b, \A c \in T : \E a \in S : f[a] = c
    PROVE  ExistsBijection(S, T)
BY DEF ExistsBijection, Bijection, Injection, Surjection, IsInjective

\* The threads that carry a connection are as many as the connections that run.
Carriers == {t \in Threads : carries[t] # NoConnection}
LEMMA CarriersRun ==
    ASSUME ServesWithinPool
    PROVE  /\ IsFiniteSet(Carriers)
           /\ Cardinality(Pool!In("running")) = Cardinality(Carriers)
<1> DEFINE f == [t \in Carriers |-> carries[t]]
<1>1. Carriers \subseteq Threads /\ IsFiniteSet(Carriers)
  BY ThreadsAssumption, FS_Subset DEF Carriers
<1>2. ExistsBijection(Carriers, Pool!In("running"))
  <2>1. \A t \in Carriers : f[t] \in Pool!In("running")
    BY DEF ServesWithinPool, Carriers, Connections, Pool!In
  <2>2. \A t, u \in Carriers : f[t] = f[u] => t = u
    BY DEF ServesWithinPool, Carriers
  <2>3. \A k \in Pool!In("running") : \E t \in Carriers : f[t] = k
    <3> TAKE k \in Pool!In("running")
    <3>1. PICK t \in Threads : carries[t] = k
      BY DEF ServesWithinPool, Connections, Pool!In
    <3>2. k # NoConnection
      BY ConnectionsAssumption DEF Pool!In, Pool!Ids, NoConnection
    <3> QED BY <3>1, <3>2 DEF Carriers
  <2>4. f \in [Carriers -> Pool!In("running")]
    BY <2>1
  <2> HIDE DEF f
  <2> QED BY <2>2, <2>3, <2>4, IsBijection
<1> QED BY <1>1, <1>2, FS_Bijection

\* The queue and the threads hold no more than they are made for, and the open
\* descriptors are bounded but for those that enqueue() refused.
THEOREM DescriptorsBounded == Spec => []Bounded
<1>1. Init => QueueBounded
  <2> SUFFICES ASSUME Init PROVE QueueBounded
      OBVIOUS
  <2>1. Pool!In("queued") = {}
    BY DEF Init, Pool!ServiceInit, Pool!In
  <2> QED BY <2>1, FS_EmptySet, CapacityAssumption DEF QueueBounded
<1>2. ServesWithinPool /\ QueueBounded => Bounded
  <2> SUFFICES ASSUME ServesWithinPool, QueueBounded PROVE Bounded
      OBVIOUS
  <2> DEFINE queued == Pool!In("queued") running == Pool!In("running")
  <2>1. Carriers \subseteq Threads /\ IsFiniteSet(Threads) /\ Cardinality(Threads) \in Nat
    BY ThreadsAssumption, FS_CardinalityType DEF Carriers
  <2>2. Cardinality(running) <= Cardinality(Threads)
    BY <2>1, CarriersRun, FS_Subset
  <2>3. Cardinality(running) = Cardinality(Threads) => Carriers = Threads
    BY <2>1, CarriersRun, FS_Subset
  <2>4. Cardinality(running) < Cardinality(Threads) <=> Carriers # Threads
    BY <2>1, <2>2, <2>3, CarriersRun, StatusFinite
  <2>5. sockets \ Pool!In("refused") = queued \cup running
    BY DEF ServesWithinPool, Connections, Pool!In
  <2>6. queued \cap running = {}
    BY DEF Pool!In
  <2>7. Cardinality(queued \cup running) = Cardinality(queued) + Cardinality(running)
    <3>1. Cardinality(queued \cap running) = 0
      BY <2>6, FS_EmptySet
    <3>2. IsFiniteSet(queued) /\ IsFiniteSet(running)
          /\ Cardinality(queued) \in Nat /\ Cardinality(running) \in Nat
      BY StatusFinite
    <3> HIDE DEF queued, running
    <3>3. Cardinality(queued \cup running)
             = Cardinality(queued) + Cardinality(running) - Cardinality(queued \cap running)
      BY <3>2, FS_Union
    <3> QED BY <3>1, <3>2, <3>3
  <2>8. Cardinality(queued \cup running) <= Capacity + Cardinality(Threads)
    BY <2>1, <2>2, <2>7, StatusFinite, CapacityAssumption DEF QueueBounded
  <2> QED BY <2>2, <2>4, <2>5, <2>8 DEF Bounded, QueueBounded, Carriers
<1> QED BY <1>1, <1>2, QueueBoundedStep, ServedByThePool, PTL DEF Spec

\* The connections to the database are neither lost, nor doubled, nor lent to
\* two requests, over any number of HTTP connections; writes go to the master.
THEOREM ServerKeepsConnections == Spec => [](Conserved /\ Exclusive /\ RoutedByRole)
BY ServerIsService, ServiceKeepsConnections, PTL

=============================================================================
