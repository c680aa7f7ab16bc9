---------------------------- MODULE ConnectionPool ----------------------------
(***************************************************************************)
(* ConnectionPool and ScopedConnection: one queue of idle PostgreSQL       *)
(* connections per master and per replica node, lent to the threads that   *)
(* handle requests.  Both operations are critical sections under pool_mtx_ *)
(* and read nothing outside it, so each is one step.                       *)
(***************************************************************************)
EXTENDS Integers, Sequences, FiniteSets

CONSTANTS
    Threads,    \* the threads that handle requests, one ScopedConnection each
    Masters,    \* how many master nodes are configured
    Replicas,   \* how many replica nodes are configured
    PoolSize    \* connections opened to each node

ASSUME ThreadsAssumption  == IsFiniteSet(Threads)
ASSUME NodesAssumption    == Masters \in Nat /\ Replicas \in Nat
ASSUME PoolSizeAssumption == PoolSize \in Nat

Kinds      == {"MASTER", "REPLICA"}                   \* NodeType
Count(k)   == IF k = "MASTER" THEN Masters ELSE Replicas
NodesOf(k) == {k} \X (0 .. Count(k) - 1)
Nodes      == NodesOf("MASTER") \cup NodesOf("REPLICA")
Conns      == Nodes \X (1 .. PoolSize)                \* a connection and its node

VARIABLES
    idle,       \* pool_: the queue of each node
    last_used,  \* last_used_replica_num and last_used_master_num
    lent,       \* what each thread holds: {} or {<<node, conn>>}, its ScopedConnection
    preferred,  \* history: the NodeType that the thread which holds one asked for
    exhausted   \* history: get_connection has thrown "No connections available"

poolVars == <<idle, last_used, lent, preferred, exhausted>>

-----------------------------------------------------------------------------
\* Variant with a bug: one connection too few.
OneLess == 1 .. PoolSize - 1
Opened == 1 .. PoolSize

(* The constructor opens PoolSize connections to every node.               *)
PoolInit ==
    /\ idle = [n \in Nodes |-> [i \in Opened |-> <<n, i>>]]
    /\ last_used = [k \in Kinds |-> 0]
    /\ lent = [t \in Threads |-> {}]
    /\ preferred = [t \in Threads |-> "REPLICA"]
    /\ exhausted = FALSE

\* Variant with a bug: writes are sent to a replica, too.
KindForAnyReplica(kind) == IF Replicas > 0 THEN "REPLICA" ELSE "MASTER"

\* The replicas for a thread that prefers them, if there are any.
KindFor(kind) == IF kind = "REPLICA" /\ Replicas > 0 THEN "REPLICA" ELSE "MASTER"

\* Variant with a bug: always the first node.
NextNumFirst(k) == 0

\* Round Robin: the number of the node to try next.
NextNum(k) == (last_used[k] + 1) % Count(k)
NextNode(k) == <<k, NextNum(k)>>

\* Variant with a bug: a handler has a second ScopedConnection.
NeedsAnother(t) == TRUE
NeedsOne(t) == lent[t] = {}

\* Variant with a bug: the connection stays in the queue.
PopNothing(n) == UNCHANGED idle
Pop(n) == idle' = [idle EXCEPT ![n] = Tail(@)]

\* get_connection(kind), in the constructor of ScopedConnection.
Get(t, kind) ==
    LET k == KindFor(kind)
        n == NextNode(k)
    IN  /\ NeedsOne(t)
        /\ Count(k) > 0
        /\ idle[n] # <<>>
        /\ last_used' = [last_used EXCEPT ![k] = NextNum(k)]
        /\ Pop(n)
        /\ lent' = [lent EXCEPT ![t] = @ \cup {<<n, Head(idle[n])>>}]
        /\ preferred' = [preferred EXCEPT ![t] = kind]
        /\ UNCHANGED exhausted

\* get_connection(kind) throws: the chosen node, and only that one, is asked.
GetThrows(t, kind) ==
    LET k == KindFor(kind)
    IN  /\ NeedsOne(t)
        /\ IF Count(k) > 0
           THEN idle[NextNode(k)] = <<>> /\ last_used' = [last_used EXCEPT ![k] = NextNum(k)]
           ELSE UNCHANGED last_used
        /\ exhausted' = TRUE
        /\ UNCHANGED <<idle, lent, preferred>>

\* Variant with a bug: the connection does not go back to the queue.
PushNothing(lease) == UNCHANGED idle
Push(lease) == idle' = [idle EXCEPT ![lease[1]] = Append(@, lease[2])]

\* release_connection, in the destructor of ScopedConnection: to the back of
\* the queue of the node the connection was taken from, whatever its state.
Release(t) ==
    \E lease \in lent[t] :
        /\ Push(lease)
        /\ lent' = [lent EXCEPT ![t] = {}]
        /\ preferred' = [preferred EXCEPT ![t] = "REPLICA"]
        /\ UNCHANGED <<last_used, exhausted>>

PoolNext ==
    \E t \in Threads :
        \/ \E kind \in Kinds : Get(t, kind) \/ GetThrows(t, kind)
        \/ Release(t)

PoolSpec == PoolInit /\ [][PoolNext]_poolVars

-----------------------------------------------------------------------------
\* The variables have their types; a thread holds one connection at most.
PoolTypeOK ==
    /\ idle \in [Nodes -> Seq(Conns)]
    /\ last_used \in [Kinds -> Nat]
    /\ lent \in [Threads -> SUBSET (Nodes \X Conns)]
    /\ \A t \in Threads : \A a, b \in lent[t] : a = b
    /\ preferred \in [Threads -> Kinds]
    /\ exhausted \in BOOLEAN

Holders(n) == {t \in Threads : \E lease \in lent[t] : lease[1] = n}

\* No connection is lost or made: what is idle at a node and what its threads
\* hold are always the PoolSize connections that were opened to it.
Conserved == \A n \in Nodes : Len(idle[n]) + Cardinality(Holders(n)) = PoolSize

\* A pqxx::connection belongs to one thread at a time: none is in two places
\* at once, and each is kept at the node to which it was opened.
AtHome ==
    /\ \A n \in Nodes : \A i \in 1 .. Len(idle[n]) : idle[n][i][1] = n
    /\ \A t \in Threads : \A lease \in lent[t] : lease[2][1] = lease[1]
IdleOnce ==
    \A n \in Nodes : \A i, j \in 1 .. Len(idle[n]) : i # j => idle[n][i] # idle[n][j]
IdleOrLent ==
    \A t \in Threads : \A lease \in lent[t] :
        \A i \in 1 .. Len(idle[lease[1]]) : idle[lease[1]][i] # lease[2]
LentOnce ==
    \A t, u \in Threads : \A a \in lent[t], b \in lent[u] : t # u => a[2] # b[2]
Exclusive == AtHome /\ IdleOnce /\ IdleOrLent /\ LentOnce

\* A statement never runs on the wrong kind of node: writes go to a master,
\* and reads leave the master alone as soon as there is a replica.
RoutedByRole ==
    \A t \in Threads : \A lease \in lent[t] :
        lease[1][1] = "REPLICA" <=> preferred[t] = "REPLICA" /\ Replicas > 0

\* With as many connections per node as there are threads, no handler is ever
\* told "No connections available" (a theorem of ConnectionPoolProofs).
NeverExhausted == ~exhausted

\* With fewer, get_connection throws (it moves Round Robin on and hands out
\* nothing) only while all connections of the chosen node are lent to threads.
ThrowsOnlyWhenAllLent ==
    [][lent' = lent =>
        \A k \in Kinds : last_used'[k] # last_used[k] =>
            Cardinality(Holders(<<k, last_used'[k]>>)) = PoolSize]_poolVars

=============================================================================
