------------------------------- MODULE Server -------------------------------
(***************************************************************************)
(* The whole server: RequestService on the connections that httplib        *)
(* accepts and the pool of threads serves.  The pool is the service that   *)
(* it implements (TaskService, see MCThreadPool): a task is a connection,  *)
(* a server a thread.  A thread keeps its connection for some requests     *)
(* (keep-alive), so queued connections wait for quiet ones to time out.    *)
(***************************************************************************)
EXTENDS RequestService

CONSTANTS
    Capacity,           \* http_queue_capacity
    MaxConnections,     \* bound of the model: connections that are accepted
    KeepAliveMax        \* set_keep_alive_max_count: requests on one connection

ASSUME CapacityAssumption == Capacity \in Nat \ {0}
ASSUME ConnectionsAssumption == MaxConnections \in Nat /\ KeepAliveMax \in Nat \ {0}

VARIABLES
    status, open,   \* the pool: what became of each connection, not destroyed yet
    listening,      \* httplib's accept loop runs
    waiting,        \* where its thread is in wait_all(), once the loop has ended
    carries,        \* each thread: the connection it serves, or NoConnection
    left,           \* ... and how many requests that may still carry
    sockets         \* the descriptors that the process holds open

serverVars == <<status, open, listening, waiting, carries, left, sockets>>
allVars == <<serviceVars, serverVars>>

Pool == INSTANCE TaskService WITH Servers <- Cardinality(Threads), MaxTasks <- MaxConnections

NoConnection == -1
Connections == Pool!Ids

Init ==
    /\ ServiceInit /\ Pool!ServiceInit
    /\ listening = TRUE /\ waiting = "test"
    /\ carries = [t \in Threads |-> NoConnection] /\ left = [t \in Threads |-> 0]
    /\ sockets = {}

-----------------------------------------------------------------------------
\* What enqueue() returns, see EnqueueTellsTheTruth of ThreadPool.
Enqueued(k) == TRUE

\* The accept loop: httplib closes the socket only if enqueue() returns false.
Accept(k) ==
    /\ listening
    /\ Pool!Submit(k)
    /\ sockets' = IF Enqueued(k) THEN sockets \cup {k} ELSE sockets
    /\ UNCHANGED <<serviceVars, listening, waiting, carries, left>>

\* A thread of the pool takes the oldest connection: process_and_close_socket.
Serve(t, k) ==
    /\ carries[t] = NoConnection
    /\ Pool!Start(k)
    /\ carries' = [carries EXCEPT ![t] = k]
    /\ left' = [left EXCEPT ![t] = KeepAliveMax]
    /\ UNCHANGED <<serviceVars, listening, waiting, sockets>>

Spend(t) == left' = [left EXCEPT ![t] = @ - 1]

ReceiveNext(t, ep, input, user) ==
    /\ left[t] > 0
    /\ Receive(t, ep, input, user)
    /\ Spend(t)
    /\ UNCHANGED <<status, open, listening, waiting, carries, sockets>>

Proceed(t) == Handle(t) /\ UNCHANGED serverVars

\* Variants with a bug: the connection ends under a running handler, or never
\* while the client keeps quiet.
AtAnyMoment(t) == TRUE
WhenSpent(t) == phase[t] = "idle" /\ left[t] = 0
BetweenRequests(t) == phase[t] = "idle"

\* The connection has carried its requests, is closed by the client, or stays
\* quiet for longer than the keep-alive or the read timeout.  Its thread counts
\* the task and notifies wait_all(), without the mutex: only a thread that is
\* blocked is woken.
Finish(t) ==
    /\ carries[t] # NoConnection /\ BetweenRequests(t)
    /\ Pool!End(carries[t])
    /\ carries' = [carries EXCEPT ![t] = NoConnection]
    /\ left' = [left EXCEPT ![t] = 0]
    /\ sockets' = sockets \ {carries[t]}
    /\ waiting' = IF waiting = "asleep" THEN "test" ELSE waiting
    /\ UNCHANGED <<serviceVars, listening>>

\* The accept loop ends: accept() fails, or stop() in App::~App ...
StopListening ==
    /\ listening /\ listening' = FALSE
    /\ UNCHANGED <<serviceVars, status, open, waiting, carries, left, sockets>>

\* ... and then, with requests in flight and connections queued, shutdown() calls
\* wait_all(), which waits for all of them, and httplib destroys the pool.
Waits(from, to) ==
    /\ ~listening /\ open
    /\ waiting = from /\ waiting' = to
    /\ UNCHANGED <<serviceVars, listening, carries, left, sockets>>
Counted == Pool!In("queued") \cup Pool!In("running") = {}

\* The predicate holds: wait_all() returns ...
WaitReturns == Waits("test", "test") /\ Pool!Close
\* ... or does not hold: the thread is about to block, and blocks.
WaitTest  == Waits("test", "block") /\ ~Counted /\ UNCHANGED <<status, open>>
WaitBlock == Waits("block", "asleep") /\ UNCHANGED <<status, open>>
SpuriousWait == Waits("asleep", "test") /\ UNCHANGED <<status, open>>

Shutdown == WaitReturns \/ WaitTest \/ WaitBlock

\* The database goes on by itself.
Database ==
    /\ \/ \E n \in NodesOf("REPLICA") : Replicate(n)
       \/ \E n \in Nodes : NodeStops(n)
    /\ UNCHANGED serverVars

Work(t) == Proceed(t) \/ Finish(t)

Next ==
    \/ \E k \in Connections : Accept(k) \/ \E t \in Threads : Serve(t, k)
    \/ \E t \in Threads :
          \/ \E ep \in Endpoints : \E input \in Inputs(ep) \cap Payloads, user \in Users :
                ReceiveNext(t, ep, input, IF ep \in {"login", "get"} THEN user ELSE 0)
          \/ Work(t)
    \/ StopListening \/ Shutdown \/ SpuriousWait
    \/ Database

Spec == Init /\ [][Next]_allVars

\* What the pool promises (ImplementsTaskService) and what each thread does, that
\* of the accept loop included; connections end because httplib has timeouts.
\* Nothing makes clients come, the loop end, nodes stop, or a wait end spuriously.
Fairness ==
    /\ WF_allVars(\E k \in Connections, t \in Threads : Serve(t, k))
    /\ \A t \in Threads : WF_allVars(Work(t))
    /\ WF_allVars(Shutdown)
FairSpec == Spec /\ Fairness

-----------------------------------------------------------------------------
\* Handlers run on the threads of the pool only, one per connection, and each
\* connection that is served has a thread: so as many connections to each node
\* as there are threads are enough (NeverExhausted of ConnectionPool).  The
\* descriptors that are open are those of the connections which have not ended.
\* With the types of the variables.
ServesWithinPool ==
    /\ status \in [Connections -> {"new", "queued", "running", "done", "refused"}]
    /\ open \in BOOLEAN /\ listening \in BOOLEAN /\ waiting \in {"test", "block", "asleep"}
    /\ carries \in [Threads -> Connections \cup {NoConnection}]
    /\ left \in [Threads -> 0 .. KeepAliveMax]
    /\ \A t \in Threads :
          /\ phase[t] # "idle" \/ left[t] > 0 => carries[t] # NoConnection
          /\ carries[t] # NoConnection => status[carries[t]] = "running"
    /\ \A t, u \in Threads : carries[t] = carries[u] /\ carries[t] # NoConnection => t = u
    /\ \A k \in Connections : status[k] = "running" => \E t \in Threads : carries[t] = k
    /\ sockets = {k \in Connections : status[k] \in {"queued", "running", "refused"}}

\* When wait_all() has returned, nothing is half done: every request that was
\* read has been answered, and counted unless its handler threw, every database
\* connection is back, and the only sockets still open are those of the refused
\* connections, which enqueue() acknowledged and nobody closes.
QuietAfterShutdown ==
    ~open =>
        /\ \A n \in Nodes : Len(idle[n]) = PoolSize
        /\ \A ep \in Api \cap Endpoints :
              /\ total[ep] + thrown[ep] = answered[ep]
              /\ total[ep] = failed[ep] + observed[ep]
        /\ acked \cup inDoubt = 1 .. committed
        /\ sockets = Pool!In("refused")

\* A connection that waits in the queue is served and closed at last, although
\* threads stay with quiet connections: each of those ends.
QueuedIsClosed == \A k \in Connections : status[k] = "queued" ~> k \notin sockets

\* The wakeup of the last connection is lost: it ended while the thread was about
\* to block (WaitHung of ThreadPool).
WaitHung == waiting = "asleep" /\ Counted

\* Once the accept loop has ended, wait_all() returns, whatever is in flight, but
\* for that lost wakeup.  (The destructor comes behind it: JoinHung of ThreadPool.)
ShutdownDrains == ~listening ~> ~open \/ WaitHung

=============================================================================
