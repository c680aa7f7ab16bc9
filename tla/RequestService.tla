---------------------------- MODULE RequestService ----------------------------
(***************************************************************************)
(* App's HTTP handlers on the threads of the pool, together with the       *)
(* connection pool (ConnectionPool), the metrics and, as far as the        *)
(* handlers can tell, PostgreSQL (external): a master, whose commits reach *)
(* the replicas later, and nodes that stop and take their connections with *)
(* them.  What a handler does on its own thread only is one step; every    *)
(* access to what threads share is a step of its own.                      *)
(***************************************************************************)
EXTENDS ConnectionPool

CONSTANTS
    Endpoints,      \* paths that clients request in this model
    Payloads,       \* what the requests carry, see Inputs
    Users,          \* users that they look for, numbered in the order of their commits
    MaxRequests,    \* bound of the model: requests received in a behaviour
    MaxFailures     \* bound of the model: database nodes that stop

Api    == {"login", "register", "get", "search"}    \* endpoints with metrics
Probes == {"livez", "readyz"}
Reads  == {"login", "get", "search"}

ASSUME EndpointsAssumption == Endpoints \subseteq Api \cup Probes \cup {"unrouted", "other"}
ASSUME UsersAssumption     == Users \subseteq Nat
ASSUME BoundsAssumption    == MaxRequests \in Nat /\ MaxFailures \in Nat

\* validate() leaves no configuration without a master.
ASSUME MasterAssumption    == Masters > 0

Phases == {"idle", "routing", "handler", "connect", "tally", "query", "commit",
           "release", "count", "outcome", "respond"}
\* What a request carries: JSON that does not parse, data that fails the
\* handler's checks, data only PostgreSQL rejects (the birth date 2000-02-31, a
\* name longer than its column or not in UTF-8), or good data.
Inputs(ep) ==
    CASE ep = "login"    -> {"malformed", "invalid", "valid"}
      [] ep = "register" -> {"malformed", "invalid", "dbRejects", "valid"}
      [] ep = "get" -> {"invalid", "valid"}
      [] ep = "search" -> {"invalid", "dbRejects", "valid"}
      [] OTHER -> {"valid"}

Master == <<"MASTER", 0>>

VARIABLES
    phase, req, res,            \* each thread: its position, request and response
    total, failed, observed,    \* http_requests_total, ..._failed_total, latency counts
    toHost,                     \* http_requests_to_host_total
    db_pool,                    \* db_pool_ is not null: db_start() succeeded
    broken,                     \* external: nodes whose open connections are dead
    committed, applied,         \* external: users on the master, users on each replica
    received,                   \* bound: requests received so far
    answered, errors, thrown,   \* history: responses; with a status >= 400; handlers that threw
    acked, inDoubt              \* history: users in 200 answers; commits whose answer was lost

metrics == <<total, failed, observed, toHost>>
database == <<broken, committed, applied>>
history == <<received, answered, errors, thrown, acked, inDoubt>>
serviceVars == <<poolVars, phase, req, res, metrics, db_pool, database, history>>

NoRequest  == [ep |-> "other", input |-> "valid", user |-> 0]
NoResponse == [status |-> 200, body |-> "none", ok |-> FALSE]

ServiceInit ==
    /\ PoolInit
    /\ phase = [t \in Threads |-> "idle"]
    /\ req = [t \in Threads |-> NoRequest] /\ res = [t \in Threads |-> NoResponse]
    /\ total = [e \in Api |-> 0] /\ failed = [e \in Api |-> 0]
    /\ observed = [e \in Api |-> 0] /\ toHost = [n \in Nodes |-> 0]
    /\ db_pool \in BOOLEAN
    /\ broken = {} /\ committed = 0 /\ applied = [n \in NodesOf("REPLICA") |-> 0]
    /\ received = 0
    /\ answered = [e \in Endpoints |-> 0] /\ errors = [e \in Endpoints |-> 0]
    /\ thrown = [e \in Endpoints |-> 0]
    /\ acked = {} /\ inDoubt = {}

-----------------------------------------------------------------------------
Goes(t, from, to) == phase[t] = from /\ phase' = [phase EXCEPT ![t] = to]

\* The handler of t sets the response and goes on in phase `to`.
Replies(t, from, to, status, body, ok) ==
    /\ Goes(t, from, to)
    /\ res' = [res EXCEPT ![t] = [status |-> status, body |-> body, ok |-> ok]]
    /\ UNCHANGED req

(* httplib reads a request on an idle thread (external).                   *)
Receive(t, ep, input, user) ==
    /\ received < MaxRequests
    /\ received' = received + 1
    /\ Goes(t, "idle", "routing")
    /\ req' = [req EXCEPT ![t] = [ep |-> ep, input |-> input, user |-> user]]
    /\ UNCHANGED <<poolVars, res, metrics, db_pool, database, answered, errors, thrown, acked, inDoubt>>

LocalOnly == UNCHANGED <<poolVars, metrics, db_pool, database, history>>

\* pre_routing_handler: paths it does not know end with 501.
RejectPath(t) ==
    /\ req[t].ep = "other"
    /\ Replies(t, "routing", "respond", 501, "none", FALSE)
    /\ LocalOnly
\* A known path, but no handler: another method, no id, or a body above the
\* limit for payloads, which httplib does not read to its end.
NoRoute(t) ==
    /\ req[t].ep = "unrouted"
    /\ \E status \in {404, 413} : Replies(t, "routing", "respond", status, "none", FALSE)
    /\ LocalOnly
\* liveness_handler, readiness_handler: both checks always say yes.
Probe(t) ==
    /\ req[t].ep \in Probes
    /\ Replies(t, "routing", "respond", 200, "text", TRUE)
    /\ LocalOnly
Dispatch(t) ==
    /\ req[t].ep \in Api
    /\ Goes(t, "routing", "handler")
    /\ UNCHANGED <<req, res>>
    /\ LocalOnly

\* json::parse throws out of the handler and out of the lambda around it:
\* exception_handler answers, and the metrics behind the handler are skipped.
HandlerThrows(t) ==
    /\ req[t].input = "malformed"
    /\ Goes(t, "handler", "respond")
    /\ res' = [res EXCEPT ![t] = [status |-> 500, body |-> "html", ok |-> FALSE]]
    /\ thrown' = [thrown EXCEPT ![req[t].ep] = @ + 1]
    /\ UNCHANGED <<poolVars, req, metrics, db_pool, database, received, answered, errors,
                   acked, inDoubt>>
RejectInput(t) ==
    /\ req[t].input = "invalid"
    /\ Replies(t, "handler", "count", 400, "none", FALSE)
    /\ LocalOnly
RejectNoDb(t) ==
    /\ req[t].input \in {"valid", "dbRejects"} /\ ~db_pool
    /\ Replies(t, "handler", "count", 503, "json", FALSE)
    /\ LocalOnly
UseDb(t) ==
    /\ req[t].input \in {"valid", "dbRejects"} /\ db_pool
    /\ Goes(t, "handler", "connect")
    /\ UNCHANGED <<req, res>>
    /\ LocalOnly

-----------------------------------------------------------------------------
(* The try block: ScopedConnection, the transaction, the destructor.       *)

\* Variant with a bug: every handler asks for a master.
PreferenceMaster(ep) == "MASTER"

Preference(ep) == IF ep = "register" THEN "MASTER" ELSE "REPLICA"

\* The node of the connection that t holds: alive, stopped, knowing a user.
Alive(t) == \E lease \in lent[t] : lease[1] \notin broken
Dead(t)  == \E lease \in lent[t] : lease[1] \in broken
Knows(t, user) ==
    \E lease \in lent[t] :
        user <= (IF lease[1] = Master THEN committed ELSE applied[lease[1]])

\* The constructor of ScopedConnection ...
Connect(t) ==
    /\ Goes(t, "connect", "tally")
    /\ Get(t, Preference(req[t].ep))
    /\ UNCHANGED <<req, res, metrics, db_pool, database, history>>

\* Variant with a bug: counted under the tag of the first node.
FirstTag(node) == <<node[1], 0>>
Tag(node) == node

\* ... then count_request_to_host with the tag of its node.
CountHost(t) ==
    /\ Goes(t, "tally", "query")
    /\ \E lease \in lent[t] : toHost' = [toHost EXCEPT ![Tag(lease[1])] = @ + 1]
    /\ UNCHANGED <<poolVars, req, res, total, failed, observed, db_pool, database, history>>

\* The constructor throws into the catch of the handler.
ConnectFails(t) ==
    /\ Replies(t, "connect", "count", 500, "json", FALSE)
    /\ GetThrows(t, Preference(req[t].ep))
    /\ UNCHANGED <<metrics, db_pool, database, history>>

InPlace == UNCHANGED <<poolVars, metrics, db_pool, history>>

\* Variant with a bug: a statement on a dead connection does not return.
ThrowsOnRejectedData(t) == Alive(t) /\ req[t].input = "dbRejects"
Throws(t) == Dead(t) \/ req[t].input = "dbRejects"

\* A dead connection throws at the first statement; nobody reconnects it.
QueryFails(t) ==
    /\ Replies(t, "query", "release", 500, "json", FALSE)
    /\ Throws(t)
    /\ UNCHANGED database /\ InPlace

Search(t) ==
    /\ req[t].ep = "search" /\ req[t].input = "valid" /\ Alive(t)
    /\ Replies(t, "query", "release", 200, "json", TRUE)
    /\ UNCHANGED database /\ InPlace
NotFound(t) ==
    /\ req[t].ep \in {"login", "get"} /\ Alive(t)
    /\ ~Knows(t, req[t].user)
    /\ Replies(t, "query", "release", 404, "json", FALSE)
    /\ UNCHANGED database /\ InPlace
Found(t) ==
    /\ req[t].ep \in {"login", "get"} /\ Alive(t)
    /\ Knows(t, req[t].user)
    /\ Replies(t, "query", "release", 200, "json", TRUE)
    /\ UNCHANGED database /\ InPlace

\* Variant with a bug: the handler returns true for a wrong password.
ReturnTrue == TRUE
ReturnOnMismatch == FALSE

\* BCrypt::validatePassword says no: the one early return out of the try block.
WrongPassword(t) ==
    /\ req[t].ep = "login" /\ Alive(t)
    /\ Knows(t, req[t].user)
    /\ Replies(t, "query", "release", 400, "none", ReturnOnMismatch)
    /\ UNCHANGED database /\ InPlace

\* user_register_handler: the INSERT, whose row nobody else sees yet ...
Insert(t) ==
    /\ req[t].ep = "register" /\ req[t].input = "valid" /\ Alive(t)
    /\ Goes(t, "query", "commit")
    /\ UNCHANGED <<req, res, database>> /\ InPlace

\* Variant with a bug: tx.commit() is missing, the transaction is rolled back.
RollBack == UNCHANGED committed
CommitTx == committed' = committed + 1

\* ... and tx.commit().
Commit(t) ==
    /\ Alive(t)
    /\ Goes(t, "commit", "release")
    /\ CommitTx
    /\ req' = [req EXCEPT ![t] = [@ EXCEPT !.user = committed + 1]]
    /\ res' = [res EXCEPT ![t] = [status |-> @.status, body |-> "json", ok |-> TRUE]]
    /\ UNCHANGED <<broken, applied>> /\ InPlace
\* The connection dies under the commit, before or after the master did it:
\* the handler catches the same exception and answers 500.
CommitFails(t) ==
    /\ Master \in broken
    /\ Replies(t, "commit", "release", 500, "json", FALSE)
    /\ UNCHANGED database /\ InPlace
CommitInDoubt(t) ==
    /\ Master \notin broken
    /\ Replies(t, "commit", "release", 500, "json", FALSE)
    /\ committed' = committed + 1
    /\ inDoubt' = inDoubt \cup {committed + 1}
    /\ broken' = broken \cup {Master}
    /\ Cardinality(broken) < MaxFailures
    /\ UNCHANGED <<poolVars, metrics, db_pool, applied, received, answered, errors, thrown, acked>>

\* Variant with a bug: the connection is not given back.
KeepConnection(t) == UNCHANGED poolVars
Destructor(t) == Release(t)

\* The destructor of ScopedConnection, on every way out of the try block.
GiveBack(t) ==
    /\ Goes(t, "release", "count")
    /\ Destructor(t)
    /\ UNCHANGED <<req, res, metrics, db_pool, database, history>>

-----------------------------------------------------------------------------
(* The lambda around the handler counts, two counters one after the other. *)

CountTotal(t) ==
    /\ Goes(t, "count", "outcome")
    /\ total' = [total EXCEPT ![req[t].ep] = @ + 1]
    /\ UNCHANGED <<poolVars, req, res, failed, observed, toHost, db_pool, database, history>>

\* Variant with a bug: failed requests are timed as well.
TimeAll(t) == TRUE
Timed(t) == res[t].ok

CountOutcome(t) ==
    /\ Goes(t, "outcome", "respond")
    /\ observed' = [observed EXCEPT ![req[t].ep] = @ + (IF Timed(t) THEN 1 ELSE 0)]
    /\ failed' = [failed EXCEPT ![req[t].ep] = @ + (IF res[t].ok THEN 0 ELSE 1)]
    /\ UNCHANGED <<poolVars, req, res, total, toHost, db_pool, database, history>>

\* httplib sends the response (external); for a status >= 400 it first calls
\* error_handler, which replaces the body by an HTML page.
IsError(t) == res[t].status >= 400
BodySent(t) == IF IsError(t) THEN "html" ELSE res[t].body
Respond(t) ==
    /\ Goes(t, "respond", "idle")
    /\ req' = [req EXCEPT ![t] = NoRequest] /\ res' = [res EXCEPT ![t] = NoResponse]
    /\ answered' = [answered EXCEPT ![req[t].ep] = @ + 1]
    /\ errors' = [errors EXCEPT ![req[t].ep] = @ + (IF IsError(t) THEN 1 ELSE 0)]
    /\ acked' = IF req[t].ep = "register" /\ ~IsError(t) THEN acked \cup {req[t].user} ELSE acked
    /\ UNCHANGED <<poolVars, metrics, db_pool, database, received, thrown, inDoubt>>

Handle(t) ==
    \/ RejectPath(t) \/ NoRoute(t) \/ Probe(t) \/ Dispatch(t)
    \/ HandlerThrows(t) \/ RejectInput(t) \/ RejectNoDb(t) \/ UseDb(t)
    \/ Connect(t) \/ ConnectFails(t) \/ CountHost(t) \/ QueryFails(t)
    \/ Search(t) \/ NotFound(t) \/ Found(t) \/ WrongPassword(t)
    \/ Insert(t) \/ Commit(t) \/ CommitFails(t) \/ CommitInDoubt(t)
    \/ GiveBack(t) \/ CountTotal(t) \/ CountOutcome(t) \/ Respond(t)

-----------------------------------------------------------------------------
(* PostgreSQL (external).  A replica replays the commits in their order.   *)
Replicate(n) ==
    /\ applied[n] < committed
    /\ applied' = [applied EXCEPT ![n] = @ + 1]
    /\ UNCHANGED <<poolVars, phase, req, res, metrics, db_pool, broken, committed, history>>

\* A node stops.  Its connections are dead from then on, also after it is
\* started again.
NodeStops(n) ==
    /\ n \notin broken /\ Cardinality(broken) < MaxFailures
    /\ broken' = broken \cup {n}
    /\ UNCHANGED <<poolVars, phase, req, res, metrics, db_pool, committed, applied, history>>

ServiceNext ==
    \/ \E t \in Threads :
          \/ \E ep \in Endpoints : \E input \in Inputs(ep) \cap Payloads, user \in Users :
                Receive(t, ep, input, IF ep \in {"login", "get"} THEN user ELSE 0)
          \/ Handle(t)
    \/ \E n \in NodesOf("REPLICA") : Replicate(n)
    \/ \E n \in Nodes : NodeStops(n)

ServiceSpec == ServiceInit /\ [][ServiceNext]_serviceVars

\* A handler that can go on does (statements end); nothing makes clients send
\* requests, nodes stop, or a replica catch up.
ServiceFairness == \A t \in Threads : WF_serviceVars(Handle(t))
FairServiceSpec == ServiceSpec /\ ServiceFairness

-----------------------------------------------------------------------------
Statuses == {200, 400, 404, 413, 500, 501, 503}
Requests  == [ep : Endpoints \cup {"other"}, input : {"malformed", "invalid", "dbRejects", "valid"},
              user : Nat]
Responses == [status : Statuses, body : {"none", "json", "text", "html"}, ok : BOOLEAN]

\* Until a handler replies, the response is the one httplib made; from then on
\* what the handler returns, which the metrics follow, agrees with the status.
ResponseFits ==
    \A t \in Threads :
        IF phase[t] \in {"idle", "routing", "handler", "connect", "tally", "query", "commit"}
        THEN res[t] = NoResponse
        ELSE res[t].ok <=> ~IsError(t)

\* The variables have their types, and a response is a proper one: on no way
\* through a handler do its return value and its status contradict each other.
ServiceTypeOK ==
    /\ PoolTypeOK
    /\ phase \in [Threads -> Phases]
    /\ req \in [Threads -> Requests] /\ res \in [Threads -> Responses]
    /\ total \in [Api -> Nat] /\ failed \in [Api -> Nat] /\ observed \in [Api -> Nat]
    /\ toHost \in [Nodes -> Nat]
    /\ db_pool \in BOOLEAN
    /\ broken \subseteq Nodes /\ committed \in Nat /\ applied \in [NodesOf("REPLICA") -> Nat]
    /\ received \in 0 .. MaxRequests
    /\ answered \in [Endpoints -> Nat] /\ errors \in [Endpoints -> Nat]
    /\ thrown \in [Endpoints -> Nat]
    /\ acked \subseteq Nat /\ inDoubt \subseteq Nat
    /\ ResponseFits

With(ep, phases) == {t \in Threads : phase[t] \in phases /\ req[t].ep = ep}

\* At one moment, what is counted is failed, or timed, or a request whose thread
\* is between the two increments.  (Prometheus reads them at several moments: what
\* it sees is in Scrape.)
MetricsFit ==
    \A ep \in Api : total[ep] = failed[ep] + observed[ep] + Cardinality(With(ep, {"outcome"}))

\* Of the requests that reach a handler, the failed counter is the number of those
\* answered with an error, and the timed ones are those answered without, but for
\* the requests whose handler threw and the answers that are about to be sent.
FailedFitsAnswers ==
    \A ep \in Api \cap Endpoints :
        LET sending == With(ep, {"respond"})
            bad     == {t \in sending : IsError(t)}
        IN  /\ failed[ep] + thrown[ep] = errors[ep] + Cardinality(bad)
            /\ observed[ep] = answered[ep] - errors[ep] + Cardinality(sending \ bad)

\* A connection is held only by a thread inside its try block: none is left
\* behind on any of the paths out of it, exceptions and early returns included.
HeldOnlyInTry ==
    \A t \in Threads : lent[t] # {} <=> phase[t] \in {"tally", "query", "commit", "release"}

\* A registration is answered with 200 only after the master committed it, for
\* a user of its own; the users nobody was told of are those in doubt and those
\* whose answer is on its way.
AckedIsCommitted ==
    LET onTheWay == {req[t].user : t \in {u \in With("register",
                        {"release", "count", "outcome", "respond"}) : res[u].ok}}
    IN  /\ acked \cup inDoubt \cup onTheWay = 1 .. committed
        /\ acked \cap onTheWay = {} /\ (acked \cup onTheWay) \cap inDoubt = {}

\* With a replica configured, no read fails because of the master: it is
\* answered with 500 only after a replica has stopped (or for what it carries,
\* or when get_connection has thrown, which NobodyIsTurnedAway excludes).
ReadsWithoutMaster ==
    \A t \in Threads :
        Replicas > 0 /\ req[t].ep \in Reads /\ req[t].input = "valid" /\ res[t].status = 500
            => exhausted \/ broken \cap NodesOf("REPLICA") # {}

\* README: the replicas share the reads evenly.  What the metric counts per
\* host, with the requests that hold a connection and are not counted yet,
\* differs by one at most between two replicas (as long as get_connection does
\* not throw, which moves Round Robin on without a request).
Uncounted(n) == {t \in Threads : phase[t] = "tally" /\ t \in Holders(n)}
RequestsTo(n) == toHost[n] + Cardinality(Uncounted(n))
HostsEven ==
    ~exhausted =>
        \A m, n \in NodesOf("REPLICA") : RequestsTo(m) <= RequestsTo(n) + 1

\* Every request that was received is answered.
Answered == \A t \in Threads : phase[t] # "idle" ~> phase[t] = "idle"

\* README: http_requests_total is the total number of HTTP requests of each
\* endpoint.  (Requests whose body does not parse are not counted.)
EveryRequestCounted == \A ep \in Api \cap Endpoints : answered[ep] <= total[ep]

=============================================================================
