-------------------------------- MODULE Startup --------------------------------
(***************************************************************************)
(* How the service comes up: Configuration::apply_ (defaults, environment, *)
(* command line, validate), App::db_start and App::http_start, each once   *)
(* and in this order, on one thread.  DNS, PostgreSQL and the sockets are  *)
(* external: a name resolves at one moment and not at the next.            *)
(***************************************************************************)
EXTENDS Integers, SequencesExt

CONSTANTS
    Environments,   \* what may stand in the environment: see Settings
    CommandLines    \* what may stand on the command line

\* A URL as far as validate() and db_start() look at it.  "malformed": it does
\* not parse, has another scheme, or no host.  A "literal" host needs no DNS.
Urls ==
    [form : {"good", "malformed"}, host : {"literal", "name"},
     user : {"none", "login", "login:password"}, path : {"none", "given", "postgres"}]

\* Each parameter is a sequence: empty when it is not set.
Settings(s) ==
    /\ \A p \in {"master", "listening", "threads", "queue", "prometheus"} : Len(s[p]) <= 1
    /\ s.master \in Seq(Urls) /\ s.replicas \in Seq(Urls)

ASSUME SettingsAssumption == \A s \in Environments \cup CommandLines : Settings(s)

VARIABLES
    env, cli,       \* the inputs
    stage,          \* how far the start has come
    conf,           \* current_configuration_
    checked,        \* validate(): how many replicas it has seen
    resolved,       \* history: the nodes (0 the master) whose host resolved then
    db_pool,        \* db_pool_: what its nodes are connected with; <<>> is null
    connections,    \* connections opened to each node
    http, workers   \* the HTTP server, and the threads of its pool

vars == <<env, cli, stage, conf, checked, resolved, db_pool, connections, http, workers>>

-----------------------------------------------------------------------------
(* config_def, config_min and config_max.                                  *)
DefaultUrl == [form |-> "good", host |-> "name", user |-> "none", path |-> "postgres"]
DefaultListening == [form |-> "good", host |-> "literal", port |-> 6000]
DefaultPort == 6000
DefaultPrometheusPort == 6001
DefaultThreads == 1
DefaultQueue == 1024

\* Variant with a bug: there is no upper limit.
ThreadsAtLeastOne(n) == n >= 1
ThreadsInRange(n) == n \in 1 .. 10
QueueInRange(n) == n \in 1 .. 4096
\* resolve_service_to_port(): 0 is a port, too; bind_to_port() then takes any.
PortParses(n) == n \in 0 .. 65535

\* pgsql_s with its URL only; logins and passwords are "", the URL's or default.
Node(url) == [url |-> url, login |-> "", password |-> ""]

StartInit ==
    /\ env \in Environments /\ cli \in CommandLines
    /\ stage = "environment"
    /\ conf = [master |-> Node(DefaultUrl), replicas |-> <<>>, listening |-> DefaultListening,
               threads |-> DefaultThreads, queue |-> DefaultQueue,
               prometheus |-> DefaultPrometheusPort]
    /\ checked = 0 /\ resolved = {}
    /\ db_pool = <<>> /\ connections = 0
    /\ http = "down" /\ workers = 0

\* A parameter that is set takes the place of the value before it ...
Set(value, setting) == Last(<<value>> \o setting)
Nodes(urls) == [i \in 1 .. Len(urls) |-> Node(urls[i])]

\* Variant with a bug: the replicas of the command line are the only ones.
Replaced(replicas, urls) == IF urls = <<>> THEN replicas ELSE Nodes(urls)
\* ... but replicas are added to those before them.
Added(replicas, urls) == replicas \o Nodes(urls)

Read(s) ==
    conf' = [master     |-> IF s.master = <<>> THEN conf.master ELSE Node(s.master[1]),
             replicas   |-> Added(conf.replicas, s.replicas),
             listening  |-> Set(conf.listening, s.listening),
             threads    |-> Set(conf.threads, s.threads),
             queue      |-> Set(conf.queue, s.queue),
             prometheus |-> Set(conf.prometheus, s.prometheus)]

From(here, next) == stage = here /\ stage' = next
NotYet == UNCHANGED <<env, cli, db_pool, connections, http, workers>>

ReadEnvironment ==
    /\ From("environment", "command line") /\ Read(env)
    /\ UNCHANGED <<checked, resolved>> /\ NotYet
ReadCommandLine ==
    /\ From("command line", "master") /\ Read(cli)
    /\ UNCHANGED <<checked, resolved>> /\ NotYet

-----------------------------------------------------------------------------
(* validate().                                                             *)

\* Whether a lookup of the host succeeds, now.
Lookups(address) == IF address.host = "literal" THEN {TRUE} ELSE BOOLEAN

\* Variant with a bug: the credentials are read when they have been removed.
LoginLate(url) == "default"
LoginOf(url) == IF url.user = "none" THEN "default" ELSE "url"
PasswordOf(url) == IF url.user = "login:password" THEN "url" ELSE "default"

\* Any exception but DnsException puts the default in the place of the URL;
\* DnsException leaves it as it is, unparsed.  Both leave login and password
\* empty, which are set to the defaults then.
Validated(node, resolves) ==
    CASE node.url.form = "malformed" ->
            [url |-> DefaultUrl, login |-> "default", password |-> "default"]
      [] node.url.form = "good" /\ ~resolves ->
            [url |-> node.url, login |-> "default", password |-> "default"]
      [] OTHER ->
            [url |-> [node.url EXCEPT !.user = "none",
                                      !.path = IF @ = "none" THEN "postgres" ELSE @],
             login |-> LoginOf(node.url), password |-> PasswordOf(node.url)]

ValidateMaster ==
    /\ From("master", "replicas")
    /\ \E resolves \in Lookups(conf.master.url) :
          /\ conf' = [conf EXCEPT !.master = Validated(@, resolves)]
          /\ resolved' = IF resolves THEN {0} ELSE {}
    /\ UNCHANGED checked /\ NotYet

ValidateReplica ==
    /\ From("replicas", "replicas") /\ checked < Len(conf.replicas)
    /\ checked' = checked + 1
    /\ \E resolves \in Lookups(conf.replicas[checked'].url) :
          /\ conf' = [conf EXCEPT !.replicas[checked'] = Validated(@, resolves)]
          /\ resolved' = IF resolves THEN resolved \cup {checked'} ELSE resolved
    /\ NotYet

\* A port that is not a number up to 65535 is looked up as a service: that, too,
\* ends in DnsException, which leaves the value as it is.
ValidatedListening(listening, resolves) ==
    CASE listening.form = "malformed" -> DefaultListening
      [] listening.form = "good" /\ resolves /\ listening.port = 0 ->
            [listening EXCEPT !.port = DefaultPort]
      [] OTHER -> listening

ValidateRest ==
    /\ From("replicas", "database") /\ checked = Len(conf.replicas)
    /\ \E resolves \in Lookups(conf.listening) :
          conf' = [conf EXCEPT
                    !.listening  = ValidatedListening(@, resolves),
                    !.threads    = IF ThreadsInRange(@) THEN @ ELSE DefaultThreads,
                    !.queue      = IF QueueInRange(@) THEN @ ELSE DefaultQueue,
                    !.prometheus = IF @ = 0 THEN DefaultPrometheusPort ELSE @]
    /\ UNCHANGED <<checked, resolved>> /\ NotYet

-----------------------------------------------------------------------------
Cluster == <<conf.master>> \o conf.replicas

\* get_path().substr(1) of an empty path throws std::out_of_range.
HasPath(node) == node.url.path # "none"

\* Variant with a bug: an exception ends the loop, not db_start().
UsableOnly == SelectSeq(Cluster, HasPath)
UsableOrNone == IF \A i \in 1 .. Len(Cluster) : HasPath(Cluster[i]) THEN Cluster ELSE <<>>

(* App::db_start: one exception, from a URL or from one of the connections *)
(* (connected = FALSE), and there is no pool for the rest of the process.  *)
DbStart ==
    /\ From("database", "http")
    /\ \E connected \in BOOLEAN :
          /\ db_pool' = IF connected THEN UsableOrNone ELSE <<>>
          /\ connections' = IF db_pool' = <<>> THEN 0 ELSE conf.threads
    /\ UNCHANGED <<env, cli, conf, checked, resolved, http, workers>>

(* App::http_start: an exception of the Exposer or of SocketAddress leaves *)
(* the process without a server; that bind_to_port fails is not noticed.   *)
HttpStart ==
    /\ From("http", "running")
    /\ \E resolves \in Lookups(conf.listening), bound \in BOOLEAN :
          http' = IF PortParses(conf.prometheus) /\ PortParses(conf.listening.port) /\ resolves
                  THEN IF bound THEN "listening" ELSE "deaf"
                  ELSE "down"
    /\ workers' = IF http' = "listening" THEN conf.threads ELSE 0
    /\ UNCHANGED <<env, cli, conf, checked, resolved, db_pool, connections>>

\* for (;;) sleep(1): whatever came up, nothing is tried again.
Run == stage = "running" /\ UNCHANGED vars

StartNext ==
    \/ ReadEnvironment \/ ReadCommandLine
    \/ ValidateMaster \/ ValidateReplica \/ ValidateRest
    \/ DbStart \/ HttpStart \/ Run

StartSpec == StartInit /\ [][StartNext]_vars

-----------------------------------------------------------------------------
Validation == {"database", "http", "running"}    \* the stages behind validate()
Configured == env.replicas \o cli.replicas       \* the replicas somebody named

\* What the pools rely on: one connection of each node for each thread that
\* handles requests, with thread and queue limits in range for any input.
OneConnectionPerWorker ==
    stage \in Validation =>
        /\ conf.threads \in 1 .. 10 /\ conf.queue \in 1 .. 4096
        /\ db_pool # <<>> /\ http = "listening" => connections = workers

\* Reads go to all replicas that were configured, or there is no database: no
\* failure on the way drops one node and keeps the others, or changes their order.
WholeClusterOrNothing ==
    db_pool # <<>> =>
        /\ Len(db_pool) = 1 + Len(Configured)
        /\ \A i \in 1 .. Len(Configured) :
              Configured[i].form = "good" => db_pool[i + 1].url.host = Configured[i].host

\* The credentials that a URL stands for: what it leaves out is the default.
CredentialsOf(node, url) ==
    /\ node.login    = IF url.user = "none" THEN "default" ELSE "url"
    /\ node.password = IF url.user = "login:password" THEN "url" ELSE "default"

\* A node is opened with the credentials of its URL if its host was resolved
\* when the configuration was validated.
CredentialsIfResolved ==
    db_pool # <<>> =>
        \A i \in resolved \ {0} :
            Configured[i].form = "good" => CredentialsOf(db_pool[i + 1], Configured[i])

\* configuration.cpp, the help of pgsql_replica_url: the URL is given with
\* login:password to authorize.  (Not so for a host that did not resolve.)
UrlAuthorizes ==
    db_pool # <<>> =>
        \A i \in 1 .. Len(Configured) :
            Configured[i].form = "good" => CredentialsOf(db_pool[i + 1], Configured[i])

================================================================================
