----------------------------- MODULE StartupProofs -----------------------------
(***************************************************************************)
(* The start of the service, for all environments and command lines of any *)
(* number of replicas: the node at each place of the configuration stays   *)
(* the one that was configured there, through every exception of validate, *)
(* and db_start() takes all of them or none.                               *)
(***************************************************************************)
EXTENDS Startup, SequenceTheorems, TLAPS

Credentials == {"", "url", "default"}
PgsqlNodes == [url : Urls, login : Credentials, password : Credentials]

ConfShape ==
    /\ conf = [master |-> conf.master, replicas |-> conf.replicas, listening |-> conf.listening,
               threads |-> conf.threads, queue |-> conf.queue, prometheus |-> conf.prometheus]
    /\ conf.master \in PgsqlNodes /\ conf.replicas \in Seq(PgsqlNodes)
    /\ env \in Environments /\ cli \in CommandLines

\* Before validate(): the replicas that have been read so far.
Taken ==
    /\ stage = "environment" => conf.replicas = <<>>
    /\ stage = "command line" => conf.replicas = Nodes(env.replicas)
    /\ stage = "master" => conf.replicas = Nodes(Configured)
    /\ stage \in {"environment", "command line", "master"} => checked = 0

\* What validate() leaves of a node.
Matches(node, u, known) ==
    u.form = "good" => node.url.host = u.host /\ (known => CredentialsOf(node, u))

Compared ==
    /\ Len(conf.replicas) = Len(Configured)
    /\ checked \in 0 .. Len(Configured)
    /\ resolved \subseteq 0 .. checked
    /\ \A i \in 1 .. Len(Configured) :
          IF i <= checked THEN Matches(conf.replicas[i], Configured[i], i \in resolved)
          ELSE conf.replicas[i] = Node(Configured[i])

\* validate() goes over the replicas in order, and behind it all limits hold.
Checked ==
    /\ stage \in {"replicas"} \cup Validation => Compared
    /\ stage \in Validation => /\ checked = Len(Configured)
                               /\ conf.threads \in 1 .. 10 /\ conf.queue \in 1 .. 4096

\* The pools are made of this configuration, which nothing changes then.
Pools ==
    /\ db_pool # <<>> => /\ stage \in {"http", "running"}
                         /\ db_pool = Cluster /\ connections = conf.threads
    /\ http = "listening" => stage = "running" /\ workers = conf.threads

StartInv == ConfShape /\ Taken /\ Checked /\ Pools

-----------------------------------------------------------------------------
\* Replicas are sequences of URLs, from wherever they come.
LEMMA Inputs ==
    ASSUME NEW s \in Environments \cup CommandLines
    PROVE  s.replicas \in Seq(Urls) /\ s.master \in Seq(Urls)
BY SettingsAssumption DEF Settings

\* A URL makes a node without credentials.
LEMMA NodeType == ASSUME NEW u \in Urls PROVE Node(u) \in PgsqlNodes
BY DEF Node, PgsqlNodes, Credentials

\* A node for each URL of a sequence, in its order.
LEMMA NodesType ==
    ASSUME NEW us \in Seq(Urls)
    PROVE  /\ Nodes(us) \in Seq(PgsqlNodes) /\ Len(Nodes(us)) = Len(us)
           /\ \A i \in 1 .. Len(us) : Nodes(us)[i] = Node(us[i])
<1>1. \A i \in 1 .. Len(us) : us[i] \in Urls
  OBVIOUS
<1>2. \A i \in 1 .. Len(us) : Node(us[i]) \in PgsqlNodes
  BY <1>1, NodeType
<1> QED BY <1>2 DEF Nodes

\* Reading two sources one after the other is reading their replicas in a row.
LEMMA NodesAppended ==
    ASSUME NEW us \in Seq(Urls), NEW vs \in Seq(Urls)
    PROVE  Nodes(us) \o Nodes(vs) = Nodes(us \o vs)
<1> DEFINE a == Nodes(us) \o Nodes(vs)
           b == Nodes(us \o vs)
<1>1. /\ Nodes(us) \in Seq(PgsqlNodes) /\ Len(Nodes(us)) = Len(us)
      /\ Nodes(vs) \in Seq(PgsqlNodes) /\ Len(Nodes(vs)) = Len(vs)
      /\ \A i \in 1 .. Len(us) : Nodes(us)[i] = Node(us[i])
      /\ \A i \in 1 .. Len(vs) : Nodes(vs)[i] = Node(vs[i])
  BY NodesType
<1>2. us \o vs \in Seq(Urls) /\ Len(us \o vs) = Len(us) + Len(vs)
  OBVIOUS
<1>3. /\ b \in Seq(PgsqlNodes) /\ Len(b) = Len(us) + Len(vs)
      /\ \A i \in 1 .. Len(us) + Len(vs) : b[i] = Node((us \o vs)[i])
  BY <1>2, NodesType
<1>4. a \in Seq(PgsqlNodes) /\ Len(a) = Len(us) + Len(vs)
  <2>1. Nodes(us) \in Seq(PgsqlNodes) /\ Nodes(vs) \in Seq(PgsqlNodes)
    BY <1>1
  <2>2. a \in Seq(PgsqlNodes) /\ Len(a) = Len(Nodes(us)) + Len(Nodes(vs))
    BY <2>1, ConcatProperties
  <2> QED BY <1>1, <2>2
<1>5. ASSUME NEW i \in 1 .. Len(us) + Len(vs) PROVE a[i] = b[i]
  <2>1. CASE i <= Len(us)
    <3>1. a[i] = Nodes(us)[i] /\ (us \o vs)[i] = us[i]
      BY <1>1, <2>1
    <3>2. Nodes(us)[i] = Node(us[i])
      BY <1>1, <2>1
    <3>3. b[i] = Node((us \o vs)[i])
      BY <1>3
    <3> HIDE DEF a, b
    <3> QED BY <3>1, <3>2, <3>3
  <2>2. CASE i > Len(us)
    <3>1. a[i] = Nodes(vs)[i - Len(us)] /\ (us \o vs)[i] = vs[i - Len(us)]
      BY <1>1, <2>2
    <3>2. i - Len(us) \in 1 .. Len(vs)
      BY <2>2
    <3>3. Nodes(vs)[i - Len(us)] = Node(vs[i - Len(us)])
      BY <1>1, <3>2
    <3>4. b[i] = Node((us \o vs)[i])
      BY <1>3
    <3>5. a[i] = Nodes(vs)[i - Len(us)]
      BY <3>1
    <3>6. Node((us \o vs)[i]) = Node(vs[i - Len(us)])
      BY <3>1
    <3> HIDE DEF a, b
    <3> QED BY <3>3, <3>4, <3>5, <3>6, Zenon
  <2>3. i <= Len(us) \/ i > Len(us)
    OBVIOUS
  <2> QED BY <2>1, <2>2, <2>3
<1> HIDE DEF a, b
<1>6. a = b
  BY <1>3, <1>4, <1>5
<1> QED BY <1>6 DEF a, b

\* validate() leaves a node that has the host of its URL, and its credentials if
\* the host resolved.
LEMMA ValidatedNode ==
    ASSUME NEW n \in PgsqlNodes, NEW r \in BOOLEAN
    PROVE  Validated(n, r) \in PgsqlNodes /\ Matches(Validated(n, r), n.url, r)
<1>0. "default" \in Credentials /\ n.url \in Urls
  BY DEF Credentials, PgsqlNodes
<1>1. CASE n.url.form = "malformed"
  <2>1. Validated(n, r) = [url |-> DefaultUrl, login |-> "default", password |-> "default"]
    BY <1>1 DEF Validated
  <2>2. DefaultUrl \in Urls
    BY DEF DefaultUrl, Urls
  <2>3. Validated(n, r) \in PgsqlNodes
    BY <1>0, <2>1, <2>2 DEF PgsqlNodes
  <2>4. Matches(Validated(n, r), n.url, r)
    BY <1>1 DEF Matches
  <2> QED BY <2>3, <2>4
<1>2. CASE n.url.form = "good" /\ ~r
  <2>1. Validated(n, r) = [url |-> n.url, login |-> "default", password |-> "default"]
    BY <1>2 DEF Validated
  <2>2. Validated(n, r) \in PgsqlNodes
    BY <1>0, <2>1 DEF PgsqlNodes
  <2>3. Validated(n, r).url.host = n.url.host
    BY <2>1
  <2>4. Matches(Validated(n, r), n.url, r)
    BY <1>2, <2>3 DEF Matches
  <2> QED BY <2>2, <2>4
<1>3. CASE n.url.form = "good" /\ r
  <2> DEFINE u == [n.url EXCEPT !.user = "none", !.path = IF @ = "none" THEN "postgres" ELSE @]
  <2>1. Validated(n, r) = [url |-> u, login |-> LoginOf(n.url), password |-> PasswordOf(n.url)]
    BY <1>3 DEF Validated
  <2>2. u \in Urls /\ u.host = n.url.host
    BY DEF PgsqlNodes, Urls
  <2> HIDE DEF u
  <2>3. Validated(n, r).url = u /\ Validated(n, r) \in PgsqlNodes
    <3>1. LoginOf(n.url) \in Credentials /\ PasswordOf(n.url) \in Credentials
      BY DEF Credentials, LoginOf, PasswordOf
    <3> QED BY <2>1, <2>2, <3>1 DEF PgsqlNodes
  <2>4. CredentialsOf(Validated(n, r), n.url)
    BY <2>1 DEF CredentialsOf, LoginOf, PasswordOf
  <2> QED BY <2>2, <2>3, <2>4 DEF Matches
<1> QED BY <1>1, <1>2, <1>3 DEF PgsqlNodes, Urls

-----------------------------------------------------------------------------
LEMMA InitInv == StartInit => StartInv
<1> SUFFICES ASSUME StartInit PROVE StartInv
    OBVIOUS
<1>1. DefaultUrl \in Urls
  BY DEF DefaultUrl, Urls
<1>2. conf.master \in PgsqlNodes /\ conf.replicas = <<>>
  BY <1>1, NodeType DEF StartInit
<1>3. ConfShape
  BY <1>2 DEF StartInit, ConfShape
<1>4. Taken /\ Checked
  BY <1>2 DEF StartInit, Taken, Checked, Validation
<1>5. Pools
  BY DEF StartInit, Pools
<1> QED BY <1>3, <1>4, <1>5 DEF StartInv

LEMMA ReadInv ==
    ASSUME StartInv, ReadEnvironment \/ ReadCommandLine PROVE StartInv'
<1> USE DEF StartInv
<1>1. PICK s \in Environments \cup CommandLines :
          /\ Read(s) /\ UNCHANGED <<checked, env, cli, db_pool, connections, http, workers>>
          /\ \/ stage = "environment" /\ stage' = "command line" /\ s = env
             \/ stage = "command line" /\ stage' = "master" /\ s = cli
  BY DEF ReadEnvironment, ReadCommandLine, From, NotYet, ConfShape
<1>2. s.replicas \in Seq(Urls) /\ s.master \in Seq(Urls)
  BY Inputs
<1>3. /\ env.replicas \in Seq(Urls) /\ cli.replicas \in Seq(Urls)
  BY Inputs DEF ConfShape
<1>4. conf'.master = (IF s.master = <<>> THEN conf.master ELSE Node(s.master[1]))
      /\ conf'.replicas = conf.replicas \o Nodes(s.replicas)
  BY <1>1 DEF Read, Added
<1>5. ConfShape'
  <2>1. s.master # <<>> => Node(s.master[1]) \in PgsqlNodes
    <3>1. s.master # <<>> => s.master[1] \in Urls
      BY <1>2
    <3> QED BY <3>1, NodeType
  <2>2. conf'.master \in PgsqlNodes
    BY <1>4, <2>1 DEF ConfShape
  <2>3. conf'.replicas \in Seq(PgsqlNodes)
    BY <1>2, <1>4, NodesType DEF ConfShape
  <2>4. conf' = [master |-> conf'.master, replicas |-> conf'.replicas, listening |-> conf'.listening,
                 threads |-> conf'.threads, queue |-> conf'.queue, prometheus |-> conf'.prometheus]
    BY <1>1 DEF Read
  <2> QED BY <1>1, <2>2, <2>3, <2>4 DEF ConfShape
<1>6. Taken'
  <2>1. CASE stage = "environment"
    <3>1. Nodes(env.replicas) \in Seq(PgsqlNodes)
      BY <1>3, NodesType
    <3>2. conf'.replicas = Nodes(env.replicas)
      <4>1. conf'.replicas = <<>> \o Nodes(env.replicas)
        BY <1>1, <1>4, <2>1 DEF Taken
      <4> QED BY <3>1, <4>1, ConcatEmptySeq
    <3> QED BY <1>1, <2>1, <3>2 DEF Taken
  <2>2. CASE stage = "command line"
    <3>1. conf'.replicas = Nodes(Configured) /\ Configured' = Configured
      <4>1. conf'.replicas = Nodes(env.replicas) \o Nodes(cli.replicas)
        BY <1>1, <1>4, <2>2 DEF Taken
      <4>2. Nodes(env.replicas) \o Nodes(cli.replicas) = Nodes(Configured)
        BY <1>3, NodesAppended DEF Configured
      <4>3. Configured' = Configured
        BY <1>1 DEF Configured
      <4> QED BY <4>1, <4>2, <4>3
    <3> QED BY <1>1, <2>2, <3>1 DEF Taken
  <2>3. stage \in {"environment", "command line"}
    BY <1>1
  <2> QED BY <2>1, <2>2, <2>3
<1>7. stage \in {"environment", "command line"} /\ stage' \in {"command line", "master"}
  BY <1>1
<1>8. Checked'
  <2>1. stage' # "replicas" /\ stage' \notin {"database", "http", "running"}
    BY <1>7
  <2> HIDE DEF StartInv
  <2>2. stage' \notin {"replicas"} \cup Validation' /\ stage' \notin Validation'
    BY <2>1 DEF Validation
  <2> QED BY <2>2 DEF Checked
<1>9. Pools'
  <2>1. db_pool = <<>> /\ http # "listening"
    BY <1>7 DEF Pools
  <2> QED BY <1>1, <2>1 DEF Pools
<1> QED BY <1>5, <1>6, <1>8, <1>9

LEMMA MasterInv == ASSUME StartInv, ValidateMaster PROVE StartInv'
<1> USE DEF StartInv
<1>1. PICK r \in BOOLEAN :
          /\ stage = "master" /\ stage' = "replicas"
          /\ conf' = [conf EXCEPT !.master = Validated(@, r)]
          /\ resolved' = IF r THEN {0} ELSE {}
          /\ UNCHANGED <<checked, env, cli, db_pool, connections, http, workers>>
  BY DEF ValidateMaster, From, NotYet, Lookups
<1>2. Configured \in Seq(Urls)
  BY Inputs DEF ConfShape, Configured
<1>3. conf'.replicas = Nodes(Configured) /\ Configured' = Configured /\ checked' = 0
  BY <1>1 DEF Taken, ConfShape, Configured
<1>4. ConfShape'
  <2>1. Validated(conf.master, r) \in PgsqlNodes
    BY ValidatedNode DEF ConfShape
  <2> QED BY <1>1, <2>1 DEF ConfShape
<1>5. Compared'
  BY <1>1, <1>2, <1>3, NodesType DEF Compared
<1>6. Taken' /\ Checked' /\ Pools'
  BY <1>1, <1>5 DEF Taken, Checked, Pools, Validation
<1> QED BY <1>4, <1>6

LEMMA ReplicaInv == ASSUME StartInv, ValidateReplica PROVE StartInv'
<1> USE DEF StartInv
<1>1. PICK r \in BOOLEAN :
          /\ stage = "replicas" /\ stage' = "replicas"
          /\ checked < Len(conf.replicas) /\ checked' = checked + 1
          /\ conf' = [conf EXCEPT !.replicas[checked'] = Validated(@, r)]
          /\ resolved' = IF r THEN resolved \cup {checked'} ELSE resolved
          /\ UNCHANGED <<env, cli, db_pool, connections, http, workers>>
  BY DEF ValidateReplica, From, NotYet, Lookups
<1> DEFINE k == checked + 1
<1>2. Compared
  BY <1>1 DEF Checked
<1>3. /\ Len(conf.replicas) = Len(Configured) /\ checked \in Nat /\ Len(Configured) \in Nat
      /\ k \in 1 .. Len(Configured) /\ checked' = k /\ Configured' = Configured
  <2>1. Len(conf.replicas) = Len(Configured) /\ Len(conf.replicas) \in Nat
    BY <1>2 DEF Compared, ConfShape
  <2>2. checked \in 0 .. Len(Configured)
    BY <1>2 DEF Compared
  <2>3. Configured' = Configured
    BY <1>1 DEF Configured
  <2> QED BY <1>1, <2>1, <2>2, <2>3
<1>4. conf.replicas[k] = Node(Configured[k]) /\ conf.replicas[k] \in PgsqlNodes
  <2>1. k \in 1 .. Len(Configured) /\ ~(k <= checked)
    BY <1>3
  <2>2. conf.replicas[k] = Node(Configured[k])
    BY <1>2, <2>1 DEF Compared
  <2>3. conf.replicas \in Seq(PgsqlNodes) /\ k \in 1 .. Len(conf.replicas)
    BY <1>3 DEF ConfShape
  <2> QED BY <2>2, <2>3
<1>5. /\ Validated(conf.replicas[k], r) \in PgsqlNodes
      /\ Matches(Validated(conf.replicas[k], r), Configured[k], r)
  <2> HIDE DEF k
  <2>1. Node(Configured[k]).url = Configured[k]
    BY DEF Node
  <2>2. conf.replicas[k].url = Configured[k]
    BY <1>4, <2>1
  <2> QED BY <1>4, <2>2, ValidatedNode
<1>6. conf'.replicas = [conf.replicas EXCEPT ![k] = Validated(conf.replicas[k], r)]
  BY <1>1 DEF ConfShape
<1> HIDE DEF k
<1>7. /\ conf'.replicas \in Seq(PgsqlNodes) /\ Len(conf'.replicas) = Len(conf.replicas)
      /\ \A i \in 1 .. Len(Configured) :
            conf'.replicas[i] = IF i = k THEN Validated(conf.replicas[k], r) ELSE conf.replicas[i]
  BY <1>3, <1>5, <1>6 DEF ConfShape
<1>8. ConfShape'
  <2>1. conf'.master = conf.master
    BY <1>1 DEF ConfShape
  <2>2. conf' = [master |-> conf'.master, replicas |-> conf'.replicas, listening |-> conf'.listening,
                 threads |-> conf'.threads, queue |-> conf'.queue, prometheus |-> conf'.prometheus]
    BY <1>1 DEF ConfShape
  <2> QED BY <1>1, <1>7, <2>1, <2>2 DEF ConfShape
<1>9. Compared'
  <2>1. checked' \in 0 .. Len(Configured) /\ resolved' \subseteq 0 .. checked'
    BY <1>1, <1>2, <1>3 DEF Compared
  <2>2. ASSUME NEW i \in 1 .. Len(Configured)
        PROVE  IF i <= checked' THEN Matches(conf'.replicas[i], Configured[i], i \in resolved')
               ELSE conf'.replicas[i] = Node(Configured[i])
    <3>1. CASE i = k
      <4>1. i \in resolved' <=> r
        <5>1. i \notin resolved
          BY <1>2, <1>3, <3>1 DEF Compared, k
        <5> QED BY <1>1, <1>3, <3>1, <5>1
      <4>2. Matches(conf'.replicas[i], Configured[i], r)
        BY <1>5, <1>7, <3>1
      <4> QED BY <1>3, <3>1, <4>1, <4>2 DEF Matches
    <3>2. CASE i # k
      <4>1. /\ conf'.replicas[i] = conf.replicas[i]
            /\ i \in resolved' <=> i \in resolved
            /\ i <= checked' <=> i <= checked
        BY <1>1, <1>3, <1>7, <3>2 DEF k
      <4> QED BY <1>2, <4>1 DEF Compared, Matches
    <3> QED BY <3>1, <3>2
  <2> QED BY <1>3, <1>7, <2>1, <2>2 DEF Compared
<1>10. Taken' /\ Checked' /\ Pools'
  BY <1>1, <1>9 DEF Taken, Checked, Pools, Validation
<1> QED BY <1>8, <1>10

LEMMA RestInv == ASSUME StartInv, ValidateRest PROVE StartInv'
<1> USE DEF StartInv
<1> DEFINE threads == IF ThreadsInRange(conf.threads) THEN conf.threads ELSE DefaultThreads
           queue == IF QueueInRange(conf.queue) THEN conf.queue ELSE DefaultQueue
<1>1. PICK l, p :
          /\ stage = "replicas" /\ stage' = "database" /\ checked = Len(conf.replicas)
          /\ conf' = [conf EXCEPT !.listening = l, !.threads = threads, !.queue = queue, !.prometheus = p]
          /\ UNCHANGED <<checked, resolved, env, cli, db_pool, connections, http, workers>>
  BY DEF ValidateRest, From, NotYet
<1>0. threads \in 1 .. 10 /\ queue \in 1 .. 4096
  BY DEF ThreadsInRange, QueueInRange, DefaultThreads, DefaultQueue
<1> HIDE DEF threads, queue
<1>2. conf' = [master |-> conf.master, replicas |-> conf.replicas, listening |-> l,
               threads |-> threads, queue |-> queue, prometheus |-> p]
  BY <1>1 DEF ConfShape
<1>3. conf'.threads \in 1 .. 10 /\ conf'.queue \in 1 .. 4096
  BY <1>0, <1>2
<1>4. ConfShape'
  BY <1>1, <1>2 DEF ConfShape
<1>5. Compared' /\ checked' = Len(Configured)'
  <2>1. Configured' = Configured /\ conf'.replicas = conf.replicas
    BY <1>1, <1>2 DEF Configured
  <2>2. Compared
    BY <1>1 DEF Checked
  <2> QED BY <1>1, <2>1, <2>2 DEF Compared
<1>6. Taken' /\ Checked' /\ Pools'
  BY <1>1, <1>3, <1>5 DEF Taken, Checked, Pools, Validation
<1> QED BY <1>4, <1>6

LEMMA StartsInv == ASSUME StartInv, DbStart \/ HttpStart PROVE StartInv'
<1> USE DEF StartInv
<1>1. /\ UNCHANGED <<env, cli, conf, checked, resolved>>
      /\ stage \in {"database", "http"} /\ stage' \in {"http", "running"}
  BY DEF DbStart, HttpStart, From
<1>2. ConfShape' /\ Taken' /\ Checked'
  <2>1. Configured' = Configured
    BY <1>1 DEF Configured
  <2>2. Compared
    BY <1>1 DEF Checked, Validation
  <2>3. Compared'
    BY <1>1, <2>1, <2>2 DEF Compared
  <2>5. ConfShape' /\ Taken'
    BY <1>1 DEF ConfShape, Taken
  <2>6. Checked'
    BY <1>1, <2>1, <2>3 DEF Checked, Validation
  <2> QED BY <2>5, <2>6
<1>3. Pools'
  <2>1. CASE DbStart
    BY <2>1 DEF DbStart, From, Pools, UsableOrNone, Cluster
  <2>2. CASE HttpStart
    BY <2>2 DEF HttpStart, From, Pools, Cluster
  <2> QED BY <2>1, <2>2
<1> QED BY <1>2, <1>3

LEMMA StepInv == StartInv /\ [StartNext]_vars => StartInv'
<1> SUFFICES ASSUME StartInv, [StartNext]_vars PROVE StartInv'
    OBVIOUS
<1>1. CASE UNCHANGED vars
  <2>1. Configured' = Configured
    BY <1>1 DEF vars, Configured
  <2>2. ConfShape' /\ Pools'
    BY <1>1 DEF vars, StartInv, ConfShape, Pools, Cluster
  <2>3. Taken'
    BY <1>1, <2>1 DEF vars, StartInv, Taken
  <2>4. Compared => Compared'
    BY <1>1, <2>1, SMTT(40) DEF vars, Compared
  <2>5. Checked'
    BY <1>1, <2>1, <2>4 DEF vars, StartInv, Checked
  <2> QED BY <2>2, <2>3, <2>5 DEF StartInv
<1>2. CASE Run
  BY <1>1, <1>2 DEF Run
<1> QED BY <1>1, <1>2, ReadInv, MasterInv, ReplicaInv, RestInv, StartsInv DEF StartNext

\* The invariant holds from the defaults to the running service.
THEOREM StartInvariant == StartSpec => []StartInv
<1> QED BY InitInv, StepInv, PTL DEF StartSpec

\* validate() brings threads and queue into their ranges, and when both pools
\* came up, db_start() has opened a connection of each node per HTTP worker.
THEOREM ConnectionPerWorker == StartSpec => []OneConnectionPerWorker
<1>1. StartInv => OneConnectionPerWorker
  BY DEF StartInv, Checked, Pools, OneConnectionPerWorker
<1> QED BY <1>1, StartInvariant, PTL

\* However many replicas environment and command line name, the pool of
\* db_start() has a node for each of them, at its place, or there is no pool.
THEOREM AllNodesOrNone == StartSpec => []WholeClusterOrNothing
<1>1. StartInv => WholeClusterOrNothing
  <2> SUFFICES ASSUME StartInv, db_pool # <<>>
               PROVE  /\ Len(db_pool) = 1 + Len(Configured)
                      /\ \A i \in 1 .. Len(Configured) :
                            Configured[i].form = "good" => db_pool[i + 1].url.host = Configured[i].host
      BY DEF WholeClusterOrNothing
  <2>1. Compared /\ checked = Len(Configured) /\ db_pool = <<conf.master>> \o conf.replicas
    BY DEF StartInv, Pools, Checked, Validation, Cluster
  <2>2. conf.master \in PgsqlNodes /\ conf.replicas \in Seq(PgsqlNodes)
    BY DEF StartInv, ConfShape
  <2>3. /\ Len(db_pool) = 1 + Len(conf.replicas)
        /\ \A i \in 1 .. Len(conf.replicas) : db_pool[i + 1] = conf.replicas[i]
    BY <2>1, <2>2
  <2> QED BY <2>1, <2>3 DEF Compared, Matches
<1> QED BY <1>1, StartInvariant, PTL

\* A replica whose host resolved in validate() is opened with the credentials of
\* its URL, whatever happened to the other nodes.
THEOREM ResolvedNodesAuthorize == StartSpec => []CredentialsIfResolved
<1>1. StartInv => CredentialsIfResolved
  <2> SUFFICES ASSUME StartInv, db_pool # <<>>, NEW i \in resolved \ {0}, Configured[i].form = "good"
               PROVE  CredentialsOf(db_pool[i + 1], Configured[i])
      BY DEF CredentialsIfResolved
  <2>1. Compared /\ checked = Len(Configured) /\ db_pool = <<conf.master>> \o conf.replicas
    BY DEF StartInv, Pools, Checked, Validation, Cluster
  <2>2. conf.master \in PgsqlNodes /\ conf.replicas \in Seq(PgsqlNodes)
    BY DEF StartInv, ConfShape
  <2>3. i \in 1 .. Len(Configured) /\ Len(conf.replicas) = Len(Configured)
    <3>1. resolved \subseteq 0 .. Len(Configured) /\ Len(conf.replicas) = Len(Configured)
      BY <2>1 DEF Compared
    <3>2. Len(conf.replicas) \in Nat
      BY <2>2
    <3> QED BY <3>1, <3>2
  <2>4. db_pool[i + 1] = conf.replicas[i]
    BY <2>1, <2>2, <2>3
  <2> QED BY <2>1, <2>3, <2>4 DEF Compared, Matches
<1> QED BY <1>1, StartInvariant, PTL

================================================================================
