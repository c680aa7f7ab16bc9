------------------------------ MODULE MCStartup ------------------------------
(* Small environments and command lines for TLC.                           *)
EXTENDS Startup

None == [master |-> <<>>, replicas |-> <<>>, listening |-> <<>>, threads |-> <<>>,
         queue |-> <<>>, prometheus |-> <<>>]

Url(host, user, path) == [form |-> "good", host |-> host, user |-> user, path |-> path]
Malformed == [DefaultUrl EXCEPT !.form = "malformed"]
SomeUrls == {Url("literal", "login:password", "given"), Url("name", "login", "given"),
             Url("name", "none", "none"), Malformed}

UpTo(n, S) == UNION {[1 .. k -> S] : k \in 0 .. n}

\* Nodes: any master, up to two replicas in the environment, one more option.
ClusterEnvironments ==
    {[None EXCEPT !.master = m, !.replicas = r] : m \in UpTo(1, SomeUrls), r \in UpTo(2, SomeUrls)}
ClusterCommandLines ==
    {[None EXCEPT !.replicas = r] : r \in UpTo(1, SomeUrls)}

\* Numbers and addresses, at the edges of their ranges.
Listenings ==
    {[form |-> f, host |-> h, port |-> p] :
        f \in {"good", "malformed"}, h \in {"literal", "name"}, p \in {0, 6000, 65536}}
NumberEnvironments ==
    {[None EXCEPT !.listening = l, !.threads = t, !.queue = q] :
        l \in UpTo(1, Listenings), t \in UpTo(1, {0, 10, 11}), q \in UpTo(1, {0, 4096, 4097})}
NumberCommandLines ==
    {[None EXCEPT !.threads = t, !.prometheus = p] :
        t \in UpTo(1, {-1, 2}), p \in UpTo(1, {0, 6001, 65536})}

AllEnvironments == ClusterEnvironments \cup NumberEnvironments
AllCommandLines == ClusterCommandLines \cup NumberCommandLines

==============================================================================
