----------------------------- MODULE TaskService -----------------------------
(***************************************************************************)
(* What the pool of threads promises its client, without threads, mutexes  *)
(* or condition variables: a task is refused when Capacity tasks wait, the *)
(* accepted ones run in order, at most Servers at a time, each to its end, *)
(* and the service closes only when nothing is left.                       *)
(***************************************************************************)
EXTENDS Integers, FiniteSets

CONSTANTS Servers, Capacity, MaxTasks

VARIABLES status, open
serviceVars == <<status, open>>

Ids == 0 .. MaxTasks - 1
In(s) == {k \in Ids : status[k] = s}

ServiceInit == status = [k \in Ids |-> "new"] /\ open = TRUE

Room == Cardinality(In("queued")) < Capacity

\* Ids are given in the order of the calls.
Submit(k) ==
    /\ open
    /\ k \in In("new") /\ \A j \in In("new") : k <= j
    /\ status' = [status EXCEPT ![k] = IF Room THEN "queued" ELSE "refused"]
    /\ UNCHANGED open

Oldest(k) == \A j \in In("queued") : k <= j

Start(k) ==
    /\ k \in In("queued") /\ Oldest(k)
    /\ Cardinality(In("running")) < Servers
    /\ status' = [status EXCEPT ![k] = "running"]
    /\ UNCHANGED open

End(k) ==
    /\ k \in In("running")
    /\ status' = [status EXCEPT ![k] = "done"]
    /\ UNCHANGED open

Close ==
    /\ open
    /\ In("queued") = {} /\ In("running") = {}
    /\ open' = FALSE
    /\ UNCHANGED status

ServiceNext == Close \/ \E k \in Ids : Submit(k) \/ Start(k) \/ End(k)

ServiceFairness ==
    /\ WF_serviceVars(\E k \in Ids : Start(k))
    /\ \A k \in Ids : WF_serviceVars(End(k))

ServiceSpec == ServiceInit /\ [][ServiceNext]_serviceVars /\ ServiceFairness

=============================================================================
