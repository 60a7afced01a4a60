--------------------------- MODULE MasterHandover ---------------------------
(***************************************************************************)
(* What the switch of a master promises to the clients of its cluster,     *)
(* whoever switches, however often and wherever a switch ends: the clients *)
(* leave the old master before the new one stops to replicate from it, so  *)
(* that nothing they write is lost; they come to the new master when it    *)
(* has stopped; nobody is sent back; and DBM swaps the roles last, once.   *)
(* Module SwitchExecution is the code that has to keep this promise.       *)
(***************************************************************************)
CONSTANTS
    Cluster,    \* the clusters
    Proxy,      \* the proxies, which send clients to a master
    ClusterOf   \* the cluster of a proxy

VARIABLES
    serving,  \* the proxies in service
    route,    \* route[x]: where proxy x sends its clients
    repl,     \* repl[c]: the replication of the new master from the old one
    master    \* master[c]: which of the two has the master role in DBM

vars == <<serving, route, repl, master>>

\* Where the proxies in service of a cluster may send their clients.
Clients(c, routes) ==
    \A x \in serving : ClusterOf[x] = c => route[x] \in routes

Init ==
    /\ serving = Proxy
    /\ route = [x \in Proxy |-> "old"]
    /\ repl = [c \in Cluster |-> "on"]
    /\ master = [c \in Cluster |-> "old"]

TakeDown(S) ==
    /\ serving' = serving \ S
    /\ UNCHANGED <<route, repl, master>>

Detach(x) ==
    /\ route' = [route EXCEPT ![x] = "none"]
    /\ UNCHANGED <<serving, repl, master>>

\* The replication stops, and is given up for good.
Cut(c, left) ==
    /\ Clients(c, {"none", "new"})
    /\ repl[c] = "reset" => left = "reset"
    /\ repl' = [repl EXCEPT ![c] = left]
    /\ UNCHANGED <<serving, route, master>>

Attach(x) ==
    /\ repl[ClusterOf[x]] = "reset"
    /\ Clients(ClusterOf[x], {"none", "new"})
    /\ route' = [route EXCEPT ![x] = "new"]
    /\ UNCHANGED <<serving, repl, master>>

Swap(c) ==
    /\ master[c] = "old"
    /\ repl[c] = "reset" /\ Clients(c, {"new"})
    /\ master' = [master EXCEPT ![c] = "new"]
    /\ UNCHANGED <<serving, route, repl>>

Next ==
    \/ \E S \in SUBSET Proxy : TakeDown(S)
    \/ \E x \in Proxy : Detach(x) \/ Attach(x)
    \/ \E c \in Cluster :
          Swap(c) \/ \E left \in {"stopped", "reset"} : Cut(c, left)

Spec == Init /\ [][Next]_vars
=============================================================================
