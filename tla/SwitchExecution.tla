-------------------------- MODULE SwitchExecution --------------------------
(***************************************************************************)
(* The execution of switch requests inside one analysis process, for       *)
(* TenDBHA clusters: a cluster has a master, a standby slave that is to    *)
(* become the new master, and proxies that send the clients to a master.   *)
(*                                                                         *)
(* A request with the scope "host" runs SwitchSameHostInstances: status,   *)
(* check of all instances, cluster by cluster under the cluster's lock,    *)
(* locks given back, switch of each instance under the lock again.  One    *)
(* with the scope "db_instance" runs SwitchSingleInstance: status, lock,   *)
(* check, switch.  Requests come from passes that overlap.  The switch of  *)
(* a master (DoMasterSwitch) moves the proxies one by one to a placeholder *)
(* address, cuts the replication of the standby slave, and moves the       *)
(* proxies to it; then DBM swaps the roles and binlog dumpers follow.      *)
(***************************************************************************)
EXTENDS Naturals, FiniteSets

CONSTANTS
    Req,         \* the requests
    Inst,        \* the instances but for the standby slaves of the masters
    Cluster,     \* the TenDBHA clusters
    ClusterOf,   \* the cluster of an instance
    Host,        \* the hosts
    HostOf,      \* the host of an instance
    Role,        \* "master", "slave", "repeater" or "proxy"
    MaxInstance  \* hostLevelSwitchMaxInstanceNum

ASSUME ExecutionAssumption ==
    /\ ClusterOf \in [Inst -> Cluster]
    /\ HostOf \in [Inst -> Host]
    /\ Role \in [Inst -> {"master", "slave", "repeater", "proxy"}]
    /\ MaxInstance \in Nat \ {0}

VARIABLES
    status,  \* status[i]: what DBM says of i
    master,  \* master[c]: which of the two has the master role in DBM
    repl,    \* repl[c]: the replication of the standby slave
    route,   \* route[x]: where proxy x sends its clients
    held,    \* held[c]: the <<request, instance>> pairs behind c's lock
    phase,   \* phase[r]: how far request r is
    scope,   \* scope[r]: its action scope
    insts,   \* insts[r]: its instances
    seen,    \* seen[r]: the proxies in service, as DBM said at the query
    check,   \* check[r][i]: the result of CheckBeforeSwitch
    job,     \* job[r][i]: the step the switch of i is at
    todo     \* todo[r][i]: the proxies the step has still to refresh

dbm == <<status, master>>
cluster == <<repl, route>>
request == <<phase, scope, insts, seen>>
work == <<check, job, todo>>
vars == <<dbm, cluster, held, request, work>>

Proxy == {x \in Inst : Role[x] = "proxy"}
ProxiesOf(c) == {x \in Proxy : ClusterOf[x] = c}

\* The steps of a switch: those of DoSwitch for a master, the one of DoSwitch
\* for any other instance, UpdateMetaInfo and DoFinal.
Step == {"disconnect", "reset", "connect", "delete", "meta", "final"}
Ended == {"ok", "failed"}

TypeOK ==
    /\ status \in [Inst -> {"running", "unavailable"}]
    /\ master \in [Cluster -> {"old", "new"}]
    /\ repl \in [Cluster -> {"on", "stopped", "reset"}]
    /\ route \in [Proxy -> {"old", "none", "new"}]
    /\ held \in [Cluster -> SUBSET (Req \X Inst)]
    /\ phase \in [Req -> {"idle", "status", "check", "switch"} \cup Ended]
    /\ scope \in [Req -> {"host", "db_instance"}]
    /\ insts \in [Req -> SUBSET Inst]
    /\ seen \in [Req -> SUBSET Proxy]
    /\ check \in [Req -> [Inst -> {"none", "required", "notNeeded", "unpass"}]]
    /\ job \in [Req -> [Inst -> {"none", "ready", "locked", "done", "error"}
                                    \cup Step]]
    /\ todo \in [Req -> [Inst -> SUBSET Proxy]]

Init ==
    /\ status = [i \in Inst |-> "running"]
    /\ master = [c \in Cluster |-> "old"]
    /\ repl = [c \in Cluster |-> "on"]
    /\ route = [x \in Proxy |-> "old"]
    /\ held = [c \in Cluster |-> {}]
    /\ phase = [r \in Req |-> "idle"]
    /\ scope = [r \in Req |-> "host"]
    /\ insts = [r \in Req |-> {}]
    /\ seen = [r \in Req |-> {}]
    /\ check = [r \in Req |-> [i \in Inst |-> "none"]]
    /\ job = [r \in Req |-> [i \in Inst |-> "none"]]
    /\ todo = [r \in Req |-> [i \in Inst |-> {}]]

-----------------------------------------------------------------------------
(* The request, and the status *)

InService == {i \in Inst : status[i] = "running"}

\* DBM is asked for the instances and for the proxies of their clusters.
Query(r, s, S) ==
    /\ phase[r] = "idle"
    /\ S # {} /\ S \subseteq InService
    /\ phase' = [phase EXCEPT ![r] = "status"]
    /\ scope' = [scope EXCEPT ![r] = s]
    /\ insts' = [insts EXCEPT ![r] = S]
    /\ seen' = [seen EXCEPT ![r] = Proxy \cap InService]
    /\ UNCHANGED <<dbm, cluster, held, work>>

\* A host is switched as a whole: checkHostInstanceCompleteness.
QueryHost(r, h) == Query(r, "host", {i \in Inst : HostOf[i] = h})

QueryInstance(r, i) == Query(r, "db_instance", {i})

WithStatus(S) ==
    [i \in Inst |-> IF i \in S THEN "unavailable" ELSE status[i]]

\* The check of the status in the request passes: it was running.
SetStatus(r) ==
    /\ phase[r] = "status"
    /\ status' = WithStatus(insts[r])
    /\ phase' = [phase EXCEPT ![r] = "check"]
    /\ UNCHANGED <<master, cluster, held, scope, insts, seen, work>>

\* DBM refuses, its answer is lost, or the time of the request is over.
SetStatusFail(r) ==
    /\ phase[r] = "status"
    /\ status' \in {status, WithStatus(insts[r])}
    /\ phase' = [phase EXCEPT ![r] = "failed"]
    /\ UNCHANGED <<master, cluster, held, scope, insts, seen, work>>

-----------------------------------------------------------------------------
(* CheckBeforeSwitch, under the lock of the cluster *)

\* The instances of r in cluster c.  One goroutine checks each such group.
Group(r, c) == {i \in insts[r] : ClusterOf[i] = c}
Unchecked(r, c) ==
    phase[r] = "check" /\ Group(r, c) # {}
        /\ \A i \in Group(r, c) : check[r][i] = "none"

LockForCheck(r, c) ==
    /\ Unchecked(r, c)
    /\ held[c] = {}
    /\ held' = [held EXCEPT ![c] = {r} \X Group(r, c)]
    /\ UNCHANGED <<dbm, cluster, request, work>>

\* clusterLockTimeout passes while another one has the lock.
LockForCheckTimeout(r, c) ==
    /\ Unchecked(r, c)
    /\ \E h \in held[c] : h[1] # r
    /\ check' = [check EXCEPT ![r] =
                    [i \in Inst |-> IF i \in Group(r, c) THEN "unpass"
                                                         ELSE @[i]]]
    /\ UNCHANGED <<dbm, cluster, held, request, job, todo>>

\* A master needs a standby slave that replicates from it.  Any check may
\* fail, and does when the time of the request is over.
Result(i) ==
    CASE Role[i] = "repeater" -> {"notNeeded", "unpass"}
      [] Role[i] = "master" /\ repl[ClusterOf[i]] # "on" -> {"unpass"}
      [] OTHER -> {"required", "unpass"}

CheckBeforeSwitch(r, i) ==
    /\ phase[r] = "check"
    /\ <<r, i>> \in held[ClusterOf[i]]
    /\ check[r][i] = "none"
    /\ \E result \in Result(i) : check' = [check EXCEPT ![r][i] = result]
    /\ UNCHANGED <<dbm, cluster, held, request, job, todo>>

\* Mutant: a single switch gives its lock back after the check, too.
UnlockAfterEachCheck(r, c) ==
    /\ phase[r] = "check"
    /\ \E h \in held[c] : h[1] = r
    /\ \A i \in Group(r, c) : check[r][i] # "none"
    /\ held' = [held EXCEPT ![c] = {}]
    /\ UNCHANGED <<dbm, cluster, request, work>>

\* checkOnSameHostSameCluster returns.
UnlockAfterCheck(r, c) ==
    /\ phase[r] = "check" /\ scope[r] = "host"
    /\ \E h \in held[c] : h[1] = r
    /\ \A i \in Group(r, c) : check[r][i] # "none"
    /\ held' = [held EXCEPT ![c] = {}]
    /\ UNCHANGED <<dbm, cluster, request, work>>

Holding(r) == {c \in Cluster : \E h \in held[c] : h[1] = r}

Checked(r) ==
    /\ phase[r] = "check"
    /\ \A i \in insts[r] : check[r][i] # "none"
    /\ scope[r] = "host" => Holding(r) = {}

\* Mutant: a failed check stops the instance only, not its host.
PassedEach(r) == \E i \in insts[r] : check[r][i] = "required"

\* No instance failed, and there are some to switch.
Passed(r) ==
    /\ \A i \in insts[r] : check[r][i] # "unpass"
    /\ \E i \in insts[r] : check[r][i] = "required"

\* SwitchSingleInstance goes on under the lock it has, processOnSameHost takes
\* the locks again.
CheckEnd(r) ==
    /\ Checked(r) /\ Passed(r)
    /\ phase' = [phase EXCEPT ![r] = "switch"]
    /\ job' = [job EXCEPT ![r] =
                  [i \in Inst |->
                      IF i \in insts[r] /\ check[r][i] = "required"
                        THEN IF scope[r] = "host" THEN "ready" ELSE "locked"
                        ELSE "none"]]
    /\ UNCHANGED <<dbm, cluster, held, scope, insts, seen, check, todo>>

\* The locks that r has are given back.
Released(r) ==
    [c \in Cluster |-> IF c \in Holding(r) THEN {} ELSE held[c]]

\* A check failed or the time is over; or no instance needs a switch.
\* SwitchSingleInstance gives its lock back and RollBack does nothing.
CheckStop(r) ==
    /\ Checked(r)
    /\ phase' = [phase EXCEPT ![r] =
                    IF \A i \in insts[r] : check[r][i] = "notNeeded"
                      THEN "ok" ELSE "failed"]
    /\ held' = Released(r)
    /\ UNCHANGED <<dbm, cluster, scope, insts, seen, work>>

-----------------------------------------------------------------------------
(* The switch of an instance, under the lock of the cluster *)

\* Mutant: nobody waits for the lock.
LockForSwitchAnyway(r, i) ==
    /\ job[r][i] = "ready"
    /\ held' = [held EXCEPT ![ClusterOf[i]] = {<<r, i>>}]
    /\ job' = [job EXCEPT ![r][i] = "locked"]
    /\ UNCHANGED <<dbm, cluster, request, check, todo>>

\* processOnSameHostGroup: in TenDBHA each instance is a group of its own.
LockForSwitch(r, i) ==
    /\ job[r][i] = "ready"
    /\ held[ClusterOf[i]] = {}
    /\ held' = [held EXCEPT ![ClusterOf[i]] = {<<r, i>>}]
    /\ job' = [job EXCEPT ![r][i] = "locked"]
    /\ UNCHANGED <<dbm, cluster, request, check, todo>>

LockForSwitchTimeout(r, i) ==
    /\ job[r][i] = "ready"
    /\ held[ClusterOf[i]] # {}
    /\ job' = [job EXCEPT ![r][i] = "error"]
    /\ UNCHANGED <<dbm, cluster, held, request, check, todo>>

At(r, i, step) == phase[r] = "switch" /\ job[r][i] = step
Goes(r, i, step) == job' = [job EXCEPT ![r][i] = step]
Ends(r, i) == Goes(r, i, "error") /\ todo' = [todo EXCEPT ![r][i] = {}]

\* Mutant: the slot of a switch that has succeeded is not given back.
RunningOrDone(r) == {i \in Inst : job[r][i] \in Step \cup {"done"}}

\* The instances that have a slot of instSem, from before their first step until
\* they end.
Running(r) == {i \in Inst : job[r][i] \in Step}
SlotFree(r) == Cardinality(Running(r)) < MaxInstance

\* The proxies the switch of master i moves: those in service at the query.
Reached(r, i) ==
    IF Role[i] = "master" THEN seen[r] \cap ProxiesOf(ClusterOf[i]) ELSE {}

\* Mutant: the proxies are moved to the new master at once.
StartConnected(r, i) ==
    /\ At(r, i, "locked")
    /\ SlotFree(r)
    /\ Goes(r, i, IF Role[i] = "master" THEN "connect" ELSE "delete")
    /\ todo' = [todo EXCEPT ![r][i] = Reached(r, i)]
    /\ UNCHANGED <<dbm, cluster, held, request, check>>

\* There is a slot for it: doSwitchForHostInstance.
Start(r, i) ==
    /\ At(r, i, "locked")
    /\ SlotFree(r)
    /\ Goes(r, i, IF Role[i] = "master" THEN "disconnect" ELSE "delete")
    /\ todo' = [todo EXCEPT ![r][i] = Reached(r, i)]
    /\ UNCHANGED <<dbm, cluster, held, request, check>>

\* What a step sets the proxies to.
Target(step) == IF step = "disconnect" THEN "none" ELSE "new"

\* BatchRefreshProxiesBackends takes the proxies one after the other.
Refresh(r, i, x) ==
    \E step \in {"disconnect", "connect"} :
        /\ At(r, i, step)
        /\ x \in todo[r][i]
        /\ route' = [route EXCEPT ![x] = Target(step)]
        /\ todo' = [todo EXCEPT ![r][i] = @ \ {x}]
        /\ UNCHANGED <<dbm, repl, held, request, check, job>>

\* The proxy is refreshed but the answer is lost: the switch ends.
RefreshLost(r, i, x) ==
    \E step \in {"disconnect", "connect"} :
        /\ At(r, i, step)
        /\ x \in todo[r][i]
        /\ route' = [route EXCEPT ![x] = Target(step)]
        /\ Ends(r, i)
        /\ UNCHANGED <<dbm, repl, held, request, check>>

\* Mutant: the step goes on without waiting for its refreshes.
RefreshedEarly(r, i) ==
    \E step \in {"disconnect", "connect"} :
        /\ At(r, i, step)
        /\ Reached(r, i) # {}
        /\ Goes(r, i, IF step = "disconnect" THEN "reset" ELSE "meta")
        /\ todo' = [todo EXCEPT ![r][i] = {}]
        /\ UNCHANGED <<dbm, cluster, held, request, check>>

\* Without a proxy in service the step fails.
Refreshed(r, i) ==
    \E step \in {"disconnect", "connect"} :
        /\ At(r, i, step)
        /\ todo[r][i] = {} /\ Reached(r, i) # {}
        /\ Goes(r, i, IF step = "disconnect" THEN "reset" ELSE "meta")
        /\ UNCHANGED <<dbm, cluster, held, request, check, todo>>

\* ResetSlaveWithBinlogPos: STOP SLAVE, SHOW MASTER STATUS, RESET SLAVE ALL.
ResetSlave(r, i) ==
    /\ At(r, i, "reset")
    /\ repl' = [repl EXCEPT ![ClusterOf[i]] = "reset"]
    /\ todo' = [todo EXCEPT ![r][i] = Reached(r, i)]
    /\ Goes(r, i, "connect")
    /\ UNCHANGED <<dbm, route, held, request, check>>

\* It ends after one of its statements.
ResetSlaveFail(r, i) ==
    /\ At(r, i, "reset")
    /\ \E left \in {"stopped", "reset"} :
          /\ repl[ClusterOf[i]] = "reset" => left = "reset"
          /\ repl' = [repl EXCEPT ![ClusterOf[i]] = left]
    /\ Goes(r, i, "error")
    /\ UNCHANGED <<dbm, route, held, request, check, todo>>

\* DeleteNameService of a proxy or a slave.
Delete(r, i) ==
    /\ At(r, i, "delete")
    /\ Goes(r, i, "meta")
    /\ UNCHANGED <<dbm, cluster, held, request, check, todo>>

\* swap_role of DBM: the pair must be replicating in the order it is named.
Swapped(c) == [master EXCEPT ![c] = IF @ = "old" THEN "new" ELSE @]

SwapDone(c) == master[c] # Swapped(c)[c]

\* UpdateMetaInfo: SwapMySQLRole for a master, nothing for the others.
UpdateMetaInfo(r, i) ==
    /\ At(r, i, "meta")
    /\ IF Role[i] = "master"
         THEN /\ SwapDone(ClusterOf[i])
              /\ master' = Swapped(ClusterOf[i])
         ELSE UNCHANGED master
    /\ Goes(r, i, "final")
    /\ UNCHANGED <<status, cluster, held, request, check, todo>>

\* The roles are swapped but the answer is lost.
UpdateMetaInfoLost(r, i) ==
    /\ At(r, i, "meta") /\ Role[i] = "master"
    /\ master' = Swapped(ClusterOf[i])
    /\ Goes(r, i, "error")
    /\ UNCHANGED <<status, cluster, held, request, check, todo>>

\* Binlog dumpers are told of the new master.
DoFinal(r, i) ==
    /\ At(r, i, "final")
    /\ Goes(r, i, "done")
    /\ UNCHANGED <<dbm, cluster, held, request, check, todo>>

\* A step fails without effect, or the time of the request is over, which is
\* looked at between the steps and when a slot was found for the first of them.
StepFail(r, i) ==
    /\ phase[r] = "switch"
    /\ job[r][i] \in Step \/ (job[r][i] = "locked" /\ SlotFree(r))
    /\ Ends(r, i)
    /\ UNCHANGED <<dbm, cluster, held, request, check>>

\* Mutant: a switch that fails keeps the lock.
UnlockAfterSuccess(r, i) ==
    /\ job[r][i] = "done"
    /\ <<r, i>> \in held[ClusterOf[i]]
    /\ held' = [held EXCEPT ![ClusterOf[i]] = {}]
    /\ UNCHANGED <<dbm, cluster, request, work>>

UnlockAfterSwitch(r, i) ==
    /\ job[r][i] \in {"done", "error"}
    /\ <<r, i>> \in held[ClusterOf[i]]
    /\ held' = [held EXCEPT ![ClusterOf[i]] = {}]
    /\ UNCHANGED <<dbm, cluster, request, work>>

SwitchEnd(r) ==
    /\ phase[r] = "switch"
    /\ \A i \in insts[r] : job[r][i] \in {"none", "done", "error"}
    /\ Holding(r) = {}
    /\ phase' = [phase EXCEPT ![r] =
                    IF \E i \in insts[r] : job[r][i] = "error"
                      THEN "failed" ELSE "ok"]
    /\ UNCHANGED <<dbm, cluster, held, scope, insts, seen, work>>

\* The process dies, and its requests and locks with it.
Crash ==
    /\ \E r \in Req : phase[r] \notin {"idle"} \cup Ended
    /\ phase' = [r \in Req |-> IF phase[r] \in {"idle"} \cup Ended
                                 THEN phase[r] ELSE "failed"]
    /\ job' = [r \in Req |-> [i \in Inst |->
                  IF job[r][i] \in {"none", "done"} THEN job[r][i]
                                                    ELSE "error"]]
    /\ todo' = [r \in Req |-> [i \in Inst |-> {}]]
    /\ held' = [c \in Cluster |-> {}]
    /\ UNCHANGED <<dbm, cluster, scope, insts, seen, check>>

-----------------------------------------------------------------------------
\* What request r does once it has begun.
Proceed(r) ==
    \/ SetStatus(r) \/ SetStatusFail(r)
    \/ \E c \in Cluster : \/ LockForCheck(r, c) \/ LockForCheckTimeout(r, c)
                          \/ UnlockAfterCheck(r, c)
    \/ CheckEnd(r) \/ CheckStop(r) \/ SwitchEnd(r)
    \/ \E i \in Inst :
          \/ CheckBeforeSwitch(r, i)
          \/ LockForSwitch(r, i) \/ LockForSwitchTimeout(r, i) \/ Start(r, i)
          \/ \E x \in Proxy : Refresh(r, i, x) \/ RefreshLost(r, i, x)
          \/ Refreshed(r, i) \/ ResetSlave(r, i) \/ ResetSlaveFail(r, i)
          \/ Delete(r, i) \/ UpdateMetaInfo(r, i) \/ UpdateMetaInfoLost(r, i)
          \/ DoFinal(r, i) \/ StepFail(r, i) \/ UnlockAfterSwitch(r, i)

Ask(r) ==
    \/ \E h \in Host : QueryHost(r, h)
    \/ \E i \in Inst : QueryInstance(r, i)

\* Every request has ended, or there is nothing left to ask for.
Finished ==
    /\ \A r \in Req : phase[r] \in {"idle"} \cup Ended
    /\ (\A r \in Req : phase[r] \in Ended) \/ InService = {}
    /\ UNCHANGED vars

Next ==
    \/ \E r \in Req : Ask(r) \/ Proceed(r)
    \/ Crash
    \/ Finished

Spec == Init /\ [][Next]_vars

\* A request that has begun goes on: its goroutines run, the lock gives up
\* after clusterLockTimeout, and every call of DBM, a proxy or a slave has a
\* timeout.
FairSpec == Spec /\ \A r \in Req : WF_vars(Proceed(r))

-----------------------------------------------------------------------------
(* Properties *)

\* The cluster lock does its work: the work behind it is that of one request,
\* which has not ended, and whoever switches an instance stands behind the lock
\* of its cluster, so that no two switches of one cluster overlap.
ClusterLockInv ==
    TypeOK /\ \A c \in Cluster :
        /\ \A g, h \in held[c] : g[1] = h[1]
        /\ \A h \in held[c] : phase[h[1]] \in {"check", "switch"}
        /\ \A r \in Req, i \in Inst :
              ClusterOf[i] = c /\ job[r][i] \in Step \cup {"locked"} =>
                  held[c] = {<<r, i>>}

\* DoMasterSwitch never leaves clients of one cluster on both masters: once a
\* proxy sends to the new master, that one has stopped to replicate and no
\* proxy in service sends to the old one, however the switch fails.
NoSplitBrain ==
    \A x \in Proxy : route[x] = "new" =>
        LET c == ClusterOf[x] IN
        /\ repl[c] = "reset"
        /\ \A y \in ProxiesOf(c) \cap InService : route[y] # "old"

\* A cluster is touched only in the name of a request whose instances are all
\* out of service and have all passed their check: one that fails its check
\* stops the whole host before anything was done to any of its clusters.
Touched(c) == repl[c] # "on" \/ \E x \in ProxiesOf(c) : route[x] # "old"

NothingBeforeChecks ==
    \A c \in Cluster : Touched(c) =>
        \E r \in Req :
            /\ \E i \in insts[r] : Role[i] = "master" /\ ClusterOf[i] = c
            /\ \A i \in insts[r] : /\ status[i] = "unavailable"
                                   /\ check[r][i] \in {"required", "notNeeded"}

\* Roles change once, and only after the standby slave has stopped to
\* replicate and every proxy in service was moved to it, although two requests
\* may switch one master one after the other: the second swap fails.
SwapIsFinal ==
    [][\A c \in Cluster : master'[c] # master[c] =>
           /\ master'[c] = "new"
           /\ repl[c] = "reset"
           /\ \A x \in ProxiesOf(c) \cap InService : route[x] = "new"]_vars

\* The switches of the masters, with all that may fail in them and whatever else
\* works on their clusters, keep the promise of MasterHandover to the clients:
\* nobody writes to a master that nobody replicates from any more, and nobody is
\* sent back.  (DoMasterSwitch, BatchRefreshProxiesBackends, UpdateMetaInfo)
Promise == INSTANCE MasterHandover WITH serving <- Proxy \cap InService

RefinesMasterHandover == Promise!Spec

\* A switch of a master that reports success has left its clients and its roles
\* with the new master.
SwitchComplete ==
    [][\A r \in Req, i \in Inst :
           job[r][i] # "done" /\ job'[r][i] = "done" /\ Role[i] = "master" =>
               LET c == ClusterOf[i] IN
               /\ master'[c] = "new" /\ repl'[c] = "reset"
               /\ \A x \in Reached(r, i) : route'[x] = "new"]_vars

\* A step that begins the switch of a master does so while its standby slave
\* still replicates, which is what the check of the master has found.
CheckStillHolds(scopes) ==
    \A r \in Req, i \in Inst :
        /\ scope[r] \in scopes /\ Role[i] = "master"
        /\ job[r][i] = "locked" /\ job'[r][i] \in Step
        => repl[ClusterOf[i]] = "on"

\* SwitchSingleInstance keeps the lock from the check to the switch: nothing is
\* switched on a check that no longer holds.
SingleCheckHolds == [][CheckStillHolds({"db_instance"})]_vars

\* The documented order, cluster lock, CheckBeforeSwitch, DoSwitch, is said to
\* be that of the host path too.
CheckHolds == [][CheckStillHolds({"host", "db_instance"})]_vars

\* The locks, the slots and the failures of a request never keep it, or any
\* other, from coming to its end.
EveryRequestEnds ==
    \A r \in Req : phase[r] = "status" ~> phase[r] \in Ended
=============================================================================
