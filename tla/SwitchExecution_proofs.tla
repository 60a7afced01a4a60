---------------------- MODULE SwitchExecution_proofs ----------------------
(***************************************************************************)
(* What SwitchExecution promises for any number of requests, clusters,     *)
(* hosts and proxies, and any number of slots.                             *)
(***************************************************************************)
EXTENDS SwitchExecution, TLAPS

\* What a request is at each phase: only a request at work has jobs, for its
\* own instances, and whatever is in service was so when the request began.
RequestInv ==
    \A r \in Req :
        /\ phase[r] \in {"idle", "status"} =>
              \A i \in Inst : check[r][i] = "none"
        /\ phase[r] \in {"idle", "status", "check"} =>
              \A i \in Inst : job[r][i] = "none"
        /\ phase[r] \in Ended =>
              \A i \in Inst : job[r][i] \in {"none", "done", "error"}
        /\ \A i \in Inst : job[r][i] # "none" => i \in insts[r]
        /\ scope[r] = "db_instance" => \A i, j \in insts[r] : i = j
        /\ scope[r] = "db_instance" => \A i \in Inst : job[r][i] # "ready"
        /\ phase[r] # "idle" => Proxy \cap InService \subseteq seen[r]

\* What stands behind the lock of a cluster.
HolderInv ==
    \A c \in Cluster : \A h \in held[c] :
        /\ h[2] \in insts[h[1]] /\ ClusterOf[h[2]] = c
        /\ phase[h[1]] \in {"check", "switch"}
        /\ phase[h[1]] = "check" => held[c] = {h[1]} \X Group(h[1], c)
        /\ phase[h[1]] = "switch" => held[c] = {h}

\* Who needs the lock of a cluster has it.
NeedsLock(r, i) ==
    \/ job[r][i] \in Step \cup {"locked"}
    \/ /\ phase[r] = "check" /\ scope[r] = "db_instance"
       /\ i \in insts[r] /\ check[r][i] = "required"

HeldInv ==
    /\ HolderInv
    /\ \A r \in Req, i \in Inst :
          NeedsLock(r, i) => held[ClusterOf[i]] = {<<r, i>>}

\* The steps of the switch of a master, each on what the steps before it did.
AtMaster(r, i, steps) == job[r][i] \in steps /\ Role[i] = "master"

RouteJob(r, i) ==
    /\ todo[r][i] \subseteq Reached(r, i)
    /\ todo[r][i] # {} => job[r][i] \in {"disconnect", "connect"}
    /\ job[r][i] \in {"disconnect", "reset", "connect"} => Role[i] = "master"
    /\ job[r][i] = "delete" => Role[i] # "master"
    /\ AtMaster(r, i, {"disconnect"}) =>
          \A y \in Reached(r, i) \ todo[r][i] : route[y] # "old"
    /\ AtMaster(r, i, {"reset", "connect", "meta", "final"}) =>
          \A y \in Reached(r, i) : route[y] # "old"
    /\ AtMaster(r, i, {"connect", "meta", "final"}) =>
          repl[ClusterOf[i]] = "reset"

RouteInv == NoSplitBrain /\ \A r \in Req, i \in Inst : RouteJob(r, i)

\* Under the lock, the proxies that were moved stay where they were moved.
MovedJob(r, i) ==
    /\ AtMaster(r, i, {"connect"}) =>
          \A y \in Reached(r, i) \ todo[r][i] : route[y] = "new"
    /\ AtMaster(r, i, {"meta", "final"}) =>
          \A y \in Reached(r, i) : route[y] = "new"
    /\ AtMaster(r, i, {"final"}) => master[ClusterOf[i]] = "new"

MovedInv == \A r \in Req, i \in Inst : MovedJob(r, i)

\* A single switch that has passed its check and not begun: under the lock its
\* standby slave goes on replicating.
Awaits(r, i) ==
    /\ scope[r] = "db_instance" /\ Role[i] = "master"
    /\ \/ job[r][i] = "locked"
       \/ phase[r] = "check" /\ i \in insts[r] /\ check[r][i] = "required"

CheckedInv ==
    \A r \in Req, i \in Inst : Awaits(r, i) => repl[ClusterOf[i]] = "on"

SwitchInv ==
    /\ TypeOK /\ RequestInv /\ HeldInv
    /\ RouteInv /\ MovedInv /\ CheckedInv

-----------------------------------------------------------------------------
(* Types *)

\* The proxies a switch reaches, of a cluster and of all, are instances.
LEMMA ProxyOf == /\ Proxy \subseteq Inst
                 /\ \A r, i : Reached(r, i) \subseteq seen[r]
                 /\ \A c : ProxiesOf(c) \subseteq Proxy
BY DEF Proxy, ProxiesOf, Reached

\* A job changes to one of its steps and leaves the others alone.
LEMMA GoesType ==
    ASSUME TypeOK, NEW r \in Req, NEW i \in Inst,
           NEW step \in {"ready", "locked", "done", "error"} \cup Step,
           Goes(r, i, step)
    PROVE  job' \in [Req -> [Inst -> {"none", "ready", "locked", "done", "error"}
                                        \cup Step]]
BY DEF TypeOK, Goes

\* The proxies left to a job are proxies.
LEMMA TodoType ==
    ASSUME TypeOK, NEW r \in Req, NEW i \in Inst, NEW S \in SUBSET Proxy,
           todo' = [todo EXCEPT ![r][i] = S]
    PROVE  todo' \in [Req -> [Inst -> SUBSET Proxy]]
BY DEF TypeOK

\* The proxies that a switch reaches are proxies.
LEMMA ReachedType ==
    ASSUME TypeOK, NEW r \in Req, NEW i \in Inst
    PROVE  Reached(r, i) \in SUBSET Proxy
BY DEF TypeOK, Reached

\* Every variable keeps its type, also when the process dies.
THEOREM TypeCorrect == Spec => []TypeOK
<1>1. Init => TypeOK
  BY DEF Init, TypeOK
<1>2. TypeOK /\ [Next]_vars => TypeOK'
  <2> SUFFICES ASSUME TypeOK, [Next]_vars
               PROVE  TypeOK'
    OBVIOUS
  <2> USE ExecutionAssumption
      DEF TypeOK, dbm, cluster, request, work, Step, Ended
  <2>1. ASSUME NEW r \in Req, Ask(r)
        PROVE  TypeOK'
    <3>1. ASSUME NEW s \in {"host", "db_instance"}, NEW S, Query(r, s, S)
          PROVE  TypeOK'
      <4>1. S \in SUBSET Inst /\ Proxy \cap InService \in SUBSET Proxy
        BY <3>1 DEF Query, InService
      <4>2. QED
        BY <3>1, <4>1 DEF Query
    <3>2. QED
      BY <2>1, <3>1 DEF Ask, QueryHost, QueryInstance
  <2>2. ASSUME NEW r \in Req, SetStatus(r) \/ SetStatusFail(r)
        PROVE  TypeOK'
    <3>1. WithStatus(insts[r]) \in [Inst -> {"running", "unavailable"}]
      BY DEF WithStatus
    <3>2. CASE SetStatus(r)
      BY <3>1, <3>2 DEF SetStatus
    <3>3. CASE SetStatusFail(r)
      BY <3>1, <3>3 DEF SetStatusFail
    <3>4. QED
      BY <2>2, <3>2, <3>3
  <2>3. ASSUME NEW r \in Req, NEW c \in Cluster, LockForCheck(r, c)
        PROVE  TypeOK'
    <3>1. {r} \X Group(r, c) \in SUBSET (Req \X Inst)
      BY DEF Group
    <3>2. QED
      BY <2>3, <3>1 DEF LockForCheck
  <2>4. ASSUME NEW r \in Req, NEW c \in Cluster, LockForCheckTimeout(r, c)
        PROVE  TypeOK'
    BY <2>4 DEF LockForCheckTimeout
  <2>5. ASSUME NEW r \in Req, NEW i \in Inst, CheckBeforeSwitch(r, i)
        PROVE  TypeOK'
    <3>1. Result(i) \subseteq {"none", "required", "notNeeded", "unpass"}
      BY DEF Result
    <3>2. QED
      BY <2>5, <3>1 DEF CheckBeforeSwitch
  <2>6. ASSUME NEW r \in Req, NEW c \in Cluster, UnlockAfterCheck(r, c)
        PROVE  TypeOK'
    BY <2>6 DEF UnlockAfterCheck
  <2>7. ASSUME NEW r \in Req, CheckEnd(r) \/ CheckStop(r) \/ SwitchEnd(r)
        PROVE  TypeOK'
    <3>1. CASE CheckEnd(r)
      BY <3>1 DEF CheckEnd
    <3>2. CASE CheckStop(r)
      BY <3>2 DEF CheckStop, Released
    <3>3. CASE SwitchEnd(r)
      BY <3>3 DEF SwitchEnd
    <3>4. QED
      BY <2>7, <3>1, <3>2, <3>3
  <2>8. ASSUME NEW r \in Req, NEW i \in Inst,
               \/ LockForSwitch(r, i) \/ LockForSwitchTimeout(r, i)
               \/ UnlockAfterSwitch(r, i)
        PROVE  TypeOK'
    <3>1. {<<r, i>>} \in SUBSET (Req \X Inst)
      OBVIOUS
    <3>2. CASE LockForSwitch(r, i)
      BY <3>1, <3>2, GoesType DEF LockForSwitch, Goes
    <3>3. CASE LockForSwitchTimeout(r, i)
      BY <3>3, GoesType DEF LockForSwitchTimeout, Goes
    <3>4. CASE UnlockAfterSwitch(r, i)
      BY <3>4 DEF UnlockAfterSwitch
    <3>5. QED
      BY <2>8, <3>2, <3>3, <3>4
  <2>9. ASSUME NEW r \in Req, NEW i \in Inst, Start(r, i) \/ StepFail(r, i)
        PROVE  TypeOK'
    <3>1. CASE Start(r, i)
      BY <3>1, GoesType, TodoType, ReachedType DEF Start
    <3>2. CASE StepFail(r, i)
      BY <3>2, GoesType, TodoType DEF StepFail, Ends
    <3>3. QED
      BY <2>9, <3>1, <3>2
  <2>10. ASSUME NEW r \in Req, NEW i \in Inst, NEW x \in Proxy,
                Refresh(r, i, x) \/ RefreshLost(r, i, x)
         PROVE  TypeOK'
    <3>1. \A step : Target(step) \in {"old", "none", "new"}
      BY DEF Target
    <3>2. CASE Refresh(r, i, x)
      BY <3>1, <3>2 DEF Refresh
    <3>3. CASE RefreshLost(r, i, x)
      BY <3>1, <3>3 DEF RefreshLost, Goes, Ends
    <3>4. QED
      BY <2>10, <3>2, <3>3
  <2>11. ASSUME NEW r \in Req, NEW i \in Inst,
                \/ Refreshed(r, i) \/ Delete(r, i) \/ DoFinal(r, i)
                \/ ResetSlave(r, i) \/ ResetSlaveFail(r, i)
         PROVE  TypeOK'
    <3>1. CASE Refreshed(r, i) \/ Delete(r, i) \/ DoFinal(r, i)
      BY <3>1, GoesType DEF Refreshed, Delete, DoFinal
    <3>2. CASE ResetSlave(r, i)
      BY <3>2, GoesType, TodoType, ReachedType DEF ResetSlave
    <3>3. CASE ResetSlaveFail(r, i)
      BY <3>3, GoesType DEF ResetSlaveFail
    <3>4. QED
      BY <2>11, <3>1, <3>2, <3>3
  <2>12. ASSUME NEW r \in Req, NEW i \in Inst,
                UpdateMetaInfo(r, i) \/ UpdateMetaInfoLost(r, i)
         PROVE  TypeOK'
    <3>1. \A c \in Cluster : Swapped(c) \in [Cluster -> {"old", "new"}]
      BY DEF Swapped
    <3>2. QED
      BY <2>12, <3>1, GoesType DEF UpdateMetaInfo, UpdateMetaInfoLost
  <2>13. CASE Crash
    BY <2>13 DEF Crash
  <2>14. CASE UNCHANGED vars
    BY <2>14 DEF vars
  <2>15. QED
    BY <2>1, <2>2, <2>3, <2>4, <2>5, <2>6, <2>7, <2>8, <2>9, <2>10, <2>11,
       <2>12, <2>13, <2>14 DEF Next, Proceed, Finished
<1>3. QED
  BY <1>1, <1>2, PTL DEF Spec

-----------------------------------------------------------------------------
(* The requests and the locks *)

\* A job that changes step, while its request is at work.
LEMMA GoesRequest ==
    ASSUME TypeOK, RequestInv, NEW r \in Req, NEW i \in Inst,
           NEW step \in {"ready", "locked", "done", "error"} \cup Step,
           phase[r] = "switch", job[r][i] # "none", step # "ready",
           Goes(r, i, step),
           UNCHANGED <<status, phase, scope, insts, seen, check>>
    PROVE  RequestInv'
BY DEF TypeOK, RequestInv, Goes, InService, Ended

\* A step of one job of a request, in the switch.
JobStep(r, i) ==
    \/ Start(r, i) \/ (\E x \in Proxy : Refresh(r, i, x) \/ RefreshLost(r, i, x))
    \/ Refreshed(r, i) \/ ResetSlave(r, i) \/ ResetSlaveFail(r, i)
    \/ Delete(r, i) \/ UpdateMetaInfo(r, i) \/ UpdateMetaInfoLost(r, i)
    \/ DoFinal(r, i) \/ StepFail(r, i)

\* What all the steps of a job have in common.
LEMMA JobStepFrame ==
    ASSUME TypeOK, NEW r \in Req, NEW i \in Inst, JobStep(r, i)
    PROVE  /\ phase[r] = "switch"
           /\ job[r][i] \in Step \cup {"locked"}
           /\ \E step \in {"done", "error"} \cup Step : Goes(r, i, step)
           /\ UNCHANGED <<status, held, request, check>>
<1> USE DEF TypeOK, dbm, cluster, request, Step
<1>1. CASE Start(r, i) \/ StepFail(r, i)
  BY <1>1 DEF Start, StepFail, At, Ends
<1>2. CASE \E x \in Proxy : Refresh(r, i, x)
  <2>1. job[r][i] \in {"disconnect", "connect"} /\ phase[r] = "switch"
        /\ job' = job /\ UNCHANGED <<status, held, request, check>>
    BY <1>2 DEF Refresh, At
  <2>2. Goes(r, i, job[r][i])
    BY <2>1 DEF Goes
  <2>3. QED
    BY <2>1, <2>2
<1>3. CASE \E x \in Proxy : RefreshLost(r, i, x)
  BY <1>3 DEF RefreshLost, At, Ends
<1>4. CASE Refreshed(r, i) \/ ResetSlave(r, i) \/ ResetSlaveFail(r, i)
  BY <1>4 DEF Refreshed, ResetSlave, ResetSlaveFail, At
<1>5. CASE \/ Delete(r, i) \/ UpdateMetaInfo(r, i) \/ UpdateMetaInfoLost(r, i)
           \/ DoFinal(r, i)
  BY <1>5 DEF Delete, UpdateMetaInfo, UpdateMetaInfoLost, DoFinal, At
<1>6. QED
  BY <1>1, <1>2, <1>3, <1>4, <1>5 DEF JobStep

\* A step keeps what a request is at its phase.
LEMMA RequestStep ==
    ASSUME TypeOK, RequestInv, [Next]_vars
    PROVE  RequestInv'
<1> USE DEF TypeOK, RequestInv, dbm, cluster, request, work, Ended, InService
<1>1. ASSUME NEW r \in Req, Ask(r)
      PROVE  RequestInv'
  <2>1. ASSUME NEW s \in {"host", "db_instance"}, NEW S, Query(r, s, S),
               s = "db_instance" => \A i, j \in S : i = j
        PROVE  RequestInv'
    BY <2>1 DEF Query
  <2>2. ASSUME NEW h \in Host, QueryHost(r, h)
        PROVE  RequestInv'
    BY <2>1, <2>2, "host" # "db_instance" DEF QueryHost
  <2>3. ASSUME NEW i \in Inst, QueryInstance(r, i)
        PROVE  RequestInv'
    <3>1. \A j, k \in {i} : j = k
      OBVIOUS
    <3>2. Query(r, "db_instance", {i})
      BY <2>3 DEF QueryInstance
    <3>3. QED
      BY <2>1, <3>1, <3>2
  <2>4. QED
    BY <1>1, <2>2, <2>3 DEF Ask
<1>2. ASSUME NEW r \in Req, SetStatus(r) \/ SetStatusFail(r)
      PROVE  RequestInv'
  <2>1. \A i \in Inst : status'[i] = "running" => status[i] = "running"
    BY <1>2 DEF SetStatus, SetStatusFail, WithStatus
  <2>2. CASE SetStatus(r)
    BY <2>1, <2>2 DEF SetStatus
  <2>3. CASE SetStatusFail(r)
    BY <2>1, <2>3 DEF SetStatusFail
  <2>4. QED
    BY <1>2, <2>2, <2>3
<1>3. ASSUME NEW r \in Req, NEW c \in Cluster,
             LockForCheck(r, c) \/ UnlockAfterCheck(r, c)
      PROVE  RequestInv'
  BY <1>3 DEF LockForCheck, UnlockAfterCheck
<1>4. ASSUME NEW r \in Req, NEW c \in Cluster, LockForCheckTimeout(r, c)
      PROVE  RequestInv'
  BY <1>4 DEF LockForCheckTimeout, Unchecked
<1>5. ASSUME NEW r \in Req, NEW i \in Inst, CheckBeforeSwitch(r, i)
      PROVE  RequestInv'
  BY <1>5 DEF CheckBeforeSwitch
<1>6. ASSUME NEW r \in Req, CheckEnd(r)
      PROVE  RequestInv'
  BY <1>6 DEF CheckEnd, Checked
<1>7. ASSUME NEW r \in Req, CheckStop(r)
      PROVE  RequestInv'
  BY <1>7 DEF CheckStop, Checked
<1>8. ASSUME NEW r \in Req, SwitchEnd(r)
      PROVE  RequestInv'
  BY <1>8 DEF SwitchEnd
<1>9. ASSUME NEW r \in Req, NEW i \in Inst, UnlockAfterSwitch(r, i)
      PROVE  RequestInv'
  BY <1>9 DEF UnlockAfterSwitch
<1>10. ASSUME NEW r \in Req, NEW i \in Inst,
              LockForSwitch(r, i) \/ LockForSwitchTimeout(r, i)
       PROVE  RequestInv'
  <2>1. phase[r] = "switch" /\ job[r][i] # "none"
    BY <1>10 DEF LockForSwitch, LockForSwitchTimeout
  <2>2. UNCHANGED <<status, request, check>>
    BY <1>10 DEF LockForSwitch, LockForSwitchTimeout
  <2>3. Goes(r, i, "locked") \/ Goes(r, i, "error")
    BY <1>10 DEF LockForSwitch, LockForSwitchTimeout, Goes
  <2>4. QED
    BY <2>1, <2>2, <2>3, GoesRequest
<1>11. ASSUME NEW r \in Req, NEW i \in Inst, JobStep(r, i)
       PROVE  RequestInv'
  <2>1. PICK step \in {"done", "error"} \cup Step : Goes(r, i, step)
    BY <1>11, JobStepFrame
  <2>2. /\ phase[r] = "switch" /\ job[r][i] # "none"
        /\ UNCHANGED <<status, phase, scope, insts, seen, check>>
    BY <1>11, JobStepFrame DEF Step
  <2>3. step # "ready"
    BY <2>1 DEF Step
  <2>4. QED
    BY <2>1, <2>2, <2>3, GoesRequest
<1>12. CASE Crash
  BY <1>12 DEF Crash
<1>13. CASE UNCHANGED vars
  BY <1>13 DEF vars
<1>14. QED
  BY <1>1, <1>2, <1>3, <1>4, <1>5, <1>6, <1>7, <1>8, <1>9, <1>10, <1>11,
     <1>12, <1>13 DEF Next, Proceed, Finished, JobStep

\* A step leaves the locks with those who need them.
LEMMA HeldStep ==
    ASSUME TypeOK, RequestInv, HeldInv, [Next]_vars
    PROVE  HeldInv'
<1> USE ExecutionAssumption
    DEF TypeOK, HeldInv, HolderInv, NeedsLock, Group, dbm, cluster, request,
        work, Step, Ended
<1>1. ASSUME NEW r \in Req, Ask(r)
      PROVE  HeldInv'
  <2>1. ASSUME NEW s, NEW S, Query(r, s, S)
        PROVE  HeldInv'
    BY <2>1 DEF Query, RequestInv
  <2>2. QED
    BY <1>1, <2>1 DEF Ask, QueryHost, QueryInstance
<1>2. ASSUME NEW r \in Req, SetStatus(r) \/ SetStatusFail(r)
      PROVE  HeldInv'
  <2>1. CASE SetStatus(r)
    BY <2>1 DEF SetStatus, RequestInv
  <2>2. CASE SetStatusFail(r)
    BY <2>2 DEF SetStatusFail, RequestInv
  <2>3. QED
    BY <1>2, <2>1, <2>2
<1>3. ASSUME NEW r \in Req, NEW c \in Cluster, LockForCheck(r, c)
      PROVE  HeldInv'
  <2>1. phase[r] = "check" /\ held[c] = {}
        /\ held' = [held EXCEPT ![c] = {r} \X Group(r, c)]
        /\ UNCHANGED <<phase, scope, insts, check, job>>
    BY <1>3 DEF LockForCheck, Unchecked
  <2>2. HolderInv'
    <3>1. ASSUME NEW h \in held'[c]
          PROVE  h[1] = r /\ h[2] \in insts[r] /\ ClusterOf[h[2]] = c
      BY <2>1, <3>1
    <3>2. held'[c] = {r} \X Group(r, c)
      BY <2>1
    <3>3. QED
      BY <2>1, <3>1, <3>2
  <2>3. ASSUME NEW q \in Req, NEW i \in Inst, NeedsLock(q, i)'
        PROVE  held'[ClusterOf[i]] = {<<q, i>>}
    <3>1. NeedsLock(q, i)
      BY <2>1, <2>3
    <3>2. held[ClusterOf[i]] = {<<q, i>>}
      BY <3>1
    <3>3. ClusterOf[i] # c
      BY <2>1, <3>2
    <3>4. QED
      BY <2>1, <3>2, <3>3
  <2>4. QED
    BY <2>2, <2>3
<1>4. ASSUME NEW r \in Req, NEW c \in Cluster, LockForCheckTimeout(r, c)
      PROVE  HeldInv'
  BY <1>4 DEF LockForCheckTimeout
<1>5. ASSUME NEW r \in Req, NEW i \in Inst, CheckBeforeSwitch(r, i)
      PROVE  HeldInv'
  BY <1>5 DEF CheckBeforeSwitch, RequestInv
<1>6. ASSUME NEW r \in Req, NEW c \in Cluster, UnlockAfterCheck(r, c)
      PROVE  HeldInv'
  BY <1>6 DEF UnlockAfterCheck, RequestInv
<1>7. ASSUME NEW r \in Req, CheckEnd(r)
      PROVE  HeldInv'
  <2>1. ASSUME NEW c \in Cluster, NEW h \in held[c], h[1] = r
        PROVE  held[c] = {h}
    <3>1. scope[r] = "db_instance"
      BY <1>7, <2>1 DEF CheckEnd, Checked, Holding
    <3>2. \A i, j \in insts[r] : i = j
      BY <3>1 DEF RequestInv
    <3>3. held[c] = {r} \X Group(r, c) /\ h[2] \in Group(r, c)
      BY <1>7, <2>1 DEF CheckEnd, Checked
    <3>4. Group(r, c) = {h[2]}
      BY <3>2, <3>3
    <3>5. h = <<r, h[2]>>
      BY <2>1
    <3>6. {r} \X {h[2]} = {<<r, h[2]>>}
      OBVIOUS
    <3>7. QED
      BY <3>3, <3>4, <3>5, <3>6, Zenon
  <2>2. HolderInv'
    BY <1>7, <2>1 DEF CheckEnd
  <2>3. ASSUME NEW q \in Req, NEW i \in Inst, NeedsLock(q, i)'
        PROVE  held'[ClusterOf[i]] = {<<q, i>>}
    <3>1. CASE q = r
      <4>1. i \in insts[r] /\ check[r][i] = "required"
            /\ scope[r] = "db_instance" /\ phase[r] = "check"
        BY <1>7, <2>3, <3>1 DEF CheckEnd, Checked, RequestInv
      <4>2. QED
        BY <1>7, <3>1, <4>1 DEF CheckEnd
    <3>2. CASE q # r
      <4>1. job'[q] = job[q] /\ phase'[q] = phase[q]
            /\ UNCHANGED <<held, scope, insts, check>>
        BY <1>7, <3>2 DEF CheckEnd
      <4>2. QED
        BY <2>3, <4>1
    <3>3. QED
      BY <3>1, <3>2
  <2>4. QED
    BY <2>2, <2>3
<1>8. ASSUME NEW r \in Req, CheckStop(r)
      PROVE  HeldInv'
  BY <1>8 DEF CheckStop, Checked, Released, Holding, RequestInv
<1>9. ASSUME NEW r \in Req, SwitchEnd(r)
      PROVE  HeldInv'
  BY <1>9 DEF SwitchEnd, Holding
<1>10. ASSUME NEW r \in Req, NEW i \in Inst, UnlockAfterSwitch(r, i)
       PROVE  HeldInv'
  BY <1>10 DEF UnlockAfterSwitch, RequestInv
<1>11. ASSUME NEW r \in Req, NEW i \in Inst, LockForSwitch(r, i)
       PROVE  HeldInv'
  <2>1. /\ job[r][i] = "ready" /\ held[ClusterOf[i]] = {}
        /\ held' = [held EXCEPT ![ClusterOf[i]] = {<<r, i>>}]
        /\ job' = [job EXCEPT ![r][i] = "locked"]
        /\ UNCHANGED <<phase, scope, insts, check>>
    BY <1>11 DEF LockForSwitch
  <2>2. phase[r] = "switch" /\ i \in insts[r]
    <3>1. i \in insts[r]
      BY <2>1 DEF RequestInv
    <3>2. phase[r] \notin {"idle", "status", "check"} \cup Ended
      BY <2>1 DEF RequestInv
    <3>3. QED
      BY <3>1, <3>2
  <2>3. HolderInv'
    BY <2>1, <2>2
  <2>4. ASSUME NEW q \in Req, NEW j \in Inst, NeedsLock(q, j)'
        PROVE  held'[ClusterOf[j]] = {<<q, j>>}
    <3>1. CASE q = r /\ j = i
      BY <2>1, <3>1
    <3>2. CASE q # r \/ j # i
      <4>1. job'[q][j] = job[q][j]
        BY <2>1, <3>2
      <4>2. NeedsLock(q, j)
        BY <2>1, <2>4, <4>1
      <4>3. held[ClusterOf[j]] = {<<q, j>>}
        BY <4>2
      <4>4. ClusterOf[j] # ClusterOf[i]
        BY <2>1, <4>3
      <4>5. QED
        BY <2>1, <4>3, <4>4
    <3>3. QED
      BY <3>1, <3>2
  <2>5. QED
    BY <2>3, <2>4
<1>12. ASSUME NEW r \in Req, NEW i \in Inst, LockForSwitchTimeout(r, i)
       PROVE  HeldInv'
  BY <1>12 DEF LockForSwitchTimeout
<1>13. ASSUME NEW r \in Req, NEW i \in Inst, JobStep(r, i)
       PROVE  HeldInv'
  <2>1. /\ job[r][i] \in Step \cup {"locked"}
        /\ UNCHANGED <<held, phase, scope, insts, check>>
    BY <1>13, JobStepFrame
  <2>2. PICK step \in {"done", "error"} \cup Step : Goes(r, i, step)
    BY <1>13, JobStepFrame
  <2>3. ASSUME NEW q \in Req, NEW j \in Inst, NeedsLock(q, j)'
        PROVE  NeedsLock(q, j)
    BY <2>1, <2>2, <2>3 DEF Goes
  <2>4. QED
    BY <2>1, <2>3
<1>14. CASE Crash
  BY <1>14 DEF Crash
<1>15. CASE UNCHANGED vars
  BY <1>15 DEF vars
<1>16. QED
  BY <1>1, <1>2, <1>3, <1>4, <1>5, <1>6, <1>7, <1>8, <1>9, <1>10, <1>11,
     <1>12, <1>13, <1>14, <1>15 DEF Next, Proceed, Finished, JobStep

-----------------------------------------------------------------------------
(* The proxies *)

\* Steps that leave the proxies and the slaves alone, and at most end jobs.
Quiet ==
    /\ UNCHANGED <<route, repl>>
    /\ \A i \in Inst : status'[i] = "running" => status[i] = "running"
    /\ \A r \in Req, i \in Inst :
          \/ /\ job'[r][i] \in {"none", "ready", "locked", "done", "error"}
             /\ todo'[r][i] = {}
          \/ /\ job'[r][i] = job[r][i] /\ todo'[r][i] = todo[r][i]
             /\ seen'[r] = seen[r]

\* A job that does not move keeps what it has done: no proxy goes back to the
\* old master and no slave replicates again.
Onward ==
    /\ \A y \in Proxy : route'[y] = "old" => route[y] = "old"
    /\ \A c \in Cluster : repl[c] = "reset" => repl'[c] = "reset"

\* So what it has done still holds.
LEMMA SameJob ==
    ASSUME TypeOK, Onward, NEW r \in Req, NEW i \in Inst, RouteJob(r, i),
           job'[r][i] = job[r][i], todo'[r][i] = todo[r][i],
           Reached(r, i)' = Reached(r, i)
    PROVE  RouteJob(r, i)'
<1>1. Reached(r, i) \subseteq Proxy /\ ClusterOf[i] \in Cluster
  BY ExecutionAssumption DEF TypeOK, Reached
<1>2. QED
  BY <1>1 DEF Onward, RouteJob, AtMaster

\* A job without a step has done nothing.
LEMMA NoJob ==
    ASSUME NEW r \in Req, NEW i \in Inst, todo'[r][i] = {},
           job'[r][i] \in {"none", "ready", "locked", "done", "error"}
    PROVE  RouteJob(r, i)'
BY DEF RouteJob, AtMaster

\* Quiet steps keep the order of the changes.
LEMMA QuietRoute ==
    ASSUME TypeOK, RouteInv, Quiet
    PROVE  RouteInv'
<1>1. NoSplitBrain'
  BY DEF TypeOK, RouteInv, NoSplitBrain, Quiet, InService, ProxiesOf
<1>2. Onward
  BY DEF Quiet, Onward
<1>3. ASSUME NEW r \in Req, NEW i \in Inst
      PROVE  RouteJob(r, i)'
  <2>1. CASE /\ job'[r][i] = job[r][i] /\ todo'[r][i] = todo[r][i]
             /\ seen'[r] = seen[r]
    <3>1. Reached(r, i)' = Reached(r, i)
      BY <2>1 DEF Reached
    <3>2. QED
      BY <1>2, <2>1, <3>1, SameJob DEF RouteInv
  <2>2. CASE /\ job'[r][i] \in {"none", "ready", "locked", "done", "error"}
             /\ todo'[r][i] = {}
    BY <2>2, NoJob
  <2>3. QED
    BY <2>1, <2>2 DEF Quiet
<1>4. QED
  BY <1>1, <1>3 DEF RouteInv

\* What is quiet: all but the steps of a job.
LEMMA QuietSteps ==
    ASSUME TypeOK, RequestInv, RouteInv, [Next]_vars,
           ~ \E r \in Req, i \in Inst : JobStep(r, i)
    PROVE  Quiet /\ UNCHANGED master
<1> USE DEF TypeOK, Quiet, dbm, cluster, request, work
<1>0. \A r \in Req, i \in Inst :
         job[r][i] \in {"none", "ready", "locked", "done", "error"} =>
             todo[r][i] = {}
  BY DEF RouteInv, RouteJob
<1>1. ASSUME NEW r \in Req, Ask(r)
      PROVE  Quiet /\ UNCHANGED master
  <2>1. ASSUME NEW s, NEW S, Query(r, s, S)
        PROVE  Quiet /\ UNCHANGED master
    BY <1>0, <2>1 DEF Query, RequestInv
  <2>2. QED
    BY <1>1, <2>1 DEF Ask, QueryHost, QueryInstance
<1>2. ASSUME NEW r \in Req, SetStatus(r) \/ SetStatusFail(r)
      PROVE  Quiet /\ UNCHANGED master
  BY <1>2 DEF SetStatus, SetStatusFail, WithStatus
<1>3. ASSUME NEW r \in Req, NEW c \in Cluster,
             \/ LockForCheck(r, c) \/ LockForCheckTimeout(r, c)
             \/ UnlockAfterCheck(r, c)
      PROVE  Quiet /\ UNCHANGED master
  BY <1>3 DEF LockForCheck, LockForCheckTimeout, UnlockAfterCheck
<1>4. ASSUME NEW r \in Req, NEW i \in Inst,
             CheckBeforeSwitch(r, i) \/ UnlockAfterSwitch(r, i)
      PROVE  Quiet /\ UNCHANGED master
  BY <1>4 DEF CheckBeforeSwitch, UnlockAfterSwitch
<1>5. ASSUME NEW r \in Req, CheckStop(r) \/ SwitchEnd(r)
      PROVE  Quiet /\ UNCHANGED master
  BY <1>5 DEF CheckStop, SwitchEnd
<1>6. ASSUME NEW r \in Req, CheckEnd(r)
      PROVE  Quiet /\ UNCHANGED master
  BY <1>0, <1>6 DEF CheckEnd, Checked, RequestInv
<1>7. ASSUME NEW r \in Req, NEW i \in Inst,
             LockForSwitch(r, i) \/ LockForSwitchTimeout(r, i)
      PROVE  Quiet /\ UNCHANGED master
  <2>1. CASE LockForSwitch(r, i)
    BY <1>0, <2>1 DEF LockForSwitch
  <2>2. CASE LockForSwitchTimeout(r, i)
    BY <1>0, <2>2 DEF LockForSwitchTimeout
  <2>3. QED
    BY <1>7, <2>1, <2>2
<1>8. CASE Crash
  BY <1>8 DEF Crash
<1>9. CASE UNCHANGED vars
  BY <1>9 DEF vars
<1>10. QED
  BY <1>1, <1>2, <1>3, <1>4, <1>5, <1>6, <1>7, <1>8, <1>9
     DEF Next, Proceed, Finished, JobStep

\* A step of a job keeps the order in which the proxies and the standby slave
\* are changed, whoever else is at work on the cluster.
LEMMA JobRoute ==
    ASSUME TypeOK, RequestInv, RouteInv,
           NEW r \in Req, NEW i \in Inst, JobStep(r, i)
    PROVE  RouteInv'
<1> USE ExecutionAssumption
    DEF TypeOK, dbm, cluster, request, Goes, At, Ends
<1>1. /\ UNCHANGED <<status, seen>> /\ phase[r] = "switch"
      /\ \A q \in Req, j \in Inst : q # r \/ j # i => job'[q][j] = job[q][j]
  BY JobStepFrame
<1>2. \A q, j : Reached(q, j)' = Reached(q, j)
  BY <1>1 DEF Reached
<1>3. RouteJob(r, i)
  BY DEF RouteInv
<1>4. \A q \in Req, j \in Inst : q # r \/ j # i => todo'[q][j] = todo[q][j]
  <2>1. CASE Start(r, i) \/ StepFail(r, i) \/ Refreshed(r, i)
    BY <2>1 DEF Start, StepFail, Refreshed
  <2>2. CASE \E x \in Proxy : Refresh(r, i, x) \/ RefreshLost(r, i, x)
    BY <2>2 DEF Refresh, RefreshLost
  <2>3. CASE ResetSlave(r, i) \/ ResetSlaveFail(r, i) \/ Delete(r, i)
    BY <2>3 DEF ResetSlave, ResetSlaveFail, Delete
  <2>4. CASE UpdateMetaInfo(r, i) \/ UpdateMetaInfoLost(r, i) \/ DoFinal(r, i)
    BY <2>4 DEF UpdateMetaInfo, UpdateMetaInfoLost, DoFinal
  <2>5. QED
    BY <2>1, <2>2, <2>3, <2>4 DEF JobStep
<1>5. ASSUME Onward, NoSplitBrain', RouteJob(r, i)'
      PROVE  RouteInv'
  <2>1. ASSUME NEW q \in Req, NEW j \in Inst, q # r \/ j # i
        PROVE  RouteJob(q, j)'
    <3>1. /\ RouteJob(q, j)
          /\ job'[q][j] = job[q][j] /\ todo'[q][j] = todo[q][j]
      BY <1>1, <1>4, <2>1 DEF RouteInv
    <3>2. QED
      BY <1>2, <1>5, <3>1, SameJob
  <2>2. QED
    BY <1>5, <2>1 DEF RouteInv
<1>6. ASSUME UNCHANGED <<route, repl>>, RouteJob(r, i)'
      PROVE  RouteInv'
  <2>1. NoSplitBrain'
    BY <1>1, <1>6 DEF RouteInv, NoSplitBrain, InService, ProxiesOf
  <2>2. Onward
    BY <1>6 DEF Onward
  <2>3. QED
    BY <1>5, <1>6, <2>1, <2>2
<1>7. CASE Start(r, i)
  <2>1. /\ todo'[r][i] = Reached(r, i)
        /\ job'[r][i] = IF Role[i] = "master" THEN "disconnect" ELSE "delete"
        /\ Role[i] # "master" => Reached(r, i) = {}
        /\ UNCHANGED <<route, repl>>
    BY <1>7 DEF Start, Reached
  <2>2. RouteJob(r, i)'
    BY <1>2, <2>1 DEF RouteJob, AtMaster
  <2>3. QED
    BY <1>6, <2>1, <2>2
<1>8. ASSUME NEW x \in Proxy, Refresh(r, i, x) \/ RefreshLost(r, i, x)
      PROVE  RouteInv'
  <2>1. /\ job[r][i] \in {"disconnect", "connect"} /\ x \in todo[r][i]
        /\ route' = [route EXCEPT ![x] = IF job[r][i] = "disconnect"
                                           THEN "none" ELSE "new"]
        /\ UNCHANGED repl
    BY <1>8 DEF Refresh, RefreshLost, Target
  <2>2. x \in Reached(r, i) /\ Role[i] = "master" /\ ClusterOf[x] = ClusterOf[i]
    BY <1>3, <2>1 DEF RouteJob, Reached, ProxiesOf
  <2>3. Onward
    BY <2>1 DEF Onward
  <2>4. \A y \in ProxiesOf(ClusterOf[i]) \cap InService : y \in Reached(r, i)
    BY <1>1, <2>2 DEF RequestInv, ProxiesOf, Reached
  <2>5. job[r][i] = "connect" =>
           /\ repl[ClusterOf[i]] = "reset"
           /\ \A y \in ProxiesOf(ClusterOf[i]) \cap InService :
                 route[y] # "old"
    BY <1>3, <2>2, <2>4 DEF RouteJob, AtMaster
  <2>6. NoSplitBrain'
    <3> SUFFICES ASSUME NEW z \in Proxy, route'[z] = "new"
                 PROVE  /\ repl[ClusterOf[z]] = "reset"
                        /\ \A y \in ProxiesOf(ClusterOf[z]) \cap InService :
                              route'[y] # "old"
      BY <1>1, <2>1 DEF NoSplitBrain, InService, ProxiesOf
    <3>1. CASE z = x
      BY <2>1, <2>2, <2>3, <2>5, <3>1 DEF Onward, ProxiesOf
    <3>2. CASE z # x
      BY <2>1, <2>3, <3>2 DEF RouteInv, NoSplitBrain, Onward, ProxiesOf
    <3>3. QED
      BY <3>1, <3>2
  <2>7. CASE Refresh(r, i, x)
    <3>1. job'[r][i] = job[r][i] /\ todo'[r][i] = todo[r][i] \ {x}
      BY <2>7 DEF Refresh
    <3>2. route'[x] # "old"
      BY <2>1
    <3>3. Reached(r, i) \subseteq Proxy
      BY DEF Reached
    <3>4. RouteJob(r, i)'
      BY <1>2, <1>3, <2>1, <2>2, <2>3, <3>1, <3>2, <3>3
         DEF RouteJob, AtMaster, Onward
    <3>5. QED
      BY <1>5, <2>3, <2>6, <3>4
  <2>8. CASE RefreshLost(r, i, x)
    <3>1. job'[r][i] = "error" /\ todo'[r][i] = {}
      BY <2>8 DEF RefreshLost
    <3>2. QED
      BY <1>5, <2>3, <2>6, <3>1, NoJob
  <2>9. QED
    BY <1>8, <2>7, <2>8
<1>9. CASE Refreshed(r, i)
  <2>1. \/ job[r][i] = "disconnect" /\ job'[r][i] = "reset"
        \/ job[r][i] = "connect" /\ job'[r][i] = "meta"
    BY <1>9 DEF Refreshed
  <2>2. todo[r][i] = {} /\ UNCHANGED <<todo, route, repl>>
    BY <1>9 DEF Refreshed
  <2>3. RouteJob(r, i)'
    BY <1>2, <1>3, <2>1, <2>2 DEF RouteJob, AtMaster
  <2>4. QED
    BY <1>6, <2>2, <2>3
<1>10. CASE ResetSlave(r, i) \/ ResetSlaveFail(r, i)
  <2>1. Onward /\ UNCHANGED route
    BY <1>10 DEF Onward, ResetSlave, ResetSlaveFail
  <2>2. NoSplitBrain'
    BY <1>1, <2>1
       DEF Onward, RouteInv, NoSplitBrain, InService, ProxiesOf, Proxy
  <2>3. CASE ResetSlave(r, i)
    <3>1. /\ job[r][i] = "reset" /\ job'[r][i] = "connect"
          /\ todo'[r][i] = Reached(r, i) /\ repl'[ClusterOf[i]] = "reset"
      BY <2>3 DEF ResetSlave
    <3>2. RouteJob(r, i)'
      BY <1>2, <1>3, <2>1, <3>1 DEF RouteJob, AtMaster
    <3>3. QED
      BY <1>5, <2>1, <2>2, <3>2
  <2>4. CASE ResetSlaveFail(r, i)
    <3>1. job[r][i] = "reset" /\ job'[r][i] = "error" /\ UNCHANGED todo
      BY <2>4 DEF ResetSlaveFail
    <3>2. todo'[r][i] = {}
      BY <1>3, <3>1 DEF RouteJob
    <3>3. QED
      BY <1>5, <2>1, <2>2, <3>1, <3>2, NoJob
  <2>5. QED
    BY <1>10, <2>3, <2>4
<1>11. CASE Delete(r, i) \/ UpdateMetaInfo(r, i)
  <2>1. \/ job[r][i] = "delete" /\ job'[r][i] = "meta"
        \/ job[r][i] = "meta" /\ job'[r][i] = "final"
    BY <1>11 DEF Delete, UpdateMetaInfo
  <2>2. UNCHANGED <<todo, route, repl>>
    BY <1>11 DEF Delete, UpdateMetaInfo
  <2>3. job[r][i] = "delete" => Role[i] # "master"
    BY <1>3 DEF RouteJob
  <2>4. RouteJob(r, i)'
    BY <1>2, <1>3, <2>1, <2>2, <2>3 DEF RouteJob, AtMaster
  <2>5. QED
    BY <1>6, <2>2, <2>4
<1>12. CASE UpdateMetaInfoLost(r, i) \/ DoFinal(r, i) \/ StepFail(r, i)
  <2>1. todo'[r][i] = {} /\ job'[r][i] \in {"done", "error"}
    BY <1>3, <1>12 DEF UpdateMetaInfoLost, DoFinal, StepFail, RouteJob
  <2>2. UNCHANGED <<route, repl>>
    BY <1>12 DEF UpdateMetaInfoLost, DoFinal, StepFail
  <2>3. QED
    BY <1>6, <2>1, <2>2, NoJob
<1>13. QED
  BY <1>7, <1>8, <1>9, <1>10, <1>11, <1>12 DEF JobStep

-----------------------------------------------------------------------------
(* What the lock adds *)

\* Only one job at a time is at work in a cluster.
LEMMA AloneInCluster ==
    ASSUME HeldInv, NEW r \in Req, NEW i \in Inst, NEW q \in Req, NEW j \in Inst,
           NeedsLock(r, i), NeedsLock(q, j), ClusterOf[i] = ClusterOf[j]
    PROVE  q = r /\ j = i
<1>1. held[ClusterOf[i]] = {<<r, i>>} /\ held[ClusterOf[j]] = {<<q, j>>}
  BY DEF HeldInv
<1>2. <<q, j>> \in {<<r, i>>}
  BY <1>1
<1>3. <<q, j>> = <<r, i>>
  BY <1>2
<1>4. QED
  BY <1>3

\* A job that does not move, and whose proxies and roles are left alone, still
\* has what it has done.
LEMMA SameMoved ==
    ASSUME NEW r \in Req, NEW i \in Inst, MovedJob(r, i),
           job'[r][i] = job[r][i], todo'[r][i] = todo[r][i],
           Reached(r, i)' = Reached(r, i),
           \A y \in Reached(r, i) : route'[y] = route[y],
           master[ClusterOf[i]] = "new" => master'[ClusterOf[i]] = "new"
    PROVE  MovedJob(r, i)'
BY DEF MovedJob, AtMaster

\* A job without a step has moved nothing.
LEMMA NoMoved ==
    ASSUME NEW r \in Req, NEW i \in Inst,
           job'[r][i] \notin {"connect", "meta", "final"}
    PROVE  MovedJob(r, i)'
BY DEF MovedJob, AtMaster

\* A step of a job moves no proxy of another job that is at work.
LEMMA JobMoved ==
    ASSUME TypeOK, HeldInv, RouteInv, MovedInv,
           NEW r \in Req, NEW i \in Inst, JobStep(r, i)
    PROVE  MovedInv'
<1> USE ExecutionAssumption
    DEF TypeOK, dbm, cluster, request, Goes, At, Ends
<1>1. /\ UNCHANGED seen /\ NeedsLock(r, i)
      /\ \A q \in Req, j \in Inst : q # r \/ j # i => job'[q][j] = job[q][j]
  BY JobStepFrame DEF NeedsLock
<1>2. \A q, j : Reached(q, j)' = Reached(q, j)
  BY <1>1 DEF Reached
<1>3. RouteJob(r, i) /\ MovedJob(r, i)
  BY DEF RouteInv, MovedInv
<1>4. \A c \in Cluster : master[c] = "new" => master'[c] = "new"
  <2>1. CASE UpdateMetaInfo(r, i) \/ UpdateMetaInfoLost(r, i)
    BY <2>1 DEF UpdateMetaInfo, UpdateMetaInfoLost, Swapped
  <2>2. CASE ~ (UpdateMetaInfo(r, i) \/ UpdateMetaInfoLost(r, i))
    BY <2>2
       DEF JobStep, Start, StepFail, Refresh, RefreshLost, Refreshed,
           ResetSlave, ResetSlaveFail, Delete, DoFinal
  <2>3. QED
    BY <2>1, <2>2
<1>5. \A q \in Req, j \in Inst : q # r \/ j # i => todo'[q][j] = todo[q][j]
  <2>1. CASE Start(r, i) \/ StepFail(r, i) \/ Refreshed(r, i)
    BY <2>1 DEF Start, StepFail, Refreshed
  <2>2. CASE \E x \in Proxy : Refresh(r, i, x) \/ RefreshLost(r, i, x)
    BY <2>2 DEF Refresh, RefreshLost
  <2>3. CASE ResetSlave(r, i) \/ ResetSlaveFail(r, i) \/ Delete(r, i)
    BY <2>3 DEF ResetSlave, ResetSlaveFail, Delete
  <2>4. CASE UpdateMetaInfo(r, i) \/ UpdateMetaInfoLost(r, i) \/ DoFinal(r, i)
    BY <2>4 DEF UpdateMetaInfo, UpdateMetaInfoLost, DoFinal
  <2>5. QED
    BY <2>1, <2>2, <2>3, <2>4 DEF JobStep
<1>6. \A y \in Proxy : ClusterOf[y] # ClusterOf[i] => route'[y] = route[y]
  <2>1. ASSUME NEW x \in Proxy, Refresh(r, i, x) \/ RefreshLost(r, i, x)
        PROVE  \A y \in Proxy : ClusterOf[y] # ClusterOf[i] =>
                   route'[y] = route[y]
    <3>1. x \in todo[r][i]
      BY <2>1 DEF Refresh, RefreshLost
    <3>2. ClusterOf[x] = ClusterOf[i]
      BY <1>3, <3>1 DEF RouteJob, Reached, ProxiesOf
    <3>3. QED
      BY <2>1, <3>2 DEF Refresh, RefreshLost
  <2>2. CASE ~ \E x \in Proxy : Refresh(r, i, x) \/ RefreshLost(r, i, x)
    BY <2>2
       DEF JobStep, Start, StepFail, Refreshed, ResetSlave, ResetSlaveFail,
           Delete, UpdateMetaInfo, UpdateMetaInfoLost, DoFinal
  <2>3. QED
    BY <2>1, <2>2
<1>7. ASSUME NEW q \in Req, NEW j \in Inst, q # r \/ j # i
      PROVE  MovedJob(q, j)'
  <2>1. CASE ~ NeedsLock(q, j)
    <3>1. job'[q][j] = job[q][j]
      BY <1>1, <1>7
    <3>2. job[q][j] \notin Step
      BY <2>1 DEF NeedsLock
    <3>3. job'[q][j] \notin {"connect", "meta", "final"}
      BY <3>1, <3>2 DEF Step
    <3>4. QED
      BY <3>3, NoMoved
  <2>2. CASE NeedsLock(q, j)
    <3>1. ClusterOf[j] # ClusterOf[i]
      BY <1>1, <1>7, <2>2, AloneInCluster
    <3>2. \A y \in Reached(q, j) : y \in Proxy /\ ClusterOf[y] = ClusterOf[j]
      BY DEF Reached, ProxiesOf
    <3>3. \A y \in Reached(q, j) : route'[y] = route[y]
      BY <1>6, <3>1, <3>2
    <3>4. MovedJob(q, j) /\ ClusterOf[j] \in Cluster
      BY DEF MovedInv
    <3>5. /\ job'[q][j] = job[q][j] /\ todo'[q][j] = todo[q][j]
          /\ Reached(q, j)' = Reached(q, j)
      BY <1>1, <1>2, <1>5, <1>7
    <3>6. master[ClusterOf[j]] = "new" => master'[ClusterOf[j]] = "new"
      BY <1>4, <3>4
    <3>7. QED
      BY <3>3, <3>4, <3>5, <3>6, SameMoved
  <2>3. QED
    BY <2>1, <2>2
<1>8. MovedJob(r, i)'
  <2>1. CASE Start(r, i) \/ StepFail(r, i) \/ DoFinal(r, i)
             \/ ResetSlaveFail(r, i) \/ UpdateMetaInfoLost(r, i)
    <3>1. job'[r][i] \in {"disconnect", "delete", "error", "done"}
      BY <2>1 DEF Start, StepFail, DoFinal, ResetSlaveFail, UpdateMetaInfoLost
    <3>2. QED
      BY <3>1, NoMoved
  <2>2. ASSUME NEW x \in Proxy, RefreshLost(r, i, x)
        PROVE  MovedJob(r, i)'
    BY <2>2, NoMoved DEF RefreshLost
  <2>3. ASSUME NEW x \in Proxy, Refresh(r, i, x)
        PROVE  MovedJob(r, i)'
    <3>1. CASE job[r][i] = "disconnect"
      BY <2>3, <3>1, NoMoved DEF Refresh
    <3>2. CASE job[r][i] = "connect"
      <4>1. /\ job'[r][i] = "connect" /\ todo'[r][i] = todo[r][i] \ {x}
            /\ route' = [route EXCEPT ![x] = "new"]
        BY <2>3, <3>2 DEF Refresh, Target
      <4>2. Reached(r, i) \subseteq Proxy
        BY DEF Reached
      <4>3. QED
        BY <1>2, <1>3, <3>2, <4>1, <4>2 DEF MovedJob, AtMaster
    <3>3. QED
      BY <2>3, <3>1, <3>2 DEF Refresh
  <2>4. CASE Refreshed(r, i)
    <3>1. \/ job'[r][i] = "reset"
          \/ job[r][i] = "connect" /\ job'[r][i] = "meta"
      BY <2>4 DEF Refreshed
    <3>2. todo[r][i] = {} /\ UNCHANGED <<todo, route>>
      BY <2>4 DEF Refreshed
    <3>3. QED
      BY <1>2, <1>3, <3>1, <3>2 DEF MovedJob, AtMaster
  <2>5. CASE ResetSlave(r, i)
    <3>1. job'[r][i] = "connect" /\ todo'[r][i] = Reached(r, i)
      BY <2>5 DEF ResetSlave
    <3>2. QED
      BY <1>2, <3>1 DEF MovedJob, AtMaster
  <2>6. CASE Delete(r, i)
    <3>1. job[r][i] = "delete" /\ job'[r][i] = "meta"
      BY <2>6 DEF Delete
    <3>2. QED
      BY <1>3, <3>1 DEF RouteJob, MovedJob, AtMaster
  <2>7. CASE UpdateMetaInfo(r, i)
    <3>1. job[r][i] = "meta" /\ job'[r][i] = "final" /\ UNCHANGED route
      BY <2>7 DEF UpdateMetaInfo
    <3>2. Role[i] = "master" => master'[ClusterOf[i]] = "new"
      BY <2>7 DEF UpdateMetaInfo, Swapped, SwapDone
    <3>3. QED
      BY <1>2, <1>3, <3>1, <3>2 DEF MovedJob, AtMaster
  <2>8. QED
    BY <2>1, <2>2, <2>3, <2>4, <2>5, <2>6, <2>7 DEF JobStep
<1>9. QED
  BY <1>7, <1>8 DEF MovedInv

\* Quiet steps move nothing.
LEMMA QuietMoved ==
    ASSUME MovedInv, Quiet, UNCHANGED master
    PROVE  MovedInv'
<1>1. ASSUME NEW r \in Req, NEW i \in Inst
      PROVE  MovedJob(r, i)'
  <2>1. CASE /\ job'[r][i] = job[r][i] /\ todo'[r][i] = todo[r][i]
             /\ seen'[r] = seen[r]
    <3>1. Reached(r, i)' = Reached(r, i)
      BY <2>1 DEF Reached
    <3>2. QED
      BY <2>1, <3>1, SameMoved DEF MovedInv, Quiet
  <2>2. CASE job'[r][i] \in {"none", "ready", "locked", "done", "error"}
    BY <2>2, NoMoved
  <2>3. QED
    BY <2>1, <2>2 DEF Quiet
<1>2. QED
  BY <1>1 DEF MovedInv

\* What a single switch waits to do is still what it has checked.
LEMMA CheckedStep ==
    ASSUME TypeOK, RequestInv, HeldInv, CheckedInv, [Next]_vars
    PROVE  CheckedInv'
<1> USE ExecutionAssumption
    DEF TypeOK, CheckedInv, Awaits, dbm, cluster, request, work
<1>1. ASSUME NEW r \in Req, NEW i \in Inst,
             ResetSlave(r, i) \/ ResetSlaveFail(r, i)
      PROVE  CheckedInv'
  <2>1. /\ NeedsLock(r, i) /\ job[r][i] = "reset" /\ phase[r] = "switch"
        /\ UNCHANGED <<phase, scope, insts, check>>
        /\ \A c \in Cluster : c # ClusterOf[i] => repl'[c] = repl[c]
    BY <1>1 DEF ResetSlave, ResetSlaveFail, NeedsLock, At, Step
  <2>2. job'[r][i] # "locked"
        /\ \A q \in Req, j \in Inst : q # r \/ j # i => job'[q][j] = job[q][j]
    BY <1>1 DEF ResetSlave, ResetSlaveFail, Goes
  <2>3. ASSUME NEW q \in Req, NEW j \in Inst, Awaits(q, j)'
        PROVE  repl'[ClusterOf[j]] = "on"
    <3>1. q # r \/ j # i
      BY <2>1, <2>2, <2>3
    <3>2. Awaits(q, j)
      BY <2>1, <2>2, <2>3, <3>1
    <3>3. NeedsLock(q, j)
      BY <3>2 DEF NeedsLock
    <3>4. ClusterOf[j] # ClusterOf[i]
      BY <2>1, <3>1, <3>3, AloneInCluster
    <3>5. QED
      BY <2>1, <3>2, <3>4
  <2>4. QED
    BY <2>3
<1>2. ASSUME NEW r \in Req, NEW i \in Inst, JobStep(r, i),
             ~ (ResetSlave(r, i) \/ ResetSlaveFail(r, i))
      PROVE  CheckedInv'
  <2>1. UNCHANGED repl
    BY <1>2
       DEF JobStep, Start, StepFail, Refresh, RefreshLost, Refreshed, Delete,
           UpdateMetaInfo, UpdateMetaInfoLost, DoFinal
  <2>2. UNCHANGED <<phase, scope, insts, check>>
    BY <1>2, JobStepFrame
  <2>3. PICK step \in {"done", "error"} \cup Step : Goes(r, i, step)
    BY <1>2, JobStepFrame
  <2>4. \A q \in Req, j \in Inst :
            job'[q][j] = "locked" => job[q][j] = "locked"
    BY <2>3 DEF Goes, Step
  <2>5. QED
    BY <2>1, <2>2, <2>4
<1>3. ASSUME NEW r \in Req, Ask(r)
      PROVE  CheckedInv'
  <2>1. ASSUME NEW s, NEW S, Query(r, s, S)
        PROVE  CheckedInv'
    BY <2>1 DEF Query, RequestInv
  <2>2. QED
    BY <1>3, <2>1 DEF Ask, QueryHost, QueryInstance
<1>4. ASSUME NEW r \in Req, SetStatus(r) \/ SetStatusFail(r)
      PROVE  CheckedInv'
  BY <1>4 DEF SetStatus, SetStatusFail, RequestInv
<1>5. ASSUME NEW r \in Req, NEW c \in Cluster,
             \/ LockForCheck(r, c) \/ LockForCheckTimeout(r, c)
             \/ UnlockAfterCheck(r, c)
      PROVE  CheckedInv'
  <2>1. CASE LockForCheckTimeout(r, c)
    BY <2>1 DEF LockForCheckTimeout
  <2>2. CASE LockForCheck(r, c) \/ UnlockAfterCheck(r, c)
    BY <2>2 DEF LockForCheck, UnlockAfterCheck
  <2>3. QED
    BY <1>5, <2>1, <2>2
<1>6. ASSUME NEW r \in Req, NEW i \in Inst, CheckBeforeSwitch(r, i)
      PROVE  CheckedInv'
  BY <1>6 DEF CheckBeforeSwitch, Result
<1>7. ASSUME NEW r \in Req, CheckEnd(r)
      PROVE  CheckedInv'
  BY <1>7 DEF CheckEnd, Checked
<1>8. ASSUME NEW r \in Req, CheckStop(r) \/ SwitchEnd(r)
      PROVE  CheckedInv'
  BY <1>8 DEF CheckStop, SwitchEnd
<1>9. ASSUME NEW r \in Req, NEW i \in Inst, LockForSwitch(r, i)
      PROVE  CheckedInv'
  <2>1. scope[r] # "db_instance"
    BY <1>9 DEF LockForSwitch, RequestInv
  <2>2. QED
    BY <1>9, <2>1 DEF LockForSwitch
<1>10. ASSUME NEW r \in Req, NEW i \in Inst,
              LockForSwitchTimeout(r, i) \/ UnlockAfterSwitch(r, i)
       PROVE  CheckedInv'
  <2>1. CASE LockForSwitchTimeout(r, i)
    BY <2>1 DEF LockForSwitchTimeout
  <2>2. CASE UnlockAfterSwitch(r, i)
    BY <2>2 DEF UnlockAfterSwitch
  <2>3. QED
    BY <1>10, <2>1, <2>2
<1>11. CASE Crash
  BY <1>11 DEF Crash, Ended
<1>12. CASE UNCHANGED vars
  BY <1>12 DEF vars
<1>13. QED
  BY <1>1, <1>2, <1>3, <1>4, <1>5, <1>6, <1>7, <1>8, <1>9, <1>10, <1>11,
     <1>12 DEF Next, Proceed, Finished, JobStep

-----------------------------------------------------------------------------
(* The theorems *)

\* The invariant holds at the start and every step keeps it.
LEMMA SwitchInductive ==
    /\ Init => SwitchInv
    /\ SwitchInv /\ TypeOK' /\ [Next]_vars => SwitchInv'
<1>1. Init => SwitchInv
  <2> SUFFICES ASSUME Init
               PROVE  SwitchInv
    OBVIOUS
  <2>1. TypeOK
    BY DEF Init, TypeOK
  <2>2. RequestInv /\ HeldInv /\ CheckedInv
    BY DEF Init, RequestInv, HeldInv, HolderInv, NeedsLock, Step, CheckedInv,
           Awaits, Ended
  <2>3. RouteInv /\ MovedInv
    BY DEF Init, RouteInv, NoSplitBrain, RouteJob, MovedInv, MovedJob, AtMaster
  <2>4. QED
    BY <2>1, <2>2, <2>3 DEF SwitchInv
<1>2. ASSUME SwitchInv, TypeOK', [Next]_vars
      PROVE  SwitchInv'
  <2> USE <1>2 DEF SwitchInv
  <2>1. RequestInv' /\ HeldInv' /\ CheckedInv'
    BY RequestStep, HeldStep, CheckedStep
  <2>2. RouteInv' /\ MovedInv'
    <3>1. CASE \E r \in Req, i \in Inst : JobStep(r, i)
      BY <3>1, JobRoute, JobMoved
    <3>2. CASE ~ \E r \in Req, i \in Inst : JobStep(r, i)
      BY <3>2, QuietSteps, QuietRoute, QuietMoved
    <3>3. QED
      BY <3>1, <3>2
  <2>3. QED
    BY <2>1, <2>2
<1>3. QED
  BY <1>1, <1>2

\* The invariant the theorems below rest on, with any number of requests of
\* both scopes, failures and crashes.
THEOREM SwitchInvariant == Spec => []SwitchInv
BY SwitchInductive, TypeCorrect, PTL DEF Spec

\* The cluster lock does its work: no two switches of one cluster overlap.
THEOREM ClusterLock == Spec => []ClusterLockInv
<1>1. SwitchInv => ClusterLockInv
  <2> SUFFICES ASSUME SwitchInv
               PROVE  ClusterLockInv
    OBVIOUS
  <2> USE DEF SwitchInv, HeldInv
  <2>1. ASSUME NEW c \in Cluster, NEW g \in held[c], NEW h \in held[c]
        PROVE  g[1] = h[1] /\ phase[h[1]] \in {"check", "switch"}
    <3>1. phase[h[1]] \in {"check", "switch"}
      BY DEF HolderInv
    <3>2. CASE phase[h[1]] = "check"
      <4>1. g \in {h[1]} \X Group(h[1], c)
        BY <3>2 DEF HolderInv
      <4>2. QED
        BY <3>1, <4>1
    <3>3. CASE phase[h[1]] = "switch"
      <4>1. g \in {h}
        BY <3>3 DEF HolderInv
      <4>2. QED
        BY <3>1, <4>1
    <3>4. QED
      BY <3>1, <3>2, <3>3
  <2>2. \A r \in Req, i \in Inst : job[r][i] \in Step \cup {"locked"} =>
            held[ClusterOf[i]] = {<<r, i>>}
    BY DEF NeedsLock
  <2>3. QED
    BY <2>1, <2>2 DEF ClusterLockInv
<1>2. QED
  BY <1>1, SwitchInvariant, PTL

\* Clients of one cluster are never on both masters, however a switch fails.
THEOREM OneMasterForClients == Spec => []NoSplitBrain
<1>1. SwitchInv => NoSplitBrain
  BY DEF SwitchInv, RouteInv
<1>2. QED
  BY <1>1, SwitchInvariant, PTL

\* Roles change once, and after everything they stand for.
THEOREM RolesChangeOnce == Spec => SwapIsFinal
<1> DEFINE SwapStep ==
      \A c \in Cluster : master'[c] # master[c] =>
          /\ master'[c] = "new"
          /\ repl[c] = "reset"
          /\ \A x \in ProxiesOf(c) \cap InService : route[x] = "new"
<1>1. SwitchInv /\ [Next]_vars => [SwapStep]_vars
  <2> SUFFICES ASSUME SwitchInv, Next, NEW c \in Cluster,
                      master'[c] # master[c]
               PROVE  /\ master'[c] = "new"
                      /\ repl[c] = "reset"
                      /\ \A x \in ProxiesOf(c) \cap InService : route[x] = "new"
    BY DEF vars
  <2> USE DEF SwitchInv, dbm
  <2>1. PICK r \in Req, i \in Inst :
            UpdateMetaInfo(r, i) \/ UpdateMetaInfoLost(r, i)
    <3>1. CASE \E r \in Req, i \in Inst : JobStep(r, i)
      BY <3>1
         DEF JobStep, Start, StepFail, Refresh, RefreshLost, Refreshed, Delete,
             ResetSlave, ResetSlaveFail, DoFinal
    <3>2. CASE ~ \E r \in Req, i \in Inst : JobStep(r, i)
      BY <3>2, QuietSteps
    <3>3. QED
      BY <3>1, <3>2
  <2>2. /\ AtMaster(r, i, {"meta"}) /\ phase[r] = "switch"
        /\ master' = Swapped(ClusterOf[i])
    BY <2>1 DEF UpdateMetaInfo, UpdateMetaInfoLost, At, AtMaster
  <2>3. c = ClusterOf[i] /\ master'[c] = "new"
    BY <2>2 DEF Swapped, TypeOK
  <2>4. repl[c] = "reset" /\ \A x \in Reached(r, i) : route[x] = "new"
    BY <2>2, <2>3 DEF AtMaster, RouteInv, RouteJob, MovedInv, MovedJob
  <2>5. ProxiesOf(c) \cap InService \subseteq Reached(r, i)
    BY <2>2, <2>3 DEF Reached, RequestInv, ProxiesOf, AtMaster
  <2>6. QED
    BY <2>3, <2>4, <2>5
<1>2. QED
  BY <1>1, SwitchInvariant, PTL DEF Spec, SwapIsFinal

\* Only DoFinal makes a job done.
LEMMA DoneByFinal ==
    ASSUME TypeOK, Next, NEW r \in Req, NEW i \in Inst,
           job[r][i] # "done", job'[r][i] = "done"
    PROVE  DoFinal(r, i)
<1> USE DEF TypeOK, dbm, cluster, request, work
<1>1. ASSUME NEW q \in Req, NEW j \in Inst, JobStep(q, j)
      PROVE  DoFinal(r, i)
  <2>1. q = r /\ j = i
    BY <1>1, JobStepFrame DEF Goes
  <2>2. CASE Start(r, i) \/ StepFail(r, i) \/ Refreshed(r, i)
    BY <2>2 DEF Start, StepFail, Refreshed, Goes, Ends
  <2>3. CASE \E x \in Proxy : Refresh(r, i, x) \/ RefreshLost(r, i, x)
    BY <2>3 DEF Refresh, RefreshLost, Goes, Ends
  <2>4. CASE ResetSlave(r, i) \/ ResetSlaveFail(r, i) \/ Delete(r, i)
    BY <2>4 DEF ResetSlave, ResetSlaveFail, Delete, Goes
  <2>5. CASE UpdateMetaInfo(r, i) \/ UpdateMetaInfoLost(r, i)
    BY <2>5 DEF UpdateMetaInfo, UpdateMetaInfoLost, Goes
  <2>6. QED
    BY <1>1, <2>1, <2>2, <2>3, <2>4, <2>5 DEF JobStep
<1>2. ASSUME NEW q \in Req, CheckEnd(q)
      PROVE  FALSE
  BY <1>2 DEF CheckEnd
<1>3. ASSUME NEW q \in Req, NEW j \in Inst,
             LockForSwitch(q, j) \/ LockForSwitchTimeout(q, j)
      PROVE  FALSE
  <2>1. CASE LockForSwitch(q, j)
    BY <2>1 DEF LockForSwitch
  <2>2. CASE LockForSwitchTimeout(q, j)
    BY <2>2 DEF LockForSwitchTimeout
  <2>3. QED
    BY <1>3, <2>1, <2>2
<1>4. CASE Crash
  BY <1>4 DEF Crash
<1>5. UNCHANGED job => FALSE
  OBVIOUS
<1>6. ASSUME NEW q \in Req, Ask(q) \/ SetStatus(q) \/ SetStatusFail(q)
                              \/ CheckStop(q) \/ SwitchEnd(q)
      PROVE  FALSE
  BY <1>5, <1>6
     DEF Ask, QueryHost, QueryInstance, Query, SetStatus, SetStatusFail,
         CheckStop, SwitchEnd
<1>7. ASSUME NEW q \in Req, NEW c \in Cluster,
             \/ LockForCheck(q, c) \/ LockForCheckTimeout(q, c)
             \/ UnlockAfterCheck(q, c)
      PROVE  FALSE
  BY <1>5, <1>7 DEF LockForCheck, LockForCheckTimeout, UnlockAfterCheck
<1>8. ASSUME NEW q \in Req, NEW j \in Inst,
             CheckBeforeSwitch(q, j) \/ UnlockAfterSwitch(q, j)
      PROVE  FALSE
  BY <1>5, <1>8 DEF CheckBeforeSwitch, UnlockAfterSwitch
<1>9. QED
  BY <1>1, <1>2, <1>3, <1>4, <1>5, <1>6, <1>7, <1>8
     DEF Next, Proceed, Finished, vars, JobStep

\* A switch that reports success is complete.
THEOREM SuccessIsComplete == Spec => SwitchComplete
<1> DEFINE Complete ==
      \A r \in Req, i \in Inst :
          job[r][i] # "done" /\ job'[r][i] = "done" /\ Role[i] = "master" =>
              LET c == ClusterOf[i] IN
              /\ master'[c] = "new" /\ repl'[c] = "reset"
              /\ \A x \in Reached(r, i) : route'[x] = "new"
<1>1. SwitchInv /\ [Next]_vars => [Complete]_vars
  <2> SUFFICES ASSUME SwitchInv, Next, NEW r \in Req, NEW i \in Inst,
                      job[r][i] # "done", job'[r][i] = "done",
                      Role[i] = "master"
               PROVE  /\ master'[ClusterOf[i]] = "new"
                      /\ repl'[ClusterOf[i]] = "reset"
                      /\ \A x \in Reached(r, i) : route'[x] = "new"
    BY DEF vars
  <2>1. DoFinal(r, i)
    BY DoneByFinal DEF SwitchInv
  <2>2. AtMaster(r, i, {"final"}) /\ UNCHANGED <<dbm, cluster>>
    BY <2>1 DEF DoFinal, At, AtMaster
  <2>3. QED
    BY <2>2
       DEF SwitchInv, AtMaster, RouteInv, RouteJob, MovedInv, MovedJob, dbm,
           cluster
<1>2. QED
  BY <1>1, SwitchInvariant, PTL DEF Spec, SwitchComplete

\* A single switch begins on a check that still holds.
THEOREM SingleChecks == Spec => SingleCheckHolds
<1>1. SwitchInv /\ [Next]_vars => [CheckStillHolds({"db_instance"})]_vars
  BY DEF SwitchInv, CheckedInv, Awaits, CheckStillHolds
<1>2. QED
  BY <1>1, SwitchInvariant, PTL DEF Spec, SingleCheckHolds

-----------------------------------------------------------------------------
(* Nothing before the checks *)

\* A request that is switching has passed: its instances are out of service
\* and none has failed its check.
PassedInv ==
    \A r \in Req :
        /\ phase[r] = "idle" => insts[r] = {}
        /\ phase[r] \in {"check", "switch"} =>
              \A i \in insts[r] : status[i] = "unavailable"
        /\ phase[r] = "switch" =>
              \A i \in insts[r] : check[r][i] \in {"required", "notNeeded"}

\* An instance that is out of service stays so, a request keeps its instances,
\* and a result, once there, does not change.
LEMMA PassedFrame ==
    ASSUME SwitchInv, PassedInv, [Next]_vars
    PROVE  /\ \A i \in Inst :
                  status[i] = "unavailable" => status'[i] = "unavailable"
           /\ \A r \in Req : phase[r] # "idle" \/ phase'[r] = "idle" =>
                  /\ insts'[r] = insts[r]
                  /\ \A i \in insts[r] :
                        check[r][i] # "none" => check'[r][i] = check[r][i]
<1> USE DEF SwitchInv, TypeOK, dbm, cluster, request, work
<1> DEFINE Kept ==
      /\ \A i \in Inst : status[i] = "unavailable" => status'[i] = "unavailable"
      /\ \A r \in Req : phase[r] # "idle" \/ phase'[r] = "idle" =>
            /\ insts'[r] = insts[r]
            /\ \A i \in insts[r] :
                  check[r][i] # "none" => check'[r][i] = check[r][i]
<1>1. ASSUME NEW r \in Req, Ask(r)
      PROVE  Kept
  BY <1>1 DEF Ask, QueryHost, QueryInstance, Query
<1>2. ASSUME NEW r \in Req, SetStatus(r) \/ SetStatusFail(r)
      PROVE  Kept
  BY <1>2 DEF SetStatus, SetStatusFail, WithStatus
<1>3. ASSUME NEW r \in Req, NEW c \in Cluster, LockForCheckTimeout(r, c)
      PROVE  Kept
  BY <1>3 DEF LockForCheckTimeout, Unchecked
<1>4. ASSUME NEW r \in Req, NEW i \in Inst, CheckBeforeSwitch(r, i)
      PROVE  Kept
  BY <1>4 DEF CheckBeforeSwitch
<1>5. ASSUME NEW r \in Req, NEW i \in Inst, JobStep(r, i)
      PROVE  Kept
  BY <1>5, JobStepFrame
<1>6. UNCHANGED <<status, insts, check>> => Kept
  OBVIOUS
<1>7. ASSUME NEW r \in Req, CheckEnd(r) \/ CheckStop(r) \/ SwitchEnd(r)
      PROVE  Kept
  BY <1>6, <1>7 DEF CheckEnd, CheckStop, SwitchEnd
<1>8. ASSUME NEW r \in Req, NEW c \in Cluster,
             LockForCheck(r, c) \/ UnlockAfterCheck(r, c)
      PROVE  Kept
  BY <1>6, <1>8 DEF LockForCheck, UnlockAfterCheck
<1>9. ASSUME NEW r \in Req, NEW i \in Inst,
             \/ LockForSwitch(r, i) \/ LockForSwitchTimeout(r, i)
             \/ UnlockAfterSwitch(r, i)
      PROVE  Kept
  BY <1>6, <1>9 DEF LockForSwitch, LockForSwitchTimeout, UnlockAfterSwitch
<1>10. CASE Crash
  BY <1>6, <1>10 DEF Crash
<1>11. CASE UNCHANGED vars
  BY <1>6, <1>11 DEF vars
<1>12. QED
  BY <1>1, <1>2, <1>3, <1>4, <1>5, <1>7, <1>8, <1>9, <1>10, <1>11
     DEF Next, Proceed, Finished, JobStep

\* How a request comes to its phase.
LEMMA PhaseSteps ==
    ASSUME SwitchInv, [Next]_vars, NEW r \in Req, phase'[r] # phase[r]
    PROVE  /\ phase'[r] # "idle"
           /\ phase'[r] = "check" => SetStatus(r)
           /\ phase'[r] = "switch" => CheckEnd(r)
<1> USE DEF SwitchInv, TypeOK, dbm, cluster, request, work
<1> DEFINE Cause ==
      /\ phase'[r] # "idle"
      /\ phase'[r] = "check" => SetStatus(r)
      /\ phase'[r] = "switch" => CheckEnd(r)
<1>1. ASSUME NEW q \in Req, Ask(q)
      PROVE  Cause
  BY <1>1 DEF Ask, QueryHost, QueryInstance, Query
<1>2. ASSUME NEW q \in Req, SetStatus(q) \/ CheckEnd(q)
      PROVE  Cause
  <2>1. q = r
    BY <1>2 DEF SetStatus, CheckEnd
  <2>2. QED
    BY <1>2, <2>1 DEF SetStatus, CheckEnd
<1>3. ASSUME NEW q \in Req, SetStatusFail(q) \/ CheckStop(q) \/ SwitchEnd(q)
      PROVE  Cause
  BY <1>3 DEF SetStatusFail, CheckStop, SwitchEnd
<1>4. ~ UNCHANGED phase
  OBVIOUS
<1>5. ASSUME NEW q \in Req, NEW c \in Cluster,
             \/ LockForCheck(q, c) \/ LockForCheckTimeout(q, c)
             \/ UnlockAfterCheck(q, c)
      PROVE  FALSE
  BY <1>4, <1>5 DEF LockForCheck, LockForCheckTimeout, UnlockAfterCheck
<1>6. ASSUME NEW q \in Req, NEW i \in Inst,
             \/ CheckBeforeSwitch(q, i) \/ LockForSwitch(q, i)
             \/ LockForSwitchTimeout(q, i) \/ UnlockAfterSwitch(q, i)
      PROVE  FALSE
  BY <1>4, <1>6
     DEF CheckBeforeSwitch, LockForSwitch, LockForSwitchTimeout,
         UnlockAfterSwitch
<1>7. ASSUME NEW q \in Req, NEW i \in Inst, JobStep(q, i)
      PROVE  FALSE
  BY <1>4, <1>7, JobStepFrame
<1>8. CASE Crash
  BY <1>8 DEF Crash
<1>9. QED
  BY <1>1, <1>2, <1>3, <1>4, <1>5, <1>6, <1>7, <1>8
     DEF Next, Proceed, Finished, vars, JobStep

\* A step keeps what is known of the requests.
LEMMA PassedStep ==
    ASSUME SwitchInv, PassedInv, [Next]_vars
    PROVE  PassedInv'
<1> USE DEF SwitchInv, TypeOK, PassedInv
<1> SUFFICES ASSUME NEW r \in Req
             PROVE  /\ phase'[r] = "idle" => insts'[r] = {}
                    /\ phase'[r] \in {"check", "switch"} =>
                          \A i \in insts'[r] : status'[i] = "unavailable"
                    /\ phase'[r] = "switch" =>
                          \A i \in insts'[r] :
                              check'[r][i] \in {"required", "notNeeded"}
  OBVIOUS
<1>1. CASE phase'[r] = phase[r]
  <2>1. insts[r] \subseteq Inst
    OBVIOUS
  <2>2. /\ insts'[r] = insts[r]
        /\ phase[r] # "idle" =>
              \A i \in insts[r] :
                 check[r][i] # "none" => check'[r][i] = check[r][i]
        /\ \A i \in insts[r] :
              status[i] = "unavailable" => status'[i] = "unavailable"
    BY <1>1, <2>1, PassedFrame
  <2>3. QED
    BY <1>1, <2>2
<1>2. CASE phase'[r] # phase[r]
  <2>1. phase'[r] # "idle"
    BY <1>2, PhaseSteps
  <2>2. phase'[r] = "check" => \A i \in insts'[r] : status'[i] = "unavailable"
    BY <1>2, PhaseSteps DEF SetStatus, WithStatus
  <2>3. CASE phase'[r] = "switch"
    <3>1. CheckEnd(r)
      BY <1>2, <2>3, PhaseSteps
    <3>2. QED
      BY <2>3, <3>1 DEF CheckEnd, Checked, Passed, dbm
  <2>4. QED
    BY <2>1, <2>2, <2>3
<1>3. QED
  BY <1>1, <1>2

\* A cluster is touched first by the switch of its master.
LEMMA FirstTouch ==
    ASSUME SwitchInv, [Next]_vars, NEW c \in Cluster, ~Touched(c), Touched(c)'
    PROVE  \E r \in Req : /\ phase[r] = "switch"
                          /\ \E i \in insts[r] :
                                Role[i] = "master" /\ ClusterOf[i] = c
<1> USE DEF SwitchInv, TypeOK, dbm, cluster, request, work
<1>1. ~ UNCHANGED cluster
  BY DEF Touched, ProxiesOf
<1>2. PICK r \in Req, i \in Inst : JobStep(r, i)
  BY <1>1, QuietSteps DEF Quiet
<1>3. phase[r] = "switch" /\ i \in insts[r]
  BY <1>2, JobStepFrame DEF RequestInv, Step
<1>4. Role[i] = "master" /\ ClusterOf[i] = c
  <2>1. CASE \E x \in Proxy : Refresh(r, i, x) \/ RefreshLost(r, i, x)
    <3>1. PICK x \in Proxy : Refresh(r, i, x) \/ RefreshLost(r, i, x)
      BY <2>1
    <3>2. /\ job[r][i] \in {"disconnect", "connect"}
          /\ x \in todo[r][i] /\ repl' = repl
          /\ \A y \in Proxy \ {x} : route'[y] = route[y]
      BY <3>1 DEF Refresh, RefreshLost, At
    <3>3. Role[i] = "master" /\ x \in Reached(r, i)
      BY <3>2 DEF RouteInv, RouteJob
    <3>4. ClusterOf[x] = ClusterOf[i]
      BY <3>3 DEF Reached, ProxiesOf
    <3>5. x \in ProxiesOf(c)
      BY <3>2 DEF Touched, ProxiesOf
    <3>6. QED
      BY <3>3, <3>4, <3>5 DEF ProxiesOf
  <2>2. CASE ResetSlave(r, i) \/ ResetSlaveFail(r, i)
    <3>1. /\ job[r][i] = "reset" /\ route' = route
          /\ \A d \in Cluster \ {ClusterOf[i]} : repl'[d] = repl[d]
      BY <2>2 DEF ResetSlave, ResetSlaveFail, At
    <3>2. Role[i] = "master"
      BY <3>1 DEF RouteInv, RouteJob
    <3>3. QED
      BY <3>1, <3>2 DEF Touched
  <2>3. QED
    BY <1>1, <1>2, <2>1, <2>2
       DEF JobStep, Start, Refreshed, Delete, UpdateMetaInfo,
           UpdateMetaInfoLost, DoFinal, StepFail
<1>5. QED
  BY <1>3, <1>4

\* A cluster is touched in the name of a request all of whose instances are
\* out of service and have passed.
THEOREM ChecksFirst == Spec => []NothingBeforeChecks
<1>1. Init => PassedInv /\ NothingBeforeChecks
  BY DEF Init, PassedInv, NothingBeforeChecks, Touched, ProxiesOf
<1>2. SwitchInv /\ PassedInv /\ NothingBeforeChecks /\ [Next]_vars
        => PassedInv' /\ NothingBeforeChecks'
  <2> SUFFICES ASSUME SwitchInv, PassedInv, NothingBeforeChecks, [Next]_vars
               PROVE  PassedInv' /\ NothingBeforeChecks'
    OBVIOUS
  <2>1. PassedInv'
    BY PassedStep
  <2> DEFINE Cleared(c, r) ==
        /\ \E i \in insts[r] : Role[i] = "master" /\ ClusterOf[i] = c
        /\ \A i \in insts[r] : /\ status[i] = "unavailable"
                               /\ check[r][i] \in {"required", "notNeeded"}
  <2>2. ASSUME NEW c \in Cluster, Touched(c)'
        PROVE  \E r \in Req : Cleared(c, r)'
    <3>1. PICK r \in Req : Cleared(c, r)
      <4>1. CASE Touched(c)
        BY <4>1 DEF NothingBeforeChecks
      <4>2. CASE ~Touched(c)
        BY <2>2, <4>2, FirstTouch DEF PassedInv
      <4>3. QED
        BY <4>1, <4>2
    <3>2. phase[r] # "idle"
      BY <3>1 DEF PassedInv
    <3>3. insts[r] \subseteq Inst
      BY DEF SwitchInv, TypeOK
    <3>4. QED
      BY <3>1, <3>2, <3>3, PassedFrame
  <2>3. QED
    BY <2>1, <2>2 DEF NothingBeforeChecks
<1>3. QED
  BY <1>1, <1>2, SwitchInvariant, PTL DEF Spec

-----------------------------------------------------------------------------
(* Refinement *)

\* The proxies that DBM has in service, as the promise counts them, are among
\* those the switch of the master reaches.
LEMMA ServedIsReached ==
    ASSUME SwitchInv, NEW r \in Req, NEW i \in Inst,
           phase[r] = "switch", Role[i] = "master",
           NEW x \in Proxy \cap InService, ClusterOf[x] = ClusterOf[i]
    PROVE  x \in Reached(r, i)
BY DEF SwitchInv, RequestInv, Reached, ProxiesOf

\* The proxies a job may still refresh are those of its cluster.
LEMMA TodoOfCluster ==
    ASSUME SwitchInv, NEW r \in Req, NEW i \in Inst, NEW x \in todo[r][i]
    PROVE  ClusterOf[x] = ClusterOf[i] /\ Role[i] = "master"
BY DEF SwitchInv, RouteInv, RouteJob, Reached, ProxiesOf

\* Refreshing a proxy detaches it or, when nobody writes to the old master any
\* more, attaches it to the new one.
LEMMA RefreshPromised ==
    ASSUME SwitchInv, NEW r \in Req, NEW i \in Inst, NEW x \in Proxy,
           Refresh(r, i, x) \/ RefreshLost(r, i, x)
    PROVE  Promise!Detach(x) \/ Promise!Attach(x)
<1>1. PICK step \in {"disconnect", "connect"} :
          /\ phase[r] = "switch" /\ job[r][i] = step /\ x \in todo[r][i]
          /\ route' = [route EXCEPT ![x] = Target(step)]
          /\ UNCHANGED <<status, master, repl>>
  BY DEF Refresh, RefreshLost, At, dbm
<1>2. ClusterOf[x] = ClusterOf[i] /\ Role[i] = "master"
  BY <1>1, TodoOfCluster
<1>3. (Proxy \cap InService)' = Proxy \cap InService
  BY <1>1 DEF InService, Proxy
<1>4. CASE step = "disconnect"
  BY <1>1, <1>3, <1>4 DEF Promise!Detach, Target
<1>5. CASE step = "connect"
  <2>1. /\ repl[ClusterOf[x]] = "reset"
        /\ \A y \in Reached(r, i) : route[y] # "old"
    BY <1>1, <1>2, <1>5 DEF SwitchInv, RouteInv, RouteJob, AtMaster
  <2>2. Promise!Clients(ClusterOf[x], {"none", "new"})
    BY <1>1, <1>2, <2>1, ServedIsReached
       DEF Promise!Clients, SwitchInv, TypeOK
  <2>3. QED
    BY <1>1, <1>3, <1>5, <2>1, <2>2 DEF Promise!Attach, Target
<1>6. QED
  BY <1>4, <1>5

\* The replication is cut when no proxy in service sends to the old master.
LEMMA ResetPromised ==
    ASSUME SwitchInv, NEW r \in Req, NEW i \in Inst,
           ResetSlave(r, i) \/ ResetSlaveFail(r, i)
    PROVE  \E left \in {"stopped", "reset"} : Promise!Cut(ClusterOf[i], left)
<1>1. /\ phase[r] = "switch" /\ job[r][i] = "reset"
      /\ UNCHANGED <<status, master, route>>
  BY DEF ResetSlave, ResetSlaveFail, At, dbm
<1>2. PICK left \in {"stopped", "reset"} :
          /\ repl[ClusterOf[i]] = "reset" => left = "reset"
          /\ repl' = [repl EXCEPT ![ClusterOf[i]] = left]
  BY DEF ResetSlave, ResetSlaveFail
<1>3. Role[i] = "master" /\ \A y \in Reached(r, i) : route[y] # "old"
  BY <1>1 DEF SwitchInv, RouteInv, RouteJob, AtMaster
<1>4. Promise!Clients(ClusterOf[i], {"none", "new"})
  BY <1>1, <1>3, ServedIsReached DEF Promise!Clients, SwitchInv, TypeOK
<1>5. (Proxy \cap InService)' = Proxy \cap InService
  BY <1>1 DEF InService, Proxy
<1>6. QED
  BY <1>1, <1>2, <1>4, <1>5 DEF Promise!Cut

\* DBM swaps the roles when all clients are with the new master, or finds them
\* swapped.
LEMMA MetaPromised ==
    ASSUME SwitchInv, NEW r \in Req, NEW i \in Inst,
           UpdateMetaInfo(r, i) \/ UpdateMetaInfoLost(r, i)
    PROVE  Promise!Swap(ClusterOf[i]) \/ UNCHANGED Promise!vars
<1>1. /\ phase[r] = "switch" /\ job[r][i] = "meta"
      /\ UNCHANGED <<status, repl, route>>
  BY DEF UpdateMetaInfo, UpdateMetaInfoLost, At, cluster
<1>2. (Proxy \cap InService)' = Proxy \cap InService
  BY <1>1 DEF InService, Proxy
<1>3. CASE master' = master
  BY <1>1, <1>2, <1>3 DEF Promise!vars
<1>4. CASE master' # master
  <2>1. Role[i] = "master" /\ master' = Swapped(ClusterOf[i])
    BY <1>4 DEF UpdateMetaInfo, UpdateMetaInfoLost
  <2>2. /\ master[ClusterOf[i]] = "old"
        /\ master' = [master EXCEPT ![ClusterOf[i]] = "new"]
    BY <1>4, <2>1, ExecutionAssumption DEF Swapped, SwitchInv, TypeOK
  <2>3. /\ repl[ClusterOf[i]] = "reset"
        /\ \A y \in Reached(r, i) : route[y] = "new"
    BY <1>1, <2>1
       DEF SwitchInv, RouteInv, RouteJob, MovedInv, MovedJob, AtMaster
  <2>4. Promise!Clients(ClusterOf[i], {"new"})
    BY <1>1, <2>1, <2>3, ServedIsReached DEF Promise!Clients
  <2>5. QED
    BY <1>1, <1>2, <2>2, <2>3, <2>4 DEF Promise!Swap
<1>5. QED
  BY <1>3, <1>4

\* All other steps of a job change nothing the promise speaks of.
LEMMA OtherStepsPromised ==
    ASSUME NEW r \in Req, NEW i \in Inst,
           \/ Start(r, i) \/ Refreshed(r, i) \/ Delete(r, i)
           \/ DoFinal(r, i) \/ StepFail(r, i)
    PROVE  UNCHANGED Promise!vars
<1>1. UNCHANGED <<dbm, cluster>>
  BY DEF Start, Refreshed, Delete, DoFinal, StepFail
<1>2. QED
  BY <1>1 DEF dbm, cluster, Promise!vars, InService, Proxy

\* SwitchExecution implements MasterHandover: whatever the requests, their
\* overlapping and their failures, the clients of a cluster are handed over
\* from the old master to the new one in the order that loses nothing.
THEOREM Refinement == Spec => RefinesMasterHandover
<1>1. Init => Promise!Init
  BY DEF Init, Promise!Init, InService, Proxy
<1>2. SwitchInv /\ [Next]_vars => [Promise!Next]_Promise!vars
  <2> SUFFICES ASSUME SwitchInv, [Next]_vars
               PROVE  Promise!Next \/ UNCHANGED Promise!vars
    OBVIOUS
  <2>1. CASE \E r \in Req, i \in Inst : JobStep(r, i)
    <3>1. PICK r \in Req, i \in Inst : JobStep(r, i)
      BY <2>1
    <3>2. ClusterOf[i] \in Cluster
      BY ExecutionAssumption
    <3>3. CASE \E x \in Proxy : Refresh(r, i, x) \/ RefreshLost(r, i, x)
      BY <3>3, RefreshPromised DEF Promise!Next
    <3>4. CASE ResetSlave(r, i) \/ ResetSlaveFail(r, i)
      BY <3>2, <3>4, ResetPromised DEF Promise!Next
    <3>5. CASE UpdateMetaInfo(r, i) \/ UpdateMetaInfoLost(r, i)
      BY <3>2, <3>5, MetaPromised DEF Promise!Next
    <3>6. CASE \/ Start(r, i) \/ Refreshed(r, i) \/ Delete(r, i)
               \/ DoFinal(r, i) \/ StepFail(r, i)
      BY <3>6, OtherStepsPromised
    <3>7. QED
      BY <3>1, <3>3, <3>4, <3>5, <3>6 DEF JobStep
  <2>2. CASE ~ \E r \in Req, i \in Inst : JobStep(r, i)
    <3>1. Quiet /\ UNCHANGED master
      BY <2>2, QuietSteps DEF SwitchInv
    <3>2. UNCHANGED <<repl, route, master>>
      BY <3>1 DEF Quiet, cluster
    <3>3. (Proxy \cap InService)' \subseteq Proxy \cap InService
      BY <3>1 DEF Quiet, InService, Proxy
    <3>4. Promise!TakeDown((Proxy \cap InService) \ (Proxy \cap InService)')
      BY <3>2, <3>3 DEF Promise!TakeDown
    <3>5. (Proxy \cap InService) \ (Proxy \cap InService)' \in SUBSET Proxy
      OBVIOUS
    <3>6. QED
      BY <3>4, <3>5 DEF Promise!Next
  <2>3. QED
    BY <2>1, <2>2
<1>3. QED
  BY <1>1, <1>2, SwitchInvariant, PTL
     DEF Spec, RefinesMasterHandover, Promise!Spec
=============================================================================
