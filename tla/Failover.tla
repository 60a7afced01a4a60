------------------------------ MODULE Failover ------------------------------
(***************************************************************************)
(* From a failure to its switching, over all analysis processes: the scan  *)
(* loops push failures into the windows of their own process, the passes   *)
(* of the pop loops take the switch lock of a business, pop, ask DBM for   *)
(* the instances on the failed hosts, match strategies, take instances out *)
(* of service in DBM and switch them (popAndSwitchForBiz,                  *)
(* handleFailureGroup, CreateRequestWithGroup, the switchers).             *)
(*                                                                         *)
(* The lock is BizLock, which module LockTracker implements; the windows   *)
(* are those of WindowManager with time left out: a pushed entry may be    *)
(* popped from then on, and a mark lasts until MarkDone, or until any time *)
(* when passes may be slower than inflightTTL (SlidingWindow has the time).*)
(***************************************************************************)
EXTENDS WindowManager, FiniteSets

CONSTANTS
    Am,      \* the analysis processes
    Pass,    \* the goroutines of their pop loops
    AmOf,    \* the process of a goroutine
    HostOf,  \* the host of an instance (bk_cloud_id and IP)
    Scope,   \* the strategies' action scope: "host" or "db_instance"
    Prompt   \* does every pass finish before its marks run out?

ASSUME FailoverAssumption ==
    /\ AmOf \in [Pass -> Am]
    /\ Scope \in {"host", "db_instance"}
    /\ Prompt \in BOOLEAN

VARIABLES
    failing,   \* the instances that scans find failing
    status,    \* status[i]: what DBM says of i, "running" or "unavailable"
    hits,      \* hits[i]: how often i was switched since it was last running
    managers,  \* managers[a]: the BizWindowManager of process a
    inside,    \* inside[b]: the passes that have the switch lock of b
    pc,        \* pc[p]: where pass p is
    batch,     \* batch[p]: what p popped and has not called MarkDone for
    work,      \* work[p]: instances of p's requests still to be taken down
    busy       \* busy[p]: taken down by p, not switched yet

dbm == <<failing, status, hits>>
pass == <<pc, batch, work, busy>>
vars == <<dbm, managers, inside, pass>>

Lock == INSTANCE BizLock

TypeOK ==
    /\ failing \subseteq Inst
    /\ status \in [Inst -> {"running", "unavailable"}]
    /\ hits \in [Inst -> Nat]
    /\ managers \in [Am -> Manager]
    /\ inside \in [Biz -> SUBSET Pass]
    /\ pc \in [Pass -> {"idle", "pop", "query", "switch", "done", "leave"}]
    /\ batch \in [Pass -> SUBSET Key]
    /\ work \in [Pass -> SUBSET Inst]
    /\ busy \in [Pass -> SUBSET Inst]

Init ==
    /\ failing = {}
    /\ status = [i \in Inst |-> "running"]
    /\ hits = [i \in Inst |-> 0]
    /\ managers = [a \in Am |-> NewManager]
    /\ Lock!Init
    /\ pc = [p \in Pass |-> "idle"]
    /\ batch = [p \in Pass |-> {}]
    /\ work = [p \in Pass |-> {}]
    /\ busy = [p \in Pass |-> {}]

Go(p, label) == pc' = [pc EXCEPT ![p] = label]
Mine(p) == managers[AmOf[p]]

-----------------------------------------------------------------------------
(* The instances, and the operators who look after them *)

Fail(i) ==
    /\ i \notin failing
    /\ failing' = failing \cup {i}
    /\ UNCHANGED <<status, hits, managers, inside, pass>>

\* An instance answers again by itself.
Recover(i) ==
    /\ i \in failing
    /\ failing' = failing \ {i}
    /\ UNCHANGED <<status, hits, managers, inside, pass>>

\* DBM puts a replaced instance back into service, when no switching of it is
\* under way.
Repair(i) ==
    /\ status[i] = "unavailable"
    /\ \A p \in Pass : i \notin work[p] \cup busy[p]
    /\ failing' = failing \ {i}
    /\ status' = [status EXCEPT ![i] = "running"]
    /\ hits' = [hits EXCEPT ![i] = 0]
    /\ UNCHANGED <<managers, inside, pass>>

\* LivenessDoubleCheck of process a pushes a failure.
Detect(a, k) ==
    /\ k[1] \in failing
    /\ managers' = [managers EXCEPT ![a] = Pushed(@, k, WindowDuration + 1)]
    /\ UNCHANGED <<dbm, inside, pass>>

\* A mark runs out before its pass is done.
Expire(a, i) ==
    /\ ~Prompt
    /\ managers[a].marks[i] > 0
    /\ managers' = [managers EXCEPT ![a] = Done(@, i)]
    /\ UNCHANGED <<dbm, inside, pass>>

-----------------------------------------------------------------------------
(* popAndSwitchForBiz *)

\* Mutant: the switch lock is not taken.
EnterUnlocked(p, b) ==
    /\ pc[p] = "idle"
    /\ inside' = [inside EXCEPT ![b] = @ \cup {p}]
    /\ Go(p, "pop")
    /\ UNCHANGED <<dbm, managers, batch, work, busy>>

\* A pass that does not get the lock is skipped: it stays idle.
Enter(p, b) ==
    /\ pc[p] = "idle"
    /\ Lock!Enter(p, b)
    /\ Go(p, "pop")
    /\ UNCHANGED <<dbm, managers, batch, work, busy>>

PopNothing(p, b) ==
    /\ pc[p] = "pop" /\ p \in inside[b]
    /\ Ripe(Mine(p), b) = {}
    /\ Go(p, "leave")
    /\ UNCHANGED <<dbm, managers, inside, batch, work, busy>>

PopAndMarkStart(p, b) ==
    /\ pc[p] = "pop" /\ p \in inside[b]
    /\ Ripe(Mine(p), b) # {}
    /\ batch' = [batch EXCEPT ![p] = Ripe(Mine(p), b)]
    /\ managers' = [managers EXCEPT ![AmOf[p]] = Popped(@, b)]
    /\ Go(p, "query")
    /\ UNCHANGED <<dbm, inside, work, busy>>

-----------------------------------------------------------------------------
(* handleFailureGroup *)

OnHosts(H) == {i \in Inst : HostOf[i] \in H}

\* Mutant: what DBM calls unavailable is switched as well.
RequestedAll(S) == OnHosts({HostOf[i] : i \in S})

\* CreateRequestWithGroup: everything on the failed hosts that is in service.
Requested(S) ==
    {i \in OnHosts({HostOf[j] : j \in S}) : status[i] = "running"}

\* excludeUnavailableInstances
Available(p) == Hit(batch[p]) \cap Requested(Hit(batch[p]))

\* DBM does not answer, or the failed instances are out of service already.
QueryNothing(p) ==
    /\ pc[p] = "query"
    /\ Go(p, "done")
    /\ UNCHANGED <<dbm, managers, inside, batch, work, busy>>

\* Strategies match some of the available instances and notify of the others,
\* and a switch request covers the hosts of its instances (buildGroupTasks,
\* filterRequestByHosts).
Match(p) ==
    /\ pc[p] = "query"
    /\ \E S \in SUBSET Available(p) :
          work' = [work EXCEPT ![p] = Requested(S)]
    /\ Go(p, "switch")
    /\ UNCHANGED <<dbm, managers, inside, batch, busy>>

\* What is switched together with i.
Unit(i) == IF Scope = "host" THEN OnHosts({HostOf[i]}) ELSE {i}

\* checkHostInstanceCompleteness, the check of the status in the request
\* (running, as queried) and the call that sets the unit unavailable in DBM.
SetUnavailable(p, i) ==
    /\ i \in work[p]
    /\ Unit(i) \subseteq work[p]
    /\ status' = [j \in Inst |-> IF j \in Unit(i) THEN "unavailable"
                                                  ELSE status[j]]
    /\ work' = [work EXCEPT ![p] = @ \ Unit(i)]
    /\ UNCHANGED <<failing, hits, managers, inside, pc, batch>>

\* Mutant: the switch begins before the status is written.
TakeDownLater(p, i) ==
    /\ i \in work[p]
    /\ Unit(i) \subseteq work[p]
    /\ work' = [work EXCEPT ![p] = @ \ Unit(i)]
    /\ busy' = [busy EXCEPT ![p] = @ \cup Unit(i)]
    /\ UNCHANGED <<dbm, managers, inside, pc, batch>>

\* The switch of the unit begins.
TakeDown(p, i) ==
    /\ SetUnavailable(p, i)
    /\ busy' = [busy EXCEPT ![p] = @ \cup Unit(i)]

\* DBM did what it was asked, but its answer is lost: the switch ends here.
TakeDownLost(p, i) ==
    /\ SetUnavailable(p, i)
    /\ UNCHANGED busy

\* The host is incomplete, the instance is not whitelisted, the context is
\* done or DBM refuses the call.
GiveUp(p, i) ==
    /\ i \in work[p]
    /\ work' = [work EXCEPT ![p] = @ \ Unit(i)]
    /\ UNCHANGED <<dbm, managers, inside, pc, batch, busy>>

\* DoSwitch and the steps after it, under the lock of the cluster.
Switch(p, i) ==
    /\ i \in busy[p]
    /\ hits' = [hits EXCEPT ![i] = @ + 1]
    /\ busy' = [busy EXCEPT ![p] = @ \ {i}]
    /\ UNCHANGED <<failing, status, managers, inside, pc, batch, work>>

\* The check before the switch, or the cluster lock, fails.
SwitchFail(p, i) ==
    /\ i \in busy[p]
    /\ busy' = [busy EXCEPT ![p] = @ \ {i}]
    /\ UNCHANGED <<dbm, managers, inside, pc, batch, work>>

SwitchEnd(p) ==
    /\ pc[p] = "switch"
    /\ work[p] = {} /\ busy[p] = {}
    /\ Go(p, "done")
    /\ UNCHANGED <<dbm, managers, inside, batch, work, busy>>

\* Mutant: markDoneAll gets the instances that were switched, not the popped.
MarkDoneForgotten(p) ==
    /\ pc[p] = "done"
    /\ batch' = [batch EXCEPT ![p] = {}]
    /\ Go(p, "leave")
    /\ UNCHANGED <<dbm, managers, inside, work, busy>>

\* markDoneAll, in the defer of handleFailureGroup.
MarkDone(p) ==
    /\ pc[p] = "done"
    /\ \E k \in batch[p] :
          /\ batch' = [batch EXCEPT ![p] = @ \ {k}]
          /\ managers' = [managers EXCEPT ![AmOf[p]] = Done(@, k[1])]
          /\ IF batch[p] = {k} THEN Go(p, "leave") ELSE UNCHANGED pc
    /\ UNCHANGED <<dbm, inside, work, busy>>

Leave(p, b) ==
    /\ pc[p] = "leave"
    /\ Lock!Leave(p, b)
    /\ Go(p, "idle")
    /\ UNCHANGED <<dbm, managers, batch, work, busy>>

\* Windows, marks and passes are in the memory of the process only.
Crash(a) ==
    LET Reset(f, none) == [p \in Pass |-> IF AmOf[p] = a THEN none ELSE f[p]]
    IN  /\ Lock!Crash(a)
        /\ managers' = [managers EXCEPT ![a] = NewManager]
        /\ pc' = Reset(pc, "idle")
        /\ batch' = Reset(batch, {})
        /\ work' = Reset(work, {})
        /\ busy' = Reset(busy, {})
        /\ UNCHANGED dbm

-----------------------------------------------------------------------------
\* What a pass does once it has the lock.
Proceed(p) ==
    \/ \E b \in Biz : PopNothing(p, b) \/ PopAndMarkStart(p, b) \/ Leave(p, b)
    \/ QueryNothing(p) \/ Match(p)
    \/ \E i \in Inst : \/ TakeDown(p, i) \/ TakeDownLost(p, i) \/ GiveUp(p, i)
                       \/ Switch(p, i) \/ SwitchFail(p, i)
    \/ SwitchEnd(p) \/ MarkDone(p)

Environment ==
    \/ \E i \in Inst : Fail(i) \/ Recover(i) \/ Repair(i)
    \/ \E a \in Am, i \in Inst : Expire(a, i)

Next ==
    \/ Environment
    \/ \E a \in Am, k \in Key : Detect(a, k)
    \/ \E p \in Pass, b \in Biz : Enter(p, b)
    \/ \E p \in Pass : Proceed(p)
    \/ \E a \in Am : Crash(a)

Spec == Init /\ [][Next]_vars

\* Every process scans and pops every business it is assigned (here: all),
\* over and over, and no pass hangs: SwitchTimeout ends the longest of them.
Fairness ==
    /\ \A a \in Am, i \in Inst :
          WF_vars(\E k \in Key : k[1] = i /\ Detect(a, k))
    /\ \A a \in Am, b \in Biz :
          SF_vars(\E p \in Pass : AmOf[p] = a /\ Enter(p, b))
    /\ \A p \in Pass : WF_vars(Proceed(p))

FairSpec == Spec /\ Fairness

-----------------------------------------------------------------------------
(* Properties *)

\* No instance is switched away from twice: not by two passes of a process,
\* not by two processes that saw the same failure, not after a crash of one of
\* them.  It rests on the order of the lock, the query, the status and the
\* switch.  (popAndSwitchForBiz, CreateRequestWithGroup,
\* setStatusForHostSwitch, setStatusForInstanceSwitch)
NoDoubleSwitch == \A i \in Inst : hits[i] <= 1

Claimed(p) == work[p] \cup busy[p]

\* A pass that handles something has the lock of its business.
LockedWhileHandling ==
    \A p \in Pass :
        /\ pc[p] \in {"idle", "pop", "leave"} => batch[p] = {}
        /\ pc[p] # "switch" => Claimed(p) = {}
        /\ pc[p] = "idle" <=> \A b \in Biz : p \notin inside[b]
        /\ \A b, c \in Biz : p \in inside[b] /\ p \in inside[c] => b = c
        /\ \A k \in batch[p] : p \in inside[BizOf[k[1]]]

OneProcessPerBiz ==
    \A b \in Biz : \A p, q \in inside[b] : AmOf[p] = AmOf[q]

\* In every configuration, also where NoDoubleSwitch fails: requests for one
\* instance are in one process at a time, where its cluster locks can order
\* them; two processes never work on an instance together.  (the lock is kept
\* until wait() returns in popAndSwitchForBiz)
OneProcessPerInstance ==
    \A p, q \in Pass :
        Claimed(p) \cap Claimed(q) # {} => AmOf[p] = AmOf[q]

\* And nothing is switched away from before DBM has it out of service, so no
\* later query can find it in service.  (SwitchSameHostInstances,
\* SwitchSingleInstance: the status is set first)
TakenDownFirst ==
    \A i \in Inst :
        (hits[i] > 0 \/ \E p \in Pass : i \in busy[p])
            => status[i] = "unavailable"

\* The failover keeps the promise of SwitchOnce.
Stage == [i \in Inst |-> IF hits[i] > 0 THEN "switched" ELSE status[i]]
Promise == INSTANCE SwitchOnce WITH stage <- Stage
RefinesSwitchOnce == Promise!Spec

\* An instance that keeps failing, and that DBM has in service, is handed to a
\* pass again and again, until something is done about it: no mark, lock or
\* window entry is left behind that would shut it out.  (Push, MarkDone, the
\* release of the lock)
FailureHandled ==
    <>[][\A a \in Am : ~Crash(a)]_vars =>
        \A i \in Inst :
            <>[](i \in failing /\ status[i] = "running")
                => []<>(\E p \in Pass : i \in Hit(batch[p]))
=============================================================================
