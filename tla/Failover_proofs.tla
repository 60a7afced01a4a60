-------------------------- MODULE Failover_proofs --------------------------
(***************************************************************************)
(* What Failover guarantees for any number of processes, passes,           *)
(* businesses, hosts and instances.                                        *)
(***************************************************************************)
EXTENDS Failover, WindowManager_proofs

-----------------------------------------------------------------------------
(* Types *)

\* What popping takes is a set of keys.
LEMMA RipeKeys == \A m, b : Ripe(m, b) \subseteq Key
BY DEF Ripe

LEMMA UnitInst ==
    \A i \in Inst : Unit(i) \subseteq Inst /\ i \in Unit(i)
BY DEF Unit, OnHosts

\* Every variable keeps its type, in every configuration.
THEOREM TypeCorrect == Spec => []TypeOK
<1>1. Init => TypeOK
  <2>1. NewManager \in Manager
    BY WindowAssumption DEF NewManager, NoEntry, Manager, Entry
  <2>2. QED
    BY <2>1 DEF Init, TypeOK, Lock!Init
<1>2. TypeOK /\ [Next]_vars => TypeOK'
  <2> SUFFICES ASSUME TypeOK, [Next]_vars
               PROVE  TypeOK'
    OBVIOUS
  <2> USE FailoverAssumption, WindowAssumption DEF TypeOK, dbm, pass, Go
  <2>1. CASE Environment
    <3>1. ASSUME NEW i \in Inst, Fail(i) \/ Recover(i) \/ Repair(i)
          PROVE  TypeOK'
      BY <3>1 DEF Fail, Recover, Repair
    <3>2. ASSUME NEW a \in Am, NEW i \in Inst, Expire(a, i)
          PROVE  TypeOK'
      BY <3>2, DoneType DEF Expire
    <3>3. QED
      BY <2>1, <3>1, <3>2 DEF Environment
  <2>2. ASSUME NEW a \in Am, NEW k \in Key, Detect(a, k)
        PROVE  TypeOK'
    BY <2>2, PushedType DEF Detect
  <2>3. ASSUME NEW p \in Pass, NEW b \in Biz, Enter(p, b)
        PROVE  TypeOK'
    BY <2>3 DEF Enter, Lock!Enter
  <2>4. ASSUME NEW p \in Pass, NEW b \in Biz,
               PopNothing(p, b) \/ Leave(p, b)
        PROVE  TypeOK'
    BY <2>4 DEF PopNothing, Leave, Lock!Leave
  <2>5. ASSUME NEW p \in Pass, NEW b \in Biz, PopAndMarkStart(p, b)
        PROVE  TypeOK'
    BY <2>5, PoppedType, RipeKeys DEF PopAndMarkStart, Mine
  <2>6. ASSUME NEW p \in Pass, QueryNothing(p) \/ SwitchEnd(p)
        PROVE  TypeOK'
    BY <2>6 DEF QueryNothing, SwitchEnd
  <2>7. ASSUME NEW p \in Pass, Match(p)
        PROVE  TypeOK'
    <3>1. \A S : Requested(S) \subseteq Inst
      BY DEF Requested, OnHosts
    <3>2. QED
      BY <2>7, <3>1 DEF Match
  <2>8. ASSUME NEW p \in Pass, NEW i \in Inst,
               TakeDown(p, i) \/ TakeDownLost(p, i) \/ GiveUp(p, i)
        PROVE  TypeOK'
    BY <2>8, UnitInst DEF TakeDown, TakeDownLost, SetUnavailable, GiveUp
  <2>9. ASSUME NEW p \in Pass, NEW i \in Inst, Switch(p, i) \/ SwitchFail(p, i)
        PROVE  TypeOK'
    BY <2>9 DEF Switch, SwitchFail
  <2>10. ASSUME NEW p \in Pass, MarkDone(p)
         PROVE  TypeOK'
    <3>1. \A k \in Key : k[1] \in Inst
      BY DEF Key
    <3>2. QED
      BY <2>10, <3>1, DoneType DEF MarkDone
  <2>11. ASSUME NEW a \in Am, Crash(a)
         PROVE  TypeOK'
    <3>1. NewManager \in Manager
      BY DEF NewManager, NoEntry, Manager, Entry
    <3>2. QED
      BY <2>11, <3>1 DEF Crash, Lock!Crash
  <2>12. CASE UNCHANGED vars
    BY <2>12 DEF vars
  <2>13. QED
    BY <2>1, <2>2, <2>3, <2>4, <2>5, <2>6, <2>7, <2>8, <2>9, <2>10, <2>11,
       <2>12 DEF Next, Proceed
<1>3. QED
  BY <1>1, <1>2, PTL DEF Spec

-----------------------------------------------------------------------------
(* The order of the status and the switch *)

\* In every configuration, nothing is switched away from before DBM has it out
\* of service: also with duplicates, slow passes and crashes.
THEOREM DownBeforeSwitch == Spec => []TakenDownFirst
<1>1. Init => TakenDownFirst
  BY DEF Init, TakenDownFirst
<1>2. TypeOK /\ TakenDownFirst /\ [Next]_vars => TakenDownFirst'
  <2> SUFFICES ASSUME TypeOK, TakenDownFirst, [Next]_vars
               PROVE  TakenDownFirst'
    OBVIOUS
  <2> USE DEF TypeOK, TakenDownFirst, dbm, pass
  <2>1. CASE UNCHANGED <<status, hits, busy>>
    BY <2>1
  <2>2. ASSUME NEW i \in Inst, Repair(i)
        PROVE  TakenDownFirst'
    BY <2>2 DEF Repair
  <2>3. ASSUME NEW p \in Pass, NEW i \in Inst,
               TakeDown(p, i) \/ TakeDownLost(p, i)
        PROVE  TakenDownFirst'
    BY <2>3, UnitInst DEF TakeDown, TakeDownLost, SetUnavailable
  <2>4. ASSUME NEW p \in Pass, NEW i \in Inst, Switch(p, i) \/ SwitchFail(p, i)
        PROVE  TakenDownFirst'
    BY <2>4 DEF Switch, SwitchFail
  <2>5. ASSUME NEW a \in Am, Crash(a)
        PROVE  TakenDownFirst'
    <3>1. \A q \in Pass : busy'[q] \subseteq busy[q]
      BY <2>5 DEF Crash
    <3>2. status' = status /\ hits' = hits
      BY <2>5 DEF Crash
    <3>3. QED
      BY <3>1, <3>2
  <2>6. QED
    BY <2>1, <2>2, <2>3, <2>4, <2>5
       DEF Next, Proceed, Environment, vars, Fail, Recover, Expire, Detect,
           Enter, PopNothing, PopAndMarkStart, Leave, QueryNothing, Match,
           GiveUp, SwitchEnd, MarkDone
<1>3. QED
  BY <1>1, <1>2, TypeCorrect, PTL DEF Spec

-----------------------------------------------------------------------------
(* The lock *)

LockKept == LockedWhileHandling /\ OneProcessPerBiz

\* A step keeps the lock where something is handled.
LEMMA LockStep ==
    ASSUME TypeOK, LockKept, [Next]_vars
    PROVE  LockKept'
<1> USE DEF TypeOK, LockKept, LockedWhileHandling, OneProcessPerBiz, Claimed,
            dbm, pass, Go
<1>1. CASE UNCHANGED <<inside, pass>>
  BY <1>1
<1>2. ASSUME NEW p \in Pass, NEW b \in Biz, Enter(p, b)
      PROVE  LockKept'
  <2>1. pc' = [pc EXCEPT ![p] = "pop"] /\ UNCHANGED <<batch, work, busy>>
    BY <1>2 DEF Enter
  <2>2. /\ inside' = [inside EXCEPT ![b] = @ \cup {p}]
        /\ \A q \in inside[b] : AmOf[q] = AmOf[p]
    BY <1>2 DEF Enter, Lock!Enter
  <2>3. pc[p] = "idle"
    BY <1>2 DEF Enter
  <2>4. \A c \in Biz : p \notin inside[c]
    BY <1>2 DEF Enter, Lock!Enter
  <2>5. OneProcessPerBiz'
    BY <2>2
  <2>6. \A q \in Pass, c \in Biz :
            q \in inside'[c] <=> (q \in inside[c] \/ (q = p /\ c = b))
    BY <2>2
  <2>7. \A q \in Pass : \A k \in batch'[q] : q \in inside'[BizOf[k[1]]]
    <3>1. \A q \in Pass : \A k \in batch[q] : BizOf[k[1]] \in Biz
      BY WindowAssumption DEF Key
    <3>2. QED
      BY <2>1, <2>6, <3>1
  <2>8. \A q \in Pass :
            /\ pc'[q] = "idle" <=> \A c \in Biz : q \notin inside'[c]
            /\ \A c, d \in Biz : q \in inside'[c] /\ q \in inside'[d] => c = d
    BY <2>1, <2>4, <2>6
  <2>9. \A q \in Pass :
            /\ pc'[q] \in {"idle", "pop", "leave"} => batch'[q] = {}
            /\ pc'[q] # "switch" => Claimed(q)' = {}
    BY <2>1, <2>3
  <2>10. QED
    BY <2>5, <2>7, <2>8, <2>9
<1>3. ASSUME NEW p \in Pass, NEW b \in Biz, PopAndMarkStart(p, b)
      PROVE  LockKept'
  <2>1. \A k \in Ripe(Mine(p), b) : BizOf[k[1]] = b
    BY DEF Ripe
  <2>2. QED
    BY <1>3, <2>1 DEF PopAndMarkStart
<1>4. ASSUME NEW p \in Pass, NEW b \in Biz, PopNothing(p, b)
      PROVE  LockKept'
  BY <1>4 DEF PopNothing
<1>5. ASSUME NEW p \in Pass, QueryNothing(p) \/ Match(p) \/ SwitchEnd(p)
      PROVE  LockKept'
  BY <1>5 DEF QueryNothing, Match, SwitchEnd
<1>6. ASSUME NEW p \in Pass, NEW i \in Inst,
             TakeDown(p, i) \/ TakeDownLost(p, i) \/ GiveUp(p, i)
      PROVE  LockKept'
  BY <1>6 DEF TakeDown, TakeDownLost, SetUnavailable, GiveUp
<1>7. ASSUME NEW p \in Pass, NEW i \in Inst, Switch(p, i) \/ SwitchFail(p, i)
      PROVE  LockKept'
  BY <1>7 DEF Switch, SwitchFail
<1>8. ASSUME NEW p \in Pass, MarkDone(p)
      PROVE  LockKept'
  <2>1. PICK k \in batch[p] :
            /\ batch' = [batch EXCEPT ![p] = @ \ {k}]
            /\ IF batch[p] = {k} THEN pc' = [pc EXCEPT ![p] = "leave"]
                                 ELSE pc' = pc
    BY <1>8 DEF MarkDone
  <2>2. pc[p] = "done" /\ UNCHANGED <<inside, work, busy>>
    BY <1>8 DEF MarkDone
  <2>3. QED
    BY <2>1, <2>2
<1>9. ASSUME NEW p \in Pass, NEW b \in Biz, Leave(p, b)
      PROVE  LockKept'
  <2>1. /\ inside' = [inside EXCEPT ![b] = @ \ {p}]
        /\ pc[p] = "leave" /\ pc' = [pc EXCEPT ![p] = "idle"]
        /\ UNCHANGED <<batch, work, busy>>
    BY <1>9 DEF Leave, Lock!Leave
  <2>2. p \in inside[b] /\ batch[p] = {}
    BY <1>9, <2>1 DEF Leave, Lock!Leave
  <2>3. \A q \in Pass, c \in Biz :
            q \in inside'[c] <=> (q \in inside[c] /\ ~(q = p /\ c = b))
    BY <2>1
  <2>4. \A q \in Pass : \A k \in batch'[q] : q \in inside'[BizOf[k[1]]]
    <3>1. \A q \in Pass : \A k \in batch[q] : BizOf[k[1]] \in Biz
      BY WindowAssumption DEF Key
    <3>2. QED
      BY <2>1, <2>2, <2>3, <3>1
  <2>5. \A q \in Pass :
            /\ pc'[q] = "idle" <=> \A c \in Biz : q \notin inside'[c]
            /\ \A c, d \in Biz : q \in inside'[c] /\ q \in inside'[d] => c = d
    BY <2>1, <2>2, <2>3
  <2>6. \A q \in Pass :
            /\ pc'[q] \in {"idle", "pop", "leave"} => batch'[q] = {}
            /\ pc'[q] # "switch" => Claimed(q)' = {}
    BY <2>1, <2>2
  <2>7. OneProcessPerBiz'
    BY <2>1
  <2>8. QED
    BY <2>4, <2>5, <2>6, <2>7
<1>10. ASSUME NEW a \in Am, Crash(a)
       PROVE  LockKept'
  <2>1. inside' = [b \in Biz |-> {p \in inside[b] : AmOf[p] # a}]
    BY <1>10 DEF Crash, Lock!Crash
  <2>2. ASSUME NEW q \in Pass
        PROVE  IF AmOf[q] = a
                 THEN pc'[q] = "idle" /\ batch'[q] = {} /\ Claimed(q)' = {}
                 ELSE /\ pc'[q] = pc[q] /\ batch'[q] = batch[q]
                      /\ Claimed(q)' = Claimed(q)
    BY <1>10 DEF Crash
  <2>3. \A q \in Pass, b \in Biz :
            q \in inside'[b] <=> (q \in inside[b] /\ AmOf[q] # a)
    BY <2>1
  <2>4. \A q \in Pass : \A k \in batch'[q] : q \in inside'[BizOf[k[1]]]
    <3>1. \A q \in Pass : \A k \in batch[q] : BizOf[k[1]] \in Biz
      BY WindowAssumption DEF Key
    <3>2. QED
      BY <2>2, <2>3, <3>1
  <2>5. OneProcessPerBiz'
    BY <2>1
  <2>6. \A q \in Pass :
            /\ pc'[q] \in {"idle", "pop", "leave"} => batch'[q] = {}
            /\ pc'[q] # "switch" => Claimed(q)' = {}
    BY <2>2 DEF Claimed
  <2>7. \A q \in Pass :
            /\ pc'[q] = "idle" <=> \A b \in Biz : q \notin inside'[b]
            /\ \A b, c \in Biz : q \in inside'[b] /\ q \in inside'[c] => b = c
    BY <2>2, <2>3
  <2>8. QED
    BY <2>4, <2>5, <2>6, <2>7
<1>11. QED
  BY <1>1, <1>2, <1>3, <1>4, <1>5, <1>6, <1>7, <1>8, <1>9, <1>10
     DEF Next, Proceed, Environment, vars, Fail, Recover, Repair, Expire, Detect

-----------------------------------------------------------------------------
(* One process for an instance *)

\* A host belongs to one business.
HostInBiz == \A i, j \in Inst : HostOf[i] = HostOf[j] => BizOf[i] = BizOf[j]

\* Who claims an instance has the lock of its business, also when it claims it
\* only because another instance of the host has failed.
ClaimLocked == \A p \in Pass : \A i \in Claimed(p) : p \in inside[BizOf[i]]

\* A step keeps the lock where something is claimed, however slow passes are.
LEMMA ClaimStep ==
    ASSUME HostInBiz, TypeOK, LockKept, ClaimLocked, [Next]_vars
    PROVE  ClaimLocked'
<1> USE DEF TypeOK, ClaimLocked, Claimed, dbm, pass
<1>1. CASE UNCHANGED <<inside, work, busy>>
  BY <1>1
<1>2. ASSUME NEW p \in Pass, NEW b \in Biz, Enter(p, b)
      PROVE  ClaimLocked'
  <2>1. \A c \in Biz : inside[c] \subseteq inside'[c]
    BY <1>2 DEF Enter, Lock!Enter
  <2>2. \A i \in Inst : BizOf[i] \in Biz
    BY WindowAssumption
  <2>3. QED
    BY <1>2, <2>1, <2>2 DEF Enter
<1>3. ASSUME NEW p \in Pass, Match(p)
      PROVE  ClaimLocked'
  <2>1. PICK S \in SUBSET Available(p) : work' = [work EXCEPT ![p] = Requested(S)]
    BY <1>3 DEF Match
  <2>2. \A i \in Requested(S) : p \in inside[BizOf[i]]
    <3>1. SUFFICES ASSUME NEW i \in Requested(S)
                   PROVE  p \in inside[BizOf[i]]
      OBVIOUS
    <3>2. PICK j \in S : HostOf[i] = HostOf[j]
      BY DEF Requested, OnHosts
    <3>3. PICK k \in batch[p] : k[1] = j
      BY <3>2 DEF Available, Hit
    <3>4. k[1] \in Inst /\ p \in inside[BizOf[k[1]]]
      BY <3>3 DEF LockKept, LockedWhileHandling, Key
    <3>5. BizOf[i] = BizOf[j]
      BY <3>2, <3>3, <3>4 DEF HostInBiz, Requested, OnHosts
    <3>6. QED
      BY <3>3, <3>4, <3>5
  <2>3. UNCHANGED <<inside, busy>>
    BY <1>3 DEF Match
  <2>4. QED
    BY <2>1, <2>2, <2>3
<1>4. ASSUME NEW p \in Pass, NEW i \in Inst,
             \/ TakeDown(p, i) \/ TakeDownLost(p, i) \/ GiveUp(p, i)
             \/ Switch(p, i) \/ SwitchFail(p, i)
      PROVE  ClaimLocked'
  <2>1. \A q \in Pass : Claimed(q)' \subseteq Claimed(q)
    BY <1>4 DEF TakeDown, TakeDownLost, SetUnavailable, GiveUp, Switch, SwitchFail
  <2>2. UNCHANGED inside
    BY <1>4 DEF TakeDown, TakeDownLost, SetUnavailable, GiveUp, Switch, SwitchFail
  <2>3. QED
    BY <2>1, <2>2
<1>5. ASSUME NEW p \in Pass, NEW b \in Biz, Leave(p, b)
      PROVE  ClaimLocked'
  <2>1. Claimed(p) = {} /\ UNCHANGED <<work, busy>>
    BY <1>5 DEF Leave, LockKept, LockedWhileHandling
  <2>2. inside' = [inside EXCEPT ![b] = @ \ {p}]
    BY <1>5 DEF Leave, Lock!Leave
  <2>3. \A i \in Inst : BizOf[i] \in Biz
    BY WindowAssumption
  <2>4. QED
    BY <2>1, <2>2, <2>3
<1>6. ASSUME NEW a \in Am, Crash(a)
      PROVE  ClaimLocked'
  <2>1. inside' = [b \in Biz |-> {p \in inside[b] : AmOf[p] # a}]
    BY <1>6 DEF Crash, Lock!Crash
  <2>2. \A q \in Pass : Claimed(q)' = IF AmOf[q] = a THEN {} ELSE Claimed(q)
    BY <1>6 DEF Crash
  <2>3. \A i \in Inst : BizOf[i] \in Biz
    BY WindowAssumption
  <2>4. QED
    BY <2>1, <2>2, <2>3
<1>7. QED
  BY <1>1, <1>2, <1>3, <1>4, <1>5, <1>6
     DEF Next, Proceed, Environment, vars, Fail, Recover, Repair, Expire, Detect,
         PopNothing, PopAndMarkStart, QueryNothing, SwitchEnd, MarkDone

\* Two processes never work on one instance together, in every configuration
\* where a host belongs to one business.  (popAndSwitchForBiz)
THEOREM OneProcess == HostInBiz => (Spec => []OneProcessPerInstance)
<1> SUFFICES ASSUME HostInBiz PROVE Spec => []OneProcessPerInstance
  OBVIOUS
<1>1. Init => LockKept /\ ClaimLocked
  BY WindowAssumption
     DEF Init, Lock!Init, LockKept, LockedWhileHandling, OneProcessPerBiz,
         ClaimLocked, Claimed
<1>2. TypeOK /\ (LockKept /\ ClaimLocked) /\ [Next]_vars => (LockKept /\ ClaimLocked)'
  BY LockStep, ClaimStep
<1>3. TypeOK /\ LockKept /\ ClaimLocked => OneProcessPerInstance
  BY WindowAssumption
     DEF TypeOK, LockKept, OneProcessPerBiz, ClaimLocked, Claimed, OneProcessPerInstance
<1>4. QED
  BY <1>1, <1>2, <1>3, TypeCorrect, PTL DEF Spec

-----------------------------------------------------------------------------
(* What a second switch takes *)

\* No two passes of one process claim instance i.
ClaimedOnce(i) ==
    \A p, q \in Pass :
        (AmOf[p] = AmOf[q] /\ i \in Claimed(p) \cap Claimed(q)) => p = q

\* Then no two passes at all do, for two processes never do.
SoleClaim(i) ==
    \A p, q \in Pass : i \in Claimed(p) \cap Claimed(q) => p = q

\* DBM says of i what the requests for it rest on, and i was not switched twice.
Current(i) ==
    /\ \A p \in Pass : i \in work[p] => status[i] = "running"
    /\ \A p \in Pass : i \in busy[p] => status[i] = "unavailable" /\ hits[i] = 0
    /\ hits[i] > 0 => status[i] = "unavailable"
    /\ hits[i] <= 1

\* A step keeps the requests for i current unless two passes claim i, with any
\* hosts and scopes and however slow the passes are.
LEMMA CurrentStep ==
    ASSUME NEW i \in Inst, TypeOK, SoleClaim(i), Current(i), [Next]_vars
    PROVE  Current(i)'
<1> USE DEF TypeOK, Current, dbm, pass
<1>1. CASE UNCHANGED <<status, hits, work, busy>>
  BY <1>1
<1>2. ASSUME NEW j \in Inst, Repair(j)
      PROVE  Current(i)'
  BY <1>2 DEF Repair
<1>3. ASSUME NEW p \in Pass, Match(p)
      PROVE  Current(i)'
  <2>1. PICK S \in SUBSET Available(p) : work' = [work EXCEPT ![p] = Requested(S)]
    BY <1>3 DEF Match
  <2>2. \A j \in Requested(S) : status[j] = "running"
    BY DEF Requested
  <2>3. UNCHANGED <<status, hits, busy>>
    BY <1>3 DEF Match
  <2>4. QED
    BY <2>1, <2>2, <2>3
<1>4. ASSUME NEW p \in Pass, NEW j \in Inst, TakeDown(p, j) \/ TakeDownLost(p, j)
      PROVE  Current(i)'
  <2>1. /\ Unit(j) \subseteq work[p] /\ hits' = hits
        /\ status'[i] = IF i \in Unit(j) THEN "unavailable" ELSE status[i]
        /\ work' = [work EXCEPT ![p] = @ \ Unit(j)]
        /\ busy' = [busy EXCEPT ![p] = @ \cup Unit(j)] \/ busy' = busy
    BY <1>4 DEF TakeDown, TakeDownLost, SetUnavailable
  <2>2. CASE i \in Unit(j)
    <3>1. i \in Claimed(p) /\ status[i] = "running"
      BY <2>1, <2>2 DEF Claimed
    <3>2. hits[i] = 0
      BY <3>1
    <3>3. \A q \in Pass : i \notin work'[q]
      BY <2>1, <2>2, <3>1 DEF SoleClaim, Claimed
    <3>4. QED
      BY <2>1, <2>2, <3>2, <3>3
  <2>3. CASE i \notin Unit(j)
    BY <2>1, <2>3
  <2>4. QED
    BY <2>2, <2>3
<1>5. ASSUME NEW p \in Pass, NEW j \in Inst, GiveUp(p, j) \/ SwitchFail(p, j)
      PROVE  Current(i)'
  BY <1>5 DEF GiveUp, SwitchFail
<1>6. ASSUME NEW p \in Pass, NEW j \in Inst, Switch(p, j)
      PROVE  Current(i)'
  <2>1. /\ j \in busy[p]
        /\ hits' = [hits EXCEPT ![j] = @ + 1]
        /\ busy' = [busy EXCEPT ![p] = @ \ {j}]
        /\ UNCHANGED <<status, work>>
    BY <1>6 DEF Switch
  <2>2. CASE j = i
    <3>1. hits[i] = 0 /\ status[i] = "unavailable" /\ hits'[i] = 1
      BY <2>1, <2>2
    <3>2. \A q \in Pass : i \notin busy'[q]
      BY <2>1, <2>2 DEF SoleClaim, Claimed
    <3>3. QED
      BY <2>1, <3>1, <3>2
  <2>3. CASE j # i
    BY <2>1, <2>3
  <2>4. QED
    BY <2>2, <2>3
<1>7. ASSUME NEW a \in Am, Crash(a)
      PROVE  Current(i)'
  <2>1. \A q \in Pass : work'[q] \subseteq work[q] /\ busy'[q] \subseteq busy[q]
    BY <1>7 DEF Crash
  <2>2. UNCHANGED <<status, hits>>
    BY <1>7 DEF Crash
  <2>3. QED
    BY <2>1, <2>2
<1>8. QED
  BY <1>1, <1>2, <1>3, <1>4, <1>5, <1>6, <1>7
     DEF Next, Proceed, Environment, vars, Fail, Recover, Expire, Detect, Enter,
         PopNothing, PopAndMarkStart, Leave, QueryNothing, SwitchEnd, MarkDone

\* An instance is switched away from a second time only if two passes of one
\* process have it in their requests together.  Slow passes, marks that run
\* out, whole hosts, lost answers, crashes and other processes are not enough:
\* it takes two requests made before the status was written.
\* (CreateRequestWithGroup, setStatusForHostSwitch, setStatusForInstanceSwitch)
THEOREM SwitchedOnceUnless ==
    HostInBiz =>
        \A i \in Inst : Spec => ([]ClaimedOnce(i) => [](hits[i] <= 1))
<1> SUFFICES ASSUME HostInBiz, NEW i \in Inst
             PROVE  Spec => ([]ClaimedOnce(i) => [](hits[i] <= 1))
  OBVIOUS
<1>1. Init => Current(i)
  BY DEF Init, Current
<1>2. OneProcessPerInstance /\ ClaimedOnce(i) => SoleClaim(i)
  BY DEF OneProcessPerInstance, ClaimedOnce, SoleClaim
<1>3. TypeOK /\ SoleClaim(i) /\ Current(i) /\ [Next]_vars => Current(i)'
  BY CurrentStep
<1>4. Current(i) => hits[i] <= 1
  BY DEF Current
<1>5. Spec => []OneProcessPerInstance
  BY OneProcess
<1>6. QED
  BY <1>1, <1>2, <1>3, <1>4, <1>5, TypeCorrect, PTL DEF Spec

-----------------------------------------------------------------------------
(* Refinement *)

AllClaimedOnce == \A i \in Inst : ClaimedOnce(i)
AllSole == \A i \in Inst : SoleClaim(i)
AllCurrent == \A i \in Inst : Current(i)

\* Where no two passes of a process claim an instance together, Failover
\* implements SwitchOnce, with hosts of any size and both scopes: taking a unit
\* down, switching an instance and repairing it are the steps of the promise,
\* all others leave it as it is.
THEOREM Refinement ==
    HostInBiz => (Spec => ([]AllClaimedOnce => RefinesSwitchOnce))
<1> SUFFICES ASSUME HostInBiz
             PROVE  Spec => ([]AllClaimedOnce => RefinesSwitchOnce)
  OBVIOUS
<1>1. Init => Promise!Init /\ AllCurrent
  BY DEF Init, Promise!Init, Stage, AllCurrent, Current
<1>2. OneProcessPerInstance /\ AllClaimedOnce => AllSole
  BY DEF OneProcessPerInstance, AllClaimedOnce, ClaimedOnce, AllSole, SoleClaim
<1>3. TypeOK /\ AllSole /\ AllCurrent /\ [Next]_vars => AllCurrent'
  BY CurrentStep DEF AllSole, AllCurrent
<1>4. TypeOK /\ AllCurrent /\ [Next]_vars => [Promise!Next]_Stage
  <2> SUFFICES ASSUME TypeOK, AllCurrent, [Next]_vars
               PROVE  Promise!Next \/ Stage' = Stage
    OBVIOUS
  <2> USE DEF TypeOK, AllCurrent, Current, dbm, pass
  <2>1. CASE UNCHANGED <<status, hits>>
    BY <2>1 DEF Stage
  <2>2. ASSUME NEW i \in Inst, Repair(i)
        PROVE  Promise!Next
    <3>1. /\ status[i] = "unavailable"
          /\ status' = [status EXCEPT ![i] = "running"]
          /\ hits' = [hits EXCEPT ![i] = 0]
      BY <2>2 DEF Repair
    <3>2. Stage[i] \in {"unavailable", "switched"}
      BY <3>1 DEF Stage
    <3>3. Stage' = [Stage EXCEPT ![i] = "running"]
      <4>1. \A j \in Inst : Stage'[j] = IF j = i THEN "running" ELSE Stage[j]
        BY <3>1 DEF Stage
      <4>2. QED
        BY <4>1 DEF Stage
    <3>4. Promise!Repair(i)
      BY <3>2, <3>3 DEF Promise!Repair
    <3>5. QED
      BY <3>4 DEF Promise!Next
  <2>3. ASSUME NEW p \in Pass, NEW i \in Inst,
               TakeDown(p, i) \/ TakeDownLost(p, i)
        PROVE  Promise!Next
    <3>1. /\ Unit(i) \subseteq work[p] /\ hits' = hits
          /\ status' = [j \in Inst |-> IF j \in Unit(i) THEN "unavailable"
                                                         ELSE status[j]]
      BY <2>3 DEF TakeDown, TakeDownLost, SetUnavailable
    <3>2. Unit(i) \subseteq Inst
      BY UnitInst
    <3>3. \A j \in Unit(i) : status[j] = "running" /\ hits[j] = 0
      BY <3>1, <3>2
    <3>4. /\ \A j \in Unit(i) : Stage[j] = "running"
          /\ Stage' = [j \in Inst |-> IF j \in Unit(i) THEN "unavailable"
                                                       ELSE Stage[j]]
      BY <3>1, <3>2, <3>3 DEF Stage
    <3>5. Promise!TakeDown(Unit(i))
      BY <3>4 DEF Promise!TakeDown
    <3>6. QED
      BY <3>2, <3>5 DEF Promise!Next
  <2>4. ASSUME NEW p \in Pass, NEW i \in Inst, Switch(p, i)
        PROVE  Promise!Next
    <3>1. /\ i \in busy[p] /\ status' = status
          /\ hits' = [hits EXCEPT ![i] = @ + 1]
      BY <2>4 DEF Switch
    <3>2. status[i] = "unavailable" /\ hits[i] = 0
      BY <3>1
    <3>3. Stage[i] = "unavailable" /\ Stage' = [Stage EXCEPT ![i] = "switched"]
      <4>1. \A j \in Inst : Stage'[j] = IF j = i THEN "switched" ELSE Stage[j]
        BY <3>1, <3>2 DEF Stage
      <4>2. Stage[i] = "unavailable"
        BY <3>2 DEF Stage
      <4>3. Stage' = [Stage EXCEPT ![i] = "switched"]
        BY <4>1 DEF Stage
      <4>4. QED
        BY <4>2, <4>3
    <3>4. Promise!Switch(i)
      BY <3>3 DEF Promise!Switch
    <3>5. QED
      BY <3>4 DEF Promise!Next
  <2>5. QED
    BY <2>1, <2>2, <2>3, <2>4
       DEF Next, Proceed, Environment, vars, Fail, Recover, Expire, Detect,
           Enter, PopNothing, PopAndMarkStart, Leave, QueryNothing, Match,
           GiveUp, SwitchFail, SwitchEnd, MarkDone, Crash
<1>5. Spec => []OneProcessPerInstance
  BY OneProcess
<1>6. QED
  BY <1>1, <1>2, <1>3, <1>4, <1>5, TypeCorrect, PTL
     DEF Spec, RefinesSwitchOnce, Promise!Spec
=============================================================================
