------------------------- MODULE TicketFlow_proofs -------------------------
(***************************************************************************)
(* Proofs about TicketFlow: types, the order of the flows, the single      *)
(* entry of a flow and the confirmation of the pause flows.                *)
(***************************************************************************)
EXTENDS TicketFlow, TLAPS

-----------------------------------------------------------------------------
(* Types *)

\* The status of a flow that is evaluated, and the todo it has then.
LEMMA EvaluatedType ==
    ASSUME TypeOK, NEW f \in Flow
    PROVE  Evaluated(f) \in Status /\ EvaluatedTodo(f) \in {"none", "todo", "done", "dropped"}
<1>1. Evaluated(f) \in Status
  <2>1. CASE Settled(f)
    BY <2>1 DEF Evaluated, TypeOK
  <2>2. CASE ~Settled(f) /\ Kind[f] = "pause"
    BY <2>2 DEF Evaluated, Status
  <2>3. CASE ~Settled(f) /\ Kind[f] # "pause"
    BY <2>3 DEF Evaluated, TypeOK, OfTree, Status
  <2> QED BY <2>1, <2>2, <2>3
<1>2. EvaluatedTodo(f) \in {"none", "todo", "done", "dropped"}
  BY DEF EvaluatedTodo, TypeOK
<1> QED BY <1>1, <1>2

LEMMA TargetType ==
    ASSUME NEW s PROVE Target(s) \in TicketStatus \cup {"none"}
BY DEF Target, TicketStatus

\* A process that goes on, or saves a row first, remains a process.
LEMMA FreeType == Free \in Process
BY TicketAssumption DEF Free, Process, Label, AfterSave, Flow

LEMMA AfterSaveType == AfterSave \subseteq Label
BY DEF AfterSave, Label

LEMMA GoType ==
    ASSUME proc \in [Proc -> Process], NEW p \in Proc, NEW label \in Label,
           \/ Go(p, label)
           \/ label \in AfterSave /\ Saved(p, label)
           \/ \E f \in Flow : GoFor(p, label, f)
    PROVE  proc' \in [Proc -> Process]
<1>1. proc[p] \in Process
  OBVIOUS
<1>2. CASE Go(p, label)
  BY <1>1, <1>2, FreeType DEF Go, Process
<1>3. CASE label \in AfterSave /\ Saved(p, label)
  <2>1. "signal" \in Label
    BY DEF Label
  <2> QED BY <1>1, <1>3, <2>1 DEF Saved, Process
<1>4. CASE \E f \in Flow : GoFor(p, label, f)
  <2> PICK f \in Flow : GoFor(p, label, f)
    BY <1>4
  <2>1. [[proc[p] EXCEPT !.at = label] EXCEPT !.flow = f] \in Process
    BY <1>1 DEF Process
  <2> QED BY <2>1 DEF GoFor
<1> QED BY <1>2, <1>3, <1>4

\* An evaluation keeps the types, if the process goes on at a label.
LEMMA EvaluateType ==
    ASSUME TypeOK, NEW p \in Proc, NEW f \in Flow, NEW label \in AfterSave, Evaluate(p, f, label)
    PROVE  TypeOK'
<1>1. Evaluated(f) \in Status /\ EvaluatedTodo(f) \in {"none", "todo", "done", "dropped"}
  BY EvaluatedType
<1>2. proc' \in [Proc -> Process]
  BY GoType, AfterSaveType DEF Evaluate, TypeOK
<1> QED BY <1>1, <1>2 DEF Evaluate, TypeOK, pipes

\* So does a save of the status.
LEMMA SetStatusType ==
    ASSUME TypeOK, NEW p \in Proc, NEW st \in Status, NEW label \in AfterSave,
           exclusive' \in [Flow -> BOOLEAN], SetStatus(p, st, label)
    PROVE  TypeOK'
<1>1. proc' \in [Proc -> Process] /\ proc[p] \in Process
  BY GoType, AfterSaveType DEF SetStatus, TypeOK
<1> QED BY <1>1 DEF SetStatus, TypeOK, Process, Mine, history, pipes

LEMMA TypeInit == Init => TypeOK
<1> SUFFICES ASSUME Init PROVE TypeOK
  OBVIOUS
<1>1. [Free EXCEPT !.at = "next"] \in Process
  BY FreeType DEF Process, Label
<1>2. proc \in [Proc -> Process]
  BY <1>1, FreeType DEF Init
<1> QED BY <1>2 DEF Init, TypeOK, Status, TicketStatus

LEMMA TypeStep == TypeOK /\ [Next]_vars => TypeOK'
<1> SUFFICES ASSUME TypeOK, [Next]_vars PROVE TypeOK'
  OBVIOUS
<1> USE DEF rows, pipes, history
<1>0. CASE UNCHANGED vars
  BY <1>0 DEF vars, TypeOK
<1>1. ASSUME NEW p \in Proc, ReadNext(p) PROVE TypeOK'
  <2>1. proc' \in [Proc -> Process] /\ proc[p] \in Process
    BY <1>1, GoType DEF ReadNext, TypeOK, Label
  <2> QED BY <1>1, <2>1 DEF ReadNext, TypeOK, Process, Mine
<1>2. ASSUME NEW p \in Proc, Proceed(p) PROVE TypeOK'
  <2>1. CASE SignalRead(p)
    <3>1. /\ status' \in [Flow -> Status]
          /\ todo' \in [Flow -> {"none", "todo", "done", "dropped"}]
      BY <2>1, EvaluatedType DEF SignalRead
    <3>2. /\ Target(status') \in TicketStatus \cup {"none"}
          /\ "write" \in Label
      BY TargetType DEF Label
    <3>3. [[proc[p] EXCEPT !.at = "write"] EXCEPT !.target = Target(status')] \in Process
      BY <3>2 DEF TypeOK, Process
    <3>4. proc' \in [Proc -> Process]
      BY <2>1, <3>3 DEF SignalRead, TypeOK
    <3> QED BY <2>1, <3>1, <3>4 DEF SignalRead, TypeOK
  <2>2. CASE SignalWrite(p)
    <3>1. proc[p] \in Process
      BY DEF TypeOK
    <3>2. [Free EXCEPT !.at = proc[p].then,
               !.flow = IF proc[p].then = "idle" THEN 1 ELSE Mine(p)] \in Process
      BY <3>1, FreeType, AfterSaveType DEF Free, Process, Mine
    <3>3. proc' \in [Proc -> Process]
      BY <2>2, <3>2 DEF SignalWrite, TypeOK
    <3> QED BY <2>2, <3>1, <3>3 DEF SignalWrite, TypeOK, Process
  <2>3. CASE TooLate(p)
    <3>1. proc' \in [Proc -> Process] /\ proc[p] \in Process
      BY <2>3, GoType DEF TooLate, TypeOK, Label
    <3> QED BY <2>3, <3>1 DEF TooLate, TypeOK, Process, Mine
  <2>4. CASE Look(p)
    <3>1. {"run", "idle"} \subseteq AfterSave
      BY DEF AfterSave
    <3> QED BY <2>4, <3>1, EvaluateType DEF Look
  <2>5. CASE CheckAck(p)
    <3>1. proc' \in [Proc -> Process] /\ proc[p] \in Process
      BY <2>5, GoType DEF CheckAck, TypeOK, Label, AfterSave
    <3>2. ack' \in [Flow -> BOOLEAN] /\ starts' \in [Flow -> Nat]
      <4>1. CASE ack[Mine(p)]
        BY <2>5, <4>1 DEF CheckAck, TypeOK
      <4>2. CASE ~ack[Mine(p)]
        <5>1. /\ ack' = [ack EXCEPT ![Mine(p)] = TRUE]
              /\ starts' = [starts EXCEPT ![Mine(p)] = @ + 1]
          BY <2>5, <4>2 DEF CheckAck
        <5>2. Mine(p) \in Flow
          BY <3>1 DEF Process, Mine
        <5>3. ack' \in [Flow -> BOOLEAN]
          BY <5>1 DEF TypeOK
        <5>4. starts' \in [Flow -> Nat]
          BY <5>1, <5>2 DEF TypeOK
        <5> QED BY <5>3, <5>4
      <4> QED BY <4>1, <4>2
    <3> QED BY <2>5, <3>1, <3>2 DEF CheckAck, TypeOK
  <2>6. CASE CreateTodo(p)
    <3>1. proc' \in [Proc -> Process] /\ proc[p] \in Process
      BY <2>6, GoType DEF CreateTodo, TypeOK, Label
    <3> QED BY <2>6, <3>1 DEF CreateTodo, TypeOK, Process, Mine
  <2>7. CASE PauseRunning(p)
    <3>1. "running" \in Status /\ {"idle", "check"} \subseteq AfterSave
      BY DEF Status, AfterSave
    <3> QED BY <2>7, <3>1, SetStatusType DEF PauseRunning, TypeOK, SetStatus
  <2>8. CASE InnerRunning(p)
    <3>1. "running" \in Status /\ {"idle", "check"} \subseteq AfterSave
      BY DEF Status, AfterSave
    <3> QED BY <2>8, <3>1, SetStatusType DEF InnerRunning, TypeOK, SetStatus
  <2>9. CASE ExclusiveError(p)
    <3>1. "running" \in Status /\ {"idle", "check"} \subseteq AfterSave
      BY DEF Status, AfterSave
    <3> QED BY <2>9, <3>1, SetStatusType DEF ExclusiveError, TypeOK, SetStatus
  <2>10. CASE RunError(p)
    <3>1. "failed" \in Status /\ {"idle", "check"} \subseteq AfterSave
      BY DEF Status, AfterSave
    <3> QED BY <2>10, <3>1, SetStatusType DEF RunError, TypeOK, SetStatus
  <2>11. CASE Build(p)
    <3>1. proc' \in [Proc -> Process] /\ proc[p] \in Process
      BY <2>11, GoType DEF Build, TypeOK, Label
    <3> QED BY <2>11, <3>1 DEF Build, TypeOK, Process, Mine
  <2>12. CASE Guard(p)
    <3>1. proc' \in [Proc -> Process] /\ proc[p] \in Process
      BY <2>12, GoType DEF Guard, TypeOK, Label
    <3> QED BY <2>12, <3>1 DEF Guard, TypeOK, Process, Mine
  <2>13. CASE Recheck(p)
    <3>1. proc' \in [Proc -> Process] /\ proc[p] \in Process
      BY <2>13, GoType DEF Recheck, TypeOK, Label
    <3> QED BY <2>13, <3>1 DEF Recheck, TypeOK, Process, Mine
  <2>14. CASE CreateTree(p)
    <3>1. proc' \in [Proc -> Process] /\ proc[p] \in Process
      BY <2>14, GoType DEF CreateTree, TypeOK, Label
    <3> QED BY <2>14, <3>1 DEF CreateTree, TypeOK, Process, Mine
  <2>15. CASE CreateFails(p)
    <3>1. "failed" \in Status /\ {"idle", "check"} \subseteq AfterSave
      BY DEF Status, AfterSave
    <3> QED BY <2>15, <3>1, SetStatusType DEF CreateFails, TypeOK, SetStatus
  <2>16. CASE Launch(p)
    <3>1. proc' \in [Proc -> Process] /\ proc[p] \in Process
      BY <2>16, GoType DEF Launch, TypeOK, Label
    <3> QED BY <2>16, <3>1 DEF Launch, TypeOK, Process, Mine
  <2>17. CASE LaunchFails(p)
    <3>1. "failed" \in Status /\ {"idle", "check"} \subseteq AfterSave
      BY DEF Status, AfterSave
    <3> QED BY <2>17, <3>1, SetStatusType DEF LaunchFails, TypeOK, SetStatus
  <2>18. CASE PostCheck(p)
    <3>1. proc' \in [Proc -> Process] /\ proc[p] \in Process
      BY <2>18, GoType DEF PostCheck, TypeOK, Label
    <3> QED BY <2>18, <3>1 DEF PostCheck, TypeOK, Process, Mine
  <2>19. CASE Stop(p)
    <3>1. proc' \in [Proc -> Process]
      BY <2>19, GoType DEF Stop, TypeOK, Label
    <3> QED BY <2>19, <3>1 DEF Stop, RevokePipeline, Starting, TypeOK
  <2>20. CASE StopFails(p)
    <3>1. "failed" \in Status /\ {"idle", "check"} \subseteq AfterSave
      BY DEF Status, AfterSave
    <3> QED BY <2>20, <3>1, SetStatusType DEF StopFails, TypeOK, SetStatus
  <2>21. CASE Callback(p)
    <3>1. {"next", "idle"} \subseteq AfterSave
      BY DEF AfterSave
    <3> QED BY <2>21, <3>1, EvaluateType DEF Callback
  <2>22. CASE DropFlow(p)
    <3>1. "terminated" \in Status /\ {"idle", "check"} \subseteq AfterSave
      BY DEF Status, AfterSave
    <3> QED BY <2>22, <3>1, SetStatusType DEF DropFlow, TypeOK, SetStatus
  <2>23. CASE Flush(p)
    <3>1. proc' \in [Proc -> Process] /\ proc[p] \in Process
      BY <2>23, GoType DEF Flush, TypeOK, Label, AfterSave
    <3> QED BY <2>23, <3>1 DEF Flush, TypeOK, Process, Mine, Status
  <2>24. CASE Halt(p)
    <3>1. proc' \in [Proc -> Process] /\ proc[p] \in Process
      BY <2>24, GoType DEF Halt, TypeOK, Label
    <3> QED BY <2>24, <3>1 DEF Halt, TypeOK, Process, Mine
  <2>25. CASE Cancel(p)
    <3>1. proc' \in [Proc -> Process]
      BY <2>25, GoType DEF Cancel, TypeOK, Label
    <3>2. CASE Irrevocable(Mine(p))
      BY <2>25, <3>1, <3>2 DEF Cancel, TypeOK
    <3>3. CASE ~Irrevocable(Mine(p))
      BY <2>25, <3>1, <3>3 DEF Cancel, RevokePipeline, Starting, TypeOK
    <3> QED BY <3>2, <3>3
  <2>26. CASE Confirmed(p)
    <3>1. proc' \in [Proc -> Process]
      BY <2>26, GoType DEF Confirmed, TypeOK, Label
    <3> QED BY <2>26, <3>1 DEF Confirmed, TypeOK
  <2> QED BY <1>2, <2>1, <2>2, <2>3, <2>4, <2>5, <2>6, <2>7, <2>8, <2>9, <2>10, <2>11, <2>12, <2>13, <2>14, <2>15, <2>16, <2>17, <2>18, <2>19, <2>20, <2>21, <2>22, <2>23, <2>24, <2>25, <2>26 DEF Proceed
<1>3. ASSUME NEW p \in Proc, NEW f \in Flow, Report(p, f) PROVE TypeOK'
  <2>1. proc' \in [Proc -> Process]
    BY <1>3, GoType DEF Report, TypeOK, Label
  <2> QED BY <1>3, <2>1 DEF Report, TypeOK
<1>4. ASSUME NEW p \in Proc, NEW f \in Flow, Operate(p, f) PROVE TypeOK'
  <2>1. CASE View(p, f)
    BY <2>1, EvaluateType DEF View, AfterSave
  <2>2. CASE Confirm(p, f)
    <3>1. proc' \in [Proc -> Process]
      BY <2>2, GoType DEF Confirm, TypeOK, Label
    <3> QED BY <2>2, <3>1 DEF Confirm, TypeOK
  <2>3. CASE Refuse(p, f)
    <3>1. proc' \in [Proc -> Process]
      BY <2>3, GoType DEF Refuse, TypeOK, Label
    <3> QED BY <2>3, <3>1 DEF Refuse, TypeOK
  <2>4. CASE Retry(p, f)
    <3>1. proc' \in [Proc -> Process]
      BY <2>4, GoType DEF Retry, TypeOK, Label
    <3> QED BY <2>4, <3>1 DEF Retry, TypeOK
  <2>5. CASE Revoke(p, f)
    <3>1. "signal" \in Label /\ "halt" \in AfterSave
      BY DEF Label, AfterSave
    <3>2. [[[proc[p] EXCEPT !.at = "signal"] EXCEPT !.flow = f] EXCEPT !.then = "halt"]
             \in Process
      BY <3>1 DEF TypeOK, Process
    <3>3. proc' \in [Proc -> Process]
      BY <2>5, <3>2 DEF Revoke, TypeOK
    <3> QED BY <2>5, <3>3 DEF Revoke, TypeOK, Status
  <2>6. CASE Remark(p, f)
    <3>1. proc' \in [Proc -> Process]
      BY <2>6, GoType DEF Remark, TypeOK, Label, AfterSave
    <3> QED BY <2>6, <3>1 DEF Remark, TypeOK
  <2> QED BY <1>4, <2>1, <2>2, <2>3, <2>4, <2>5, <2>6 DEF Operate
<1>5. ASSUME NEW f \in Flow, EngineFinishes(f) \/ EngineFails(f) \/ RetryNode(f)
      PROVE  TypeOK'
  BY <1>5 DEF EngineFinishes, EngineFails, EngineEnds, RetryNode, TypeOK
<1> QED BY <1>0, <1>1, <1>2, <1>3, <1>4, <1>5 DEF Next

\* Every variable keeps its type, whoever saves what over whom.
THEOREM Typing == Spec => []TypeOK
BY TypeInit, TypeStep, PTL DEF Spec

-----------------------------------------------------------------------------
(* One entry per retry *)

\* Who finds no "ack" has a retry to his credit that was not used.
EntryInv ==
    \A f \in Flow : /\ starts[f] <= 1 + retries[f]
                    /\ ~ack[f] => starts[f] <= retries[f]

LEMMA EntryInit == Init => EntryInv
BY DEF Init, EntryInv

\* Everything but the check and the flush leaves the three alone.
LEMMA EntryFrame ==
    ASSUME [Next]_vars
    PROVE  \/ UNCHANGED <<ack, starts, retries>>
           \/ \E p \in Proc : CheckAck(p) \/ Flush(p)
<1> USE DEF history, rows
<1>1. ASSUME NEW p \in Proc, Proceed(p), ~CheckAck(p), ~Flush(p)
      PROVE  UNCHANGED <<ack, starts, retries>>
  <2>1. CASE SignalRead(p) \/ SignalWrite(p) \/ TooLate(p) \/ Look(p)
    BY <2>1 DEF SignalRead, SignalWrite, TooLate, Look, Evaluate
  <2>2. CASE CreateTodo(p) \/ PauseRunning(p) \/ InnerRunning(p) \/ ExclusiveError(p) \/ RunError(p)
    BY <2>2 DEF CreateTodo, PauseRunning, InnerRunning, ExclusiveError, RunError, SetStatus
  <2>3. CASE Build(p) \/ Guard(p) \/ Recheck(p) \/ CreateTree(p) \/ CreateFails(p)
    BY <2>3 DEF Build, Guard, Recheck, CreateTree, CreateFails, SetStatus
  <2>4. CASE Launch(p) \/ LaunchFails(p) \/ PostCheck(p) \/ Stop(p) \/ StopFails(p)
    BY <2>4 DEF Launch, LaunchFails, PostCheck, Stop, StopFails, SetStatus
  <2>5. CASE Callback(p) \/ Confirmed(p) \/ DropFlow(p) \/ Halt(p) \/ Cancel(p)
    BY <2>5 DEF Callback, Confirmed, DropFlow, Halt, Cancel, Evaluate, SetStatus
  <2> QED BY <1>1, <2>1, <2>2, <2>3, <2>4, <2>5 DEF Proceed
<1>2. ASSUME NEW p \in Proc, ReadNext(p) \/ \E f \in Flow : Report(p, f) \/ Operate(p, f)
      PROVE  UNCHANGED <<ack, starts, retries>>
  BY <1>2 DEF ReadNext, Report, Operate, View, Remark, Confirm, Refuse, Retry, Revoke, Evaluate
<1>3. ASSUME NEW f \in Flow, EngineFinishes(f) \/ EngineFails(f) \/ RetryNode(f)
      PROVE  UNCHANGED <<ack, starts, retries>>
  BY <1>3 DEF EngineFinishes, EngineFails, EngineEnds, RetryNode
<1>4. CASE UNCHANGED vars
  BY <1>4 DEF vars
<1> QED BY <1>1, <1>2, <1>3, <1>4 DEF Next

LEMMA EntryStep == TypeOK /\ EntryInv /\ [Next]_vars => EntryInv'
<1> SUFFICES ASSUME TypeOK, EntryInv, [Next]_vars PROVE EntryInv'
  OBVIOUS
<1>1. CASE UNCHANGED <<ack, starts, retries>>
  BY <1>1 DEF EntryInv
<1>2. ASSUME NEW p \in Proc, CheckAck(p) PROVE EntryInv'
  <2>1. CASE ack[Mine(p)]
    BY <1>2, <2>1 DEF CheckAck, EntryInv
  <2>2. CASE ~ack[Mine(p)]
    <3>1. /\ ack' = [ack EXCEPT ![Mine(p)] = TRUE]
          /\ starts' = [starts EXCEPT ![Mine(p)] = @ + 1]
          /\ retries' = retries
      BY <1>2, <2>2 DEF CheckAck
    <3> QED BY <2>2, <3>1 DEF EntryInv, TypeOK
  <2> QED BY <2>1, <2>2
<1>3. ASSUME NEW p \in Proc, Flush(p) PROVE EntryInv'
  BY <1>3 DEF Flush, EntryInv, TypeOK
<1> QED BY <1>1, <1>2, <1>3, EntryFrame

\* However many come along with a flow, its body is entered once, and once more
\* for each retry: the check and the mark are one step under the lock of the row.
THEOREM EnteredOnce == Spec => []StartedOnce
<1>1. EntryInv => StartedOnce
  BY DEF EntryInv, StartedOnce
<1> QED BY <1>1, TypeInit, TypeStep, EntryInit, EntryStep, PTL DEF Spec

-----------------------------------------------------------------------------
(* The order of the flows *)

\* Every flow before f has been found finished.
Reached(f) == 1 .. (f - 1) \subseteq ended

Started(f) ==
    \/ status[f] \in {"running", "failed", "succeeded"}
    \/ todo[f] # "none"
    \/ exclusive[f]
    \/ starts[f] > 0

\* Where a process is, or goes on after the signal.
Where(p) == IF proc[p].at \in {"signal", "write"} THEN proc[p].then ELSE proc[p].at

\* Where it is at work on a flow that it may enter, or has entered.
Inside == {"run", "ask", "asked", "begin", "check", "guard", "create", "insert", "launch",
           "post", "stop", "flush"}

OrderInv ==
    /\ \A f \in Flow : Started(f) => Reached(f)
    /\ \A p \in Proc : Where(p) \in Inside => Reached(Mine(p))
    /\ \A p \in Proc : At(p, "look") =>
           \A g \in Flow : g < Mine(p) => status[g] # "pending"

LEMMA OrderInit == Init => OrderInv
<1> SUFFICES ASSUME Init PROVE OrderInv
  OBVIOUS
<1>1. \A f \in Flow : ~Started(f)
  BY DEF Init, Started
<1>2. \A p \in Proc : proc[p].at \in {"idle", "next"}
  BY DEF Init, Free
<1> QED BY <1>1, <1>2 DEF OrderInv, Where, Inside, At

\* A step of p that makes no row look started, moves p as it may, and calls
\* nothing pending.
LEMMA OrderKept ==
    ASSUME TypeOK, OrderInv, NEW p \in Proc,
           ended \subseteq ended',
           \A f \in Flow : Started(f)' => Started(f) \/ Reached(f),
           \A f \in Flow : status'[f] = "pending" => status[f] = "pending",
           \A q \in Proc \ {p} : proc'[q] = proc[q],
           Where(p)' \in Inside => Reached(Mine(p))',
           proc'[p].at # "look"
    PROVE  OrderInv'
<1>1. ASSUME NEW f \in Flow, Started(f)' PROVE Reached(f)'
  <2>1. Reached(f)
    BY <1>1 DEF OrderInv
  <2> QED BY <2>1 DEF Reached
<1>2. ASSUME NEW q \in Proc, Where(q)' \in Inside PROVE Reached(Mine(q))'
  <2>1. CASE q = p
    BY <1>2, <2>1 DEF Mine
  <2>2. CASE q # p
    <3>1. Where(q) \in Inside /\ Mine(q)' = Mine(q)
      BY <1>2, <2>2 DEF Where, Mine
    <3>2. Reached(Mine(q))
      BY <3>1 DEF OrderInv
    <3> QED BY <3>1, <3>2 DEF Reached
  <2> QED BY <2>1, <2>2
<1>3. ASSUME NEW q \in Proc, At(q, "look")', NEW g \in Flow, g < Mine(q)'
      PROVE  status'[g] # "pending"
  <2>1. q # p /\ At(q, "look") /\ Mine(q)' = Mine(q)
    BY <1>3 DEF At, Mine
  <2> QED BY <1>3, <2>1 DEF OrderInv
<1> QED BY <1>1, <1>2, <1>3 DEF OrderInv

\* What an evaluation makes of a flow that has not started.
LEMMA EvaluatedOrder ==
    ASSUME TypeOK, NEW f \in Flow
    PROVE  /\ Evaluated(f) \in {"running", "failed", "succeeded"} => Started(f)
           /\ EvaluatedTodo(f) # "none" => Started(f)
           /\ Evaluated(f) = "pending" => status[f] = "pending"
<1>1. CASE Settled(f)
  BY <1>1 DEF Evaluated, EvaluatedTodo, Started
<1>2. CASE ~Settled(f)
  <2>1. Started(f) /\ status[f] # "pending"
    BY <1>2 DEF Settled, Started
  <2>2. Evaluated(f) # "pending"
    BY <1>2, <2>1 DEF Evaluated, OfTree
  <2> QED BY <2>1, <2>2
<1> QED BY <1>1, <1>2

LEMMA EvaluateOrder ==
    ASSUME TypeOK, OrderInv, NEW p \in Proc, NEW f \in Flow, NEW label \in {"run", "idle", "next"},
           Evaluate(p, f, label), label = "run" => Reached(Mine(p))'
    PROVE  OrderInv'
<1>1. \A g \in Flow : /\ status'[g] = (IF g = f THEN Evaluated(f) ELSE status[g])
                     /\ todo'[g] = (IF g = f THEN EvaluatedTodo(f) ELSE todo[g])
  BY DEF Evaluate, TypeOK
<1>2. \A g \in Flow : Started(g)' => Started(g)
  BY <1>1, EvaluatedOrder DEF Started, Evaluate
<1>3. \A g \in Flow : status'[g] = "pending" => status[g] = "pending"
  BY <1>1, EvaluatedOrder
<1>4. ended \subseteq ended'
  BY DEF Evaluate
<1>5. /\ \A q \in Proc \ {p} : proc'[q] = proc[q]
      /\ proc'[p].at # "look"
      /\ Where(p)' \in Inside => label = "run" /\ proc'[p].flow = Mine(p)
  <2>1. CASE Saved(p, label)
    BY <2>1 DEF Saved, Where, Inside, Mine, TypeOK
  <2>2. CASE Go(p, label) /\ label = "idle"
    BY <2>2 DEF Go, Free, Where, Inside, TypeOK
  <2>3. CASE Go(p, label) /\ label # "idle"
    BY <2>3 DEF Go, Where, Inside, Mine, TypeOK
  <2> QED BY <2>1, <2>2, <2>3 DEF Evaluate
<1>6. Where(p)' \in Inside => Reached(Mine(p))'
  BY <1>5 DEF Mine
<1> QED BY <1>2, <1>3, <1>4, <1>5, <1>6, OrderKept

LEMMA SetStatusOrder ==
    ASSUME TypeOK, OrderInv, NEW p \in Proc, NEW st \in Status \ {"pending"},
           NEW label \in {"idle", "check"}, SetStatus(p, st, label),
           UNCHANGED exclusive \/ exclusive' = [exclusive EXCEPT ![Mine(p)] = TRUE],
           Where(p) \in Inside
    PROVE  OrderInv'
<1>1. Reached(Mine(p)) /\ Mine(p) \in Flow
  BY DEF OrderInv, TypeOK, Process, Mine
<1>2. \A f \in Flow : Started(f)' => Started(f) \/ f = Mine(p)
  BY DEF SetStatus, Started, TypeOK, history
<1>3. \A f \in Flow : status'[f] = "pending" => status[f] = "pending"
  BY DEF SetStatus, TypeOK
<1>4. ended' = ended
  BY DEF SetStatus, history
<1>5. /\ \A q \in Proc \ {p} : proc'[q] = proc[q]
      /\ proc'[p].at # "look"
      /\ Mine(p)' = Mine(p)
  BY DEF SetStatus, Saved, Mine, TypeOK
<1>6. Reached(Mine(p))'
  BY <1>1, <1>4, <1>5 DEF Reached
<1> QED BY <1>1, <1>2, <1>3, <1>4, <1>5, <1>6, OrderKept

\* So does a move of p that makes no row look started.
LEMMA MoveOrder ==
    ASSUME TypeOK, OrderInv, NEW p \in Proc, NEW label \in Label \ {"look", "signal", "write"},
           Go(p, label) \/ \E f \in Flow : GoFor(p, label, f) /\ label \notin Inside,
           UNCHANGED <<status, ended>>,
           \A f \in Flow : Started(f)' => Started(f) \/ Reached(f),
           label \in Inside => Where(p) \in Inside
    PROVE  OrderInv'
<1>1. /\ \A q \in Proc \ {p} : proc'[q] = proc[q]
      /\ proc'[p].at \in {label, "idle"}
      /\ label \in Inside => proc'[p].flow = Mine(p)
  <2>1. CASE Go(p, label) /\ label = "idle"
    BY <2>1 DEF Go, Free, Inside, TypeOK
  <2>2. CASE Go(p, label) /\ label # "idle"
    BY <2>2 DEF Go, Mine, TypeOK, Process
  <2>3. CASE label \notin Inside /\ \E f \in Flow : GoFor(p, label, f)
    <3> PICK f \in Flow : GoFor(p, label, f)
      BY <2>3
    <3>1. proc' = [proc EXCEPT ![p] = [[proc[p] EXCEPT !.at = label] EXCEPT !.flow = f]]
      BY DEF GoFor, TypeOK
    <3>2. proc[p] \in Process
      BY DEF TypeOK
    <3>3. proc'[p].at = label
      BY <3>1, <3>2 DEF TypeOK, Process
    <3> QED BY <2>3, <3>1, <3>3 DEF TypeOK
  <2> QED BY <2>1, <2>2, <2>3
<1>2. Where(p)' \in Inside => label \in Inside
  BY <1>1 DEF Where, Inside
<1>3. label \in Inside => Reached(Mine(p))
  BY DEF OrderInv
<1>4. Where(p)' \in Inside => Reached(Mine(p))'
  BY <1>1, <1>2, <1>3 DEF Reached, Mine
<1> QED BY <1>1, <1>4, OrderKept

LEMMA ReadNextOrder ==
    ASSUME TypeOK, OrderInv, NEW p \in Proc, ReadNext(p)
    PROVE  OrderInv'
<1> USE DEF rows, history
<1>1. \A f \in Flow : Started(f)' <=> Started(f)
  BY DEF ReadNext, Started
<1>2. CASE Pending = {} /\ Go(p, "idle")
  <2>1. ended' = ended /\ status' = status
    BY DEF ReadNext
  <2> QED BY <1>1, <1>2, <2>1, MoveOrder DEF Inside, Label
<1>3. ASSUME NEW f \in Flow, First(f, Pending), GoFor(p, "look", f)
      PROVE  OrderInv'
  <2>1. ASSUME NEW g \in Flow, Started(g)' PROVE Reached(g)'
    BY <1>1, <2>1 DEF OrderInv, Reached, ReadNext
  <2>2. ASSUME NEW q \in Proc, Where(q)' \in Inside PROVE Reached(Mine(q))'
    <3>1. q # p /\ Where(q) \in Inside /\ Mine(q)' = Mine(q)
      BY <1>3, <2>2 DEF GoFor, Where, Inside, Mine, TypeOK
    <3> QED BY <3>1 DEF OrderInv, Reached, ReadNext
  <2>3. ASSUME NEW q \in Proc, At(q, "look")', NEW g \in Flow, g < Mine(q)'
        PROVE  status'[g] # "pending"
    <3>1. status' = status
      BY DEF ReadNext
    <3>2. CASE q = p
      <4>1. Mine(q)' = f
        BY <1>3, <3>2 DEF GoFor, Mine, TypeOK
      <4> QED BY <1>3, <2>3, <3>1, <4>1 DEF First, Pending, Flow
    <3>3. CASE q # p
      BY <1>3, <2>3, <3>1, <3>3 DEF OrderInv, GoFor, At, Mine, TypeOK
    <3> QED BY <3>2, <3>3
  <2> QED BY <2>1, <2>2, <2>3 DEF OrderInv
<1> QED BY <1>2, <1>3 DEF ReadNext

LEMMA SignalOrder ==
    ASSUME TypeOK, OrderInv, NEW p \in Proc, SignalRead(p) \/ SignalWrite(p)
    PROVE  OrderInv'
<1> USE DEF rows, history
<1>1. CASE SignalRead(p)
  <2>1. \A f \in Flow : Started(f)' => Started(f)
    BY <1>1, EvaluatedOrder DEF SignalRead, Started
  <2>2. \A f \in Flow : status'[f] = "pending" => status[f] = "pending"
    BY <1>1, EvaluatedOrder DEF SignalRead
  <2>3. /\ \A q \in Proc \ {p} : proc'[q] = proc[q]
        /\ proc'[p].at = "write"
        /\ Where(p)' = Where(p) /\ Mine(p)' = Mine(p)
    BY <1>1 DEF SignalRead, At, Where, Mine, TypeOK
  <2>4. Where(p)' \in Inside => Reached(Mine(p))'
    BY <1>1, <2>3 DEF OrderInv, Reached, SignalRead
  <2> QED BY <1>1, <2>1, <2>2, <2>3, <2>4, OrderKept DEF SignalRead
<1>2. CASE SignalWrite(p)
  <2>1. /\ \A f \in Flow : Started(f)' <=> Started(f)
        /\ status' = status /\ ended' = ended
    BY <1>2 DEF SignalWrite, Started
  <2>2. /\ \A q \in Proc \ {p} : proc'[q] = proc[q]
        /\ proc'[p] = [Free EXCEPT !.at = proc[p].then,
                            !.flow = IF proc[p].then = "idle" THEN 1 ELSE Mine(p)]
    BY <1>2 DEF SignalWrite, TypeOK
  <2>3. Where(p)' \in Inside => Where(p) \in Inside /\ Mine(p)' = Mine(p)
    BY <1>2, <2>2 DEF SignalWrite, At, Where, Inside, Mine, Free
  <2>4. Where(p)' \in Inside => Reached(Mine(p))'
    BY <2>1, <2>3 DEF OrderInv, Reached
  <2>5. proc'[p].at # "look"
    BY <2>2 DEF Free, TypeOK, Process, AfterSave
  <2> QED BY <2>1, <2>2, <2>4, <2>5, OrderKept
<1> QED BY <1>1, <1>2

LEMMA LookOrder ==
    ASSUME TypeOK, OrderInv, NEW p \in Proc, Look(p)
    PROVE  OrderInv'
<1> PICK c \in Flow :
      /\ IsCurrent(c)
      /\ Mine(p) = 1 \/ c < Mine(p)
      /\ Evaluate(p, c, IF Mine(p) = 1 \/ Evaluated(c) = "succeeded" THEN "run" ELSE "idle")
  BY DEF Look
<1>1. Mine(p) \in Flow /\ Mine(p) \in Int /\ c \in Int
  BY DEF TypeOK, Process, Mine, Flow
<1>2. CASE Mine(p) = 1
  <2>1. Evaluate(p, c, "run")
    BY <1>2
  <2>2. proc'[p].flow = proc[p].flow
    BY <2>1 DEF Evaluate, Go, Saved, TypeOK, Process
  <2>3. Reached(Mine(p))'
    BY <1>2, <2>2 DEF Reached, Mine
  <2> QED BY <2>1, <2>3, EvaluateOrder
<1>3. CASE Mine(p) # 1 /\ Evaluated(c) = "succeeded"
  <2>1. Evaluate(p, c, "run")
    BY <1>3
  <2>2. proc'[p].flow = proc[p].flow
    BY <2>1 DEF Evaluate, Go, Saved, TypeOK, Process
  <2>3. ended' = ended \cup {c}
    BY <1>3 DEF Evaluate
  <2>4. Reached(c)
    BY <1>3 DEF Evaluated, Settled, OrderInv, Started
  <2>5. At(p, "look")
    BY DEF Look
  <2>6. \A g \in Flow : g < Mine(p) => g =< c
    <3> SUFFICES ASSUME NEW g \in Flow, g < Mine(p) PROVE g =< c
      OBVIOUS
    <3>1. g \in Flow \ Pending
      BY <2>5 DEF OrderInv, Pending
    <3>2. Pending # Flow
      BY <3>1
    <3> QED BY <3>1, <3>2 DEF IsCurrent, Last
  <2>7. \A g \in 1 .. (Mine(p) - 1) : g \in 1 .. (c - 1) \/ g = c
    BY <1>1, <2>6, TicketAssumption DEF Flow
  <2>8. Reached(Mine(p))'
    BY <2>2, <2>3, <2>4, <2>7 DEF Reached, Mine
  <2> QED BY <2>1, <2>8, EvaluateOrder
<1>4. CASE Mine(p) # 1 /\ Evaluated(c) # "succeeded"
  BY <1>4, EvaluateOrder
<1> QED BY <1>2, <1>3, <1>4

LEMMA CheckAckOrder ==
    ASSUME TypeOK, OrderInv, NEW p \in Proc, CheckAck(p)
    PROVE  OrderInv'
<1> USE DEF rows, history
<1>1. Mine(p) \in Flow /\ Reached(Mine(p))
  BY DEF CheckAck, At, OrderInv, Where, Inside, TypeOK, Process, Mine
<1>2. CASE ack[Mine(p)]
  <2>1. Go(p, "idle") /\ \A f \in Flow : Started(f)' <=> Started(f)
    BY <1>2 DEF CheckAck, Started
  <2>2. UNCHANGED <<status, ended>>
    BY DEF CheckAck
  <2> QED BY <2>1, <2>2, MoveOrder DEF Inside, Label
<1>3. CASE ~ack[Mine(p)]
  <2>1. starts' = [starts EXCEPT ![Mine(p)] = @ + 1]
    BY <1>3 DEF CheckAck
  <2>2. UNCHANGED <<status, todo, exclusive, ended>>
    BY DEF CheckAck
  <2>3. \A f \in Flow : Started(f)' => Started(f) \/ f = Mine(p)
    BY <2>1, <2>2 DEF Started, TypeOK
  <2>4. Saved(p, IF Kind[Mine(p)] = "pause" THEN "ask" ELSE "begin")
    BY <1>3 DEF CheckAck
  <2>5. /\ \A q \in Proc \ {p} : proc'[q] = proc[q]
        /\ proc'[p].at # "look"
        /\ Mine(p)' = Mine(p)
    BY <2>4 DEF Saved, Mine, TypeOK, Process
  <2>6. Reached(Mine(p))'
    BY <1>1, <2>2, <2>5 DEF Reached
  <2> QED BY <1>1, <2>2, <2>3, <2>5, <2>6, OrderKept
<1> QED BY <1>2, <1>3

LEMMA FlushOrder ==
    ASSUME TypeOK, OrderInv, NEW p \in Proc, Flush(p)
    PROVE  OrderInv'
<1>1. Mine(p) \in Flow /\ Reached(Mine(p))
  BY DEF Flush, At, OrderInv, Where, Inside, TypeOK, Process, Mine
<1>2. \A f \in Flow : Started(f)' => Started(f) \/ f = Mine(p)
  BY DEF Flush, Started, TypeOK
<1>3. \A f \in Flow : status'[f] = "pending" => status[f] = "pending"
  BY DEF Flush, TypeOK
<1>4. /\ \A q \in Proc \ {p} : proc'[q] = proc[q]
      /\ proc'[p].at # "look"
      /\ Mine(p)' = Mine(p)
  BY DEF Flush, Saved, Mine, TypeOK, Process
<1>5. ended' = ended
  BY DEF Flush
<1>6. Reached(Mine(p))'
  BY <1>1, <1>4, <1>5 DEF Reached
<1> QED BY <1>1, <1>2, <1>3, <1>4, <1>5, <1>6, OrderKept

LEMMA RevokeOrder ==
    ASSUME TypeOK, OrderInv, NEW p \in Proc, NEW f \in Flow, Revoke(p, f)
    PROVE  OrderInv'
<1>1. \A g \in Flow : Started(g)' => Started(g)
  BY DEF Revoke, Started, TypeOK, history
<1>2. \A g \in Flow : status'[g] = "pending" => status[g] = "pending"
  BY DEF Revoke, TypeOK
<1>3. proc' = [proc EXCEPT ![p] = [[[proc[p] EXCEPT !.at = "signal"] EXCEPT !.flow = f]
                                     EXCEPT !.then = "halt"]]
  BY DEF Revoke, TypeOK
<1>4. proc[p] \in Process
  BY DEF TypeOK
<1>5. proc'[p].at = "signal" /\ proc'[p].then = "halt"
  BY <1>3, <1>4 DEF TypeOK, Process
<1>6. /\ \A q \in Proc \ {p} : proc'[q] = proc[q]
      /\ proc'[p].at # "look"
      /\ Where(p)' \notin Inside
  BY <1>3, <1>5 DEF TypeOK, Where, Inside
<1>7. ended' = ended
  BY DEF Revoke, history
<1> QED BY <1>1, <1>2, <1>6, <1>7, OrderKept

\* The steps that move their process and change no more than todos, FlowTrees
\* and the engine.
LEMMA MovesOrder ==
    ASSUME TypeOK, OrderInv, NEW p \in Proc, NEW f \in Flow,
           \/ TooLate(p) \/ CreateTodo(p) \/ Build(p) \/ Guard(p) \/ Recheck(p)
           \/ CreateTree(p) \/ Launch(p) \/ PostCheck(p) \/ Stop(p) \/ Halt(p)
           \/ Cancel(p) \/ Report(p, f) \/ Remark(p, f) \/ Confirm(p, f)
           \/ Confirmed(p) \/ Refuse(p, f)
    PROVE  OrderInv'
<1> USE DEF rows, history
<1>1. ASSUME UNCHANGED <<status, todo, exclusive, starts, ended>>,
             NEW label \in {"idle", "guard", "create", "insert", "launch", "post", "stop"},
             Go(p, label), label = "idle" \/ Where(p) \in Inside
      PROVE  OrderInv'
  <2>1. \A g \in Flow : Started(g)' <=> Started(g)
    BY <1>1 DEF Started
  <2>2. label \in Label \ {"look", "signal", "write"} /\ "idle" \notin Inside
    BY DEF Label, Inside
  <2> QED BY <1>1, <2>1, <2>2, MoveOrder
<1>2. CASE TooLate(p) \/ Build(p)
  BY <1>1, <1>2 DEF TooLate, Build, At, Where, Inside
<1>3. CASE Guard(p) \/ Recheck(p)
  BY <1>1, <1>3 DEF Guard, Recheck, At, Where, Inside
<1>4. CASE CreateTree(p) \/ Launch(p)
  BY <1>1, <1>4 DEF CreateTree, Launch, At, Where, Inside
<1>5. CASE PostCheck(p) \/ Stop(p) \/ Cancel(p)
  BY <1>1, <1>5 DEF PostCheck, Stop, Cancel, At, Where, Inside
<1>6. CASE CreateTodo(p)
  <2>1. Where(p) \in Inside /\ Mine(p) \in Flow
    BY <1>6 DEF CreateTodo, At, Where, Inside, TypeOK, Process, Mine
  <2>2. \A g \in Flow : Started(g)' => Started(g) \/ g = Mine(p)
    BY <1>6 DEF CreateTodo, Started, TypeOK
  <2>3. Reached(Mine(p))
    BY <2>1 DEF OrderInv
  <2>4. \A g \in Flow : Started(g)' => Started(g) \/ Reached(g)
    BY <2>2, <2>3
  <2>5. UNCHANGED <<status, ended>> /\ Go(p, "asked")
    BY <1>6 DEF CreateTodo
  <2>6. "asked" \in Label \ {"look", "signal", "write"}
    BY DEF Label
  <2> QED BY <2>1, <2>4, <2>5, <2>6, MoveOrder
<1>7. ASSUME NEW g \in Flow, todo[g] # "none", NEW st, todo' = [todo EXCEPT ![g] = st],
             UNCHANGED <<status, exclusive, starts, ended>>,
             NEW label \in {"cancel", "confirmed", "drop", "idle"},
             Go(p, label) \/ GoFor(p, label, f)
      PROVE  OrderInv'
  <2>1. \A h \in Flow : Started(h)' => Started(h)
    BY <1>7 DEF Started, TypeOK
  <2>2. label \in Label \ {"look", "signal", "write"} /\ label \notin Inside
    BY DEF Label, Inside
  <2> QED BY <1>7, <2>1, <2>2, MoveOrder
<1>8. CASE Halt(p)
  <2>1. Mine(p) \in Flow
    BY DEF TypeOK, Process, Mine
  <2>2. CASE todo[Mine(p)] = "todo"
    BY <1>7, <1>8, <2>1, <2>2 DEF Halt
  <2>3. CASE todo[Mine(p)] # "todo"
    <3>1. todo' = todo
      BY <1>8, <2>3 DEF Halt, TypeOK
    <3>2. \A h \in Flow : Started(h)' <=> Started(h)
      BY <1>8, <3>1 DEF Halt, Started
    <3>3. PICK label \in {"idle", "cancel"} : Go(p, label)
      BY <1>8 DEF Halt
    <3>4. label \in Label \ {"look", "signal", "write"} /\ label \notin Inside
      BY DEF Label, Inside
    <3>5. UNCHANGED <<status, ended>>
      BY <1>8 DEF Halt
    <3> QED BY <3>2, <3>3, <3>4, <3>5, MoveOrder
  <2> QED BY <2>2, <2>3
<1>9. CASE Report(p, f)
  <2>1. \A h \in Flow : Started(h)' <=> Started(h)
    BY <1>9 DEF Report, Started
  <2>2. UNCHANGED <<status, ended>> /\ GoFor(p, "callback", f)
    BY <1>9 DEF Report
  <2>3. "callback" \in Label \ {"look", "signal", "write"} /\ "callback" \notin Inside
    BY DEF Label, Inside
  <2> QED BY <2>1, <2>2, <2>3, MoveOrder
<1>10. CASE Confirm(p, f) \/ Refuse(p, f)
  BY <1>7, <1>10 DEF Confirm, Refuse
<1>11. CASE Confirmed(p)
  <2>1. \A h \in Flow : Started(h)' <=> Started(h)
    BY <1>11 DEF Confirmed, Started
  <2>2. PICK label \in {"idle", "next"} : Go(p, label)
    BY <1>11 DEF Confirmed
  <2>3. label \in Label \ {"look", "signal", "write"} /\ label \notin Inside
    BY DEF Label, Inside
  <2>4. UNCHANGED <<status, ended>>
    BY <1>11 DEF Confirmed
  <2> QED BY <2>1, <2>2, <2>3, <2>4, MoveOrder
<1>12. CASE Remark(p, f)
  <2>1. UNCHANGED <<status, ended>> /\ \A h \in Flow : Started(h)' <=> Started(h)
    BY <1>12 DEF Remark, Started
  <2>2. /\ \A q \in Proc \ {p} : proc'[q] = proc[q]
        /\ proc'[p].at = "signal" /\ proc'[p].then = "idle"
    BY <1>12 DEF Remark, Saved, TypeOK, Process
  <2>3. proc'[p].at # "look" /\ Where(p)' \notin Inside
    BY <2>2 DEF Where, Inside
  <2> QED BY <2>1, <2>2, <2>3, OrderKept
<1> QED BY <1>2, <1>3, <1>4, <1>5, <1>6, <1>8, <1>9, <1>10, <1>11, <1>12

\* A flow is taken up again only if it has started.
LEMMA RetryOrder ==
    ASSUME TypeOK, OrderInv, NEW p \in Proc, NEW f \in Flow, Retry(p, f)
    PROVE  OrderInv'
<1>1. \A g \in Flow : Started(g)' <=> Started(g)
  BY DEF Retry, Started, rows, history
<1>2. Reached(f)
  BY DEF Retry, OrderInv, Started
<1>3. proc' = [proc EXCEPT ![p] = [[proc[p] EXCEPT !.at = "flush"] EXCEPT !.flow = f]]
  BY DEF Retry, GoFor, TypeOK
<1>4. proc[p] \in Process
  BY DEF TypeOK
<1>5. /\ \A q \in Proc \ {p} : proc'[q] = proc[q]
      /\ proc'[p].at = "flush"
      /\ proc'[p].flow = f
  BY <1>3, <1>4 DEF TypeOK, Process
<1>6. UNCHANGED <<status, ended>>
  BY DEF Retry, rows, history
<1>7. Reached(Mine(p))'
  BY <1>2, <1>5, <1>6 DEF Reached, Mine
<1> QED BY <1>1, <1>5, <1>6, <1>7, OrderKept

LEMMA OrderStep == TypeOK /\ OrderInv /\ [Next]_vars => OrderInv'
<1> SUFFICES ASSUME TypeOK, OrderInv, [Next]_vars PROVE OrderInv'
  OBVIOUS
<1>1. CASE UNCHANGED vars
  BY <1>1 DEF vars, rows, history, OrderInv, Started, Reached, Where, Mine, At
<1>2. ASSUME NEW p \in Proc, Proceed(p) PROVE OrderInv'
  <2>1. CASE SignalRead(p) \/ SignalWrite(p)
    BY <2>1, SignalOrder
  <2>2. CASE Look(p) \/ CheckAck(p) \/ Flush(p)
    BY <2>2, LookOrder, CheckAckOrder, FlushOrder
  <2>3. CASE Callback(p)
    BY <2>3, EvaluateOrder DEF Callback
  <2>4. ASSUME NEW st \in Status \ {"pending"}, NEW label \in {"idle", "check"},
               SetStatus(p, st, label), Where(p) \in Inside,
               UNCHANGED exclusive \/ exclusive' = [exclusive EXCEPT ![Mine(p)] = TRUE]
        PROVE  OrderInv'
    BY <2>4, SetStatusOrder
  <2>5. CASE PauseRunning(p) \/ InnerRunning(p) \/ ExclusiveError(p)
    BY <2>4, <2>5 DEF PauseRunning, InnerRunning, ExclusiveError, Status, At, Where, Inside
  <2>6. CASE RunError(p) \/ CreateFails(p) \/ LaunchFails(p) \/ StopFails(p)
    BY <2>4, <2>6 DEF RunError, CreateFails, LaunchFails, StopFails, Status, At, Where, Inside
  <2>7. CASE DropFlow(p)
    <3>1. \A f \in Flow : Started(f)' => Started(f)
      BY <2>7 DEF DropFlow, SetStatus, Started, TypeOK, history
    <3>2. \A f \in Flow : status'[f] = "pending" => status[f] = "pending"
      BY <2>7 DEF DropFlow, SetStatus, TypeOK
    <3>3. /\ \A q \in Proc \ {p} : proc'[q] = proc[q]
          /\ proc'[p].at = "signal" /\ proc'[p].then = "idle"
      BY <2>7 DEF DropFlow, SetStatus, Saved, TypeOK, Process
    <3>4. proc'[p].at # "look" /\ Where(p)' \notin Inside
      BY <3>3 DEF Where, Inside
    <3>5. ended' = ended
      BY <2>7 DEF DropFlow, SetStatus, history
    <3> QED BY <3>1, <3>2, <3>3, <3>4, <3>5, OrderKept
  <2>8. CASE \/ TooLate(p) \/ CreateTodo(p) \/ Build(p) \/ Guard(p) \/ Recheck(p)
             \/ CreateTree(p) \/ Launch(p) \/ PostCheck(p) \/ Stop(p) \/ Halt(p) \/ Cancel(p)
             \/ Confirmed(p)
    <3>1. 1 \in Flow
      BY TicketAssumption DEF Flow
    <3> QED BY <2>8, <3>1, MovesOrder
  <2> QED BY <1>2, <2>1, <2>2, <2>3, <2>5, <2>6, <2>7, <2>8 DEF Proceed
<1>3. ASSUME NEW p \in Proc, ReadNext(p) PROVE OrderInv'
  BY <1>3, ReadNextOrder
<1>4. ASSUME NEW p \in Proc, NEW f \in Flow, Report(p, f) \/ Operate(p, f) PROVE OrderInv'
  BY <1>4, MovesOrder, RetryOrder, RevokeOrder, EvaluateOrder DEF Operate, View
<1>5. ASSUME NEW f \in Flow, EngineFinishes(f) \/ EngineFails(f) \/ RetryNode(f)
      PROVE  OrderInv'
  <2>1. UNCHANGED <<status, todo, exclusive, starts, ended, proc>>
    BY <1>5 DEF EngineFinishes, EngineFails, EngineEnds, RetryNode, rows, history
  <2> QED BY <2>1 DEF OrderInv, Started, Reached, Where, Mine, At
<1> QED BY <1>1, <1>2, <1>3, <1>4, <1>5 DEF Next

\* No flow is entered before every flow in front of it has been found finished,
\* although the next flow and the current one are read one after the other.
THEOREM EnteredInOrder == Spec => []InOrder
<1>1. TypeOK /\ OrderInv => InOrder
  BY DEF OrderInv, InOrder, Started, Reached
<1> QED BY <1>1, TypeInit, TypeStep, OrderInit, OrderStep, PTL DEF Spec

-----------------------------------------------------------------------------
(* Pause flows *)

\* The labels of the run of an inner flow.
Pipeline == {"begin", "check", "guard", "create", "insert", "launch", "post", "stop", "flush"}

Asked(f) == f \in Terminable \/ todo[f] \in {"todo", "done"}

\* A process is where the kind of its flow takes it.  Whoever is about to ask
\* is the first to do so; whoever is about to say that the flow runs has asked.
Placed(p) ==
    /\ Where(p) \in Pipeline => Kind[Mine(p)] = "inner"
    /\ Where(p) = "halt" => Mine(p) \in Terminable
    /\ Where(p) = "ask" => /\ Kind[Mine(p)] = "pause"
                           /\ ack[Mine(p)]
                           /\ todo[Mine(p)] = "none"
    /\ Where(p) = "asked" => Kind[Mine(p)] = "pause" /\ Asked(Mine(p))

Alone(p, q) == Where(p) = "ask" /\ Where(q) = "ask" /\ Mine(p) = Mine(q) => p = q

\* A pause that is found running has been asked for, one that is found finished
\* has been confirmed.
FlowInv(f) ==
    /\ exclusive[f] => Kind[f] = "inner"
    /\ Kind[f] = "pause" /\ ~ack[f] => todo[f] = "none"
    /\ Kind[f] = "pause" /\ status[f] \in {"running", "failed"} => Asked(f)
    /\ status[f] = "succeeded" => f \in ended
    /\ Kind[f] = "pause" /\ f \in ended => f \in Terminable \/ todo[f] = "done"

PauseInv ==
    /\ \A f \in Flow : FlowInv(f)
    /\ \A p \in Proc : Placed(p)
    /\ \A p, q \in Proc : Alone(p, q)

LEMMA PauseInit == Init => PauseInv
<1> SUFFICES ASSUME Init PROVE PauseInv
  OBVIOUS
<1>1. \A f \in Flow : FlowInv(f)
  BY DEF Init, FlowInv
<1>2. \A p \in Proc : Where(p) \in {"idle", "next"}
  BY DEF Init, Free, Where
<1> QED BY <1>1, <1>2 DEF PauseInv, Placed, Alone, Pipeline

\* What a todo of a pause flow may do in a step.
TodoMoves(f) ==
    \/ todo'[f] = todo[f]
    \/ todo[f] = "todo" /\ todo'[f] = "done"
    \/ f \in Terminable /\ todo[f] # "none" /\ todo'[f] # "none"

\* A step of p that starts no asking, and does with the rows of pause flows
\* what it may.
LEMMA PauseKept ==
    ASSUME TypeOK, PauseInv, NEW p \in Proc,
           \A q \in Proc \ {p} : proc'[q] = proc[q],
           Placed(p)',
           Where(p)' # "ask" \/ (Where(p) = "ask" /\ Mine(p)' = Mine(p)),
           ended \subseteq ended',
           \A f \in Flow :
               /\ exclusive'[f] => exclusive[f] \/ Kind[f] = "inner"
               /\ status'[f] = "succeeded" => f \in ended'
               /\ Kind[f] = "pause" =>
                    /\ TodoMoves(f)
                    /\ ack'[f] = ack[f]
                    /\ status'[f] \in {"running", "failed"} =>
                           status[f] \in {"running", "failed"} \/ Asked(f)
                    /\ f \in ended' => f \in ended \/ f \in Terminable \/ todo'[f] = "done"
    PROVE  PauseInv'
<1>1. ASSUME NEW f \in Flow, Kind[f] = "pause", Asked(f) PROVE Asked(f)'
  BY <1>1 DEF Asked, TodoMoves
<1>2. ASSUME NEW f \in Flow PROVE FlowInv(f)'
  <2>1. FlowInv(f)
    BY DEF PauseInv
  <2> QED BY <1>1, <2>1 DEF FlowInv, TodoMoves
<1>3. ASSUME NEW q \in Proc PROVE Placed(q)'
  <2>1. CASE q = p
    BY <2>1
  <2>2. CASE q # p
    <3>1. Placed(q) /\ Where(q)' = Where(q) /\ Mine(q)' = Mine(q) /\ Mine(q) \in Flow
      BY <2>2 DEF PauseInv, Where, Mine, TypeOK, Process
    <3>2. CASE Where(q) = "ask"
      <4>1. todo'[Mine(q)] = "none" /\ ack'[Mine(q)]
        BY <3>1, <3>2 DEF Placed, TodoMoves
      <4> QED BY <3>1, <3>2, <4>1 DEF Placed, Pipeline
    <3>3. CASE Where(q) # "ask"
      BY <1>1, <3>1, <3>3 DEF Placed
    <3> QED BY <3>2, <3>3
  <2> QED BY <2>1, <2>2
<1>4. ASSUME NEW q \in Proc, NEW r \in Proc PROVE Alone(q, r)'
  <2>1. Alone(q, r)
    BY DEF PauseInv
  <2>2. \A s \in Proc : Where(s)' = "ask" => Where(s) = "ask" /\ Mine(s)' = Mine(s)
    BY DEF Where, Mine
  <2> QED BY <2>1, <2>2 DEF Alone
<1> QED BY <1>2, <1>3, <1>4 DEF PauseInv

\* Where a move or a save takes a process.
LEMMA GoWhere ==
    ASSUME TypeOK, NEW p \in Proc, NEW label \in Label \ {"signal", "write"},
           Go(p, label) \/ Saved(p, label)
    PROVE  /\ \A q \in Proc \ {p} : proc'[q] = proc[q]
           /\ Where(p)' = label
           /\ label # "idle" => Mine(p)' = Mine(p)
<1>1. proc[p] \in Process
  BY DEF TypeOK
<1>2. CASE Saved(p, label)
  BY <1>1, <1>2 DEF Saved, Where, Mine, TypeOK, Process
<1>3. CASE Go(p, label) /\ label = "idle"
  BY <1>3 DEF Go, Free, Where, TypeOK
<1>4. CASE Go(p, label) /\ label # "idle"
  <2>1. proc' = [proc EXCEPT ![p] = [proc[p] EXCEPT !.at = label]]
    BY <1>4 DEF Go, TypeOK
  <2>2. proc'[p].at = label /\ proc'[p].flow = proc[p].flow
    BY <1>1, <2>1 DEF TypeOK, Process
  <2> QED BY <2>1, <2>2 DEF Where, Mine, TypeOK
<1> QED BY <1>2, <1>3, <1>4

LEMMA GoForWhere ==
    ASSUME TypeOK, NEW p \in Proc, NEW label \in Label \ {"signal", "write"}, NEW f \in Flow,
           GoFor(p, label, f)
    PROVE  /\ \A q \in Proc \ {p} : proc'[q] = proc[q]
           /\ Where(p)' = label
           /\ Mine(p)' = f
<1>1. proc' = [proc EXCEPT ![p] = [[proc[p] EXCEPT !.at = label] EXCEPT !.flow = f]]
  BY DEF GoFor, TypeOK
<1>2. proc[p] \in Process
  BY DEF TypeOK
<1>3. proc'[p].at = label /\ proc'[p].flow = f
  BY <1>1, <1>2 DEF TypeOK, Process
<1> QED BY <1>1, <1>3 DEF Where, Mine, TypeOK

\* A step that leaves the statuses alone.
LEMMA QuietPause ==
    ASSUME TypeOK, PauseInv, NEW p \in Proc, NEW f \in Flow,
           NEW label \in Label \ {"signal", "write", "ask", "asked"},
           Go(p, label) \/ Saved(p, label) \/ (GoFor(p, label, f) /\ label \notin Pipeline),
           label \in Pipeline => Kind[Mine(p)] = "inner",
           label = "halt" => Go(p, label) /\ Mine(p) \in Terminable,
           UNCHANGED <<status, exclusive, ack, ended>>,
           \A g \in Flow : Kind[g] = "pause" => TodoMoves(g)
    PROVE  PauseInv'
<1>1. /\ \A q \in Proc \ {p} : proc'[q] = proc[q]
      /\ Where(p)' = label
      /\ label \in Pipeline \cup {"halt"} => Mine(p)' = Mine(p)
  <2>1. CASE Go(p, label) \/ Saved(p, label)
    BY <2>1, GoWhere DEF Pipeline
  <2>2. CASE GoFor(p, label, f) /\ label \notin Pipeline
    <3>1. label # "halt" \/ Go(p, label)
      OBVIOUS
    <3> QED BY <2>2, <3>1, GoWhere, GoForWhere DEF Pipeline
  <2> QED BY <2>1, <2>2
<1>2. Placed(p)'
  BY <1>1 DEF Placed
<1>3. \A g \in Flow : status'[g] = "succeeded" => g \in ended'
  BY DEF PauseInv, FlowInv
<1> QED BY <1>1, <1>2, <1>3, PauseKept

\* Evaluations: a pause flow is found finished only if no todo is left.
LEMMA EvaluatedPause ==
    ASSUME TypeOK, PauseInv, NEW f \in Flow
    PROVE  /\ Kind[f] = "pause" => EvaluatedTodo(f) = todo[f]
           /\ Evaluated(f) \in {"running", "failed"} => status[f] \in {"running", "failed"}
           /\ Kind[f] = "pause" /\ Evaluated(f) = "succeeded" =>
                  f \in ended \/ f \in Terminable \/ todo[f] = "done"
           /\ Settled(f) /\ Evaluated(f) = "succeeded" => f \in ended
<1>1. Kind[f] = "pause" => EvaluatedTodo(f) = todo[f]
  BY DEF EvaluatedTodo
<1>2. FlowInv(f)
  BY DEF PauseInv
<1>3. CASE Settled(f)
  BY <1>1, <1>2, <1>3 DEF Evaluated, FlowInv, Settled
<1>4. CASE ~Settled(f)
  <2>1. status[f] \in {"running", "failed"}
    BY <1>4 DEF Settled
  <2>2. Kind[f] = "pause" /\ Evaluated(f) = "succeeded" => todo[f] # "todo"
    BY <1>4 DEF Evaluated, Unfinished
  <2> QED BY <1>1, <1>2, <1>4, <2>1, <2>2 DEF FlowInv, Asked
<1> QED BY <1>3, <1>4

LEMMA EvaluatePause ==
    ASSUME TypeOK, PauseInv, NEW p \in Proc, NEW f \in Flow, NEW label \in {"run", "idle", "next"},
           Evaluate(p, f, label)
    PROVE  PauseInv'
<1>1. \A g \in Flow : /\ status'[g] = (IF g = f THEN Evaluated(f) ELSE status[g])
                     /\ todo'[g] = (IF g = f THEN EvaluatedTodo(f) ELSE todo[g])
  BY DEF Evaluate, TypeOK
<1>2. /\ ended' = IF Evaluated(f) = "succeeded" THEN ended \cup {f} ELSE ended
      /\ UNCHANGED <<exclusive, ack>>
  BY DEF Evaluate
<1>3. Where(p)' = label /\ \A q \in Proc \ {p} : proc'[q] = proc[q]
  BY GoWhere DEF Evaluate, Label
<1>4. Placed(p)'
  BY <1>3 DEF Placed, Pipeline
<1>5. ASSUME NEW g \in Flow
      PROVE  /\ status'[g] = "succeeded" => g \in ended'
             /\ Kind[g] = "pause" =>
                  /\ TodoMoves(g)
                  /\ status'[g] \in {"running", "failed"} =>
                         status[g] \in {"running", "failed"} \/ Asked(g)
                  /\ g \in ended' => g \in ended \/ g \in Terminable \/ todo'[g] = "done"
  <2>1. CASE g = f
    BY <1>1, <1>2, <2>1, EvaluatedPause DEF TodoMoves
  <2>2. CASE g # f
    BY <1>1, <1>2, <2>2 DEF TodoMoves, PauseInv, FlowInv
  <2> QED BY <2>1, <2>2
<1> QED BY <1>2, <1>3, <1>4, <1>5, PauseKept

LEMMA SignalPause ==
    ASSUME TypeOK, PauseInv, NEW p \in Proc, SignalRead(p) \/ SignalWrite(p)
    PROVE  PauseInv'
<1> USE DEF rows, history
<1>1. CASE SignalRead(p)
  <2>1. /\ \A q \in Proc \ {p} : proc'[q] = proc[q]
        /\ Where(p)' = Where(p) /\ Mine(p)' = Mine(p) /\ Mine(p) \in Flow
    BY <1>1 DEF SignalRead, At, Where, Mine, TypeOK, Process
  <2>2. ASSUME NEW g \in Flow
        PROVE  /\ status'[g] = "succeeded" => g \in ended'
               /\ Kind[g] = "pause" =>
                    /\ TodoMoves(g)
                    /\ status'[g] \in {"running", "failed"} =>
                           status[g] \in {"running", "failed"} \/ Asked(g)
                    /\ g \in ended' => g \in ended \/ g \in Terminable \/ todo'[g] = "done"
    BY <1>1, EvaluatedPause DEF SignalRead, TodoMoves
  <2>3. UNCHANGED <<exclusive, ack>> /\ ended \subseteq ended'
    BY <1>1 DEF SignalRead
  <2>4. Placed(p)'
    <3>1. Placed(p)
      BY DEF PauseInv
    <3>2. Kind[Mine(p)] = "pause" => todo'[Mine(p)] = todo[Mine(p)]
      BY <1>1, <2>1, EvaluatedPause DEF SignalRead
    <3> QED BY <2>1, <2>3, <3>1, <3>2 DEF Placed, Asked
  <2> QED BY <2>1, <2>2, <2>3, <2>4, PauseKept
<1>2. CASE SignalWrite(p)
  <2>1. UNCHANGED <<status, exclusive, ack, todo, ended>>
    BY <1>2 DEF SignalWrite
  <2>2. /\ \A q \in Proc \ {p} : proc'[q] = proc[q]
        /\ proc'[p] = [Free EXCEPT !.at = proc[p].then,
                            !.flow = IF proc[p].then = "idle" THEN 1 ELSE Mine(p)]
    BY <1>2 DEF SignalWrite, TypeOK
  <2>3. proc[p].then \in AfterSave
    BY DEF TypeOK, Process
  <2>4. /\ Where(p)' = Where(p)
        /\ Where(p) # "idle" => Mine(p)' = Mine(p)
    BY <1>2, <2>2, <2>3 DEF SignalWrite, At, Where, Mine, Free, AfterSave
  <2>5. Placed(p)'
    BY <2>1, <2>4 DEF PauseInv, Placed, Asked, Pipeline
  <2>6. \A g \in Flow :
           /\ exclusive'[g] => exclusive[g] \/ Kind[g] = "inner"
           /\ status'[g] = "succeeded" => g \in ended'
           /\ Kind[g] = "pause" =>
                /\ TodoMoves(g)
                /\ ack'[g] = ack[g]
                /\ status'[g] \in {"running", "failed"} =>
                       status[g] \in {"running", "failed"} \/ Asked(g)
                /\ g \in ended' => g \in ended \/ g \in Terminable \/ todo'[g] = "done"
    BY <2>1 DEF TodoMoves, PauseInv, FlowInv
  <2>7. ended \subseteq ended'
    BY <2>1
  <2>8. \A q \in Proc \ {p} : proc'[q] = proc[q]
    BY <2>2
  <2>9. Where(p)' # "ask" \/ (Where(p) = "ask" /\ Mine(p)' = Mine(p))
    BY <2>4
  <2> HIDE DEF rows, history
  <2> QED BY <2>5, <2>6, <2>7, <2>8, <2>9, PauseKept
<1> QED BY <1>1, <1>2

\* A pause flow is set running by nobody but the one that has asked.
LEMMA SetStatusPause ==
    ASSUME TypeOK, PauseInv, NEW p \in Proc, NEW st \in {"running", "failed", "terminated"},
           NEW label \in {"idle", "check"}, SetStatus(p, st, label),
           \/ Kind[Mine(p)] = "inner"
           \/ label = "idle" /\ (Where(p) = "asked" \/ st = "terminated"),
           \/ UNCHANGED exclusive
           \/ Kind[Mine(p)] = "inner" /\ exclusive' = [exclusive EXCEPT ![Mine(p)] = TRUE]
    PROVE  PauseInv'
<1> USE DEF history
<1>1. \A g \in Flow : status'[g] = (IF g = Mine(p) THEN st ELSE status[g])
  BY DEF SetStatus, TypeOK
<1>2. UNCHANGED <<ack, todo, ended>>
  BY DEF SetStatus
<1>3. /\ \A q \in Proc \ {p} : proc'[q] = proc[q]
      /\ Where(p)' = label
      /\ label # "idle" => Mine(p)' = Mine(p)
  BY GoWhere DEF SetStatus, Label
<1>4. Placed(p)'
  BY <1>3 DEF Placed, Pipeline
<1>5. Placed(p) /\ Mine(p) \in Flow
  BY DEF PauseInv, TypeOK, Process, Mine
<1>6. ASSUME NEW g \in Flow
      PROVE  /\ exclusive'[g] => exclusive[g] \/ Kind[g] = "inner"
             /\ status'[g] = "succeeded" => g \in ended'
             /\ TodoMoves(g)
             /\ Kind[g] = "pause" /\ status'[g] \in {"running", "failed"} =>
                    status[g] \in {"running", "failed"} \/ Asked(g)
  BY <1>1, <1>2, <1>5 DEF PauseInv, FlowInv, TodoMoves, Placed, TypeOK
<1> QED BY <1>2, <1>3, <1>4, <1>6, PauseKept

\* The first to come to a pause flow is the only one to ask, and asks once.
LEMMA AskingPause ==
    ASSUME TypeOK, PauseInv, NEW p \in Proc, CheckAck(p) \/ CreateTodo(p)
    PROVE  PauseInv'
<1> USE DEF rows, history
<1>1. Mine(p) \in Flow
  BY DEF TypeOK, Process, Mine
<1>2. \A f \in Flow : FlowInv(f)
  BY DEF PauseInv
<1>3. CASE CheckAck(p) /\ ack[Mine(p)]
  <2>1. Go(p, "idle") /\ UNCHANGED <<status, exclusive, ack, todo, ended>>
    BY <1>3 DEF CheckAck
  <2>2. \A g \in Flow : TodoMoves(g)
    BY <2>1 DEF TodoMoves
  <2> QED BY <1>1, <2>1, <2>2, QuietPause DEF Label, Pipeline
<1>4. CASE CheckAck(p) /\ ~ack[Mine(p)]
  <2> DEFINE label == IF Kind[Mine(p)] = "pause" THEN "ask" ELSE "begin"
  <2>1. /\ ack' = [ack EXCEPT ![Mine(p)] = TRUE]
        /\ UNCHANGED <<status, exclusive, todo, ended>>
        /\ Saved(p, label)
    BY <1>4 DEF CheckAck
  <2>2. label \in Label \ {"signal", "write"}
    BY DEF Label
  <2> HIDE DEF label
  <2>3. /\ \A q \in Proc \ {p} : proc'[q] = proc[q]
        /\ Where(p)' = label
        /\ label # "idle" => Mine(p)' = Mine(p)
    BY <2>1, <2>2, GoWhere
  <2>4. Mine(p)' = Mine(p)
    BY <2>3 DEF label
  <2>5. Where(p) # "ask"
    BY <1>4 DEF CheckAck, At, Where
  <2>6. ASSUME NEW f \in Flow PROVE FlowInv(f)'
    BY <1>2, <2>1 DEF FlowInv, Asked, TypeOK
  <2>7. ASSUME NEW q \in Proc PROVE Placed(q)'
    <3>1. CASE q = p
      <4>1. Kind[Mine(p)] \in {"pause", "inner"}
        BY <1>1, TicketAssumption
      <4>2. Kind[Mine(p)] = "pause" => todo[Mine(p)] = "none"
        BY <1>1, <1>2, <1>4 DEF FlowInv
      <4> QED BY <1>1, <2>1, <2>3, <2>4, <3>1, <4>1, <4>2 DEF Placed, label, Pipeline, TypeOK
    <3>2. CASE q # p
      <4>1. Placed(q) /\ Where(q)' = Where(q) /\ Mine(q)' = Mine(q)
        BY <2>3, <3>2 DEF PauseInv, Where, Mine
      <4>2. Mine(q) \in Flow /\ (ack[Mine(q)] => ack'[Mine(q)])
        BY <2>1 DEF TypeOK, Process, Mine
      <4> QED BY <2>1, <4>1, <4>2 DEF Placed, Asked
    <3> QED BY <3>1, <3>2
  <2>8. ASSUME NEW q \in Proc, q # p, Where(q)' = "ask" PROVE Mine(q)' # Mine(p)'
    <3>1. Where(q) = "ask" /\ Mine(q)' = Mine(q) /\ Placed(q)
      BY <2>3, <2>8 DEF PauseInv, Where, Mine
    <3> QED BY <1>4, <2>4, <3>1 DEF Placed
  <2>9. ASSUME NEW q \in Proc, NEW r \in Proc, q # p, r # p PROVE Alone(q, r)'
    <3>1. Alone(q, r) /\ proc'[q] = proc[q] /\ proc'[r] = proc[r]
      BY <2>3, <2>9 DEF PauseInv
    <3> QED BY <3>1 DEF Alone, Where, Mine
  <2>10. \A q, r \in Proc : Alone(q, r)'
    BY <2>8, <2>9 DEF Alone
  <2> QED BY <2>6, <2>7, <2>10 DEF PauseInv
<1>5. CASE CreateTodo(p)
  <2>1. /\ todo' = [todo EXCEPT ![Mine(p)] = "todo"]
        /\ UNCHANGED <<status, exclusive, ack, ended>>
        /\ Go(p, "asked")
        /\ Where(p) = "ask"
    BY <1>5 DEF CreateTodo, At, Where
  <2>2. /\ \A q \in Proc \ {p} : proc'[q] = proc[q]
        /\ Where(p)' = "asked"
        /\ Mine(p)' = Mine(p)
    BY <2>1, GoWhere DEF Label
  <2>3. /\ Kind[Mine(p)] = "pause" /\ ack[Mine(p)]
        /\ todo[Mine(p)] = "none" /\ todo'[Mine(p)] = "todo"
    BY <1>1, <2>1 DEF PauseInv, Placed, TypeOK
  <2>4. \A f \in Flow : f # Mine(p) => todo'[f] = todo[f]
    BY <2>1 DEF TypeOK
  <2>5. ASSUME NEW f \in Flow PROVE FlowInv(f)'
    BY <1>2, <2>1, <2>3, <2>4 DEF FlowInv, Asked
  <2>6. ASSUME NEW q \in Proc PROVE Placed(q)'
    <3>1. CASE q = p
      BY <1>1, <2>1, <2>2, <2>3, <3>1 DEF Placed, Asked, Pipeline
    <3>2. CASE q # p
      <4>1. /\ Placed(q) /\ Alone(p, q)
            /\ Where(q)' = Where(q) /\ Mine(q)' = Mine(q) /\ Mine(q) \in Flow
        BY <2>2, <3>2 DEF PauseInv, Where, Mine, TypeOK, Process
      <4>2. Where(q) = "ask" => Mine(q) # Mine(p)
        BY <2>1, <3>2, <4>1 DEF Alone
      <4> QED BY <2>1, <2>3, <2>4, <4>1, <4>2 DEF Placed, Asked
    <3> QED BY <3>1, <3>2
  <2>7. ASSUME NEW q \in Proc, NEW r \in Proc PROVE Alone(q, r)'
    <3>1. Alone(q, r)
      BY DEF PauseInv
    <3>2. CASE q = p \/ r = p
      BY <2>2, <3>2 DEF Alone
    <3>3. CASE q # p /\ r # p
      <4>1. proc'[q] = proc[q] /\ proc'[r] = proc[r]
        BY <2>2, <3>3
      <4> QED BY <3>1, <4>1 DEF Alone, Where, Mine
    <3> QED BY <3>2, <3>3
  <2> QED BY <2>5, <2>6, <2>7 DEF PauseInv
<1> QED BY <1>3, <1>4, <1>5

\* Pause flows are not flushed.
LEMMA FlushPause ==
    ASSUME TypeOK, PauseInv, NEW p \in Proc, Flush(p)
    PROVE  PauseInv'
<1>1. Mine(p) \in Flow /\ Where(p) = "flush"
  BY DEF Flush, At, Where, TypeOK, Process, Mine
<1>2. Kind[Mine(p)] = "inner"
  BY <1>1 DEF PauseInv, Placed, Pipeline
<1>3. /\ \A q \in Proc \ {p} : proc'[q] = proc[q]
      /\ Where(p)' = "run"
  BY GoWhere DEF Flush, Label
<1>4. Placed(p)'
  BY <1>3 DEF Placed, Pipeline
<1>5. ended' = ended /\ todo' = todo
  BY DEF Flush
<1>6. \A f \in Flow : f # Mine(p) =>
        exclusive'[f] = exclusive[f] /\ status'[f] = status[f] /\ ack'[f] = ack[f]
  BY DEF Flush, TypeOK
<1>7. exclusive'[Mine(p)] = FALSE /\ status'[Mine(p)] = "running"
  BY <1>1 DEF Flush, TypeOK
<1>8. ASSUME NEW f \in Flow
      PROVE  /\ exclusive'[f] => exclusive[f] \/ Kind[f] = "inner"
             /\ status'[f] = "succeeded" => f \in ended'
             /\ Kind[f] = "pause" =>
                  /\ TodoMoves(f)
                  /\ ack'[f] = ack[f]
                  /\ status'[f] \in {"running", "failed"} =>
                         status[f] \in {"running", "failed"} \/ Asked(f)
                  /\ f \in ended' => f \in ended \/ f \in Terminable \/ todo'[f] = "done"
  BY <1>2, <1>5, <1>6, <1>7 DEF TodoMoves, PauseInv, FlowInv
<1> QED BY <1>3, <1>4, <1>5, <1>8, PauseKept

LEMMA RevokePause ==
    ASSUME TypeOK, PauseInv, NEW p \in Proc, NEW f \in Flow, Revoke(p, f)
    PROVE  PauseInv'
<1>1. proc' = [proc EXCEPT ![p] = [[[proc[p] EXCEPT !.at = "signal"] EXCEPT !.flow = f]
                                     EXCEPT !.then = "halt"]]
  BY DEF Revoke, TypeOK
<1>2. proc[p] \in Process
  BY DEF TypeOK
<1>3. proc'[p].at = "signal" /\ proc'[p].then = "halt" /\ proc'[p].flow = f
  BY <1>1, <1>2 DEF TypeOK, Process
<1>4. /\ \A q \in Proc \ {p} : proc'[q] = proc[q]
      /\ Where(p)' = "halt" /\ Mine(p)' = f
  BY <1>1, <1>3 DEF Where, Mine, TypeOK
<1>5. Placed(p)'
  BY <1>4 DEF Placed, Pipeline, Revoke
<1>6. \A g \in Flow : g # f => status'[g] = status[g] /\ exclusive'[g] = exclusive[g]
  BY DEF Revoke, TypeOK
<1>7. status'[f] = "terminated" /\ exclusive'[f] = FALSE
  BY DEF Revoke, TypeOK
<1>8. UNCHANGED <<ack, todo, ended>>
  BY DEF Revoke, history
<1>9. ASSUME NEW g \in Flow
      PROVE  /\ exclusive'[g] => exclusive[g] \/ Kind[g] = "inner"
             /\ status'[g] = "succeeded" => g \in ended'
             /\ Kind[g] = "pause" =>
                  /\ TodoMoves(g)
                  /\ ack'[g] = ack[g]
                  /\ status'[g] \in {"running", "failed"} =>
                         status[g] \in {"running", "failed"} \/ Asked(g)
                  /\ g \in ended' => g \in ended \/ g \in Terminable \/ todo'[g] = "done"
  BY <1>6, <1>7, <1>8 DEF TodoMoves, PauseInv, FlowInv
<1> QED BY <1>4, <1>5, <1>8, <1>9, PauseKept

\* Retry takes up inner flows only.
LEMMA RetryPause ==
    ASSUME TypeOK, PauseInv, NEW p \in Proc, NEW f \in Flow, Retry(p, f)
    PROVE  PauseInv'
<1>1. Kind[f] = "inner"
  BY DEF Retry, PauseInv, FlowInv
<1>2. /\ \A q \in Proc \ {p} : proc'[q] = proc[q]
      /\ Where(p)' = "flush" /\ Mine(p)' = f
  BY GoForWhere DEF Retry, Label
<1>3. Placed(p)'
  BY <1>1, <1>2 DEF Placed
<1>4. UNCHANGED <<status, exclusive, ack, todo, ended>>
  BY DEF Retry, rows, history
<1>5. \A g \in Flow :
        /\ TodoMoves(g)
        /\ status'[g] = "succeeded" => g \in ended'
  BY <1>4 DEF TodoMoves, PauseInv, FlowInv
<1> QED BY <1>2, <1>3, <1>4, <1>5, PauseKept

\* Todos of pause flows are closed by operators only.
LEMMA TodoPause ==
    ASSUME TypeOK, PauseInv, NEW p \in Proc, NEW f \in Flow,
           Halt(p) \/ Confirm(p, f) \/ Refuse(p, f)
    PROVE  PauseInv'
<1> USE DEF history
<1>1. Mine(p) \in Flow
  BY DEF TypeOK, Process, Mine
<1>2. CASE Halt(p)
  <2>1. Mine(p) \in Terminable
    BY <1>2 DEF Halt, At, PauseInv, Placed, Where
  <2>2. \A g \in Flow : TodoMoves(g)
    BY <1>2, <2>1 DEF Halt, TodoMoves, TypeOK
  <2>3. PICK label \in {"idle", "cancel"} : Go(p, label)
    BY <1>2 DEF Halt
  <2>4. UNCHANGED <<status, exclusive, ack, ended>>
    BY <1>2 DEF Halt
  <2> QED BY <1>1, <2>2, <2>3, <2>4, QuietPause DEF Label, Pipeline
<1>3. CASE Confirm(p, f)
  <2>1. \A g \in Flow : TodoMoves(g)
    BY <1>3 DEF Confirm, TodoMoves, TypeOK
  <2>2. UNCHANGED <<status, exclusive, ack, ended>> /\ Go(p, "confirmed")
    BY <1>3 DEF Confirm
  <2>3. "confirmed" \in Label \ {"signal", "write", "ask", "asked"}
    BY DEF Label
  <2> QED BY <2>1, <2>2, <2>3, QuietPause DEF Label, Pipeline
<1>4. CASE Refuse(p, f)
  <2>1. \A g \in Flow : TodoMoves(g)
    BY <1>4 DEF Refuse, TodoMoves, TypeOK
  <2>2. UNCHANGED <<status, exclusive, ack, ended>> /\ GoFor(p, "drop", f)
    BY <1>4 DEF Refuse
  <2>3. "drop" \in Label \ {"signal", "write", "ask", "asked"} /\ "drop" \notin Pipeline
    BY DEF Label, Pipeline
  <2> QED BY <2>1, <2>2, <2>3, QuietPause
<1> QED BY <1>2, <1>3, <1>4

\* The steps that change no row, where they lead, and that the runs of inner
\* flows go on as such.
LEMMA MovesPause ==
    ASSUME TypeOK, PauseInv, NEW p \in Proc, NEW f \in Flow,
           \/ ReadNext(p) \/ TooLate(p) \/ Build(p) \/ Guard(p) \/ Recheck(p)
           \/ CreateTree(p) \/ Launch(p) \/ PostCheck(p) \/ Stop(p) \/ Cancel(p)
           \/ Report(p, f) \/ Remark(p, f) \/ Confirmed(p)
    PROVE  PauseInv'
<1>1. UNCHANGED <<status, exclusive, ack, todo, ended>>
  BY DEF ReadNext, TooLate, Build, Guard, Recheck, CreateTree, Launch, PostCheck, Stop, Cancel,
         Report, Remark, Confirmed, rows, history
<1>2. \A g \in Flow : TodoMoves(g)
  BY <1>1 DEF TodoMoves
<1>3. ASSUME NEW label \in {"idle", "guard", "create", "insert", "launch", "post", "stop"},
             Go(p, label), label = "idle" \/ Where(p) \in Pipeline
      PROVE  PauseInv'
  <2>1. label \in Pipeline => Kind[Mine(p)] = "inner"
    BY <1>3 DEF PauseInv, Placed, Pipeline
  <2>2. label \in Label \ {"signal", "write", "ask", "asked"} /\ label # "halt"
    BY DEF Label
  <2> QED BY <1>1, <1>2, <1>3, <2>1, <2>2, QuietPause
<1>4. ASSUME NEW g \in Flow, NEW label \in {"look", "callback"}, GoFor(p, label, g)
      PROVE  PauseInv'
  <2>1. label \in Label \ {"signal", "write", "ask", "asked"} /\ label \notin Pipeline \cup {"halt"}
    BY DEF Label, Pipeline
  <2> QED BY <1>1, <1>2, <1>4, <2>1, QuietPause
<1>5. CASE ReadNext(p) \/ Report(p, f)
  BY <1>3, <1>4, <1>5 DEF ReadNext, Report
<1>6. CASE TooLate(p) \/ Build(p) \/ Guard(p)
  BY <1>3, <1>6 DEF TooLate, Build, Guard, At, Where, Pipeline
<1>7. CASE Recheck(p) \/ CreateTree(p) \/ Launch(p)
  BY <1>3, <1>7 DEF Recheck, CreateTree, Launch, At, Where, Pipeline
<1>8. CASE PostCheck(p) \/ Stop(p) \/ Cancel(p)
  BY <1>3, <1>8 DEF PostCheck, Stop, Cancel, At, Where, Pipeline
<1>9. CASE Confirmed(p) \/ Remark(p, f)
  <2>1. PICK label \in {"idle", "next"} : Go(p, label) \/ Saved(p, label)
    BY <1>9 DEF Confirmed, Remark
  <2>2. /\ label \in Label \ {"signal", "write", "ask", "asked"}
        /\ label \notin Pipeline \cup {"halt"}
    BY DEF Label, Pipeline
  <2> QED BY <1>1, <1>2, <2>1, <2>2, QuietPause
<1> QED BY <1>5, <1>6, <1>7, <1>8, <1>9

LEMMA PauseStep == TypeOK /\ PauseInv /\ [Next]_vars => PauseInv'
<1> SUFFICES ASSUME TypeOK, PauseInv, [Next]_vars PROVE PauseInv'
  OBVIOUS
<1>1. CASE UNCHANGED vars
  BY <1>1 DEF vars, rows, history, PauseInv, FlowInv, Placed, Alone, Asked, Where, Mine
<1>2. ASSUME NEW p \in Proc, Proceed(p) PROVE PauseInv'
  <2>1. CASE SignalRead(p) \/ SignalWrite(p)
    BY <2>1, SignalPause
  <2>2. CASE Look(p) \/ Callback(p)
    BY <2>2, EvaluatePause DEF Look, Callback
  <2>3. CASE CheckAck(p) \/ CreateTodo(p) \/ Flush(p)
    BY <2>3, AskingPause, FlushPause
  <2>4. CASE PauseRunning(p)
    BY <2>4, SetStatusPause DEF PauseRunning, At, Where
  <2>5. Where(p) \in Pipeline => Kind[Mine(p)] = "inner"
    BY DEF PauseInv, Placed
  <2>6. CASE InnerRunning(p) \/ ExclusiveError(p) \/ RunError(p)
    <3>1. Kind[Mine(p)] = "inner"
      BY <2>5, <2>6 DEF InnerRunning, ExclusiveError, RunError, At, Where, Pipeline
    <3> QED BY <2>6, <3>1, SetStatusPause DEF InnerRunning, ExclusiveError, RunError
  <2>7. CASE CreateFails(p) \/ LaunchFails(p) \/ StopFails(p)
    <3>1. Kind[Mine(p)] = "inner"
      BY <2>5, <2>7 DEF CreateFails, LaunchFails, StopFails, At, Where, Pipeline
    <3> QED BY <2>7, <3>1, SetStatusPause DEF CreateFails, LaunchFails, StopFails
  <2>8. CASE DropFlow(p)
    BY <2>8, SetStatusPause DEF DropFlow
  <2>9. 1 \in Flow
    BY TicketAssumption DEF Flow
  <2>10. CASE Halt(p)
    BY <2>9, <2>10, TodoPause
  <2>11. CASE \/ TooLate(p) \/ Build(p) \/ Guard(p) \/ Recheck(p) \/ CreateTree(p)
              \/ Launch(p) \/ PostCheck(p) \/ Stop(p) \/ Cancel(p) \/ Confirmed(p)
    BY <2>9, <2>11, MovesPause
  <2> QED BY <1>2, <2>1, <2>2, <2>3, <2>4, <2>6, <2>7, <2>8, <2>10, <2>11 DEF Proceed
<1>3. ASSUME NEW p \in Proc, NEW f \in Flow, ReadNext(p) \/ Report(p, f) \/ Operate(p, f)
      PROVE  PauseInv'
  BY <1>3, MovesPause, TodoPause, RetryPause, RevokePause, EvaluatePause DEF Operate, View
<1>4. ASSUME NEW f \in Flow, EngineFinishes(f) \/ EngineFails(f) \/ RetryNode(f)
      PROVE  PauseInv'
  <2>1. UNCHANGED <<status, exclusive, ack, todo, ended, proc>>
    BY <1>4 DEF EngineFinishes, EngineFails, EngineEnds, RetryNode, rows, history
  <2> QED BY <2>1 DEF PauseInv, FlowInv, Placed, Alone, Asked, Where, Mine
<1>5. 1 \in Flow
  BY TicketAssumption DEF Flow
<1> QED BY <1>1, <1>2, <1>3, <1>4, <1>5 DEF Next

\* Behind a pause that nobody terminates no flow is entered before the todo of
\* the pause was confirmed: in front of an entered flow everything was found
\* finished, and a pause is found finished only when it was asked for and no todo
\* is left.
THEOREM PausesConfirmed == Spec => []ConfirmedFirst
<1>1. TypeOK /\ OrderInv /\ PauseInv => ConfirmedFirst
  <2> SUFFICES ASSUME TypeOK, OrderInv, PauseInv,
                      NEW f \in Flow, NEW g \in Flow \ Terminable,
                      starts[f] > 0, g < f, Kind[g] = "pause"
               PROVE  todo[g] = "done"
    BY DEF ConfirmedFirst
  <2>1. g \in 1 .. (f - 1)
    BY TicketAssumption DEF Flow
  <2>2. g \in ended
    BY <2>1 DEF OrderInv, Started, Reached
  <2> QED BY <2>2 DEF PauseInv, FlowInv
<1> QED BY <1>1, TypeInit, TypeStep, OrderInit, OrderStep, PauseInit, PauseStep, PTL DEF Spec

-----------------------------------------------------------------------------
(* The status of the ticket *)

\* What the rows say has reached the ticket, or a signal is on the way.
AgreeInv ==
    \/ overtaken
    \/ \E p \in Proc : At(p, "signal") \/ At(p, "write")
    \/ Target(status) \in {ticket, "none"}

LEMMA AgreeInit == Init => AgreeInv
<1> SUFFICES ASSUME Init PROVE AgreeInv
  OBVIOUS
<1>1. 1 \in Flow /\ status[1] = "pending" /\ \A f \in Flow : status[f] = "pending"
  BY TicketAssumption DEF Init, Flow
<1>2. Target(status) = "none"
  BY <1>1 DEF Target
<1> QED BY <1>2 DEF AgreeInv

\* A step of p that leaves the rows and the ticket, or announces a signal.
Announced(p) ==
    /\ overtaken => overtaken'
    /\ \A q \in Proc \ {p} : proc'[q] = proc[q]
    /\ \/ UNCHANGED <<status, ticket>> /\ proc[p].at \notin {"signal", "write"}
       \/ proc'[p].at \in {"signal", "write"}

LEMMA AnnouncedAgrees ==
    ASSUME AgreeInv, NEW p \in Proc, Announced(p)
    PROVE  AgreeInv'
<1>1. CASE UNCHANGED <<status, ticket>> /\ proc[p].at \notin {"signal", "write"}
  <2>1. \A q \in Proc : At(q, "signal") \/ At(q, "write") => At(q, "signal")' \/ At(q, "write")'
    BY <1>1 DEF Announced, At
  <2> QED BY <1>1, <2>1 DEF AgreeInv, Announced
<1>2. CASE proc'[p].at \in {"signal", "write"}
  BY <1>2 DEF AgreeInv, At
<1> QED BY <1>1, <1>2 DEF Announced

LEMMA EvaluateAnnounced ==
    ASSUME TypeOK, NEW p \in Proc, NEW f \in Flow, NEW label \in AfterSave, Evaluate(p, f, label),
           proc[p].at \notin {"signal", "write"}
    PROVE  Announced(p)
<1>1. CASE Evaluated(f) = status[f]
  <2>1. status' = status
    BY <1>1 DEF Evaluate, TypeOK
  <2> QED BY <1>1, <2>1 DEF Evaluate, Go, Announced, TypeOK
<1>2. CASE Evaluated(f) # status[f]
  BY <1>2 DEF Evaluate, Saved, Announced, TypeOK, Process
<1> QED BY <1>1, <1>2

\* Every step but the end of a signal and what the engine does.
LEMMA StepAnnounced ==
    ASSUME TypeOK, NEW p \in Proc, NEW f \in Flow,
           ReadNext(p) \/ (Proceed(p) /\ ~SignalWrite(p)) \/ Report(p, f) \/ Operate(p, f)
    PROVE  Announced(p)
<1> USE DEF rows, pipes, history
<1>1. CASE SignalRead(p)
  BY <1>1 DEF SignalRead, Announced, TypeOK, Process
<1>2. CASE Look(p) \/ Callback(p) \/ View(p, f)
  BY <1>2, EvaluateAnnounced DEF Look, Callback, View, At, AfterSave
<1>3. ASSUME NEW st, NEW label, SetStatus(p, st, label)
      PROVE  Announced(p)
  BY <1>3 DEF SetStatus, Saved, Announced, TypeOK, Process
<1>4. CASE PauseRunning(p) \/ InnerRunning(p) \/ ExclusiveError(p) \/ RunError(p)
  BY <1>3, <1>4 DEF PauseRunning, InnerRunning, ExclusiveError, RunError
<1>5. CASE CreateFails(p) \/ LaunchFails(p) \/ StopFails(p) \/ DropFlow(p)
  BY <1>3, <1>5 DEF CreateFails, LaunchFails, StopFails, DropFlow
<1>6. CASE Flush(p) \/ Revoke(p, f) \/ Remark(p, f)
  BY <1>6 DEF Flush, Revoke, Remark, Saved, Announced, TypeOK, Process
<1>7. CASE CheckAck(p)
  <2>1. CASE ack[Mine(p)]
    BY <1>7, <2>1 DEF CheckAck, At, Go, Announced, TypeOK
  <2>2. CASE ~ack[Mine(p)]
    BY <1>7, <2>2 DEF CheckAck, Saved, Announced, TypeOK, Process
  <2> QED BY <2>1, <2>2
<1>8. ASSUME UNCHANGED <<status, ticket>>, overtaken => overtaken',
             proc[p].at \notin {"signal", "write"},
             \A q \in Proc \ {p} : proc'[q] = proc[q]
      PROVE  Announced(p)
  BY <1>8 DEF Announced
<1>9. CASE ReadNext(p) \/ TooLate(p) \/ CreateTodo(p) \/ Build(p) \/ Guard(p) \/ Recheck(p)
  BY <1>8, <1>9 DEF ReadNext, TooLate, CreateTodo, Build, Guard, Recheck, At, Go, GoFor, TypeOK
<1>10. CASE CreateTree(p) \/ Launch(p) \/ PostCheck(p) \/ Halt(p) \/ Confirmed(p)
  BY <1>8, <1>10 DEF CreateTree, Launch, PostCheck, Halt, Confirmed, At, Go, TypeOK
<1>11. CASE Stop(p) \/ Cancel(p)
  BY <1>8, <1>11 DEF Stop, Cancel, RevokePipeline, At, Go, TypeOK
<1>12. CASE Report(p, f) \/ Confirm(p, f) \/ Refuse(p, f) \/ Retry(p, f)
  BY <1>8, <1>12 DEF Report, Confirm, Refuse, Retry, At, Go, GoFor, TypeOK
<1> QED BY <1>1, <1>2, <1>4, <1>5, <1>6, <1>7, <1>9, <1>10, <1>11, <1>12 DEF Proceed, Operate

LEMMA AgreeStep == TypeOK /\ AgreeInv /\ [Next]_vars => AgreeInv'
<1> SUFFICES ASSUME TypeOK, AgreeInv, [Next]_vars PROVE AgreeInv'
  OBVIOUS
<1>1. ASSUME UNCHANGED <<ticket, status, proc, overtaken>> PROVE AgreeInv'
  BY <1>1 DEF AgreeInv, At
<1>2. CASE UNCHANGED vars
  BY <1>1, <1>2 DEF vars, rows, history
<1>3. ASSUME NEW f \in Flow, EngineFinishes(f) \/ EngineFails(f) \/ RetryNode(f)
      PROVE  AgreeInv'
  BY <1>1, <1>3 DEF EngineFinishes, EngineFails, EngineEnds, RetryNode, rows, history
<1>4. ASSUME NEW p \in Proc, SignalWrite(p) PROVE AgreeInv'
  <2>1. /\ overtaken' = (overtaken \/ proc[p].target # Target(status))
        /\ ticket' = IF proc[p].target = "none" THEN ticket ELSE proc[p].target
        /\ status' = status
    BY <1>4 DEF SignalWrite, rows
  <2>2. overtaken' \/ Target(status') \in {ticket', "none"}
    BY <2>1
  <2> QED BY <2>2 DEF AgreeInv
<1>5. 1 \in Flow
  BY TicketAssumption DEF Flow
<1> QED BY <1>2, <1>3, <1>4, <1>5, StepAnnounced, AnnouncedAgrees DEF Next

\* Every change of a row is followed by a signal that carries it to the ticket:
\* at rest they agree, unless a slower signal came last.
THEOREM TicketFollows == Spec => []TicketAgrees
<1>1. AgreeInv => TicketAgrees
  BY DEF AgreeInv, TicketAgrees, Quiet, At
<1> QED BY <1>1, TypeInit, TypeStep, AgreeInit, AgreeStep, PTL DEF Spec

-----------------------------------------------------------------------------
(* FlowTrees and pipelines *)

Launching(f) == \E q \in Proc : At(q, "launch") /\ Mine(q) = f

\* A FlowTree is there before its pipeline, and is created once; what was revoked
\* on the strength of what was true is never launched.
TreeInv(f) ==
    /\ tree[f] = "none" => engine[f] = "none"
    /\ tree[f] \in {"running", "failed", "finished"} => engine[f] # "none"
    /\ Launching(f) => tree[f] # "none" /\ engine[f] = "none"
    /\ ~overtaken /\ tree[f] = "revoked" =>
           engine[f] \in {"none", "revoked"} /\ ~Launching(f)
    /\ Kind[f] = "pause" => engine[f] = "none"

\* No two processes launch one pipeline; who refuses has a pause.
PipeInv ==
    /\ \A f \in Flow : TreeInv(f)
    /\ \A p, q \in Proc :
           At(p, "launch") /\ At(q, "launch") /\ Mine(p) = Mine(q) => p = q
    /\ \A p \in Proc : Where(p) = "drop" => Kind[Mine(p)] = "pause"

LEMMA PipeInit == Init => PipeInv
<1> SUFFICES ASSUME Init PROVE PipeInv
  OBVIOUS
<1>1. \A p \in Proc : proc[p].at \in {"idle", "next"}
  BY DEF Init, Free
<1>2. \A f \in Flow : tree[f] = "none" /\ engine[f] = "none"
  BY DEF Init
<1> QED BY <1>1, <1>2 DEF PipeInv, TreeInv, Launching, At, Where

\* A step of p that leaves FlowTrees and the engine alone and goes to no launch.
Calm(p) ==
    /\ UNCHANGED pipes
    /\ overtaken => overtaken'
    /\ \A q \in Proc \ {p} : proc'[q] = proc[q]
    /\ Where(p)' # "launch"
    /\ Where(p)' = "drop" => Kind[Mine(p)'] = "pause"

LEMMA CalmPipe ==
    ASSUME PipeInv, NEW p \in Proc, Calm(p)
    PROVE  PipeInv'
<1>1. \A q \in Proc : At(q, "launch")' => At(q, "launch") /\ Mine(q)' = Mine(q)
  BY DEF Calm, At, Where, Mine
<1>2. \A f \in Flow : Launching(f)' => Launching(f)
  BY <1>1 DEF Launching
<1>3. \A f \in Flow : TreeInv(f)'
  BY <1>2 DEF PipeInv, TreeInv, Calm, pipes
<1>4. \A q \in Proc : Where(q)' = "drop" => Kind[Mine(q)'] = "pause"
  BY DEF PipeInv, Calm, Where, Mine
<1> QED BY <1>1, <1>3, <1>4 DEF PipeInv

LEMMA MoveCalm ==
    ASSUME TypeOK, NEW p \in Proc, NEW label \in Label \ {"signal", "write", "launch", "drop"},
           Go(p, label) \/ Saved(p, label) \/ \E f \in Flow : GoFor(p, label, f),
           UNCHANGED pipes, overtaken => overtaken'
    PROVE  Calm(p)
<1>1. \A q \in Proc \ {p} : proc'[q] = proc[q]
  BY GoWhere, GoForWhere
<1>2. Where(p)' = label
  BY GoWhere, GoForWhere
<1> QED BY <1>1, <1>2 DEF Calm

LEMMA EvaluateCalm ==
    ASSUME TypeOK, NEW p \in Proc, NEW f \in Flow, NEW label \in {"run", "idle", "next"},
           Evaluate(p, f, label)
    PROVE  Calm(p)
<1>1. label \in Label \ {"signal", "write", "launch", "drop"}
  BY DEF Label
<1>2. (Go(p, label) \/ Saved(p, label)) /\ UNCHANGED <<pipes, overtaken>>
  BY DEF Evaluate
<1> QED BY <1>1, <1>2, MoveCalm

\* The steps that start, end and revoke nothing.
LEMMA StepCalm ==
    ASSUME TypeOK, PipeInv, NEW p \in Proc, NEW f \in Flow,
           \/ ReadNext(p) \/ Operate(p, f)
           \/ Proceed(p) /\ ~(CreateTree(p) \/ Launch(p) \/ Stop(p) \/ Cancel(p))
    PROVE  Calm(p)
<1> USE DEF rows, history
<1>1. {"idle", "look", "run", "ask", "asked", "begin", "check", "guard", "create", "insert",
       "post", "stop", "flush", "halt", "cancel", "next", "confirmed"}
        \subseteq Label \ {"signal", "write", "launch", "drop"}
  BY DEF Label
<1>2. CASE SignalRead(p)
  <2>1. proc'[p].at = "write" /\ proc'[p].then = proc[p].then /\ Mine(p)' = Mine(p)
    BY <1>2 DEF SignalRead, TypeOK, Process, Mine
  <2>2. proc[p].then \in AfterSave
    BY DEF TypeOK, Process
  <2> QED BY <1>2, <2>1, <2>2 DEF SignalRead, Calm, Where, AfterSave, TypeOK
<1>3. CASE SignalWrite(p)
  <2>1. proc'[p].at = proc[p].then /\ proc[p].then \in AfterSave
    BY <1>3 DEF SignalWrite, TypeOK, Process, Free
  <2> QED BY <1>3, <2>1 DEF SignalWrite, Calm, Where, AfterSave, TypeOK
<1>4. CASE Look(p) \/ Callback(p) \/ View(p, f)
  BY <1>4, EvaluateCalm DEF Look, Callback, View
<1>5. ASSUME NEW st, NEW label \in {"idle", "check"}, SetStatus(p, st, label) PROVE Calm(p)
  BY <1>1, <1>5, MoveCalm DEF SetStatus
<1>6. CASE PauseRunning(p) \/ InnerRunning(p) \/ ExclusiveError(p) \/ RunError(p)
  BY <1>5, <1>6 DEF PauseRunning, InnerRunning, ExclusiveError, RunError
<1>7. CASE CreateFails(p) \/ LaunchFails(p) \/ StopFails(p) \/ DropFlow(p)
  BY <1>5, <1>7 DEF CreateFails, LaunchFails, StopFails, DropFlow
<1>8. CASE ReadNext(p) \/ TooLate(p) \/ CreateTodo(p) \/ Build(p) \/ Guard(p) \/ Recheck(p)
  BY <1>1, <1>8, MoveCalm DEF ReadNext, TooLate, CreateTodo, Build, Guard, Recheck
<1>9. CASE CheckAck(p) \/ PostCheck(p) \/ Halt(p) \/ Flush(p)
  BY <1>1, <1>9, MoveCalm DEF CheckAck, PostCheck, Halt, Flush
<1>10. CASE Remark(p, f) \/ Confirm(p, f) \/ Confirmed(p) \/ Retry(p, f)
  BY <1>1, <1>10, MoveCalm DEF Remark, Confirm, Confirmed, Retry
<1>11. CASE Refuse(p, f)
  <2>1. GoFor(p, "drop", f) /\ "drop" \in Label \ {"signal", "write"}
    BY <1>11 DEF Refuse, Label
  <2>2. Where(p)' = "drop" /\ Mine(p)' = f /\ \A q \in Proc \ {p} : proc'[q] = proc[q]
    BY <2>1, GoForWhere
  <2> QED BY <1>11, <2>2 DEF Refuse, Calm
<1>12. CASE Revoke(p, f)
  <2>1. /\ \A q \in Proc \ {p} : proc'[q] = proc[q]
        /\ proc'[p].at = "signal" /\ proc'[p].then = "halt"
    BY <1>12 DEF Revoke, TypeOK, Process
  <2> QED BY <1>12, <2>1 DEF Revoke, Calm, Where
<1> QED BY <1>2, <1>3, <1>4, <1>6, <1>7, <1>8, <1>9, <1>10, <1>11, <1>12 DEF Proceed, Operate

\* What moves to a label other than launch and drop does to where processes are.
LEMMA MovePlaces ==
    ASSUME TypeOK, PipeInv, NEW p \in Proc, NEW label \in Label \ {"signal", "write", "drop"},
           Go(p, label) \/ \E f \in Flow : label # "launch" /\ GoFor(p, label, f)
    PROVE  /\ \A q \in Proc : Where(q)' = "drop" => Kind[Mine(q)'] = "pause"
           /\ \A q \in Proc \ {p} : proc'[q] = proc[q]
           /\ At(p, "launch")' <=> label = "launch"
           /\ Go(p, label) /\ label # "idle" => Mine(p)' = Mine(p)
<1>1. Where(p)' = label /\ \A q \in Proc \ {p} : proc'[q] = proc[q]
  BY GoWhere, GoForWhere
<1>2. At(p, "launch")' <=> label = "launch"
  <2>1. CASE Go(p, label)
    BY <2>1 DEF Go, Free, At, TypeOK, Process
  <2>2. CASE label # "launch"
    BY <1>1, <2>2 DEF At, Where
  <2> QED BY <2>1, <2>2
<1>3. \A q \in Proc : Where(q)' = "drop" => Kind[Mine(q)'] = "pause"
  BY <1>1 DEF PipeInv, Where, Mine
<1>4. Go(p, label) /\ label # "idle" => Mine(p)' = Mine(p)
  BY GoWhere
<1> QED BY <1>1, <1>2, <1>3, <1>4

LEMMA CreateTreePipe ==
    ASSUME TypeOK, PauseInv, PipeInv, NEW p \in Proc, CreateTree(p)
    PROVE  PipeInv'
<1>1. /\ \A q \in Proc : Where(q)' = "drop" => Kind[Mine(q)'] = "pause"
      /\ \A q \in Proc \ {p} : proc'[q] = proc[q]
      /\ At(p, "launch")'
      /\ Mine(p)' = Mine(p)
  BY MovePlaces DEF CreateTree, Label
<1>2. /\ tree[Mine(p)] = "none"
      /\ tree' = [tree EXCEPT ![Mine(p)] = "created"]
      /\ engine' = engine /\ overtaken' = overtaken
      /\ Mine(p) \in Flow
  BY DEF CreateTree, history, TypeOK, Process, Mine
<1>3. \A q \in Proc : At(q, "launch")' => q = p \/ (At(q, "launch") /\ Mine(q)' = Mine(q))
  BY <1>1 DEF At, Mine
<1>4. ~Launching(Mine(p)) /\ engine[Mine(p)] = "none"
  BY <1>2 DEF PipeInv, TreeInv
<1>5. ASSUME NEW f \in Flow PROVE TreeInv(f)'
  <2>1. TreeInv(f)
    BY DEF PipeInv
  <2>2. CASE f = Mine(p)
    BY <1>2, <1>4, <2>1, <2>2 DEF TreeInv, TypeOK
  <2>3. CASE f # Mine(p)
    <3>1. Launching(f)' => Launching(f)
      BY <1>1, <1>3, <2>3 DEF Launching
    <3>2. tree'[f] = tree[f]
      BY <1>2, <2>3 DEF TypeOK
    <3> QED BY <1>2, <2>1, <3>1, <3>2 DEF TreeInv
  <2> QED BY <2>2, <2>3
<1>6. ASSUME NEW q \in Proc, NEW r \in Proc,
             At(q, "launch")', At(r, "launch")', Mine(q)' = Mine(r)'
      PROVE  q = r
  <2>1. \A t \in Proc : At(t, "launch") => Mine(t) # Mine(p)
    BY <1>4 DEF Launching
  <2> QED BY <1>1, <1>3, <1>6, <2>1 DEF PipeInv
<1> QED BY <1>1, <1>5, <1>6 DEF PipeInv

LEMMA LaunchPipe ==
    ASSUME TypeOK, PauseInv, PipeInv, NEW p \in Proc, Launch(p)
    PROVE  PipeInv'
<1>1. /\ \A q \in Proc : Where(q)' = "drop" => Kind[Mine(q)'] = "pause"
      /\ \A q \in Proc \ {p} : proc'[q] = proc[q]
      /\ ~At(p, "launch")'
  BY MovePlaces DEF Launch, Label
<1>2. /\ engine' = [engine EXCEPT ![Mine(p)] = "running"]
      /\ tree' = tree /\ overtaken' = overtaken
      /\ Mine(p) \in Flow
      /\ At(p, "launch")
  BY DEF Launch, history, TypeOK, Process, Mine
<1>3. \A q \in Proc : At(q, "launch")' => q # p /\ At(q, "launch") /\ Mine(q)' = Mine(q)
  BY <1>1 DEF At, Mine
<1>4. Kind[Mine(p)] = "inner"
  BY <1>2 DEF PauseInv, Placed, Pipeline, At, Where
<1>5. ASSUME NEW f \in Flow PROVE TreeInv(f)'
  <2>1. TreeInv(f) /\ (Launching(f)' => Launching(f))
    BY <1>3 DEF PipeInv, Launching
  <2>2. CASE f = Mine(p)
    <3>1. Launching(f)
      BY <1>2, <2>2 DEF Launching
    <3>2. ~Launching(f)'
      BY <1>2, <1>3, <2>2 DEF PipeInv, Launching
    <3>3. engine'[f] = "running" /\ tree'[f] # "none" /\ (~overtaken' => tree'[f] # "revoked")
      BY <1>2, <2>1, <2>2, <3>1 DEF TreeInv, TypeOK
    <3> QED BY <1>4, <2>2, <3>2, <3>3 DEF TreeInv
  <2>3. CASE f # Mine(p)
    <3>1. engine'[f] = engine[f]
      BY <1>2, <2>3 DEF TypeOK
    <3> QED BY <1>2, <2>1, <3>1 DEF TreeInv
  <2> QED BY <2>2, <2>3
<1>6. ASSUME NEW q \in Proc, NEW r \in Proc,
             At(q, "launch")', At(r, "launch")', Mine(q)' = Mine(r)'
      PROVE  q = r
  BY <1>3, <1>6 DEF PipeInv
<1> QED BY <1>1, <1>5, <1>6 DEF PipeInv

\* A revocation, by the operator or by the builder: nothing of f is launching
\* unless a FlowTree was out of date.
LEMMA RevokePipe ==
    ASSUME TypeOK, PauseInv, PipeInv, NEW p \in Proc, NEW c \in Flow,
           RevokePipeline(c), ~Irrevocable(c), Go(p, "idle"), UNCHANGED rows
    PROVE  PipeInv'
<1>1. /\ \A q \in Proc : Where(q)' = "drop" => Kind[Mine(q)'] = "pause"
      /\ \A q \in Proc \ {p} : proc'[q] = proc[q]
      /\ ~At(p, "launch")'
  BY MovePlaces DEF Label
<1>2. \A q \in Proc : At(q, "launch")' => At(q, "launch") /\ Mine(q)' = Mine(q)
  BY <1>1 DEF At, Mine
<1>3. ASSUME NEW f \in Flow PROVE TreeInv(f)'
  <2>1. TreeInv(f) /\ (Launching(f)' => Launching(f)) /\ (overtaken => overtaken')
    BY <1>2 DEF PipeInv, Launching, RevokePipeline
  <2>2. CASE f # c
    <3>1. tree'[f] = tree[f] /\ engine'[f] = engine[f]
      BY <2>2 DEF RevokePipeline, TypeOK
    <3> QED BY <2>1, <3>1 DEF TreeInv
  <2>3. CASE f = c /\ tree[f] = "created"
    <3>1. tree'[f] = "revoked" /\ engine'[f] = engine[f]
      BY <2>3 DEF RevokePipeline, TypeOK
    <3>2. ~overtaken' => engine[f] = "none" /\ ~Launching(f)
      BY <2>3 DEF RevokePipeline, Starting, Launching
    <3> QED BY <2>1, <3>1, <3>2 DEF TreeInv
  <2>4. CASE f = c /\ tree[f] = "revoked"
    <3>1. tree'[f] = tree[f] /\ engine'[f] = engine[f]
      BY <2>4 DEF RevokePipeline, TypeOK
    <3> QED BY <2>1, <3>1 DEF TreeInv
  <2>5. CASE f = c /\ tree[f] \notin {"created", "revoked"}
    <3>1. tree'[f] = tree[f] /\ engine'[f] = "revoked" /\ tree[f] # "none"
      BY <2>5 DEF RevokePipeline, Irrevocable, TypeOK
    <3>2. engine[f] \in {"running", "failed"}
      BY <2>5 DEF Irrevocable
    <3> QED BY <2>1, <2>5, <3>1, <3>2 DEF TreeInv
  <2> QED BY <2>2, <2>3, <2>4, <2>5
<1>4. ASSUME NEW q \in Proc, NEW r \in Proc,
             At(q, "launch")', At(r, "launch")', Mine(q)' = Mine(r)'
      PROVE  q = r
  BY <1>2, <1>4 DEF PipeInv
<1> QED BY <1>1, <1>3, <1>4 DEF PipeInv

LEMMA ReportPipe ==
    ASSUME TypeOK, PipeInv, NEW p \in Proc, NEW f \in Flow, Report(p, f)
    PROVE  PipeInv'
<1>1. /\ \A q \in Proc : Where(q)' = "drop" => Kind[Mine(q)'] = "pause"
      /\ \A q \in Proc \ {p} : proc'[q] = proc[q]
      /\ ~At(p, "launch")'
  BY MovePlaces DEF Report, Label
<1>2. \A q \in Proc : At(q, "launch")' => At(q, "launch") /\ Mine(q)' = Mine(q)
  BY <1>1 DEF At, Mine
<1>3. ASSUME NEW g \in Flow PROVE TreeInv(g)'
  <2>1. TreeInv(g) /\ (Launching(g)' => Launching(g))
    BY <1>2 DEF PipeInv, Launching
  <2>2. /\ engine' = engine /\ overtaken' = overtaken
        /\ tree'[g] = IF g = f THEN engine[f] ELSE tree[g]
        /\ engine[f] # "none"
    BY DEF Report, history, TypeOK
  <2> QED BY <2>1, <2>2 DEF TreeInv
<1>4. ASSUME NEW q \in Proc, NEW r \in Proc,
             At(q, "launch")', At(r, "launch")', Mine(q)' = Mine(r)'
      PROVE  q = r
  BY <1>2, <1>4 DEF PipeInv
<1> QED BY <1>1, <1>3, <1>4 DEF PipeInv

LEMMA EnginePipe ==
    ASSUME TypeOK, PipeInv, NEW f \in Flow, EngineFinishes(f) \/ EngineFails(f) \/ RetryNode(f)
    PROVE  PipeInv'
<1>1. /\ UNCHANGED <<proc, tree, overtaken>>
      /\ engine[f] \in {"running", "failed"}
      /\ \E state \in {"finished", "failed", "running"} : engine' = [engine EXCEPT ![f] = state]
  BY DEF EngineFinishes, EngineFails, EngineEnds, RetryNode, history
<1>2. ASSUME NEW g \in Flow PROVE TreeInv(g)'
  <2>1. TreeInv(g) /\ (Launching(g)' <=> Launching(g))
    BY <1>1 DEF PipeInv, Launching, At, Mine
  <2>2. g # f => engine'[g] = engine[g]
    BY <1>1 DEF TypeOK
  <2>3. engine'[f] \in {"finished", "failed", "running"}
    BY <1>1 DEF TypeOK
  <2> QED BY <1>1, <2>1, <2>2, <2>3 DEF TreeInv
<1> QED BY <1>1, <1>2 DEF PipeInv, At, Mine, Where

LEMMA PipeStep == TypeOK /\ PauseInv /\ PipeInv /\ [Next]_vars => PipeInv'
<1> SUFFICES ASSUME TypeOK, PauseInv, PipeInv, [Next]_vars PROVE PipeInv'
  OBVIOUS
<1>1. CASE UNCHANGED vars
  BY <1>1 DEF vars, pipes, history, PipeInv, TreeInv, Launching, At, Where, Mine
<1>2. 1 \in Flow
  BY TicketAssumption DEF Flow
<1>3. ASSUME NEW p \in Proc, NEW f \in Flow, ReadNext(p) \/ Proceed(p) \/ Operate(p, f)
      PROVE  PipeInv'
  <2>1. CASE Stop(p)
    BY <2>1, RevokePipe DEF Stop
  <2>2. CASE Cancel(p) /\ ~Irrevocable(Mine(p))
    <3>1. Mine(p) \in Flow
      BY DEF TypeOK, Process, Mine
    <3> QED BY <2>2, <3>1, RevokePipe DEF Cancel
  <2>3. CASE Cancel(p) /\ Irrevocable(Mine(p))
    <3>1. "idle" \in Label \ {"signal", "write", "launch", "drop"}
      BY DEF Label
    <3> QED BY <2>3, <3>1, MoveCalm, CalmPipe DEF Cancel
  <2> QED BY <1>3, <2>1, <2>2, <2>3, CreateTreePipe, LaunchPipe, StepCalm, CalmPipe
<1> QED BY <1>1, <1>2, <1>3, ReportPipe, EnginePipe DEF Next

\* The pipeline of a flow is launched once.
THEOREM OneLaunch == Spec => []LaunchedOnce
<1>1. TypeOK /\ PipeInv => LaunchedOnce
  <2> SUFFICES ASSUME TypeOK, PipeInv, NEW p \in Proc, At(p, "launch")
               PROVE  /\ engine[Mine(p)] = "none"
                      /\ \A q \in Proc : At(q, "launch") /\ Mine(q) = Mine(p) => q = p
    BY DEF LaunchedOnce
  <2>1. Mine(p) \in Flow
    BY DEF TypeOK, Process, Mine
  <2>2. Launching(Mine(p))
    BY DEF Launching
  <2> QED BY <2>1, <2>2 DEF PipeInv, TreeInv
<1> QED BY <1>1, TypeInit, TypeStep, PauseInit, PauseStep, PipeInit, PipeStep, PTL DEF Spec

-----------------------------------------------------------------------------
(* What a termination leaves behind *)

\* Nothing of f runs or will run.
Dead(f) ==
    \/ Kind[f] = "pause"
    \/ engine[f] \in {"finished", "revoked"}
    \/ engine[f] = "none" /\ tree[f] # "none" /\ ~Launching(f)

\* Who has terminated f: on the way to the ticket, and until all is revoked.
Telling(p, f) == proc[p].at \in {"signal", "write"} /\ proc[p].then = "halt" /\ Mine(p) = f
Halting(p, f) == Where(p) \in {"halt", "cancel"} /\ Mine(p) = f

\* Who starts the pipeline of f, and looks at the ticket after that.
Starter(p, f) == proc[p].at \in {"launch", "post", "stop"} /\ Mine(p) = f

\* The ticket says that f is terminated, unless that is still on its way; and
\* the operator or the builder is going to see the pipeline, if there is one.
Handled(f) ==
    ~overtaken /\ status[f] = "terminated" =>
        /\ \/ ticket = "terminated"
           \/ Dead(f)
           \/ \E p \in Proc : Telling(p, f)
        /\ IsCurrent(f) =>
           \/ Dead(f)
           \/ tree[f] = "none"
           \/ \E p \in Proc : Halting(p, f) \/ Starter(p, f)

HandledInv == \A f \in Flow : Handled(f)

LEMMA HandledInit == Init => HandledInv
BY DEF Init, HandledInv, Handled

\* What is dead stays dead: a FlowTree is created once.
LEMMA DeadKept ==
    ASSUME TypeOK, PauseInv, PipeInv, PipeInv', [Next]_vars, NEW f \in Flow, Dead(f)
    PROVE  Dead(f)'
<1> USE DEF history
<1>1. TreeInv(f)
  BY DEF PipeInv
<1>2. ASSUME UNCHANGED <<tree, engine>>, Launching(f)' => Launching(f)
      PROVE  Dead(f)'
  BY <1>2 DEF Dead
<1>3. ASSUME NEW p \in Proc, Calm(p) PROVE Dead(f)'
  <2>1. \A q \in Proc : At(q, "launch")' => At(q, "launch") /\ Mine(q)' = Mine(q)
    BY <1>3 DEF Calm, At, Where, Mine
  <2> QED BY <1>2, <1>3, <2>1 DEF Calm, pipes, Launching
<1>4. CASE UNCHANGED vars
  BY <1>2, <1>4 DEF vars, pipes, Launching, At, Mine
<1>5. ASSUME NEW g \in Flow, EngineFinishes(g) \/ EngineFails(g) \/ RetryNode(g)
      PROVE  Dead(f)'
  <2>1. /\ UNCHANGED <<proc, tree>>
        /\ engine[g] \in {"running", "failed"}
        /\ \A h \in Flow : h # g => engine'[h] = engine[h]
    BY <1>5 DEF EngineFinishes, EngineFails, EngineEnds, RetryNode, TypeOK
  <2>2. Launching(f)' <=> Launching(f)
    BY <2>1 DEF Launching, At, Mine
  <2> QED BY <2>1, <2>2 DEF Dead
<1>6. ASSUME NEW p \in Proc, NEW g \in Flow, Report(p, g) PROVE Dead(f)'
  <2>1. At(p, "launch")' <=> FALSE
    BY <1>6, MovePlaces DEF Report, Label
  <2>2. \A q \in Proc \ {p} : proc'[q] = proc[q]
    BY <1>6, MovePlaces DEF Report, Label
  <2>3. Launching(f)' => Launching(f)
    BY <2>1, <2>2 DEF Launching, At, Mine
  <2>4. engine' = engine /\ (tree[f] # "none" => tree'[f] # "none")
    BY <1>6 DEF Report, TypeOK
  <2> QED BY <2>3, <2>4 DEF Dead
<1>7. ASSUME NEW p \in Proc, CreateTree(p) PROVE Dead(f)'
  <2>1. CASE f = Mine(p)
    <3>1. tree[f] = "none" /\ engine[f] = "none" /\ Kind[f] = "inner"
      BY <1>1, <1>7, <2>1 DEF CreateTree, TreeInv, PauseInv, Placed, At, Where, Pipeline
    <3> QED BY <3>1 DEF Dead
  <2>2. CASE f # Mine(p)
    <3>1. Mine(p)' = Mine(p) /\ \A q \in Proc \ {p} : proc'[q] = proc[q]
      BY <1>7, MovePlaces DEF CreateTree, Label
    <3>2. Launching(f)' => Launching(f)
      BY <2>2, <3>1 DEF Launching, At, Mine
    <3>3. engine' = engine /\ tree'[f] = tree[f]
      BY <1>7, <2>2 DEF CreateTree, TypeOK
    <3> QED BY <3>2, <3>3 DEF Dead
  <2> QED BY <2>1, <2>2
<1>8. ASSUME NEW p \in Proc, Launch(p) PROVE Dead(f)'
  <2>1. f = Mine(p) => Launching(f)
    BY <1>8 DEF Launch, Launching
  <2>2. f = Mine(p) => Kind[f] = "inner" /\ engine[f] = "none"
    BY <1>1, <1>8, <2>1 DEF Launch, TreeInv, PauseInv, Placed, At, Where, Pipeline
  <2>3. f # Mine(p)
    BY <2>1, <2>2 DEF Dead
  <2>4. ~At(p, "launch")' /\ \A q \in Proc \ {p} : proc'[q] = proc[q]
    BY <1>8, MovePlaces DEF Launch, Label
  <2>5. Launching(f)' => Launching(f)
    BY <2>4 DEF Launching, At, Mine
  <2>6. tree' = tree /\ engine'[f] = engine[f]
    BY <1>8, <2>3 DEF Launch, TypeOK
  <2> QED BY <2>5, <2>6 DEF Dead
<1>9. ASSUME NEW p \in Proc, NEW c \in Flow, RevokePipeline(c), ~Irrevocable(c), Go(p, "idle")
      PROVE  Dead(f)'
  <2>1. ~At(p, "launch")' /\ \A q \in Proc \ {p} : proc'[q] = proc[q]
    BY <1>9, MovePlaces DEF Label
  <2>2. Launching(f)' => Launching(f)
    BY <2>1 DEF Launching, At, Mine
  <2>3. /\ tree[f] # "none" => tree'[f] # "none"
        /\ engine'[f] \in {engine[f], "revoked"}
    BY <1>9 DEF RevokePipeline, TypeOK
  <2> QED BY <2>2, <2>3 DEF Dead
<1>10. ASSUME NEW p \in Proc, Cancel(p) PROVE Dead(f)'
  <2>1. CASE Irrevocable(Mine(p))
    <3>1. "idle" \in Label \ {"signal", "write", "launch", "drop"}
      BY DEF Label
    <3> QED BY <1>3, <1>10, <2>1, <3>1, MoveCalm DEF Cancel
  <2>2. CASE ~Irrevocable(Mine(p))
    <3>1. Mine(p) \in Flow
      BY DEF TypeOK, Process, Mine
    <3> QED BY <1>9, <1>10, <2>2, <3>1 DEF Cancel
  <2> QED BY <2>1, <2>2
<1>11. ASSUME NEW p \in Proc, Stop(p) PROVE Dead(f)'
  BY <1>9, <1>11 DEF Stop
<1>12. 1 \in Flow
  BY TicketAssumption DEF Flow
<1> QED BY <1>3, <1>4, <1>5, <1>6, <1>7, <1>8, <1>10, <1>11, <1>12, StepCalm DEF Next

\* A flow that has begun does not become the current one again.
LEMMA StillCurrent ==
    ASSUME NEW f \in Flow, status[f] # "pending", status'[f] # "pending", IsCurrent(f)',
           \A g \in Flow : status'[g] = "pending" => status[g] = "pending"
    PROVE  IsCurrent(f)
<1>1. f \notin Pending /\ f \notin Pending'
  BY DEF Pending
<1>2. \A g \in Flow \ Pending : g \in Flow \ Pending'
  BY DEF Pending
<1>3. \A g \in Flow \ Pending' : g <= f
  BY <1>1 DEF IsCurrent, Last
<1> QED BY <1>1, <1>2, <1>3 DEF IsCurrent, Last

\* A step of p that keeps what it owes to f.
LEMMA HandledKept ==
    ASSUME TypeOK, HandledInv, NEW f \in Flow, NEW p \in Proc,
           overtaken => overtaken',
           \A q \in Proc \ {p} : proc'[q] = proc[q],
           \A g \in Flow : status'[g] = "pending" => status[g] = "pending",
           Dead(f) => Dead(f)',
           tree[f] = "none" => tree'[f] = "none" \/ Starter(p, f)',
           ~overtaken' /\ status'[f] = "terminated" =>
               /\ status[f] = "terminated" \/ Dead(f)' \/ Telling(p, f)'
               /\ \/ ticket' = "terminated"
                  \/ Dead(f)'
                  \/ ticket' = ticket /\ (Telling(p, f) => Telling(p, f)')
               /\ Halting(p, f) \/ Starter(p, f) =>
                      Dead(f)' \/ tree'[f] = "none" \/ Halting(p, f)' \/ Starter(p, f)'
    PROVE  Handled(f)'
<1> SUFFICES ASSUME ~overtaken', status'[f] = "terminated", ~Dead(f)'
             PROVE  /\ ticket' = "terminated" \/ \E q \in Proc : Telling(q, f)'
                    /\ IsCurrent(f)' => \/ tree'[f] = "none"
                                        \/ \E q \in Proc : Halting(q, f)' \/ Starter(q, f)'
  BY DEF Handled
<1>1. CASE status[f] = "terminated"
  <2>1. /\ \/ ticket = "terminated"
           \/ \E q \in Proc : Telling(q, f)
        /\ IsCurrent(f) =>
           \/ tree[f] = "none"
           \/ \E q \in Proc : Halting(q, f) \/ Starter(q, f)
    BY <1>1 DEF HandledInv, Handled
  <2>2. \A q \in Proc \ {p} : /\ Telling(q, f) => Telling(q, f)'
                              /\ Halting(q, f) => Halting(q, f)'
                              /\ Starter(q, f) => Starter(q, f)'
    BY DEF Telling, Halting, Starter, Where, Mine
  <2>3. ticket' = "terminated" \/ \E q \in Proc : Telling(q, f)'
    BY <2>1, <2>2
  <2>4. IsCurrent(f)' => IsCurrent(f)
    BY <1>1, StillCurrent
  <2>5. IsCurrent(f)' => tree'[f] = "none" \/ \E q \in Proc : Halting(q, f)' \/ Starter(q, f)'
    BY <2>1, <2>2, <2>4
  <2> QED BY <2>3, <2>5
<1>2. CASE Telling(p, f)'
  BY <1>2 DEF Telling, Halting, Where
<1> QED BY <1>1, <1>2

\* A step of a process that has nothing to do with what was terminated.
LEMMA AsideHandled ==
    ASSUME TypeOK, HandledInv, NEW f \in Flow, NEW p \in Proc,
           Calm(p), ticket' = ticket, Dead(f) => Dead(f)',
           proc[p].at \notin {"signal", "write", "halt", "cancel", "launch", "post", "stop"},
           \A g \in Flow : status'[g] = "pending" => status[g] = "pending",
           ~overtaken' /\ status'[f] = "terminated" =>
               status[f] = "terminated" \/ Dead(f) \/ Telling(p, f)'
    PROVE  Handled(f)'
<1>1. ~Telling(p, f) /\ ~Halting(p, f) /\ ~Starter(p, f)
  BY DEF Telling, Halting, Starter, Where
<1> QED BY <1>1, HandledKept DEF Calm, pipes

\* What an evaluation finds terminated was so, or its FlowTree was revoked.
LEMMA EvaluatedDead ==
    ASSUME TypeOK, PipeInv, NEW f \in Flow, Evaluated(f) = "terminated"
    PROVE  status[f] = "terminated" \/ overtaken \/ Dead(f)
<1>1. CASE Settled(f)
  BY <1>1 DEF Evaluated
<1>2. CASE Kind[f] = "pause"
  BY <1>2 DEF Dead
<1>3. CASE ~Settled(f) /\ Kind[f] # "pause"
  <2>1. status[f] = "terminated" \/ tree[f] = "revoked"
    BY <1>3 DEF Evaluated, OfTree, TypeOK
  <2> QED BY <2>1 DEF PipeInv, TreeInv, Dead
<1> QED BY <1>1, <1>2, <1>3

LEMMA EvaluateHandled ==
    ASSUME TypeOK, PipeInv, HandledInv, NEW f \in Flow, NEW p \in Proc, NEW g \in Flow,
           NEW label \in {"run", "idle", "next"}, Evaluate(p, g, label),
           proc[p].at \in {"look", "callback", "idle"}, Dead(f) => Dead(f)'
    PROVE  Handled(f)'
<1>1. Calm(p) /\ ticket' = ticket
  BY EvaluateCalm DEF Evaluate
<1>2. \A h \in Flow : status'[h] \in {status[h], Evaluated(h)}
  BY DEF Evaluate, TypeOK
<1>3. \A h \in Flow : status'[h] = "pending" => status[h] = "pending"
  BY <1>2, EvaluatedOrder
<1>4. ~overtaken' /\ status'[f] = "terminated" => status[f] = "terminated" \/ Dead(f)
  BY <1>2, EvaluatedDead DEF Evaluate
<1> QED BY <1>1, <1>3, <1>4, AsideHandled

LEMMA SetStatusHandled ==
    ASSUME TypeOK, PipeInv, HandledInv, NEW f \in Flow, NEW p \in Proc,
           NEW st \in Status \ {"pending"}, NEW label \in {"idle", "check"},
           SetStatus(p, st, label), Dead(f) => Dead(f)',
           \/ st # "terminated" /\ proc[p].at \notin {"signal", "write", "halt", "cancel"}
           \/ Kind[Mine(p)] = "pause" /\ At(p, "drop")
    PROVE  Handled(f)'
<1>1. Calm(p) /\ ticket' = ticket /\ UNCHANGED pipes /\ overtaken' = overtaken
  BY MoveCalm DEF SetStatus, Label, history
<1>2. status' = [status EXCEPT ![Mine(p)] = st]
  BY DEF SetStatus
<1>3. \A h \in Flow : status'[h] = "pending" => status[h] = "pending"
  BY <1>2 DEF TypeOK
<1>4. status'[f] = "terminated" => status[f] = "terminated" \/ Dead(f)
  BY <1>2 DEF TypeOK, At, Dead
<1>5. st # "terminated" /\ status'[f] = "terminated" => f # Mine(p)
  BY <1>2 DEF TypeOK
<1>6. ~Telling(p, f) /\ ~Halting(p, f)
  BY DEF Telling, Halting, Where, At
<1>7. Starter(p, f) => f = Mine(p) /\ st # "terminated"
  BY DEF Starter, At
<1> QED BY <1>1, <1>3, <1>4, <1>5, <1>6, <1>7, HandledKept DEF Calm, pipes

LEMMA SignalHandled ==
    ASSUME TypeOK, PipeInv, HandledInv, NEW f \in Flow, NEW p \in Proc,
           SignalRead(p) \/ SignalWrite(p), Dead(f) => Dead(f)'
    PROVE  Handled(f)'
<1> USE DEF rows, history
<1>1. CASE SignalRead(p)
  <2>1. /\ \A q \in Proc \ {p} : proc'[q] = proc[q]
        /\ proc'[p].at = "write"
        /\ Where(p)' = Where(p) /\ Mine(p)' = Mine(p)
        /\ proc'[p].then = proc[p].then
        /\ proc[p].at = "signal"
    BY <1>1 DEF SignalRead, At, Where, Mine, TypeOK, Process
  <2>2. /\ \A h \in Flow : status'[h] = Evaluated(h)
        /\ UNCHANGED <<ticket, overtaken, tree>>
    BY <1>1 DEF SignalRead, pipes
  <2>3. \A h \in Flow : status'[h] = "pending" => status[h] = "pending"
    BY <2>2, EvaluatedOrder
  <2>4. ~overtaken' /\ status'[f] = "terminated" => status[f] = "terminated" \/ Dead(f)
    BY <2>2, EvaluatedDead
  <2>5. /\ Telling(p, f) => Telling(p, f)'
        /\ Halting(p, f) => Halting(p, f)'
        /\ ~Starter(p, f)
    BY <2>1 DEF Telling, Halting, Starter
  <2> QED BY <2>1, <2>2, <2>3, <2>4, <2>5, HandledKept
<1>2. CASE SignalWrite(p)
  <2>1. /\ \A q \in Proc \ {p} : proc'[q] = proc[q]
        /\ proc'[p] = [Free EXCEPT !.at = proc[p].then,
                            !.flow = IF proc[p].then = "idle" THEN 1 ELSE Mine(p)]
        /\ proc[p].at = "write" /\ proc[p].then \in AfterSave
    BY <1>2 DEF SignalWrite, At, TypeOK, Process
  <2>2. UNCHANGED <<status, tree>> /\ (overtaken => overtaken')
    BY <1>2 DEF SignalWrite, pipes
  <2>3. Halting(p, f) => Halting(p, f)'
    BY <2>1 DEF Halting, Where, Mine, Free, AfterSave
  <2>4. ~Starter(p, f)
    BY <2>1 DEF Starter
  <2>5. ~overtaken' /\ status'[f] = "terminated" => ticket' = "terminated"
    <3>1. ASSUME ~overtaken', status[f] = "terminated" PROVE ticket' = "terminated"
      <4>1. Target(status) = "terminated"
        BY <3>1 DEF Target
      <4>2. proc[p].target = Target(status)
        BY <1>2, <3>1 DEF SignalWrite
      <4> QED BY <1>2, <4>1, <4>2 DEF SignalWrite
    <3> QED BY <2>2, <3>1
  <2> QED BY <2>1, <2>2, <2>3, <2>4, <2>5, HandledKept
<1> QED BY <1>1, <1>2

\* The steps of the operator who terminates: what has no FlowTree has no
\* pipeline, and of the rest nothing is left.
LEMMA RevokedDead ==
    ASSUME TypeOK, PipeInv, NEW p \in Proc, NEW c \in Flow,
           RevokePipeline(c), ~Irrevocable(c), Go(p, "idle")
    PROVE  overtaken' \/ Dead(c)'
<1> SUFFICES ASSUME ~overtaken' PROVE Dead(c)'
  OBVIOUS
<1>1. ~At(p, "launch")' /\ \A q \in Proc \ {p} : proc'[q] = proc[q]
  BY MovePlaces DEF Label
<1>2. Launching(c)' => Launching(c)
  BY <1>1 DEF Launching, At, Mine
<1>3. TreeInv(c) /\ ~overtaken
  BY DEF PipeInv, RevokePipeline
<1>4. CASE tree[c] = "created"
  <2>1. engine[c] = "none" /\ ~Launching(c)
    BY <1>4 DEF RevokePipeline, Starting, Launching
  <2>2. engine'[c] = "none" /\ tree'[c] = "revoked"
    BY <1>4, <2>1 DEF RevokePipeline, TypeOK
  <2> QED BY <1>2, <2>1, <2>2 DEF Dead
<1>5. CASE tree[c] = "revoked"
  <2>1. engine'[c] = engine[c] /\ tree'[c] = "revoked"
    BY <1>5 DEF RevokePipeline, TypeOK
  <2> QED BY <1>2, <1>3, <1>5, <2>1 DEF TreeInv, Dead
<1>6. CASE tree[c] \notin {"created", "revoked"}
  <2>1. engine'[c] = "revoked"
    BY <1>6 DEF RevokePipeline, TypeOK
  <2> QED BY <2>1 DEF Dead
<1> QED BY <1>4, <1>5, <1>6

LEMMA HaltHandled ==
    ASSUME TypeOK, PipeInv, HandledInv, NEW f \in Flow, NEW p \in Proc,
           Halt(p) \/ Cancel(p), Dead(f) => Dead(f)'
    PROVE  Handled(f)'
<1> USE DEF rows, history
<1>1. /\ UNCHANGED <<ticket, status>>
      /\ overtaken => overtaken'
      /\ ~Telling(p, f) /\ ~Starter(p, f)
      /\ Halting(p, f) => f = Mine(p)
  BY DEF Halt, Cancel, RevokePipeline, Telling, Starter, Halting, At
<1>2. CASE Halt(p)
  <2>1. tree' = tree /\ \E label \in {"idle", "cancel"} : Go(p, label)
    BY <1>2 DEF Halt, pipes
  <2>2. \A q \in Proc \ {p} : proc'[q] = proc[q]
    BY <2>1, GoWhere DEF Label
  <2>3. tree[f] # "none" /\ Halting(p, f) => Halting(p, f)'
    <3>1. ASSUME tree[f] # "none", f = Mine(p) PROVE Halting(p, f)'
      <4>1. Go(p, "cancel")
        BY <1>2, <3>1 DEF Halt
      <4> QED BY <3>1, <4>1, GoWhere DEF Label, Halting
    <3> QED BY <1>1, <3>1
  <2> QED BY <1>1, <2>1, <2>2, <2>3, HandledKept
<1>3. CASE Cancel(p)
  <2>1. \A q \in Proc \ {p} : proc'[q] = proc[q]
    BY <1>3, GoWhere DEF Cancel, Label
  <2>2. Mine(p) \in Flow
    BY DEF TypeOK, Process, Mine
  <2>3. CASE Irrevocable(Mine(p))
    <3>1. UNCHANGED <<tree, engine, overtaken>>
      BY <1>3, <2>3 DEF Cancel, pipes
    <3>2. TreeInv(Mine(p))
      BY <2>2 DEF PipeInv
    <3>3. tree[Mine(p)] = "none" \/ Dead(Mine(p))
      <4>1. tree[Mine(p)] = "none" \/ engine[Mine(p)] \in {"finished", "revoked"}
        BY <2>2, <2>3, <3>2 DEF Irrevocable, TreeInv, TypeOK
      <4> QED BY <4>1 DEF Dead
    <3> QED BY <1>1, <2>1, <3>1, <3>3, HandledKept
  <2>4. CASE ~Irrevocable(Mine(p))
    <3> PICK c \in Flow : c = Mine(p)
      BY <2>2
    <3>1. RevokePipeline(c) /\ Go(p, "idle") /\ ~Irrevocable(c)
      BY <1>3, <2>4 DEF Cancel
    <3>2. overtaken' \/ Dead(c)'
      BY <3>1, RevokedDead
    <3>3. tree[f] = "none" => tree'[f] = "none"
      BY <3>1 DEF RevokePipeline, TypeOK
    <3>4. Halting(p, f) => overtaken' \/ Dead(f)'
      BY <1>1, <3>2
    <3> QED BY <1>1, <2>1, <3>3, <3>4, HandledKept
  <2> QED BY <2>3, <2>4
<1> QED BY <1>2, <1>3

LEMMA GoAt ==
    ASSUME TypeOK, NEW p \in Proc, NEW label \in Label, Go(p, label)
    PROVE  proc'[p].at = label
<1>1. CASE label = "idle"
  BY <1>1 DEF Go, Free, TypeOK
<1>2. CASE label # "idle"
  BY <1>2 DEF Go, TypeOK, Process
<1> QED BY <1>1, <1>2

\* The steps of the builder: it starts what it has a FlowTree for, and finds the
\* ticket terminated after that.
LEMMA StarterHandled ==
    ASSUME TypeOK, PipeInv, HandledInv, NEW f \in Flow, NEW p \in Proc,
           CreateTree(p) \/ Launch(p) \/ PostCheck(p) \/ Stop(p), Dead(f) => Dead(f)'
    PROVE  Handled(f)'
<1> USE DEF rows, history
<1>0. /\ UNCHANGED <<ticket, status>>
      /\ overtaken => overtaken'
      /\ proc[p].at \in {"insert", "launch", "post", "stop"}
  <2>1. CASE CreateTree(p) \/ Launch(p) \/ PostCheck(p)
    BY <2>1 DEF CreateTree, Launch, PostCheck, At
  <2>2. CASE Stop(p)
    BY <2>2 DEF Stop, RevokePipeline, At
  <2> QED BY <2>1, <2>2
<1>1. /\ UNCHANGED <<ticket, status>>
      /\ overtaken => overtaken'
      /\ ~Telling(p, f) /\ ~Halting(p, f)
      /\ Starter(p, f) => f = Mine(p)
  BY <1>0 DEF Telling, Starter, Halting, Where
<1>2. CASE CreateTree(p)
  <2>1. Go(p, "launch") /\ tree' = [tree EXCEPT ![Mine(p)] = "created"]
    BY <1>2 DEF CreateTree
  <2>2. /\ \A q \in Proc \ {p} : proc'[q] = proc[q]
        /\ Mine(p)' = Mine(p) /\ proc'[p].at = "launch"
    BY <2>1, GoWhere, GoAt DEF Label
  <2>3. tree'[f] = tree[f] \/ Starter(p, f)'
    BY <2>1, <2>2 DEF Starter, TypeOK
  <2>4. ~Starter(p, f)
    BY <1>2 DEF CreateTree, Starter, At
  <2> QED BY <1>1, <2>2, <2>3, <2>4, HandledKept
<1>3. CASE Launch(p)
  <2>1. Go(p, "post") /\ tree' = tree
    BY <1>3 DEF Launch
  <2>2. /\ \A q \in Proc \ {p} : proc'[q] = proc[q]
        /\ Mine(p)' = Mine(p) /\ proc'[p].at = "post"
    BY <2>1, GoWhere, GoAt DEF Label
  <2>3. Starter(p, f) => Starter(p, f)'
    BY <1>1, <2>2 DEF Starter
  <2> QED BY <1>1, <2>1, <2>2, <2>3, HandledKept
<1>4. CASE PostCheck(p)
  <2>1. tree' = tree /\ \A q \in Proc \ {p} : proc'[q] = proc[q]
    BY <1>4, GoWhere DEF PostCheck, Label, pipes
  <2>2. CASE ticket = "terminated"
    <3>1. Go(p, "stop")
      BY <1>4, <2>2 DEF PostCheck, Inactive
    <3>2. Mine(p)' = Mine(p) /\ proc'[p].at = "stop"
      BY <3>1, GoWhere, GoAt DEF Label
    <3>3. Starter(p, f) => Starter(p, f)'
      BY <1>1, <3>2 DEF Starter
    <3> QED BY <1>1, <2>1, <3>3, HandledKept
  <2>3. CASE ticket # "terminated"
    <3> SUFFICES ASSUME ~overtaken', status'[f] = "terminated", ~Dead(f)' PROVE Handled(f)'
      BY DEF Handled
    <3>1. PICK q \in Proc : Telling(q, f)
      BY <1>1, <2>3 DEF HandledInv, Handled
    <3>2. q # p
      BY <1>1, <3>1
    <3>3. Telling(q, f)' /\ Halting(q, f)'
      BY <2>1, <3>1, <3>2 DEF Telling, Halting, Where, Mine
    <3> QED BY <3>3 DEF Handled
  <2> QED BY <2>2, <2>3
<1>5. CASE Stop(p)
  <2>1. Go(p, "idle")
    BY <1>5 DEF Stop
  <2>2. PICK c \in Flow : IsCurrent(c) /\ ~Irrevocable(c) /\ RevokePipeline(c)
    BY <1>5 DEF Stop
  <2>3. overtaken' \/ Dead(c)'
    BY <2>1, <2>2, RevokedDead
  <2>4. \A q \in Proc \ {p} : proc'[q] = proc[q]
    BY <2>1, GoWhere DEF Label
  <2>5. CASE f = c
    BY <1>1, <2>3, <2>5 DEF Handled
  <2>6. CASE f # c
    <3>1. ~IsCurrent(f)
      BY <2>2, <2>6 DEF IsCurrent, Last, Flow
    <3>2. ~IsCurrent(f)'
      <4>1. Pending' = Pending
        BY <1>1 DEF Pending
      <4> QED BY <3>1, <4>1 DEF IsCurrent
    <3>3. \A q \in Proc : Telling(q, f) => Telling(q, f)'
      BY <1>1, <2>4 DEF Telling, Mine
    <3> QED BY <1>1, <3>2, <3>3 DEF HandledInv, Handled
  <2> QED BY <2>5, <2>6
<1> QED BY <1>2, <1>3, <1>4, <1>5

LEMMA ReportHandled ==
    ASSUME TypeOK, PipeInv, HandledInv, NEW f \in Flow, NEW p \in Proc, NEW g \in Flow,
           Report(p, g), Dead(f) => Dead(f)'
    PROVE  Handled(f)'
<1>1. /\ UNCHANGED <<ticket, status, overtaken>>
      /\ engine[g] # "none" /\ tree' = [tree EXCEPT ![g] = engine[g]]
      /\ proc[p].at = "idle"
  BY DEF Report, rows, history, At
<1>2. \A q \in Proc \ {p} : proc'[q] = proc[q]
  BY GoForWhere DEF Report, Label
<1>3. tree[f] = "none" => tree'[f] = "none"
  <2>1. TreeInv(f)
    BY DEF PipeInv
  <2> QED BY <1>1, <2>1 DEF TreeInv, TypeOK
<1>4. ~Telling(p, f) /\ ~Halting(p, f) /\ ~Starter(p, f)
  BY <1>1 DEF Telling, Halting, Starter, Where
<1> QED BY <1>1, <1>2, <1>3, <1>4, HandledKept

\* The steps of processes that neither terminate nor start a pipeline.
LEMMA OtherHandled ==
    ASSUME TypeOK, PipeInv, HandledInv, NEW f \in Flow, NEW p \in Proc, NEW g \in Flow,
           \/ ReadNext(p) \/ TooLate(p) \/ CheckAck(p) \/ CreateTodo(p) \/ Build(p)
           \/ Guard(p) \/ Recheck(p) \/ Flush(p) \/ Remark(p, g) \/ Confirm(p, g)
           \/ Confirmed(p) \/ Refuse(p, g) \/ Retry(p, g) \/ Revoke(p, g),
           Calm(p), Dead(f) => Dead(f)'
    PROVE  Handled(f)'
<1> USE DEF rows, history
<1>1. /\ ticket' = ticket
      /\ proc[p].at \in {"idle", "next", "look", "run", "ask", "check", "guard", "create", "flush",
                        "confirmed"}
  BY DEF ReadNext, TooLate, CheckAck, CreateTodo, Build, Guard, Recheck, Flush, Remark, Confirm,
         Confirmed, Refuse, Retry, Revoke, At
<1>2. CASE status' = status
  BY <1>1, <1>2, AsideHandled
<1>3. CASE Flush(p)
  <2>1. \A h \in Flow : status'[h] \in {status[h], "running"}
    BY <1>3 DEF Flush, TypeOK
  <2> QED BY <1>1, <2>1, AsideHandled
<1>4. CASE Revoke(p, g)
  <2>1. \A h \in Flow : status'[h] = IF h = g THEN "terminated" ELSE status[h]
    BY <1>4 DEF Revoke, TypeOK
  <2>2. proc[p] \in Process
    BY DEF TypeOK
  <2>3. proc'[p] = [[[proc[p] EXCEPT !.at = "signal"] EXCEPT !.flow = g] EXCEPT !.then = "halt"]
    BY <1>4 DEF Revoke, TypeOK
  <2>4. Telling(p, g)'
    BY <2>2, <2>3 DEF Process, Telling, Mine
  <2> QED BY <1>1, <2>1, <2>4, AsideHandled
<1>5. CASE \/ ReadNext(p) \/ TooLate(p) \/ CheckAck(p) \/ CreateTodo(p) \/ Build(p)
           \/ Guard(p) \/ Recheck(p) \/ Remark(p, g) \/ Confirm(p, g) \/ Confirmed(p)
           \/ Refuse(p, g) \/ Retry(p, g)
  <2>1. status' = status
    BY <1>5 DEF ReadNext, TooLate, CheckAck, CreateTodo, Build, Guard, Recheck, Remark, Confirm,
                Confirmed, Refuse, Retry
  <2> QED BY <1>2, <2>1
<1> QED BY <1>3, <1>4, <1>5

LEMMA HandledStep ==
    ASSUME TypeOK, PauseInv, PipeInv, PipeInv', HandledInv, [Next]_vars
    PROVE  HandledInv'
<1> SUFFICES ASSUME NEW f \in Flow PROVE Handled(f)'
  BY DEF HandledInv
<1> USE DEF rows, history
<1>1. Dead(f) => Dead(f)'
  BY DeadKept
<1>2. ASSUME UNCHANGED <<ticket, status, tree, proc, overtaken>> PROVE Handled(f)'
  <2>1. /\ \A q \in Proc : /\ Telling(q, f)' <=> Telling(q, f)
                           /\ Halting(q, f)' <=> Halting(q, f)
                           /\ Starter(q, f)' <=> Starter(q, f)
        /\ IsCurrent(f)' <=> IsCurrent(f)
    BY <1>2 DEF Telling, Halting, Starter, Where, Mine, IsCurrent, Pending
  <2> QED BY <1>1, <1>2, <2>1 DEF HandledInv, Handled
<1>3. CASE UNCHANGED vars
  BY <1>2, <1>3 DEF vars, pipes
<1>4. ASSUME NEW g \in Flow, EngineFinishes(g) \/ EngineFails(g) \/ RetryNode(g)
      PROVE  Handled(f)'
  BY <1>2, <1>4 DEF EngineFinishes, EngineFails, EngineEnds, RetryNode
<1>5. ASSUME NEW p \in Proc, NEW g \in Flow, ReadNext(p) \/ Proceed(p) \/ Report(p, g) \/ Operate(p, g)
      PROVE  Handled(f)'
  <2>1. CASE SignalRead(p) \/ SignalWrite(p)
    BY <1>1, <2>1, SignalHandled
  <2>2. CASE Halt(p) \/ Cancel(p)
    BY <1>1, <2>2, HaltHandled
  <2>3. CASE CreateTree(p) \/ Launch(p) \/ PostCheck(p) \/ Stop(p)
    BY <1>1, <2>3, StarterHandled
  <2>4. CASE Report(p, g)
    BY <1>1, <2>4, ReportHandled
  <2>5. CASE Look(p) \/ Callback(p) \/ View(p, g)
    BY <1>1, <2>5, EvaluateHandled DEF Look, Callback, View, At
  <2>6. "running" # "terminated" /\ {"running", "failed", "terminated"} \subseteq Status \ {"pending"}
    BY DEF Status
  <2>7. CASE PauseRunning(p) \/ InnerRunning(p) \/ ExclusiveError(p) \/ RunError(p)
    BY <1>1, <2>6, <2>7, SetStatusHandled DEF PauseRunning, InnerRunning, ExclusiveError, RunError, At
  <2>8. CASE CreateFails(p) \/ LaunchFails(p) \/ StopFails(p)
    BY <1>1, <2>6, <2>8, SetStatusHandled DEF CreateFails, LaunchFails, StopFails, At
  <2>9. CASE DropFlow(p)
    <3>1. Kind[Mine(p)] = "pause"
      BY <2>9 DEF DropFlow, PipeInv, At, Where
    <3> QED BY <1>1, <2>6, <2>9, <3>1, SetStatusHandled DEF DropFlow
  <2>10. CASE \/ ReadNext(p) \/ TooLate(p) \/ CheckAck(p) \/ CreateTodo(p) \/ Build(p)
              \/ Guard(p) \/ Recheck(p) \/ Flush(p) \/ Remark(p, g) \/ Confirm(p, g)
              \/ Confirmed(p) \/ Refuse(p, g) \/ Retry(p, g) \/ Revoke(p, g)
    <3>1. ~(CreateTree(p) \/ Launch(p) \/ Stop(p) \/ Cancel(p)) => Calm(p)
      BY <1>5, <2>10, StepCalm DEF Proceed, Operate
    <3>2. CASE CreateTree(p) \/ Launch(p) \/ Stop(p) \/ Cancel(p)
      BY <2>2, <2>3, <3>2
    <3> QED BY <1>1, <2>10, <3>1, <3>2, OtherHandled
  <2> QED BY <1>5, <2>1, <2>2, <2>3, <2>4, <2>5, <2>7, <2>8, <2>9, <2>10 DEF Proceed, Operate
<1>6. 1 \in Flow
  BY TicketAssumption DEF Flow
<1> QED BY <1>3, <1>4, <1>5, <1>6 DEF Next

\* When everybody has gone, no pipeline of the current flow runs if that flow is
\* terminated: either the operator saw its FlowTree, or its builder saw the ticket.
THEOREM TerminatedStops == Spec => []NoOrphan
<1>1. TypeOK /\ PipeInv /\ HandledInv => NoOrphan
  <2> SUFFICES ASSUME TypeOK, PipeInv, HandledInv, Quiet, ~overtaken,
                      NEW f \in Flow, IsCurrent(f), status[f] = "terminated"
               PROVE  engine[f] # "running"
    BY DEF NoOrphan
  <2>1. \A p \in Proc : ~Halting(p, f) /\ ~Starter(p, f)
    BY DEF Quiet, At, Halting, Starter, Where
  <2>2. Dead(f) \/ tree[f] = "none"
    BY <2>1 DEF HandledInv, Handled
  <2> QED BY <2>2 DEF Dead, PipeInv, TreeInv
<1> QED BY <1>1, TypeInit, TypeStep, PauseInit, PauseStep, PipeInit, PipeStep, HandledInit,
           HandledStep, PTL DEF Spec
=============================================================================
