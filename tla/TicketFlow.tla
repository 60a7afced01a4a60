----------------------------- MODULE TicketFlow -----------------------------
(***************************************************************************)
(* One ticket of the DBM backend and its flows, which run one after the    *)
(* other: a pause flow waits until its todo is confirmed, an inner flow    *)
(* starts a pipeline in the engine.  Web requests, celery workers and the  *)
(* workers of the engine act on the ticket at the same time and meet in    *)
(* the database only (TicketFlowManager, the flow classes, the todos,      *)
(* Builder.run_pipeline with its guard, post_set_state_signal_handler).    *)
(*                                                                         *)
(* Every save of a flow row triggers update_ticket_status, which reads all *)
(* flows and writes the ticket in a later step.  The status property of a  *)
(* flow, which reads its row, looks at its todos or at its FlowTree and    *)
(* writes what it finds, is one step.                                      *)
(***************************************************************************)
EXTENDS Integers

CONSTANTS
    N,           \* the flows are 1 .. N, in the order of their ids
    Kind,        \* the type of a flow: "pause" or "inner"
    Proc,        \* web requests and workers that may be under way together
    MaxRetry,    \* how often a flow fails, and is retried, at most
    Terminable   \* the flows that operators may terminate

Flow == 1 .. N
First(f, S) == f \in S /\ \A g \in S : f <= g
Last(f, S) == f \in S /\ \A g \in S : g <= f

ASSUME TicketAssumption ==
    /\ N \in Nat \ {0}
    /\ Kind \in [Flow -> {"pause", "inner"}]
    /\ MaxRetry \in Nat
    /\ Terminable \subseteq Flow

VARIABLES
    ticket,     \* the status of the ticket
    status,     \* status[f]: the status in the row of flow f
    exclusive,  \* exclusive[f]: its err_code is AUTO_EXCLUSIVE_ERROR
    ack,        \* ack[f]: "ack" in its context
    todo,       \* todo[f]: the todo of f (to confirm, or of its failure)
    tree,       \* tree[f]: the status of its FlowTree
    engine,     \* engine[f]: the pipeline itself
    proc,       \* proc[p]: what process p is doing
    starts,     \* starts[f]: how often the body of f was entered
    retries,    \* retries[f]: how often f was flushed for a retry
    ended,      \* the flows that have been found finished
    early,      \* the pauses whose todo was confirmed while they were pending
    overtaken   \* has a status been written, or a FlowTree been revoked, on
                \* the strength of what was not true any more?

rows == <<status, exclusive, ack, todo>>
pipes == <<tree, engine>>
history == <<starts, retries, ended, early, overtaken>>
vars == <<ticket, rows, pipes, proc, history>>

Status == {"pending", "running", "failed", "succeeded", "terminated"}
TicketStatus == {"pending", "todo", "running", "failed", "terminated",
                 "succeeded"}
Label == {"idle", "signal", "write", "next", "look", "run", "ask", "asked",
          "begin", "check", "guard", "create", "insert", "launch", "post",
          "stop", "flush", "halt", "cancel", "drop", "confirmed", "callback"}

\* Where to go on after the signal of a save.
AfterSave == {"idle", "next", "run", "ask", "begin", "check", "halt"}

\* target: what the signal is going to write.
Process == [at : Label, flow : Flow, then : AfterSave,
            target : TicketStatus \cup {"none"}]

Free == [at |-> "idle", flow |-> 1, then |-> "idle", target |-> "none"]

TypeOK ==
    /\ ticket \in TicketStatus
    /\ status \in [Flow -> Status]
    /\ exclusive \in [Flow -> BOOLEAN]
    /\ ack \in [Flow -> BOOLEAN]
    /\ todo \in [Flow -> {"none", "todo", "done", "dropped"}]
    /\ tree \in [Flow -> {"none", "created", "running", "failed", "finished",
                          "revoked"}]
    /\ engine \in [Flow -> {"none", "running", "failed", "finished",
                            "revoked"}]
    /\ proc \in [Proc -> Process]
    /\ starts \in [Flow -> Nat]
    /\ retries \in [Flow -> Nat]
    /\ ended \subseteq Flow
    /\ early \subseteq Flow
    /\ overtaken \in BOOLEAN

Init ==
    /\ ticket = "pending"
    /\ status = [f \in Flow |-> "pending"]
    /\ exclusive = [f \in Flow |-> FALSE]
    /\ ack = [f \in Flow |-> FALSE]
    /\ todo = [f \in Flow |-> "none"]
    /\ tree = [f \in Flow |-> "none"]
    /\ engine = [f \in Flow |-> "none"]
    /\ \E creator \in Proc :
          proc = [p \in Proc |-> IF p = creator THEN [Free EXCEPT !.at = "next"]
                                               ELSE Free]
    /\ starts = [f \in Flow |-> 0]
    /\ retries = [f \in Flow |-> 0]
    /\ ended = {}
    /\ early = {}
    /\ overtaken = FALSE

At(p, label) == proc[p].at = label
Mine(p) == proc[p].flow
Go(p, label) ==
    proc' = [proc EXCEPT ![p] = IF label = "idle" THEN Free
                                ELSE [@ EXCEPT !.at = label]]
GoFor(p, label, f) == proc' = [proc EXCEPT ![p].at = label, ![p].flow = f]

\* A save of a flow row: its signal comes first, then the caller goes on.
Saved(p, label) ==
    proc' = [proc EXCEPT ![p].at = "signal", ![p].then = label]

-----------------------------------------------------------------------------
(* The status property of a flow *)

Unfinished == \E f \in Flow : todo[f] = "todo"

\* Mutant: the state of the engine is taken for a status of the flow.
OfTreeRaw(t) == IF t = "finished" THEN "succeeded" ELSE t

\* BAMBOO_STATE__TICKET_STATE_MAP
OfTree(t) ==
    CASE t = "finished" -> "succeeded"
      [] t = "failed" -> "failed"
      [] t = "revoked" -> "terminated"
      [] OTHER -> "running"

\* Rows that are pending, finished or terminated are taken as they are.
Settled(f) == status[f] \notin {"running", "failed"}

Evaluated(f) ==
    CASE Settled(f) -> status[f]
      [] ~Settled(f) /\ Kind[f] = "pause" ->
            IF Unfinished THEN "running" ELSE "succeeded"
      [] OTHER -> IF exclusive[f] \/ tree[f] = "none" THEN status[f]
                                                      ELSE OfTree(tree[f])

\* set_inner_flow_todo: a failed inner flow has a todo, any other has none left.
EvaluatedTodo(f) ==
    IF Settled(f) \/ Kind[f] = "pause" \/ exclusive[f] THEN todo[f]
    ELSE IF Evaluated(f) = "failed" THEN "todo"
    ELSE IF todo[f] # "todo" THEN todo[f]
    ELSE IF Evaluated(f) = "terminated" THEN "dropped" ELSE "done"

\* The status of f is evaluated, and written if the row says otherwise; the
\* process goes on at label.
Evaluate(p, f, label) ==
    /\ status' = [status EXCEPT ![f] = Evaluated(f)]
    /\ todo' = [todo EXCEPT ![f] = EvaluatedTodo(f)]
    /\ ended' = IF Evaluated(f) = "succeeded" THEN ended \cup {f} ELSE ended
    /\ IF Evaluated(f) = status[f] THEN Go(p, label) ELSE Saved(p, label)
    /\ UNCHANGED <<ticket, exclusive, ack, pipes, starts, retries, early, overtaken>>

-----------------------------------------------------------------------------
(* update_ticket_status *)

\* The ticket's status for the flows' statuses s; "none" leaves it alone.
Target(s) ==
    LET Some(st) == {f \in Flow : s[f] = st}
    IN  CASE Some("terminated") # {} -> "terminated"
          [] Some("terminated") = {} /\ Some("failed") # {} -> "failed"
          [] Some("terminated") \cup Some("failed") = {}
             /\ Some("running") # {} ->
                  IF \E f \in Some("running") : /\ Kind[f] = "pause"
                                                /\ Last(f, Some("running"))
                  THEN "todo" ELSE "running"
          [] OTHER -> IF Some("succeeded") = Flow THEN "succeeded" ELSE "none"

SignalRead(p) ==
    /\ At(p, "signal")
    /\ status' = [f \in Flow |-> Evaluated(f)]
    /\ todo' = [f \in Flow |-> EvaluatedTodo(f)]
    /\ ended' = ended \cup {f \in Flow : Evaluated(f) = "succeeded"}
    /\ proc' = [proc EXCEPT ![p].at = "write", ![p].target = Target(status')]
    /\ UNCHANGED <<ticket, exclusive, ack, pipes, starts, retries, early, overtaken>>

SignalWrite(p) ==
    /\ At(p, "write")
    /\ ticket' = IF proc[p].target = "none" THEN ticket ELSE proc[p].target
    /\ overtaken' = (overtaken \/ proc[p].target # Target(status))
    /\ proc' = [proc EXCEPT ![p] = [Free EXCEPT !.at = proc[p].then,
                       !.flow = IF proc[p].then = "idle" THEN 1 ELSE Mine(p)]]
    /\ UNCHANGED <<rows, pipes, starts, retries, ended, early>>

-----------------------------------------------------------------------------
(* run_next_flow *)

Pending == {f \in Flow : status[f] = "pending"}

\* current_flow: the last that is not pending; at the beginning the first.
IsCurrent(c) == IF Pending = Flow THEN c = 1 ELSE Last(c, Flow \ Pending)

\* Anyone may call it: the creator of the ticket, ITSM's callback, a timer.
\* The next flow is read first ...
ReadNext(p) ==
    /\ At(p, "next") \/ (At(p, "idle") /\ Pending # {})
    /\ \/ Pending = {} /\ Go(p, "idle")
       \/ \E f \in Flow : First(f, Pending) /\ GoFor(p, "look", f)
    /\ UNCHANGED <<ticket, rows, pipes, history>>

\* ... then the current one: it must come before the next and be finished.
TooLate(p) ==
    /\ At(p, "look")
    /\ Mine(p) # 1
    /\ \E c \in Flow : IsCurrent(c) /\ c >= Mine(p)
    /\ Go(p, "idle")
    /\ UNCHANGED <<ticket, rows, pipes, history>>

\* Mutant: the current flow is read first, and the next flow after it.
LookSwapped(p) ==
    /\ At(p, "look")
    /\ \E f \in Flow :
          /\ First(f, Pending)
          /\ IF \/ f = 1
                \/ Mine(p) # 1 /\ Evaluated(Mine(p) - 1) = "succeeded"
             THEN GoFor(p, "run", f) ELSE Go(p, "idle")
    /\ UNCHANGED <<ticket, rows, pipes, history>>

Look(p) ==
    /\ At(p, "look")
    /\ \E c \in Flow :
          /\ IsCurrent(c)
          /\ Mine(p) = 1 \/ c < Mine(p)
          /\ Evaluate(p, c, IF Mine(p) = 1 \/ Evaluated(c) = "succeeded"
                            THEN "run" ELSE "idle")

-----------------------------------------------------------------------------
(* BaseTicketFlow.run, PauseFlow._run, InnerFlow.run *)

\* Mutant: whoever comes second is not sent away.
CheckAckBlind(p) ==
    /\ At(p, "run")
    /\ ack' = [ack EXCEPT ![Mine(p)] = TRUE]
    /\ starts' = [starts EXCEPT ![Mine(p)] = IF @ > 2 THEN @ ELSE @ + 1]
    /\ Saved(p, IF Kind[Mine(p)] = "pause" THEN "ask" ELSE "begin")
    /\ UNCHANGED <<ticket, status, exclusive, todo, pipes, retries, ended,
                   early, overtaken>>

\* Mutant: the flow is running before its todo is there.
CheckAckRunning(p) ==
    /\ At(p, "run")
    /\ IF ack[Mine(p)]
       THEN Go(p, "idle") /\ UNCHANGED <<status, ack, starts>>
       ELSE /\ ack' = [ack EXCEPT ![Mine(p)] = TRUE]
            /\ status' = [status EXCEPT ![Mine(p)] = "running"]
            /\ starts' = [starts EXCEPT ![Mine(p)] = @ + 1]
            /\ Saved(p, IF Kind[Mine(p)] = "pause" THEN "ask" ELSE "begin")
    /\ UNCHANGED <<ticket, exclusive, todo, pipes, retries, ended, early,
                   overtaken>>

\* check_flow_ack, under the lock of the row.
CheckAck(p) ==
    /\ At(p, "run")
    /\ IF ack[Mine(p)]
       THEN Go(p, "idle") /\ UNCHANGED <<ack, starts>>
       ELSE /\ ack' = [ack EXCEPT ![Mine(p)] = TRUE]
            /\ starts' = [starts EXCEPT ![Mine(p)] = @ + 1]
            /\ Saved(p, IF Kind[Mine(p)] = "pause" THEN "ask" ELSE "begin")
    /\ UNCHANGED <<ticket, status, exclusive, todo, pipes, retries, ended, early,
                   overtaken>>

\* The todo of a pause flow is there before the flow is running.
CreateTodo(p) ==
    /\ At(p, "ask")
    /\ todo' = [todo EXCEPT ![Mine(p)] = "todo"]
    /\ Go(p, "asked")
    /\ UNCHANGED <<ticket, status, exclusive, ack, pipes, history>>

\* run_status_handler
SetStatus(p, st, label) ==
    /\ status' = [status EXCEPT ![Mine(p)] = st]
    /\ Saved(p, label)
    /\ UNCHANGED <<ticket, ack, todo, pipes, history>>

PauseRunning(p) ==
    /\ At(p, "asked")
    /\ SetStatus(p, "running", "idle")
    /\ UNCHANGED exclusive

InnerRunning(p) ==
    /\ At(p, "begin")
    /\ SetStatus(p, "running", "check")
    /\ UNCHANGED exclusive

\* Another ticket is at work on a cluster: the periodic task retries later.
ExclusiveError(p) ==
    /\ At(p, "check")
    /\ retries[Mine(p)] < MaxRetry
    /\ exclusive' = [exclusive EXCEPT ![Mine(p)] = TRUE]
    /\ SetStatus(p, "running", "idle")

\* An exception before the pipeline is built.
RunError(p) ==
    /\ At(p, "check")
    /\ retries[Mine(p)] < MaxRetry
    /\ SetStatus(p, "failed", "idle")
    /\ UNCHANGED exclusive

Build(p) ==
    /\ At(p, "check")
    /\ Go(p, "guard")
    /\ UNCHANGED <<ticket, rows, pipes, history>>

-----------------------------------------------------------------------------
(* Builder.run_pipeline and revoke_pipeline *)

\* is_ticket_inactive
Inactive == ticket # "running"

\* The check before: a pipeline of a ticket that does not run is not built,
\* and nobody is told.
Guard(p) ==
    /\ At(p, "guard")
    /\ Go(p, IF Inactive THEN "idle" ELSE "create")
    /\ UNCHANGED <<ticket, rows, pipes, history>>

\* And once more, with a look for a FlowTree of an earlier start.
Recheck(p) ==
    /\ At(p, "create")
    /\ Go(p, IF Inactive \/ tree[Mine(p)] # "none" THEN "idle" ELSE "insert")
    /\ UNCHANGED <<ticket, rows, pipes, history>>

\* Mutant: nothing keeps a second FlowTree from taking the place of the first.
CreateTreeAgain(p) ==
    /\ At(p, "insert")
    /\ tree' = [tree EXCEPT ![Mine(p)] = "created"]
    /\ Go(p, "launch")
    /\ UNCHANGED <<ticket, rows, engine, history>>

\* FlowTree.objects.create; root_id is its primary key.
CreateTree(p) ==
    /\ At(p, "insert")
    /\ tree[Mine(p)] = "none"
    /\ tree' = [tree EXCEPT ![Mine(p)] = "created"]
    /\ Go(p, "launch")
    /\ UNCHANGED <<ticket, rows, engine, history>>

CreateFails(p) ==
    /\ At(p, "insert")
    /\ tree[Mine(p)] # "none"
    /\ SetStatus(p, "failed", "idle")
    /\ UNCHANGED exclusive

Launch(p) ==
    /\ At(p, "launch")
    /\ engine' = [engine EXCEPT ![Mine(p)] = "running"]
    /\ Go(p, "post")
    /\ UNCHANGED <<ticket, rows, tree, history>>

\* PipelineError: the FlowTree stays.
LaunchFails(p) ==
    /\ At(p, "launch")
    /\ retries[Mine(p)] < MaxRetry
    /\ SetStatus(p, "failed", "idle")
    /\ UNCHANGED exclusive

\* Mutant: the ticket is not looked at again.
PostCheckNever(p) ==
    /\ At(p, "post")
    /\ Go(p, "idle")
    /\ UNCHANGED <<ticket, rows, pipes, history>>

\* The check after, for a ticket that was terminated meanwhile.
PostCheck(p) ==
    /\ At(p, "post")
    /\ Go(p, IF Inactive THEN "stop" ELSE "idle")
    /\ UNCHANGED <<ticket, rows, pipes, history>>

\* TaskFlowHandler.revoke_pipeline raises: there is no FlowTree, or the engine
\* does not revoke what has ended.
Irrevocable(f) ==
    \/ tree[f] = "none"
    \/ tree[f] \notin {"created", "revoked"} /\ engine[f] \notin {"running", "failed"}

\* The FlowTree does not say yet that the pipeline was started.
Starting(f) ==
    /\ tree[f] = "created"
    /\ engine[f] # "none" \/ \E q \in Proc : At(q, "launch") /\ Mine(q) = f

\* Of a FlowTree that is created the row alone is changed.
RevokePipeline(f) ==
    /\ tree' = [tree EXCEPT ![f] = IF @ = "created" THEN "revoked" ELSE @]
    /\ engine' = [engine EXCEPT ![f] = IF tree[f] \in {"created", "revoked"}
                                       THEN @ ELSE "revoked"]
    /\ overtaken' = (overtaken \/ Starting(f))

\* The check after revokes the pipeline of the flow that is the current one now.
Stop(p) ==
    /\ At(p, "stop")
    /\ \E c \in Flow :
          /\ IsCurrent(c)
          /\ ~Irrevocable(c)
          /\ RevokePipeline(c)
    /\ Go(p, "idle")
    /\ UNCHANGED <<ticket, rows, starts, retries, ended, early>>

StopFails(p) ==
    /\ At(p, "stop")
    /\ \E c \in Flow : IsCurrent(c) /\ Irrevocable(c)
    /\ SetStatus(p, "failed", "idle")
    /\ UNCHANGED exclusive

-----------------------------------------------------------------------------
(* The engine and its signals *)

EngineEnds(f, state) ==
    /\ engine[f] = "running"
    /\ engine' = [engine EXCEPT ![f] = state]
    /\ UNCHANGED <<ticket, rows, tree, proc, history>>

EngineFinishes(f) == EngineEnds(f, "finished")
EngineFails(f) == EngineEnds(f, "failed")

\* An operator retries the failed node of a pipeline.
RetryNode(f) ==
    /\ engine[f] = "failed"
    /\ engine' = [engine EXCEPT ![f] = "running"]
    /\ UNCHANGED <<ticket, rows, tree, proc, history>>

\* post_set_state_signal_handler saves the FlowTree and calls the ticket back.
Report(p, f) ==
    /\ At(p, "idle")
    /\ engine[f] # "none" /\ tree[f] # engine[f]
    /\ tree' = [tree EXCEPT ![f] = engine[f]]
    /\ GoFor(p, "callback", f)
    /\ UNCHANGED <<ticket, rows, engine, history>>

\* Mutant: the end of a pipeline does not start the next flow.
CallbackQuiet(p) ==
    /\ At(p, "callback")
    /\ \E c \in Flow : IsCurrent(c) /\ Evaluate(p, c, "idle")

\* callback_ticket
Callback(p) ==
    /\ At(p, "callback")
    /\ \E c \in Flow :
          /\ IsCurrent(c)
          /\ Evaluate(p, c, IF c = Mine(p) /\ Evaluated(c) = "succeeded"
                            THEN "next" ELSE "idle")

-----------------------------------------------------------------------------
(* Operators *)

\* Somebody opens the page of the ticket.
View(p, f) ==
    /\ At(p, "idle")
    /\ Evaluated(f) # status[f]
    /\ Evaluate(p, f, "idle")

\* TodoActor.update_context: a remark is saved with the flow of the todo, which
\* is a save like any other; what is to be done with the todo comes after it.
Remark(p, f) ==
    /\ At(p, "idle")
    /\ todo[f] = "todo"
    /\ Saved(p, "idle")
    /\ UNCHANGED <<ticket, rows, pipes, history>>

\* PauseTodo: confirmed, maybe before the process that has asked for it calls
\* run_status_handler ...
Confirm(p, f) ==
    /\ At(p, "idle")
    /\ Kind[f] = "pause" /\ todo[f] = "todo"
    /\ todo' = [todo EXCEPT ![f] = "done"]
    /\ early' = IF status[f] = "pending" THEN early \cup {f} ELSE early
    /\ Go(p, "confirmed")
    /\ UNCHANGED <<ticket, status, exclusive, ack, pipes, starts, retries, ended,
                   overtaken>>

\* ... then the next flow is run, if no other todo is unfinished.
Confirmed(p) ==
    /\ At(p, "confirmed")
    /\ Go(p, IF Unfinished THEN "idle" ELSE "next")
    /\ UNCHANGED <<ticket, rows, pipes, history>>

\* PauseTodo: terminated.  The todo is written first, the flow after it.
Refuse(p, f) ==
    /\ At(p, "idle")
    /\ f \in Terminable
    /\ Kind[f] = "pause" /\ todo[f] = "todo"
    /\ todo' = [todo EXCEPT ![f] = "dropped"]
    /\ GoFor(p, "drop", f)
    /\ UNCHANGED <<ticket, status, exclusive, ack, pipes, history>>

DropFlow(p) ==
    /\ At(p, "drop")
    /\ SetStatus(p, "terminated", "idle")
    /\ UNCHANGED exclusive

\* FailedTodo, or retry_exclusive_inner_flow with what it has listed.
Retry(p, f) ==
    /\ At(p, "idle")
    /\ \/ Kind[f] = "inner" /\ todo[f] = "todo"
       \/ exclusive[f]
    /\ retries[f] < MaxRetry
    /\ GoFor(p, "flush", f)
    /\ UNCHANGED <<ticket, rows, pipes, history>>

\* flush_error_status_handler
Flush(p) ==
    /\ At(p, "flush")
    /\ status' = [status EXCEPT ![Mine(p)] = "running"]
    /\ exclusive' = [exclusive EXCEPT ![Mine(p)] = FALSE]
    /\ ack' = [ack EXCEPT ![Mine(p)] = FALSE]
    /\ retries' = [retries EXCEPT ![Mine(p)] = @ + 1]
    /\ Saved(p, "run")
    /\ UNCHANGED <<ticket, todo, pipes, starts, ended, early, overtaken>>

\* Mutant: the row is updated in the table, which sends no signal.
RevokeSilent(p, f) ==
    /\ At(p, "idle")
    /\ f \in Terminable
    /\ First(f, {g \in Flow : status[g] \notin {"succeeded", "terminated"}})
    /\ status' = [status EXCEPT ![f] = "terminated"]
    /\ exclusive' = [exclusive EXCEPT ![f] = FALSE]
    /\ GoFor(p, "halt", f)
    /\ UNCHANGED <<ticket, ack, todo, pipes, history>>

\* revoke_ticket, revoke_flow: the row first, then todos and the pipeline.
Revoke(p, f) ==
    /\ At(p, "idle")
    /\ f \in Terminable
    /\ First(f, {g \in Flow : status[g] \notin {"succeeded", "terminated"}})
    /\ status' = [status EXCEPT ![f] = "terminated"]
    /\ exclusive' = [exclusive EXCEPT ![f] = FALSE]
    /\ proc' = [proc EXCEPT ![p].at = "signal", ![p].flow = f,
                            ![p].then = "halt"]
    /\ UNCHANGED <<ticket, ack, todo, pipes, history>>

Halt(p) ==
    /\ At(p, "halt")
    /\ todo' = [todo EXCEPT ![Mine(p)] = IF @ = "todo" THEN "dropped" ELSE @]
    /\ Go(p, IF tree[Mine(p)] = "none" THEN "idle" ELSE "cancel")
    /\ UNCHANGED <<ticket, status, exclusive, ack, pipes, history>>

Cancel(p) ==
    /\ At(p, "cancel")
    /\ IF Irrevocable(Mine(p)) THEN UNCHANGED <<pipes, overtaken>>
                               ELSE RevokePipeline(Mine(p))
    /\ Go(p, "idle")
    /\ UNCHANGED <<ticket, rows, starts, retries, ended, early>>

-----------------------------------------------------------------------------
\* What a process goes on with by itself.
Proceed(p) ==
    \/ SignalRead(p) \/ SignalWrite(p) \/ TooLate(p) \/ Look(p)
    \/ CheckAck(p) \/ CreateTodo(p) \/ PauseRunning(p) \/ InnerRunning(p)
    \/ ExclusiveError(p) \/ RunError(p) \/ Build(p) \/ Guard(p)
    \/ Recheck(p) \/ CreateTree(p) \/ CreateFails(p)
    \/ Launch(p) \/ LaunchFails(p) \/ PostCheck(p)
    \/ Stop(p) \/ StopFails(p) \/ Callback(p) \/ Confirmed(p) \/ DropFlow(p)
    \/ Flush(p) \/ Halt(p) \/ Cancel(p)

Operate(p, f) ==
    \/ View(p, f) \/ Remark(p, f) \/ Confirm(p, f) \/ Refuse(p, f)
    \/ Retry(p, f) \/ Revoke(p, f)

Next ==
    \/ \E p \in Proc : ReadNext(p) \/ Proceed(p)
    \/ \E p \in Proc, f \in Flow : Report(p, f) \/ Operate(p, f)
    \/ \E f \in Flow : EngineFinishes(f) \/ EngineFails(f) \/ RetryNode(f)

Spec == Init /\ [][Next]_vars

\* No process stops half way (the code has no recovery for it), the engine
\* reports and ends what it runs, and operators confirm todos and retry what
\* has failed.  Calls of run_next_flow, views and terminations are not owed.
Fairness ==
    /\ \A p \in Proc : WF_vars(Proceed(p) \/ (At(p, "next") /\ ReadNext(p)))
    /\ SF_vars(\E p \in Proc, f \in Flow : Report(p, f))
    /\ SF_vars(\E p \in Proc, f \in Flow : Confirm(p, f) \/ Retry(p, f))
    /\ SF_vars(\E f \in Flow : EngineFinishes(f))
    /\ WF_vars(\E f \in Flow : RetryNode(f))

FairSpec == Spec /\ Fairness

-----------------------------------------------------------------------------
(* Properties *)

\* A flow is entered only after every flow before it has been found finished,
\* however many callers run run_next_flow at a time: the next flow is read
\* before the current one.  (TicketFlowManager.run_next_flow)
InOrder == \A f \in Flow : starts[f] > 0 => 1 .. (f - 1) \subseteq ended

\* Nothing after a pause flow is entered unless the todo of the pause was
\* confirmed, if nobody terminates the pause: the todo is there before anybody
\* can find the flow running.  (PauseFlow._run, PauseFlow._status, PauseTodo)
ConfirmedFirst ==
    \A f \in Flow, g \in Flow \ Terminable :
        starts[f] > 0 /\ g < f /\ Kind[g] = "pause" => todo[g] = "done"

\* The body of a flow is entered once, and once more for each retry, whoever
\* comes along with it.  (check_flow_ack, flush_error_status_handler)
StartedOnce == \A f \in Flow : starts[f] <= 1 + retries[f]

\* The pipeline of a flow is launched once, whoever starts or retries the flow
\* meanwhile and however long ago he looked for its FlowTree: nobody launches
\* what somebody else launches, or what runs, has ended or was revoked.
\* (Builder.run_pipeline, guard_ticket_revoked)
LaunchedOnce ==
    \A p \in Proc : At(p, "launch") =>
        /\ engine[Mine(p)] = "none"
        /\ \A q \in Proc : At(q, "launch") /\ Mine(q) = Mine(p) => q = p

Quiet == \A p \in Proc : At(p, "idle")

\* When everybody has gone, no pipeline runs for the current flow if that is
\* terminated: either the operator saw its FlowTree, or its builder saw that the
\* ticket was terminated.  Unless a status or a FlowTree was out of date; and a
\* second termination of the ticket, which terminates the flow after it, hides
\* the pipeline from the check: see RevokedStops.
\* (guard_ticket_revoked, InnerFlow._revoke)
NoOrphan ==
    Quiet /\ ~overtaken => \A f \in Flow :
        IsCurrent(f) /\ status[f] = "terminated" => engine[f] # "running"

\* When everybody has gone, the ticket has the status that the rows of its flows
\* give it, unless a slower signal has overwritten it.  (update_ticket_status)
TicketAgrees == Quiet /\ ~overtaken => Target(status) \in {ticket, "none"}

\* A pipeline whose start failed leaves a FlowTree that says created: the flow
\* is taken to be running, and no retry starts it.
Stranded ==
    \E f \in Flow : tree[f] = "created" /\ engine[f] = "none" /\ ~Starting(f)

\* A pause was confirmed before it was running: whoever confirmed it found it
\* still to be run, and nobody is left to run the flow after it.
Unheard ==
    /\ Quiet
    /\ \E f \in early \ {N} : Evaluated(f) = "succeeded" /\ status[f + 1] = "pending"

\* Every ticket comes to its end, or to one of the three states it cannot leave
\* by itself: terminated, a pipeline that was never started, a confirmation
\* that came too soon.  (PauseTodo, callback_ticket, run_next_flow, retry)
TicketEnds ==
    <>(\/ Evaluated(N) = "succeeded"
       \/ \E f \in Flow : status[f] = "terminated"
       \/ Stranded
       \/ Unheard
       \/ overtaken)

\* What guard_ticket_revoked promises without any exception; the code does not
\* keep it.
RevokedStops ==
    Quiet => \A f \in Flow : status[f] = "terminated" => engine[f] # "running"
=============================================================================
