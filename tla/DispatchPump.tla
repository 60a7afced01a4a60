---------------------------- MODULE DispatchPump ----------------------------
(***************************************************************************)
(* The processes around the queue of one namespace: producers submit jobs, *)
(* pumps clean up, reserve ready jobs and publish them to Celery           *)
(* (dispatch_global_pump), workers execute what they are sent and finalize *)
(* or requeue it (DispatchTask.execute_job).  Between two Redis calls of   *)
(* one process any other process may run, a key may expire, and the        *)
(* process may die.                                                        *)
(***************************************************************************)
EXTENDS DispatchQueue

CONSTANTS
    Pump,     \* runs of _pump_queue_with_lock that may exist at a time
    Worker,   \* Celery workers of dispatch_execute_job
    MaxMail,  \* bound: messages for one job in the broker
    NoJob

ASSUME PumpAssumption ==
    /\ MaxMail \in Nat \ {0}
    /\ NoJob \notin Job
    /\ {"free", "paused"} \cap Pump = {}

VARIABLES
    lock,      \* the value of dispatch:{ns}:pump_lock
    pump,      \* pump[p]: where a pump is and what it has read
    mail,      \* mail[j]: messages in the broker
    worker,    \* worker[w]: what a worker does, for which job
    disturbed, \* jobs two calls have crossed over, or whose lease was outlived
    overlapped \* pumps that have had another pump beside them in this tick

ghosts == <<disturbed, overlapped>>
vars == <<queue, lock, pump, mail, worker, ghosts>>

Copy == [Job -> Attempt]

\* todo: jobs peeked, hydrated or reserved; gone: jobs to discard; known: those
\* whose task is known; cut: the one half discarded; next: where the pump goes
\* on afterwards; copy: retry_count of the hydrated jobs.
Off == [at |-> "off", next |-> "off", todo |-> {}, gone |-> {}, known |-> {}, cut |-> NoJob,
        copy |-> [j \in Job |-> 0]]

Idle == [at |-> "idle", job |-> NoJob, copy |-> 0]

Tick == [at : {"off", "reap", "mget", "peek", "hydrate", "discard", "delete",
               "reserve", "publish", "requeue"},
         next : {"off", "peek", "reserve", "requeue"},
         todo : SUBSET Job, gone : SUBSET Job, known : SUBSET Job,
         cut : Job \cup {NoJob}, copy : Copy]

Run == [at : {"idle", "run", "stray", "final", "discard", "delete", "leave", "spent", "clear", "lost"},
        job : Job \cup {NoJob}, copy : Attempt]

TypeOK ==
    /\ QueueTypeOK
    /\ lock \in {"free", "paused"} \cup Pump
    /\ pump \in [Pump -> Tick]
    /\ mail \in [Job -> 0 .. MaxMail]
    /\ worker \in [Worker -> Run]
    /\ disturbed \in SUBSET Job
    /\ overlapped \in SUBSET Pump

Init ==
    /\ QueueInit
    /\ lock = "free"
    /\ pump = [p \in Pump |-> Off]
    /\ mail = [j \in Job |-> 0]
    /\ worker = [w \in Worker |-> Idle]
    /\ disturbed = {}
    /\ overlapped = {}

-----------------------------------------------------------------------------
(* Producers                                                               *)

\* Somebody who has found job j missing or spent is about to remove it.
Doomed(j) ==
    \/ \E p \in Pump : j \in pump[p].gone \/ j = pump[p].cut
    \/ \E w \in Worker : /\ worker[w].job = j
                         /\ worker[w].at \in {"final", "discard", "delete", "leave", "spent", "clear", "lost"}

\* DispatchTask.submit of one item.
Submit(j, later) ==
    /\ Enqueue(j, later)
    /\ disturbed' = disturbed \cup {k \in {j} : Doomed(k)}
    /\ UNCHANGED <<lock, pump, mail, worker, overlapped>>

-----------------------------------------------------------------------------
(* Pumps                                                                   *)

Step(p, r) == pump' = [pump EXCEPT ![p] = r]

\* Discard the jobs of gone, if any, then go on at next with todo.
Discarding(gone, known, next, todo, copy) ==
    [at |-> IF gone = {} THEN next ELSE "discard",
     next |-> IF gone = {} THEN "off" ELSE next,
     todo |-> todo, gone |-> gone, known |-> known, cut |-> NoJob, copy |-> copy]

AtWork == {p \in Pump : pump[p].at # "off"}

\* _try_acquire_pump_lock; _cleanup_due lets some ticks reap first.
StartTick(p, at) ==
    /\ pump[p].at = "off"
    /\ lock = "free"
    /\ lock' = p
    /\ Step(p, [Off EXCEPT !.at = at])
    /\ overlapped' = IF AtWork = {} THEN {} ELSE overlapped \cup AtWork \cup {p}
    /\ UNCHANGED <<queue, mail, worker, disturbed>>

\* Mutant: only the waiting jobs are scanned.
ReapScanWaiting(p) ==
    /\ pump[p].at = "reap"
    /\ Step(p, [Off EXCEPT !.at = "mget", !.todo = pending])
    /\ UNCHANGED <<queue, lock, mail, worker, ghosts>>

\* reap_orphaned_queue_jobs: zscan, then mget of the payloads.
ReapScan(p) ==
    /\ pump[p].at = "reap"
    /\ Step(p, [Off EXCEPT !.at = "mget", !.todo = pending \cup reserved])
    /\ UNCHANGED <<queue, lock, mail, worker, ghosts>>

ReapRead(p) ==
    /\ pump[p].at = "mget"
    /\ Step(p, Discarding({j \in pump[p].todo : payload[j] = "none"}, {}, "peek", {}, Off.copy))
    /\ UNCHANGED <<queue, lock, mail, worker, ghosts>>

\* decide and peek_ready: nothing is peeked without a free slot.
Peek(p) ==
    /\ pump[p].at = "peek"
    /\ Step(p, [Off EXCEPT !.at = "hydrate",
                           !.todo = IF Cardinality(reserved) < MaxReserved THEN pending \ delayed ELSE {}])
    /\ UNCHANGED <<queue, lock, mail, worker, ghosts>>

\* Mutant: what is beyond the budget is discarded with the rest.
HydrateDropsRest(p, batch) ==
    /\ pump[p].at = "hydrate"
    /\ batch \subseteq {j \in pump[p].todo : payload[j] = "live"}
    /\ Step(p, Discarding(pump[p].todo \ batch, {}, "reserve", batch,
                          [j \in Job |-> IF j \in batch THEN attempt[j] ELSE 0]))
    /\ UNCHANGED <<queue, lock, mail, worker, ghosts>>

\* get_jobs, trimmed to the budget of the tick: batch.  An expired job tells
\* its task key, a missing one does not.
Hydrate(p, batch) ==
    /\ pump[p].at = "hydrate"
    /\ LET gone == {j \in pump[p].todo : payload[j] # "live"}
       IN  /\ batch \subseteq pump[p].todo \ gone
           /\ Step(p, Discarding(gone, {j \in gone : payload[j] = "late"}, "reserve", batch,
                                 [j \in Job |-> IF j \in batch THEN attempt[j] ELSE 0]))
    /\ UNCHANGED <<queue, lock, mail, worker, ghosts>>

\* get_jobs catches an error of Redis and returns no job: all are discarded.
HydrateFails(p) ==
    /\ pump[p].at = "hydrate"
    /\ Step(p, Discarding(pump[p].todo, {}, "reserve", {}, Off.copy))
    /\ disturbed' = disturbed \cup pump[p].todo
    /\ UNCHANGED <<queue, lock, mail, worker, overlapped>>

\* discard_orphaned_job, in two calls, with what it has found out about the
\* task of the job.
PumpPurge(p, j, resolved) ==
    /\ pump[p].at = "discard"
    /\ j \in pump[p].gone
    /\ j \in pump[p].known => resolved
    /\ Purge(j, resolved)
    /\ Step(p, [pump[p] EXCEPT !.at = "delete", !.gone = @ \ {j}, !.cut = j,
                               !.known = IF resolved THEN @ \cup {j} ELSE @])
    /\ UNCHANGED <<lock, mail, worker, ghosts>>

PumpDelete(p) ==
    /\ pump[p].at = "delete"
    /\ DeleteKeys(pump[p].cut, pump[p].cut \in pump[p].known)
    /\ Step(p, Discarding(pump[p].gone, pump[p].known \cap pump[p].gone, pump[p].next, pump[p].todo, pump[p].copy))
    /\ UNCHANGED <<lock, mail, worker, ghosts>>

\* reserve_jobs.  Without an answer the pump stops, whatever Redis has done.
PumpReserve(p, S, answered) ==
    /\ pump[p].at = "reserve"
    /\ Reserve(S, pump[p].todo, pump[p].copy)
    /\ Step(p, IF answered THEN [pump[p] EXCEPT !.at = "publish", !.todo = S]
               ELSE [Off EXCEPT !.at = "publish"])
    /\ disturbed' = disturbed \cup {j \in S : Doomed(j)}
    /\ UNCHANGED <<lock, mail, worker, overlapped>>

Publish(p, j) ==
    /\ pump[p].at = "publish"
    /\ j \in pump[p].todo
    /\ mail[j] < MaxMail
    /\ mail' = [mail EXCEPT ![j] = @ + 1]
    /\ Step(p, [pump[p] EXCEPT !.todo = @ \ {j}])
    /\ UNCHANGED <<queue, lock, worker, ghosts>>

\* apply_async raises, before or after the broker has the message: what is
\* left of the chunk goes back, _requeue_reserved_tail.
PublishFails(p, j, delivered) ==
    /\ pump[p].at = "publish"
    /\ j \in pump[p].todo
    /\ delivered => mail[j] < MaxMail
    /\ mail' = IF delivered THEN [mail EXCEPT ![j] = @ + 1] ELSE mail
    /\ disturbed' = IF delivered THEN disturbed \cup {j} ELSE disturbed
    /\ Step(p, [pump[p] EXCEPT !.at = "requeue"])
    /\ UNCHANGED <<queue, lock, worker, overlapped>>

\* Mutant: the tail goes back as if it were new.
RequeueTailFresh(p, j) ==
    /\ pump[p].at = "requeue"
    /\ j \in pump[p].todo
    /\ Requeue(j, 0, FALSE) \/ UNCHANGED queue
    /\ Step(p, [pump[p] EXCEPT !.todo = @ \ {j}])
    /\ UNCHANGED <<lock, mail, worker, ghosts>>

\* The call may fail, or find the slot gone.
RequeueTail(p, j) ==
    /\ pump[p].at = "requeue"
    /\ j \in pump[p].todo
    /\ Requeue(j, pump[p].copy[j], FALSE) \/ UNCHANGED queue
    /\ Step(p, [pump[p] EXCEPT !.todo = @ \ {j}])
    /\ UNCHANGED <<lock, mail, worker, ghosts>>

\* The copy of the pump still has the wait deadline, and it has passed.
SpendTail(p, j) ==
    /\ pump[p].at = "requeue"
    /\ j \in pump[p].todo
    /\ Step(p, Discarding({j}, {j}, "requeue", pump[p].todo \ {j}, pump[p].copy))
    /\ UNCHANGED <<queue, lock, mail, worker, ghosts>>

\* _release_pump_lock deletes the key only while it holds the pump's own value.
\* Before a chunk is reserved, the deadline of the tick may end it.
FinishTick(p) ==
    /\ \/ pump[p].at = "reserve"
       \/ pump[p].at \in {"publish", "requeue"} /\ pump[p].todo = {}
    /\ lock' = IF lock = p THEN "free" ELSE lock
    /\ Step(p, Off)
    /\ UNCHANGED <<queue, mail, worker, ghosts>>

PumpDies(p) ==
    /\ pump[p].at # "off"
    /\ Step(p, Off)
    /\ UNCHANGED <<queue, lock, mail, worker, ghosts>>

LockExpires ==
    /\ lock \in Pump
    /\ lock' = "free"
    /\ UNCHANGED <<queue, pump, mail, worker, ghosts>>

\* pause_queue_pump overwrites the lock, also that of a pump at work.
PausePump ==
    /\ lock # "paused"
    /\ lock' = "paused"
    /\ UNCHANGED <<queue, pump, mail, worker, ghosts>>

\* resume_queue_pump, or the TTL of the pause.
ResumePump ==
    /\ lock = "paused"
    /\ lock' = "free"
    /\ UNCHANGED <<queue, pump, mail, worker, ghosts>>

-----------------------------------------------------------------------------
(* Workers                                                                 *)

Become(w, r) == worker' = [worker EXCEPT ![w] = r]

\* A message is acknowledged when it arrives.  fetch_job finds the payload, of
\* a job that holds its slot or of one that waits and has a wait deadline.
Receive(w, j) ==
    /\ worker[w].at = "idle"
    /\ mail[j] > 0
    /\ payload[j] # "none"
    /\ mail' = [mail EXCEPT ![j] = @ - 1]
    /\ Become(w, [at |-> IF j \in pending THEN "stray" ELSE "run", job |-> j, copy |-> attempt[j]])
    /\ UNCHANGED <<queue, lock, pump, ghosts>>

\* No payload, or an error of Redis, which get_job also turns into no job:
\* what is left of the job is discarded.
ReceiveNothing(w, j) ==
    /\ worker[w].at = "idle"
    /\ mail[j] > 0
    /\ mail' = [mail EXCEPT ![j] = @ - 1]
    /\ Become(w, [at |-> "discard", job |-> j, copy |-> 0])
    /\ disturbed' = IF j \in pending THEN disturbed \cup {j} ELSE disturbed
    /\ UNCHANGED <<queue, lock, pump, overlapped>>

\* Done, skipped, failed, or without a configuration: finalize_job.
WorkerFinalize(w) ==
    /\ worker[w].at \in {"run", "stray", "final"}
    /\ Finalize(worker[w].job)
    /\ Become(w, Idle)
    /\ UNCHANGED <<lock, pump, mail, ghosts>>

\* finalize_job logs an error of Redis and returns.
FinalizeFails(w) ==
    /\ worker[w].at \in {"run", "stray", "final"}
    /\ Become(w, Idle)
    /\ UNCHANGED <<queue, lock, pump, mail, ghosts>>

\* Mutant: one attempt too many.
MayRequeueOnceMore(w) == worker[w].at \in {"run", "stray"} /\ worker[w].copy =< MaxAttempts

\* should_requeue is bounded by max_requeue_attempts.
MayRequeue(w) == worker[w].at \in {"run", "stray"} /\ worker[w].copy < MaxAttempts

WorkerRequeue(w) ==
    /\ MayRequeue(w)
    /\ Requeue(worker[w].job, worker[w].copy + 1, TRUE)
    /\ Become(w, Idle)
    /\ UNCHANGED <<lock, pump, mail, ghosts>>

\* SLOT_LOST: the job is gone from reserved, or Redis failed.
RequeueDenied(w) ==
    /\ MayRequeue(w)
    /\ Become(w, [worker[w] EXCEPT !.at = "final", !.copy = 0])
    /\ UNCHANGED <<queue, lock, pump, mail, ghosts>>

\* Also SLOT_LOST: Redis has requeued the job and the answer is lost.
RequeueUnanswered(w) ==
    /\ MayRequeue(w)
    /\ Requeue(worker[w].job, worker[w].copy + 1, TRUE)
    /\ Become(w, [worker[w] EXCEPT !.at = "final", !.copy = 0])
    /\ disturbed' = disturbed \cup {worker[w].job}
    /\ UNCHANGED <<lock, pump, mail, overlapped>>

\* WAIT_BUDGET_SPENT, for a job that was fetched while it was pending.
RequeueSpent(w) ==
    /\ MayRequeue(w)
    /\ worker[w].at = "stray"
    /\ Become(w, [worker[w] EXCEPT !.at = "spent", !.copy = 0])
    /\ UNCHANGED <<queue, lock, pump, mail, ghosts>>

\* The task of a spent job is known, that of a missing one may not be.
WorkerPurge(w, resolved) ==
    /\ worker[w].at \in (IF resolved THEN {"discard", "spent"} ELSE {"discard"})
    /\ Purge(worker[w].job, resolved)
    /\ Become(w, [worker[w] EXCEPT !.at = IF ~resolved THEN "leave"
                                         ELSE IF @ = "spent" THEN "clear" ELSE "delete"])
    /\ UNCHANGED <<lock, pump, mail, ghosts>>

\* After a spent budget execute_job still finalizes.
WorkerDelete(w) ==
    /\ worker[w].at \in {"delete", "leave", "clear"}
    /\ DeleteKeys(worker[w].job, worker[w].at # "leave")
    /\ Become(w, IF worker[w].at = "clear" THEN [worker[w] EXCEPT !.at = "final"] ELSE Idle)
    /\ UNCHANGED <<lock, pump, mail, ghosts>>

\* The process dies, or the hard time limit kills the task; Celery may be
\* left to tell dispatch_failure_handler.
WorkerDies(w, noticed) ==
    /\ worker[w].at # "idle"
    /\ noticed => worker[w].at # "lost"
    /\ Become(w, IF noticed THEN [worker[w] EXCEPT !.at = "lost", !.copy = 0] ELSE Idle)
    /\ UNCHANGED <<queue, lock, pump, mail, ghosts>>

\* dispatch_failure_handler finalizes the job unless fetch_job finds none.
FailureHandler(w) ==
    /\ worker[w].at = "lost"
    /\ IF payload[worker[w].job] = "none" THEN UNCHANGED queue ELSE Finalize(worker[w].job)
    /\ Become(w, Idle)
    /\ UNCHANGED <<lock, pump, mail, ghosts>>

\* A pump has got slots for the jobs of todo and has not sent them yet.
Holds(p, j) ==
    /\ pump[p].at \in {"publish", "requeue"} \/ pump[p].next = "requeue"
    /\ j \in pump[p].todo

\* A job is on its way to a worker, at one, or waits for its failure handler.
Underway(j) ==
    \/ mail[j] > 0
    \/ \E p \in Pump : Holds(p, j)
    \/ \E w \in Worker : worker[w].job = j

Pass(j) ==
    /\ Elapse(j)
    /\ disturbed' = disturbed \cup {k \in {j} : k \in reserved /\ payload'[k] # payload[k] /\ Underway(k)}
    /\ UNCHANGED <<lock, pump, mail, worker, overlapped>>

PassCounts ==
    /\ ExpireCounts
    /\ UNCHANGED <<lock, pump, mail, worker, ghosts>>

-----------------------------------------------------------------------------

PumpStep(p) ==
    \/ ReapScan(p) \/ ReapRead(p) \/ Peek(p) \/ HydrateFails(p)
    \/ \E batch \in SUBSET Job : Hydrate(p, batch)
    \/ \E j \in Job, resolved \in BOOLEAN : PumpPurge(p, j, resolved)
    \/ \E j \in Job : Publish(p, j) \/ RequeueTail(p, j) \/ SpendTail(p, j)
    \/ \E j \in Job, delivered \in BOOLEAN : PublishFails(p, j, delivered)
    \/ \E S \in SUBSET Job, answered \in BOOLEAN : PumpReserve(p, S, answered)
    \/ PumpDelete(p) \/ FinishTick(p) \/ PumpDies(p)

WorkerStep(w) ==
    \/ \E j \in Job : Receive(w, j) \/ ReceiveNothing(w, j)
    \/ WorkerFinalize(w) \/ FinalizeFails(w)
    \/ WorkerRequeue(w) \/ RequeueDenied(w) \/ RequeueUnanswered(w) \/ RequeueSpent(w)
    \/ \E resolved \in BOOLEAN : WorkerPurge(w, resolved)
    \/ WorkerDelete(w) \/ FailureHandler(w)
    \/ \E noticed \in BOOLEAN : WorkerDies(w, noticed)

Next ==
    \/ \E j \in Job, later \in BOOLEAN : Submit(j, later)
    \/ \E p \in Pump, at \in {"reap", "peek"} : StartTick(p, at)
    \/ \E p \in Pump : PumpStep(p)
    \/ \E w \in Worker : WorkerStep(w)
    \/ LockExpires \/ PausePump \/ ResumePump
    \/ \E j \in Job : Pass(j)
    \/ PassCounts

Spec == Init /\ [][Next]_vars

\* Time passes, the lock of a pump and a pause end, a process at work takes a
\* step, a tick that may start does, and neither the cleanup gate nor a crash
\* hits every tick at the same point.
Fairness ==
    /\ \A j \in Job : WF_vars(Pass(j))
    /\ WF_vars(LockExpires)
    /\ WF_vars(ResumePump)
    /\ \A w \in Worker : WF_vars(WorkerStep(w))
    /\ \A p \in Pump : /\ WF_vars(PumpStep(p))
                       /\ SF_vars(StartTick(p, "reap"))
                       /\ SF_vars(ReapScan(p))
                       /\ SF_vars(ReapRead(p))
                       /\ \A j \in Job : SF_vars(\E resolved \in BOOLEAN : PumpPurge(p, j, resolved))

FairSpec == Spec /\ Fairness

-----------------------------------------------------------------------------
(* Properties                                                              *)

Executing(j) == {w \in Worker : worker[w].at \in {"run", "stray"} /\ worker[w].job = j}

\* No job is executed by two workers at a time, and a job at a worker holds a
\* slot, although pumps overlap, ticks are paused at any moment, messages and
\* workers are lost and ticks and tasks are cut off: as long as no lease of the
\* job was outlived and nobody resubmitted it into a removal at work.  The pump
\* lock is not what keeps it: RESERVE_JOB_LUA is.
NoDoubleExecution ==
    \A j \in Job \ disturbed : /\ Cardinality(Executing(j)) =< 1
                               /\ Executing(j) # {} => j \in reserved

Kept(j) == j \in reserved' \/ (j \in pending' /\ payload'[j] # "none")

\* An accepted job whose deadline has not passed stays in the queue with its
\* payload until it gets a slot, whatever reapers and late calls of workers do
\* meanwhile: enqueue answered ACCEPTED and its producer does not ask again.
AcceptedKept == [][\A j \in pending \ disturbed' : payload[j] = "live" => Kept(j)]_vars

\* The attempts a job has used are forgotten only after two pumps were at work
\* together: max_requeue_attempts then holds per pump, and not per job.
AttemptsKept ==
    [][\A j \in (pending \cup reserved) \ disturbed' :
           payload[j] # "none" /\ payload'[j] # "none" /\ attempt'[j] < attempt[j]
               => overlapped # {}]_vars

\* What discard_orphaned_job says of itself: it purges jobs whose payload is
\* gone or whose wait deadline has expired, and so no other.
OnlyOrphansDiscarded ==
    [][\A j \in pending : payload[j] = "live" => Kept(j)]_vars

\* The scripts and the processes that call them are the admission control of
\* AdmittedJobs, and no slot is held for good: what its worker does not give
\* back expires, and a later tick reaps it.
Admitted == INSTANCE AdmittedJobs
RefinesAdmittedJobs == Admitted!Spec
=============================================================================
