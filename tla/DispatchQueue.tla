--------------------------- MODULE DispatchQueue ---------------------------
(***************************************************************************)
(* The Redis keys of one namespace of the dispatch queue and the Lua       *)
(* scripts that change them, each of which Redis runs as one step: a job   *)
(* waits in the ZSET pending, holds a concurrency slot in the ZSET         *)
(* reserved, and its payload, its dedupe key and the hash of counts per    *)
(* task live beside them, with expiry times of their own.                  *)
(***************************************************************************)
EXTENDS Naturals, FiniteSets

CONSTANTS
    Job,          \* the work items; job_id is "task_key:work_item_id"
    Task,         \* the task keys of the namespace
    TaskOf,       \* the task each job belongs to
    MaxAdmitted,  \* max_admitted_jobs of DispatchQueueConfig
    MaxReserved,  \* max_reserved of DispatchQueueConfig
    MaxAttempts,  \* max_requeue_attempts of DispatchTaskConfig
    MaxCount      \* bound: the counts of a task, when a purge leaves them alone

ASSUME QueueAssumption ==
    /\ IsFiniteSet(Job)
    /\ TaskOf \in [Job -> Task]
    /\ MaxAdmitted \in Nat \ {0}
    /\ MaxReserved \in Nat \ {0}
    /\ MaxAttempts \in Nat
    /\ MaxCount \in Nat

VARIABLES
    pending,   \* the members of dispatch:{ns}:pending
    delayed,   \* those of them whose score, ready_at, lies ahead
    reserved,  \* the members of dispatch:{ns}:reserved
    payload,   \* the job record: no key, in time, or past wait_deadline_at
    attempt,   \* retry_count in the payload
    dedupe,    \* the dedupe key: none, of the payload's TTL, or of its own
    waiting,   \* field pending:{task} of the hash task_counts
    holding,   \* field reserved:{task} of the hash task_counts
    drifted    \* history: what has set the hash and the ZSETs at odds

counts == <<waiting, holding, drifted>>
queue == <<pending, delayed, reserved, payload, attempt, dedupe, counts>>

Attempt == 0 .. MaxAttempts

QueueTypeOK ==
    /\ pending \in SUBSET Job
    /\ delayed \in SUBSET pending
    /\ reserved \in SUBSET Job
    /\ payload \in [Job -> {"none", "live", "late"}]
    /\ attempt \in [Job -> Attempt]
    /\ dedupe \in [Job -> {"none", "paired", "own"}]
    /\ waiting \in [Task -> Nat]
    /\ holding \in [Task -> Nat]
    /\ drifted \in SUBSET {"expired", "unresolved"}

QueueInit ==
    /\ pending = {} /\ delayed = {} /\ reserved = {}
    /\ payload = [j \in Job |-> "none"]
    /\ attempt = [j \in Job |-> 0]
    /\ dedupe = [j \in Job |-> "none"]
    /\ waiting = [t \in Task |-> 0]
    /\ holding = [t \in Task |-> 0]
    /\ drifted = {}

-----------------------------------------------------------------------------

Of(S, t) == {j \in S : TaskOf[j] = t}

\* HINCRBY for the jobs of S; a field that falls to zero or below is deleted,
\* and a field that is not there reads as zero.
Raised(count, S) == [t \in Task |-> count[t] + Cardinality(Of(S, t))]
Lowered(count, S) ==
    [t \in Task |-> IF count[t] > Cardinality(Of(S, t))
                    THEN count[t] - Cardinality(Of(S, t))
                    ELSE 0]

\* ENQUEUE_JOBS_LUA with dedupe, for a job it accepts; ready_at of submit is
\* now or later.  A duplicate, a full queue and a closed gate change nothing.
Enqueue(j, later) ==
    /\ j \notin pending \cup reserved
    /\ dedupe[j] = "none"
    /\ Cardinality(pending) + Cardinality(reserved) < MaxAdmitted
    /\ pending' = pending \cup {j}
    /\ delayed' = IF later THEN delayed \cup {j} ELSE delayed
    /\ payload' = [payload EXCEPT ![j] = "live"]
    /\ attempt' = [attempt EXCEPT ![j] = 0]
    /\ dedupe' = [dedupe EXCEPT ![j] = "paired"]
    /\ waiting' = Raised(waiting, {j})
    /\ UNCHANGED <<reserved, holding, drifted>>

\* Mutants: the slots are checked once per chunk; nothing checks that a job
\* is still pending.
ReserveChunkwise(S, chunk, copy) ==
    /\ S \subseteq chunk \cap pending
    /\ Cardinality(reserved) < MaxReserved
    /\ pending' = pending \ S
    /\ delayed' = delayed \ S
    /\ reserved' = reserved \cup S
    /\ payload' = [j \in Job |-> IF j \in S THEN "live" ELSE payload[j]]
    /\ attempt' = [j \in Job |-> IF j \in S THEN copy[j] ELSE attempt[j]]
    /\ waiting' = Lowered(waiting, S)
    /\ holding' = Raised(holding, S)
    /\ UNCHANGED <<dedupe, drifted>>

ReserveUnseen(S, chunk, copy) ==
    /\ S \subseteq chunk
    /\ Cardinality(reserved \cup S) =< MaxReserved
    /\ pending' = pending \ S
    /\ delayed' = delayed \ S
    /\ reserved' = reserved \cup S
    /\ payload' = [j \in Job |-> IF j \in S THEN "live" ELSE payload[j]]
    /\ attempt' = [j \in Job |-> IF j \in S THEN copy[j] ELSE attempt[j]]
    /\ waiting' = Lowered(waiting, S \cap pending)
    /\ holding' = Raised(holding, S \ reserved)
    /\ UNCHANGED <<dedupe, drifted>>

\* RESERVE_JOB_LUA: the jobs S of a chunk that are still pending and for which
\* slots and the budget of the tick are left.  The payload becomes the caller's
\* copy without a wait deadline, and it and the dedupe key live as long as the
\* execution timeout and a margin.
Reserve(S, chunk, copy) ==
    /\ S \subseteq chunk \cap pending
    /\ Cardinality(reserved) + Cardinality(S) =< MaxReserved
    /\ pending' = pending \ S
    /\ delayed' = delayed \ S
    /\ reserved' = reserved \cup S
    /\ payload' = [j \in Job |-> IF j \in S THEN "live" ELSE payload[j]]
    /\ attempt' = [j \in Job |-> IF j \in S THEN copy[j] ELSE attempt[j]]
    /\ dedupe' = [j \in Job |-> IF j \in S /\ dedupe[j] # "none" THEN "paired" ELSE dedupe[j]]
    /\ waiting' = Lowered(waiting, S)
    /\ holding' = Raised(holding, S)
    /\ UNCHANGED drifted

\* REQUEUE_JOB_LUA for a job that still holds its slot: the dedupe key keeps
\* the TTL it has.  Without a slot it changes nothing.
Requeue(j, n, later) ==
    /\ j \in reserved
    /\ reserved' = reserved \ {j}
    /\ pending' = pending \cup {j}
    /\ delayed' = IF later THEN delayed \cup {j} ELSE delayed \ {j}
    /\ payload' = [payload EXCEPT ![j] = "live"]
    /\ attempt' = [attempt EXCEPT ![j] = n]
    /\ dedupe' = [dedupe EXCEPT ![j] = IF @ = "paired" THEN "own" ELSE @]
    /\ waiting' = Raised(waiting, {j})
    /\ holding' = Lowered(holding, {j})
    /\ UNCHANGED drifted

\* FINALIZE_JOB_LUA: the slot, the payload and the dedupe key go, whether the
\* job holds a slot or not.
Finalize(j) ==
    /\ reserved' = reserved \ {j}
    /\ payload' = [payload EXCEPT ![j] = "none"]
    /\ attempt' = [attempt EXCEPT ![j] = 0]
    /\ dedupe' = [dedupe EXCEPT ![j] = "none"]
    /\ holding' = Lowered(holding, {j} \cap reserved)
    /\ UNCHANGED <<pending, delayed, waiting, drifted>>

\* Mutant: the counts fall whether the job was there or not.
PurgeBlind(j, resolved) ==
    /\ pending' = pending \ {j}
    /\ delayed' = delayed \ {j}
    /\ reserved' = reserved \ {j}
    /\ waiting' = Lowered(waiting, {j})
    /\ holding' = Lowered(holding, {j})
    /\ UNCHANGED <<payload, attempt, dedupe, drifted>>

\* PURGE_JOB_LUA, the first half of discard_orphaned_job: the job leaves both
\* ZSETs, and each count follows if it was there and the caller knows the task
\* of the job.  It may not: the payload is gone, and _registered_task_keys
\* returns nothing on an error of Redis.
Purge(j, resolved) ==
    /\ pending' = pending \ {j}
    /\ delayed' = delayed \ {j}
    /\ reserved' = reserved \ {j}
    /\ UNCHANGED <<payload, attempt, dedupe>>
    /\ \/ /\ resolved
          /\ waiting' = Lowered(waiting, {j} \cap pending)
          /\ holding' = Lowered(holding, {j} \cap reserved)
          /\ UNCHANGED drifted
       \/ /\ ~resolved
          /\ waiting[TaskOf[j]] + holding[TaskOf[j]] =< MaxCount
          /\ drifted' = IF j \in pending \cup reserved THEN drifted \cup {"unresolved"} ELSE drifted
          /\ UNCHANGED <<waiting, holding>>

\* The second half: a pipeline deletes the payload and, if the task of the job
\* is known, the dedupe key, which otherwise lives until its TTL ends.
DeleteKeys(j, resolved) ==
    /\ payload' = [payload EXCEPT ![j] = "none"]
    /\ attempt' = [attempt EXCEPT ![j] = 0]
    /\ dedupe' = [dedupe EXCEPT ![j] = IF resolved \/ @ = "none" THEN "none" ELSE "own"]
    /\ UNCHANGED <<pending, delayed, reserved, counts>>

-----------------------------------------------------------------------------
(* Time                                                                    *)

\* ready_at has come: peek_ready sees the job.
Ripen(j) ==
    /\ j \in delayed
    /\ delayed' = delayed \ {j}
    /\ UNCHANGED <<pending, reserved, payload, attempt, dedupe, counts>>

\* wait_deadline_at of a waiting job passes; its payload lives on for what is
\* left of the second that compute_wait_deadline rounds up to.
PassDeadline(j) ==
    /\ j \in pending \ delayed
    /\ payload[j] = "live"
    /\ payload' = [payload EXCEPT ![j] = "late"]
    /\ UNCHANGED <<pending, delayed, reserved, attempt, dedupe, counts>>

\* The payload expires, and with it a dedupe key of the same TTL.
Expire(j) ==
    /\ payload[j] = "late" \/ (payload[j] = "live" /\ j \notin pending)
    /\ payload' = [payload EXCEPT ![j] = "none"]
    /\ attempt' = [attempt EXCEPT ![j] = 0]
    /\ dedupe' = [dedupe EXCEPT ![j] = IF @ = "paired" THEN "none" ELSE @]
    /\ UNCHANGED <<pending, delayed, reserved, counts>>

\* The dedupe key of a requeued job outlives its reservation or not.
ExpireDedupe(j) ==
    /\ dedupe[j] = "own"
    /\ dedupe' = [dedupe EXCEPT ![j] = "none"]
    /\ UNCHANGED <<pending, delayed, reserved, payload, attempt, counts>>

\* The hash expires as a whole.  What is in the ZSETs is not counted any more,
\* and what was counted too much is forgotten.
ExpireCounts ==
    /\ \E t \in Task : waiting[t] > 0 \/ holding[t] > 0
    /\ waiting' = [t \in Task |-> 0]
    /\ holding' = [t \in Task |-> 0]
    /\ drifted' = IF pending \cup reserved = {} THEN {} ELSE {"expired"}
    /\ UNCHANGED <<pending, delayed, reserved, payload, attempt, dedupe>>

Elapse(j) == Ripen(j) \/ PassDeadline(j) \/ Expire(j) \/ ExpireDedupe(j)

-----------------------------------------------------------------------------

\* A job waits or holds a slot, never both, and both limits are kept: requeue
\* and reserve move a job, and only admission adds one.
SlotsBounded ==
    /\ pending \cap reserved = {}
    /\ Cardinality(reserved) =< MaxReserved
    /\ Cardinality(pending) + Cardinality(reserved) =< MaxAdmitted

AtLeast(count, S) == \A t \in Task : Cardinality(Of(S, t)) =< count[t]
AtMost(count, S) == \A t \in Task : count[t] =< Cardinality(Of(S, t))

\* The hash task_counts drifts in one direction per cause, whoever runs a
\* script twice or late: until it expires with jobs in the queue it counts each
\* of them, so that is_idle never calls a task idle that has work, and until a
\* job is purged whose task is not known it counts no job that is not there.
\* Without either it is exact.  (Queues of idempotence mode NONE, which may
\* count a job twice, and the rebuild of the hash are not in the model.)
CountsOneSided ==
    /\ "expired" \notin drifted => AtLeast(waiting, pending) /\ AtLeast(holding, reserved)
    /\ "unresolved" \notin drifted => AtMost(waiting, pending) /\ AtMost(holding, reserved)
=============================================================================
