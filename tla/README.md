# Blueking DBM: models, model checks and proofs

The repository holds two programs with concurrency and distributed state of their own,
and much around them that is sequential.

* **DBHA v2** (`src/dbm-services/common/dbha-v2`) watches the database instances of a
  large fleet and switches the failed ones out of service. Several processes scan, hold
  failures in sliding windows, and under a lock per business ask DBM for the instances,
  take them out of service and switch their clusters.
* **The DBM backend** (`src/dbm-ui/backend`) keeps a *dispatch queue* in Redis for its
  periodic tasks, moves the queue of a namespace between Redis shards while it is in use, and runs
  *tickets*, sequences of flows that many web requests and workers push forward at once.

What makes all of these hard is the same: nothing waits for anything else. Passes, pumps
and requests overlap, each works on what it has read before, locks run out under
those they protect, answers are lost, and a process may die between any two steps. The
questions are those of the users: is every failure handled and no instance switched
twice; is every accepted job executed and none twice at a time; does a namespace move
without a stale process bringing it back; does a ticket run its flows in order, once each, to
its end.

Paths in sections on DBHA are relative to `src/dbm-services/common/dbha-v2/`, `workflow/`
being `internal/analysis/workflow/`; paths in sections on the backend are relative to
`src/dbm-ui/backend/`, `dispatch/` being `db_periodic_task/dispatch/`.

## 1. Inventory

### DBHA

| Component | State | Operations | Modelled |
|---|---|---|---|
| Switch lock of a business: `workflow/lock_tracker.go`, `pkg/discovery/concurrency_mutex.go` | `holds` (bizId to etcd mutex and `refCnt`), the etcd key and lease | `Acquire`, `release`, `TryLock`, `Unlock`, `Close` | yes |
| Sliding windows: `workflow/sliding_window.go` | per business a map of entries, `inflight` marks | `Push`, `PopAndMarkStart`, `MarkDone` | yes |
| Pop-switch passes: `workflow/workflow.go`, `switch_flow.go`, `detector_handler.go` | popped batch, switch requests; status in DBM | scan, `LivenessDoubleCheck`, `popAndSwitchForBiz`, `handleFailureGroup` | partly |
| Execution of a switch: `internal/analysis/switcher/switchcore` | status of the unit, cluster locks, `instSem` | status, check, switch, roll back | the scopes host and db_instance |
| MySQL switcher: `internal/provider/mysql/switch` | topology of a cluster, proxies, DNS | grouping by host, completeness check, promotion of a slave | partly (TenDBHA) |
| Metadata in DBM, as the switch calls it: `pkg/dbm` | status and role of instances | `update_status`, `swap_role` | partly |
| Strategy matching, sharding, synchronizer, checker and detector, storage, TenDBCluster switcher | rules, ring, leadership, detections, cursor, topology | | no, see section 6 |
| Logs, snapshots, alarms, metrics, configuration; probe, receiver, admin, migrator; version 1 | none the properties speak of | | no |

The scan loop of a process (`Workflow.Run`) reads the status of the businesses the ring
gives it; the detector tries suspicious instances again; each failure that is confirmed is
**pushed** into the window of its business. The pop loop (`PopAndSwitch`) starts, every
few seconds and without waiting for earlier ones, a goroutine per business. That goroutine,
a *pass*, **takes the switch lock** of the business from the tracker (which may have to
ask etcd), **pops** the entries that have slid out of the window, **marks** their instances
as in flight, **queries** DBM for all instances on the failed hosts, **matches**
strategies, and hands requests to the switchers, which **set the status** of the
instances to unavailable in DBM and only then **switch**. At the end the marks are deleted
and the lock is given back. The processes share etcd and DBM and nothing else.

### Backend

| Component | State | Operations | Modelled |
|---|---|---|---|
| Dispatch queue: `dispatch/admission.py`, `reservation.py`, `lifecycle.py`, `reaper.py`, `queue.py`, `job.py`, `lua.py` | in Redis: sorted sets of waiting and reserved jobs, payloads, dedupe keys and leases that expire, counts per task | Lua scripts: enqueue, reserve, requeue, finalize, discard | in dedupe mode |
| Pumps and workers: `dispatch/pump.py`, `base.py`, `signals.py` | lock of a pump, what a tick has read, messages in Celery, the attempt of a worker | reap, peek, hydrate, reserve, publish; execute, requeue, finalize; pause, resume | yes |
| Routing and remap: `dispatch/routing.py`, `remap.py`, `producer.py` | the row of the route in MySQL, its copies in the Django cache and in each process, gates and keys on each shard | resolve, assign, pause, flip, wait, sweep | partly |
| Counts and settings caches, tasks, statistics: the rest of `dispatch/` | derived counts, caches, metrics | rebuild, report | no |
| Tickets and flows: `ticket/flow_manager`, `ticket/todos`, `ticket/models`, `ticket/signals.py`, `flow/utils/decorators.py`, `flow/signal/handlers.py` | rows of ticket, flows, todos and FlowTrees; pipelines in the engine | run the next flow, confirm, launch, call back, retry, terminate, set the status | partly (pauses and pipelines) |
| itsm, timer, resource and delivery flows | approvals, clocks, hosts | | no |
| Pipelines, scenes, metadata, views | run by the bamboo engine, SQL | | no |

A producer **enqueues** a job on the shard its process has resolved for the namespace. Every
few seconds a pump **reaps** what is orphaned or has outlived its lease, **peeks** at waiting
jobs, **reads** their payloads, **reserves** as many as there are slots, and **publishes**
them to Celery; a worker **executes** the job and **finalizes** it, or **requeues** it when its
task says so. A remap **closes** the gates of the old shard, **flips** the row, **waits** until every
copy of the old route must have run out, **sweeps**, waits once more and sweeps again. A
ticket is pushed forward by whoever comes along: a confirmed todo, the callback of a
finished pipeline, a view that finds a flow finished, a periodic retry. All of them call
`run_next_flow`, and every save of a flow triggers a signal that works the status of the
ticket out anew.

Hard behaviours, all of them in `PROJECT.json` under `hazards` at the line where they
bite. What makes each part correct:

* lock: passes of two processes are never at work on one business together; the
  count is exact; a key that is kept alive is known to somebody who will give it back;
* windows: no failure is lost or waits for ever, no mark outlives its pass, and two
  passes handle one instance only where marks or windows let the second in;
* passes: no instance is switched away from twice unless two passes of one process ask for it at
  once, nothing is switched before DBM has it out of service, and an instance that keeps failing
  is handled;
* switch of a host: two switches never work on one cluster together, a failed check
  stops the whole host before anything was touched, clients are never sent to two masters
  however a switch fails, and every request comes to its end;
* dispatch: limits hold however pumps overlap; counts drift in one direction for each cause; a
  job is executed by one worker at a time;
  an accepted job stays until it is done or given up, and leaves the queue in the end;
* remap: some time after a move everybody uses the shard of the row; a finished remap leaves
  nothing elsewhere and no gate closed; what is dropped had not passed a closed gate, but in a
  time that can be named;
* tickets: flows start in order, once for each run or retry, after the pauses before them were
  confirmed; the ticket says what its flows say; no pipeline runs for a terminated flow
  that nobody looks after; every ticket ends.

## 2. Modules

```
BizLock  <--refines--  LockTracker                 WindowManager (operators)
   |                        |                        |            |
   | INSTANCE               MCLockTracker        SlidingWindow    |
   |                                                 |            |
   |                                          MCSlidingWindow     |
   +------------------->  Failover  <-----------------------------+
                             |  \--refines--> SwitchOnce
                         MCFailover

SwitchExecution  --refines--> MasterHandover
       |         (what Failover sees as the actions TakeDown and Switch, in full)
MCSwitchExecution

DispatchQueue (the Lua scripts)      NamespaceRemap          TicketFlow
       |                                   |                     |
DispatchPump  --refines--> AdmittedJobs  MCNamespaceRemap     MCTicketFlow
       |
MCDispatchPump

proofs: LockTracker_proofs, WindowManager_proofs, SlidingWindow_proofs, Failover_proofs,
        SwitchExecution_proofs, DispatchPump_proofs, NamespaceRemap_proofs, TicketFlow_proofs
```

Operators whose comment begins with "Mutant" are plausible mistakes in the code; the
properties are checked to notice them.

### DBHA

**BizLock** is what the tracker promises: per business, the set of passes inside, all of
one process. **LockTracker** is the tracker with its two critical sections as separate
steps, the etcd mutex below it, and leases. The code's `holds` is `holds` (an absent entry
is `NoHold`), `sess[p]` is the mutex a pass has in a local variable between the tracker and etcd,
`owner[b]` is the holder of the etcd key and `keeper[s]` the process that
renews the lease of session `s`. `AcquireShared`/`AcquireMiss` are the first critical
section of `acquireWith`, `TryLockOk`/`TryLockLost`/`TryLockFail` the call to etcd outside the mutex,
`Record` the second critical section, `Release...` the critical section of `release`, and
`EtcdUnlock` the unlock and close after it. `Crash` empties the memory of a process;
its keys stay until `LeaseExpire`.

**WindowManager** has the windows and marks as a value, with one operator for each
method: every method runs under `BizWindowManager.mu`, so it is one function of the
manager. Times are kept as what remains of them. **SlidingWindow** puts the manager
between the scan loop and overlapping passes with a discrete clock.

**Failover** composes the windows, the lock (by its specification `BizLock`), DBM and the
switchers over all processes: `Enter` to `Leave` is `popAndSwitchForBiz`, `Match` to
`MarkDone` is `handleFailureGroup`, `TakeDown` writes the status, `Switch` is `DoSwitch`
and what follows it. **SwitchOnce** is its promise: an instance goes from running
to unavailable to switched, and is switched once until it is repaired.

**SwitchExecution** is what one process does with requests that overlap, for TenDBHA
clusters: a master, a standby slave to be promoted, and proxies that hold the clients.
**MasterHandover** is what the switch of a master promises to the clients, with no request,
lock or step in it: the proxies in service leave the old master (`Detach`) before the new one
stops to replicate from it (`Cut`), come to the new one after that (`Attach`), never go back, and
DBM swaps the roles (`Swap`) last and once; a proxy may be taken out of service at any time.

| Action | Code |
|---|---|
| `QueryHost`, `QueryInstance` | the answer of DBM that becomes a request; the host as a whole after `checkHostInstanceCompleteness` |
| `SetStatus`, `SetStatusFail` | `setStatusForHostSwitch`, `setStatusForInstanceSwitch`; the answer may be lost |
| `LockForCheck`, `CheckBeforeSwitch`, `UnlockAfterCheck` | `checkOnSameHost`: one goroutine and one cluster lock for each cluster of the host |
| `CheckEnd`, `CheckStop` | the decision for the host: one `unpass` stops all; `SwitchSingleInstance` keeps its lock |
| `LockForSwitch`, `Start` | `processOnSameHostGroup` and the slot of `instSem` (`hostLevelSwitchMaxInstanceNum`); who has one is `Running` |
| `Refresh`, `RefreshLost`, `Refreshed` | `BatchRefreshProxiesBackends`, a proxy at a time, to `1.1.1.1` and then to the new master |
| `ResetSlave`, `ResetSlaveFail` | `ResetSlaveWithBinlogPos`, which may stop after any of its statements |
| `Delete` | `DeleteNameService` for proxies and slaves |
| `UpdateMetaInfo`, `UpdateMetaInfoLost`, `DoFinal` | `SwapMySQLRole` in DBM, binlog dumpers |
| `StepFail`, `...Timeout`, `Crash` | errors, `SwitchTimeout`, `clusterLockTimeout`, the death of the process |

`held[c]` is the set of instances whose work goes on behind the in-memory lock of cluster
`c`; `seen[r]` are the proxies DBM named at the query, which the code does not ask for
again; `route[x]` is the back end of a proxy, `"none"` being the placeholder address.

Some things a reader of the code may not expect, and which the model has:

* The cluster lock is a map in the memory of a process. Switches of one cluster in two
  processes are kept apart only by the lock of the business.
* `RollBack` is a no-op: a switch that fails after the first step leaves proxies at the
  placeholder, and the instance, unavailable in DBM by then, is never tried again.
  `NoSplitBrain` is what remains true: no clients are on both masters.
* If the host of a proxy fails together with that of the master, `seen` may hold a proxy
  that is dead; refreshing it fails, and with it the switch, some proxies being already
  at the placeholder.
* A second request may reach a master whose switch is done. On the host path it moves the
  proxies to the placeholder once more before its `swap_role` is refused.

Abstractions of these modules:

* One request group per pass. The code splits failures by cloud and database type and
  handles the groups in parallel; groups have no instance in common.
* Strategy matching picks any subset of the available instances; `Scope` (host or
  instance) is one constant for all strategies.
* `SwitchFail` may hit each instance apart. In the code a failed check ends the
  switch of its whole host, which is one of the combinations.
* The call that sets the status of several instances in DBM is atomic, and so is the query.
* Failover has no clock: an entry may be popped as soon as it is pushed and, unless
  `Prompt`, a mark may run out at any time. SlidingWindow has the clock.
* `Repair` (an operator brings a replaced instance back) does not happen while a switch
  of the instance is under way.
* Every process scans and pops every business. The ring only narrows this, and it does not
  exclude that two processes own one business, so nothing may rest on it.
* SwitchExecution starts from clusters in good order. What a check looks at beyond the
  replication of the standby slave (delay, checksums, binlog position) is a free choice of
  its result; deletions in name services leave no state a property speaks of.
* `SwitchTimeout` may strike at any step of a request: `StepFail`, `CheckStop` and the
  lock timeouts need no clock. The wait for a slot of `instSem` is the exception, no context ends
  it: an instance that has the lock of its cluster fails before its first step only once
  there is a slot for it.
* Counts of failures are exact up to `MaxCount`; thresholds are compared with them in strategies.

### The dispatch queue

**AdmittedJobs** is what a queue promises: a job is admitted below a limit, waits, holds one
of a bounded number of slots got only from waiting, and gives it back in the end.
**DispatchQueue** is the queue in Redis: one operator for each Lua script, since Redis runs a
script as one step. `pending` and `reserved` are the sorted sets, `payload[j]` is the record of the
job (gone, live, or past its deadline), the counts per task are kept beside them as the
scripts keep them. Keys expire by actions of their own, and so does the hash of the counts, as a
whole (`ExpireCounts`). `Purge` and `DeleteKeys`, the two halves of a discard, come with and
without the task of the job: where its payload is gone and the registry of tasks cannot be read,
the script leaves the counts alone and the dedupe key stays until its TTL ends. `drifted` is not
in the code: it says which of the two has set the counts and the sorted sets at odds.

**DispatchPump** has the processes around it. Between two calls to Redis anything may happen.

| Action | Code |
|---|---|
| `Submit` | `submit` and `ENQUEUE_JOBS_LUA` |
| `StartTick`, `FinishTick`, `LockExpires`, `PumpDies` | `_pump_queue_with_lock`: the lock has a TTL, and a pump whose lock has run out goes on beside the next one |
| `ReapScan`, `ReapRead`, `PumpPurge`, `PumpDelete` | the reaper: ids first, then payloads, then one job in two calls |
| `Peek`, `Hydrate`, `HydrateFails`, `PumpReserve` | `_hydrate_and_drop_stale` and the reservation of what was hydrated |
| `Publish`, `PublishFails`, `RequeueTail`, `SpendTail` | Celery's `apply_async`, which may raise after it has delivered; what was reserved and not published goes back |
| `PausePump`, `ResumePump` | the operator's pause, which overwrites the lock |
| `Receive`, `WorkerFinalize`, `WorkerRequeue`, ... | `execute_job`; each with the variant whose answer is lost |
| `WorkerDies`, `FailureHandler` | the loss of a worker, noticed by Celery's signal or by nobody |

Two variables are not in the code. `disturbed` collects the jobs for which two calls have
crossed over or a lease was outlived (a late finalize may then meet the next life of
the job, which the code accepts); `overlapped` the pumps that have had another one beside
them. The properties say precisely what they except.

Abstractions: `ReapScan` takes one snapshot of both sets; a batch is any subset; the rebuild of
the counts, metrics and logs are left out; which jobs are ready and in which order is a free
choice; `MaxMail` bounds the messages in the broker, and `MaxCount` the counts of a task when a
purge leaves them too high (0 rules such purges out). `Enqueue` is the dedupe mode of admission
only, see section 6.

### Routing and remap

**NamespaceRemap** is one namespace. `route` is the row, `cache` the namespace's entry in
the Django cache, `memo[p]` that of `_memo`, each with the ticks it still lives; `proc[p]` is a
call of `conn_for_namespace` and of what the connection is for. A look-up goes memo, cache,
rows, with the read of the rows and the write of the cache as separate steps, so that a slow
process can refill a cache that was deleted meanwhile; both reads of `_get_routes` on the
way through `assign_route` are there. `Produce` and `Drain` are the uses: an admission,
which is refused by a closed gate and writes metrics in any case, and a tick of the pump. The
remap is `Begin` to `EndSweep`; a sweep is a sequence of batches over the kinds of keys in
any order. Deletions of the cache may fail, processes may die (`Restart`), and the remap itself
may fail or die at any stage, before and after the flip, which takes nothing back (`Fail`).

What happens to a remap that failed before the flip is left to its callers: its docstring names
`resume_queue_pump` and nothing else, and a TODO (`dispatch/remap.py:156`) says that the
producers' gate then stays closed. `Resume(gate)` is an operator who opens one gate; nothing
makes him come, and nothing makes him think of the producers.

Two variables are not in the code: `since` is the time since the row was flipped, and
`unfinished` the shards some remap has failed to leave. `Settled`, a window and twice the longest
call, is the time after which no copy of the old route is in use: the window the
remap waits for begins late for a route that a call in progress puts into the cache
after the flip, and the copy is used late by the last call that finds it. Until then a job may
be accepted on the old shard once the first sweep has taken the gate away; such a job is dropped,
and `Kind` gives it the name "fair", so that `NothingBetrayed` is about all others. Calls need
not be slow for it: one that crosses a tick of the clock is enough.

Abstractions and assumptions: one remap at a time (the comment at `dispatch/remap.py:119` asks for
it); gates without expiry, which is the default;
a process takes at most `Stall` ticks from the entry of `conn_for_namespace` to the end of its
Redis call, and twice that is at most the window (`RemapAssumption`). The code does not bound
calls so, its Redis and MySQL timeouts do; with longer calls the windows protect nothing.

### Tickets

**TicketFlow** is one ticket with flows that are pauses or pipelines. A process is a web
request or a worker on its way through the manager:

| Action | Code |
|---|---|
| `ReadNext`, `TooLate`, `Look` | `run_next_flow`: the next flow is read before the current one |
| `CheckAck`, `CreateTodo`, `PauseRunning`, `InnerRunning`, `RunError` | `BaseTicketFlow.run`, `PauseFlow._run`, `InnerFlow.run` |
| `Build`, `Guard`, `Recheck`, `CreateTree`, `Launch`, `PostCheck` | `run_pipeline` under `guard_ticket_revoked` |
| `SignalRead`, `SignalWrite` | `update_ticket_status`, which reads the flows before it locks the ticket |
| `Report`, `Callback`, `View` | the engine's signal with its callback, and views of the ticket |
| `Remark`, `Confirm`, `Confirmed`, `Refuse`, `DropFlow`, `Retry`, `Flush`, `Revoke`, `Halt`, `Cancel` | what operators do |
| `EngineFinishes`, `EngineFails`, `RetryNode` | the engine |

A todo may be confirmed from the moment it exists, also before the process that created it has
set the pause running. `Confirm` writes it, `Confirmed` looks afterwards for todos that
are unfinished and runs the next flow if there are none; a confirmation may carry a remark, which
is saved with the flow first (`Remark`) and so causes a signal of its own.

`starts`, `retries`, `ended`, `early` and `overtaken` are not in the code. `early` has the pauses
that were confirmed before they were running; `overtaken` says that a status
was written, or a FlowTree revoked, on the strength of what was no longer true.

Abstractions: the evaluation of a flow's status (read the row, look at todos or FlowTree,
write) is one step, as is that of all flows of one signal, and nested signals are merged;
the two saves of an exclusive error are one; builds that run asynchronously, hooks on
the status of a ticket and `post_callback` are left out; processes do not die, as the code
has no recovery for it; a todo is confirmed or refused by one operator (the check of its status
and the write are one step);
the end of the last pause is read by `Evaluated(N)`.

## 3. Model checks

Every configuration file is a run; those that pass explore their whole state space.

| Run | Question | Instance | Answer |
|---|---|---|---|
| `lock_nominal` | Is the tracker over etcd the lock `BizLock` promises while leases are kept, and does it come free? | 2 processes, 2 + 1 passes, 2 businesses, 4 sessions | yes: `MutualExclusion`, `RefCountExact`, `NoLeakedLock`, `RefinesBizLock`, `LockDrains` |
| `lock_lease_loss` | What is left when any lease may run out at any time? | the same, 6 sessions up to symmetry | `NoPhantomHold`: no count is too high or below zero |
| `window_prompt` | Are instances handled by one pass at a time? | 2 businesses, 3 passes, one event, prompt passes | yes: `NoDuplicateHandling` |
| `window_any` | What holds with several events and slow passes? | 1 business, 2 passes, 2 events | `NoStrayMark`, `NothingLost`, `FailureHandled`, `NeverBlockedForever` |
| `failover_safe` | Is every instance switched once, and handled if it keeps failing? | 2 processes, 2 + 1 passes, 2 instances on a host each | yes: `NoDoubleSwitch`, `RefinesSwitchOnce`, `FailureHandled` |
| `failover_any` | What holds with slow passes and hosts with two instances? | the same, one host | `OneProcessPerInstance`, `TakenDownFirst` |
| `switch_any` | Is the switch of a master safe against other requests, failures, crashes? | 2 requests of both scopes; host A with the master of `c` and a slave of `d`, host B with two proxies of `c`; 1 slot | yes, see below |
| `dispatch_pumps` | Do limits and slots hold when pumps overlap, and how may the counts drift? | 2 jobs, 2 pumps, 2 workers, 1 slot, 1 retry; until the first disturbed job, no pause, no overlap once counts have drifted, a plain one before | `SlotsBounded`, `CountsOneSided`, `NoDoubleExecution`, `AcceptedKept`, `AttemptsKept` |
| `dispatch_slots` | Does the queue keep `AdmittedJobs`, and does every accepted job leave it, with every fault? | 1 job, 1 pump, 1 worker | yes: `RefinesAdmittedJobs`, with its liveness |
| `remap_moves` | Does a namespace move, and move back, without anything left behind, and what does a remap that fails leave? | 2 processes, 2 shards, 2 moves, memo 1 tick, cache 2, calls up to 1 | see below: `Converged`, `NothingLeft`, `NothingBetrayed`, `OpenAtRest` |
| `ticket_flows` | Do the flows of a ticket run in order and once, and to the end? | pause, pipeline, pause; 2 processes, 1 retry, flows 2 and 3 terminable | yes: `InOrder`, `ConfirmedFirst`, `StartedOnce`, `LaunchedOnce`, `NoOrphan`, `TicketAgrees`, `TicketEnds` |
| `ticket_revoke` | Is the pipeline of a terminated flow always stopped? | one pipeline, 2 processes | no, see below: `RevokedStops` |

`switch_any` checks that no two switches of a cluster overlap (`ClusterLockInv`), that
clients are never on both masters (`NoSplitBrain`), that an instance that fails its check
stops its host before any cluster is touched (`NothingBeforeChecks`), that success means
complete (`SwitchComplete`), that `SwitchSingleInstance` begins on a check that holds
(`SingleCheckHolds`), that every request ends (`EveryRequestEnds`), and that the requests
together keep the promise of MasterHandover (`RefinesMasterHandover`). The last looks at each
step in its moment, where `NoSplitBrain` looks at the state that is left: the replication is
cut when no proxy in service sends to the old master any more, so that no write can be
lost, and roles change once and last. `SwapIsFinal`, which says the latter by itself, follows
from it and is proved, not run.

That every request ends rests on two things given back on every path, the lock of the
cluster and the slot of `instSem`: the run is checked to notice either being kept (two mutants).

`dispatch_pumps` leaves out four things by its constraints: it ends with the first disturbed
job, of which its properties say nothing any more; it has no pause, which to the pumps at
work is what the expiry of the lock is; once the counts have drifted, two pumps do not
overlap (`DriftAlone`); and while pumps overlap, only one of the two jobs may have an attempt
behind it, be deferred or be late, and one process at a time is about to discard or to finalize
(`PlainOverlap`). `dispatch_slots` has the first two, and the theorems on `SlotsBounded`,
`CountsOneSided`, `NoDoubleExecution`, `AcceptedKept` and `AttemptsKept` have no such bound. `CountsOneSided` says what the counts are worth, which is not that they are right:
until the hash expires with jobs in the queue, every job is counted, so no task is called idle
that has work; until a job is purged whose task nobody could tell, nothing is counted that
is not there.

`remap_moves` finds that from `Settled` after the flip on everybody uses the shard of the row
(`Converged`); that a shard a finished remap has left has no job, key or gate of the
namespace (`NothingLeft`); that a job is accepted behind a closed gate and dropped only while
copies of the route outlive the window (`NothingBetrayed`); and that gates are open where the row
points, unless a remap has failed there and none was finished since (`OpenAtRest`).

`ticket_flows` finds three states in which a ticket stays without having come to its end
(`TicketEnds`): it was terminated; the launch of a pipeline failed after its FlowTree was
written (`Stranded`); or a pause was confirmed before it was running (`Unheard`). The last one
comes about because the confirmation finds the pause itself to be the next flow, and whoever
sees later that it is confirmed only writes its status. Besides, behaviours in which an
older status has overwritten a newer one are left out (`overtaken`), which is what
`ticket_revoke` is about.

**Bounds.** Two processes with two passes in the first are the least that shows both kinds
of concurrency: sharing of an entry inside a process, and competition for the key. Two
businesses let releases of one meet requests for the other. A session is taken anew once
nobody refers to it; four (six with lease losses) leave room for retries after a lost answer and for
the losses that separate entry and key. In the window, two events or two instances
are enough for a collision; windows of 0 to 2 ticks and marks of 2 to 4 let entries become
ripe before, while and after a mark of their instance runs out. `MaxCount` only merges higher counts, which nothing reads but strategies.
For a switch, one host with instances of two clusters shows the group per cluster and
the decision across clusters; two proxies show a partial refresh; one slot for two
instances shows waiting for it; two requests overlap in every way two goroutines can,
and a third only meets the lock as the second does.

In the queue two jobs compete for one slot, two pumps overlap, and two workers may have one
job; one retry shows the count of attempts and its limit; one count too many (`MaxCount`) shows
that counts stay too high. For the remap, the second move goes
back to the first shard, where a gate left closed or a key left behind would be seen; the
cache lives longer than the memo as in the code, and a call takes long enough that a look-up begun before
the flip ends after it. `since` is counted up to `Settled`, beyond which nothing reads it. For the ticket a pipeline between pauses has every order of
confirmation and callback; two processes show every pair of requests. The proofs remove these
bounds for the safety properties they cover.

**Fairness.** None of the safety properties needs any. For the others:

* `LockDrains`: a pass that has begun goes on (its work is bounded by `SwitchTimeout`),
  and etcd drops a lease nobody renews. The property speaks of the time after passes have
  stopped coming; the code claims no fairness between processes.
* `NeverBlockedForever`: time goes on. Passes may hang for ever, which is what the comment
  on `inflightTTL` is about.
* `FailureHandled` (window): passes return, and each business is popped again and again.
  The fairness of `PopAndMarkStart` is strong because `PopAndSwitch` is not always ready
  for one business: it visits them in turn and waits for a free goroutine.
* `FailureHandled` (failover): processes go on detecting an instance that keeps
  failing and visiting their businesses, and passes go on; strong fairness again only for
  entering a business, since the lock may be held at the moment it is tried.
* `EveryRequestEnds`: the goroutines of a request run, the wait for a cluster lock
  gives up after `clusterLockTimeout`, and calls have timeouts. Nothing is assumed about
  which of success and failure happens.
* `RefinesAdmittedJobs`: keys with a TTL expire, an operator ends a pause, pumps and workers go
  on. Strong fairness for the start of a tick and the steps of the reaper: the periodic task
  starts them again and again, and neither the lock nor a crash meets every tick at
  the same point.
* `TicketEnds`: processes go on, the engine ends a pipeline and reports it, operators
  confirm a todo and retry a failure. Nothing is assumed about when a todo is confirmed.

## 4. Where code and documentation disagree

`ticket_revoke` is a run that TLC finds violated. A signal that has read the flows before a
termination writes the ticket back to running after it (`ticket/flow_manager/manager.py:106-137`);
the guard, the second look and the post-check of `guard_ticket_revoked` then all see a running
ticket, and the pipeline of a terminated flow is started. The docstring of the decorator
(`flow/utils/decorators.py:43`) says that a revocation in between is noticed afterwards.

The others can be seen with a change to one run:

| To see | Change | What it shows |
|---|---|---|
| a leaked lock | `NoLeakedLock` as an invariant of `lock_lease_loss` | after a lease was lost between `TryLock` and the record of the entry, `acquireWith` overwrites the entry of another pass; the session of the overwritten entry is renewed and never unlocked |
| a second handling by event | `Event = {e1, e2}` in `window_prompt` | the window keeps an entry for each event of an instance and pops the second although the first is marked |
| a second handling by time | `Prompt = FALSE` in `window_prompt` | a mark lives for 30 s and a switch may take 10 minutes |
| a second switch by host | `SameHost` for `HostOf` in `failover_safe` | marks are on the instances popped, requests are for all instances of their hosts |
| a stale check | `CheckHolds` as a property of `switch_any` | the host path gives the cluster lock back between check and switch |
| a job discarded in error | `OnlyOrphansDiscarded` as a property of `dispatch_slots` | an error of Redis while payloads are read is taken for their absence (`dispatch/pump.py:308`, `dispatch/queue.py:290`), and accepted jobs with a payload are discarded, although the docstrings of the reaper speak of jobs "whose payload is gone or whose wait deadline has expired" |
| counts that are wrong | `CountsOneSided` without its premises in `dispatch_pumps` | the counts of a task drift both ways, as the docstring at `dispatch/task_counts.py:123` says ("drifts or expires") |
| a job dropped although it was accepted | `Kind` without the exception for `since < Settled` in `remap_moves` | a producer with the old route finds no gate once the first sweep has taken it away, although the docstring of the module (`dispatch/remap.py:32-35`) says that producers that resolve the stale route "get `enqueue_producer_paused`"; its job is dropped by the second sweep |
| a gate that stays closed | `OpenAtRest` without `unfinished` in `remap_moves` | a remap that fails before the flip leaves the producers' gate closed where the row points; the docstring names `resume_queue_pump` only, the TODO at `dispatch/remap.py:156` the rest |
| a confirmation nobody hears | `TicketEnds` without `Unheard` in `ticket_flows` | a todo that is confirmed before `run_status_handler` (`ticket/flow_manager/base.py:245`): the comment "所有待办完成后，执行后面的flow" at `ticket/todos/pause_todo.py:61` (when all todos are done, run the flow after them) is not kept |
| a stale route after a move | `Outage = TRUE` in `remap_moves` | a process that cannot refresh its memo uses the old one without end (`dispatch/routing.py:198`), although the "Stale-route ceiling" of `dispatch/remap.py:44` is the window the remap waits for |

## 5. Proofs

All theorems are for any number of processes, passes, requests, instances, hosts,
clusters, businesses, jobs, pumps, workers, shards and flows, under the `ASSUME`s of the module
(types of the constants, finite sets where something is counted).

| Module | Theorems | Assumed besides |
|---|---|---|
| `LockTracker_proofs` | `TypeCorrect`, `NoPhantomHolds` | |
| | `LockInvariant`, `Exclusion`, `ExactCounts`, `NoKeyLeaks`, `Refinement` to `BizLock` | `LeaseLoss = FALSE` |
| `WindowManager_proofs` | what each method does to marks and entries (lemmas) | |
| `SlidingWindow_proofs` | `TypeCorrect`, `NoStrayMarks`, `NoFailureLost` | |
| | `OnePassUnless` | |
| `Failover_proofs` | `TypeCorrect`, `DownBeforeSwitch` | |
| | `OneProcess` | a host belongs to one business |
| | `SwitchedOnceUnless`, `Refinement` to `SwitchOnce` | the same; of the behaviour, that no two passes of a process claim the instance (any instance) together |
| `SwitchExecution_proofs` | `TypeCorrect`, `SwitchInvariant`, `ClusterLock`, `OneMasterForClients`, `RolesChangeOnce`, `SuccessIsComplete`, `SingleChecks`, `ChecksFirst`, `Refinement` to `MasterHandover` | |
| `DispatchPump_proofs` | `Typing`, `Limits`, `CountsRight`, `Tokens`, `NoDouble`, `Accepted`, `Attempts`, `Admits` (the safety part of `AdmittedJobs`) | |
| `NamespaceRemap_proofs` | `Typing`, `Unbetrayed`, `Reopened` | |
| | `Convergence`, `Swept` | `Outage = FALSE` |
| `TicketFlow_proofs` | `Typing`, `EnteredOnce`, `EnteredInOrder`, `PausesConfirmed`, `TicketFollows`, `OneLaunch`, `TerminatedStops` | |

Without the assumptions on leases and outages the theorems fail, as the table of section 4
shows. That a host belongs to one business is how DBM keeps hosts. The two conditions on the
behaviour say where the code stops to guarantee something: `NoDuplicateHandling` and
`NoDoubleSwitch` themselves, which `window_prompt` and `failover_safe` check for one event, prompt
passes and an instance per host, are not theorems, for a mark lives 30 s, a switch may take 10 minutes,
and hosts have several instances.

*LockTracker.* Exclusion is not inductive: it must be known that an entry cannot outlive
its key. `LockInv` adds that each key has at most one voucher, either an entry whose count
is the number of passes inside or one pass between the tracker and etcd, and that it is in
the process that renews the session. With this an entry is written only where there is
none. That a renewed key has a voucher at all is `NoLeakedLock`, inductive beside `LockInv`. The
refinement maps the passes inside to `BizLock`'s set of holders. `NoPhantomHolds` needs
less: counts are compared with users one step at a time, and overwriting only lowers them.

*SlidingWindow.* `OnePassUnless` says, for each instance by itself, with any events and however
slow passes are, what it takes to get an instance into two passes: that there was no mark of it
while a pass had it (`MarkHolds`: the mark ran out, or went with another key of the
instance in the same batch), or that a pass that took it left another failure of it in the window
(`TakesAll`: another event that was not ripe). Where neither happens to the instance it is
`Alone`: with one pass and waiting nowhere, whatever happens to other instances. Both do
happen in operation, so this is the list of causes and not a promise.

*Failover.* `DownBeforeSwitch` needs only the order of status and switch. `OneProcess` holds with
slow passes and whole hosts, too: whoever claims an instance has the lock of its business
(`ClaimLocked`), and the lock is had by one process. `SwitchedOnceUnless` goes on from there, for
each instance: marks and windows do not matter to it, for as long as no two requests have
the instance at once, what a request rests on stays true (`Current`): what is to be taken down is
in service, what is to be switched was taken down and not switched yet. So a second switch
takes two requests that were made before either has written the status, and by `OneProcess` both are in
one process, behind its cluster locks. `Refinement` is the same for all instances, with
hosts of any size and both scopes.

*SwitchExecution.* `SwitchInv` has six parts. `TypeOK` and `RequestInv` say what a request
may be doing at each phase, `HeldInv` that who needs the lock of a cluster has it,
alone. `RouteInv` holds even without the lock: a step that begins finds all proxies it
reaches off the old master, and whatever proxy is in service now was so when the request
began, so it was reached; this gives `NoSplitBrain`. `MovedInv` needs the lock: proxies
already on the new master are not moved away by another switch before this one
swaps the roles; it gives `SwapIsFinal` and `SwitchComplete`. `CheckedInv` is the check
that goes on holding while the lock is kept, and gives `SingleCheckHolds`. For
`NothingBeforeChecks` one more fact, `PassedInv`, says that a request that switches has
passed; results and statuses never change back, and a cluster is first touched by the
switch of its own master. The refinement of MasterHandover needs no more than `SwitchInv`: the
proxies in service are among those a switch reaches (`ServedIsReached`), so what `RouteInv`
and `MovedInv` say of the latter is what the promise asks of the former; all steps of a
job but the refreshes, the reset of the slave and the swap stutter, and whatever else
happens only takes proxies out of service.

*DispatchPump.* The first part is about the scripts alone: each keeps `QueueInv`, the
limits and the counts as far as they go (`CountsRight`), whoever calls it and with or without the
task of the job; the expiry of the hash and purges without a task are steps like others. The second follows the *token* of a job that
was not disturbed: it is in one hand only (`OneHand`), that of the queue, of the pump that has
reserved it, of one message, or of one worker; while a hand may use it the slot and the payload
are there (`SlotKept`), and who plans to remove a job has found it dead (`Dead`). A step
either moves the token or disturbs the job. No lemma speaks of the lock of the pumps, except in
`Attempts`: what a pump has peeked at is current as long as it was alone (`Peeked`).

*NamespaceRemap.* The argument is about time. A copy of an old route, in a look-up, in the
cache, in a memo or in use, can only be the start of chains of further copies; `Outdated` says
how long they last at most, and that with the time since the flip this is not more than
`Settled`. A tick takes one from the first and adds it to the second; the longest chain begins
at the flip (a look-up that has just read the row, the cache it fills and the memo filled from
that). `TimeInv` says how long the remap has waited: at the second sweep `Settled` is over, so
nobody writes to the old shard any more and what is swept stays swept. None of this depends on
the remap living on: what a remap that died has left is on a shard of `unfinished`, until a
later one is finished there. The gates need no time at all (`BaseInv`), and what is said of them holds in
an outage, too.

*TicketFlow.* `OrderInv` says that a flow that looks started, and a flow a process is at work
on, has only flows before it that were found finished, although the next flow is read before
the current one is looked at. `EntryInv` compares entries with retries: whoever finds no "ack" has a retry to
its credit that was not used. `PauseInv` orders the todo of a pause and its status: a pause
that is found running has been asked for, and who is about to ask is alone with it.
`AgreeInv` says that the ticket has the status the rows give, or a signal is on its way to it:
whoever changes a row has `Announced` it, and a signal that ends leaves the two agreed unless it
has overtaken another. `PipeInv` is about FlowTrees: one is created once, before its pipeline, and nobody
launches a pipeline but the one who has created its FlowTree, which is `LaunchedOnce`.
`HandledInv` adds who owes a terminated flow its end. If the current flow is not `Dead` (its
pipeline has ended, was revoked, or will not be launched by anybody), then the operator has still to look for its
FlowTree (`Halting`), or there was none, or whoever builds the pipeline (`Starter`) has still
to look at the ticket, which says that it is terminated or is about to be told (`Telling`). What is
dead stays dead, because a FlowTree is created once. When
everybody has gone nobody owes anything any more, which is `NoOrphan`.

**Only model-checked**: liveness (`LockDrains`, `FailureHandled`, `NeverBlockedForever`,
`EveryRequestEnds`, the liveness of `AdmittedJobs`, `TicketEnds`), which is out of the prover's reach,
the property that is violated, and `NoDuplicateHandling` and `NoDoubleSwitch`, for the
reason above. Every other invariant and action property of a passing run is also a theorem.

## 6. Not modelled

* DBHA's sharding of businesses: the ring only narrows which process visits a business, and
  Failover lets all of them, so nothing rests on it. The synchronizer: election by etcd's
  client and a cache of reports no modelled component reads. Checker and detector: I/O against
  instances, any result at any time in Failover. Storage: SQL and its cursor, any scan
  in Failover. Strategy matching: any subset in Failover.
* The switch of whole clusters with dependency groups, and the TenDBCluster switcher:
  long sequences of SQL on top of the same execution.
* Logs, snapshots, alarms, metrics and configuration; probe, receiver, admin and migrator;
  version 1 of DBHA: no state the properties speak of, I/O, or superseded.
* Of the dispatch queue: admission without dedupe (`idempotence_mode` NONE), whose script looks at
  no member and no dedupe key, may make a job pending that is reserved, and counts it once more
  (`dispatch/admission.py:73-109`): `SlotsBounded`, `CountsOneSided` and what follows are about
  queues in dedupe mode only. The rebuild of the derived counts, calls of the reaper that fail
  half-way, the cache of settings, statistics, and what the jobs themselves do.
* Of the remap: gates that expire by themselves and remaps at once (comments of the code name
  both as open).
* Of tickets: itsm, timer, resource and delivery flows, which differ from a pause in whom they
  wait for; what two tickets exclude; the hundreds of scenes, which are sequences of actuator
  calls that the external bamboo engine runs; builders, metadata and views, which are
  requests translated to SQL.
* The database actuators, the tools and the common services: sequential I/O.
