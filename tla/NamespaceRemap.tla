--------------------------- MODULE NamespaceRemap ---------------------------
(***************************************************************************)
(* How the processes find the Redis shard of one namespace of the dispatch *)
(* queue, and how the namespace is moved to another shard (routing.py,     *)
(* remap.py).  The row of the route is in MySQL; the whole map of routes   *)
(* is in the Django cache for CacheTTL, and each process has a memo for    *)
(* MemoTTL.  Nobody tells a process that the route has changed: a remap    *)
(* closes the old shard, writes the row, and waits until all copies of the *)
(* old route must have run out before it drops what is left there.         *)
(*                                                                         *)
(* Times are kept as what remains of them, in ticks.                       *)
(***************************************************************************)
EXTENDS Integers, FiniteSets

CONSTANTS
    Alias,     \* the Redis shards, DISPATCH_REDIS_ALIASES
    Proc,      \* the processes that resolve the namespace
    MemoTTL,   \* ROUTE_MEMO_TTL_SECONDS
    CacheTTL,  \* ROUTE_CACHE_TTL_SECONDS
    Stall,     \* ticks from the entry of conn_for_namespace to the end of the
               \* Redis call it is for, at most
    MaxMoves,  \* bound: how often the namespace is moved
    Outage,    \* bound: may cache and database fail together after the first
               \* remap has begun?
    NoAlias

ASSUME RemapAssumption ==
    /\ NoAlias \notin Alias
    /\ MemoTTL \in Nat \ {0}
    /\ CacheTTL \in Nat \ {0}
    /\ Stall \in Nat
    /\ 2 * Stall =< MemoTTL + CacheTTL
    /\ MaxMoves \in Nat
    /\ Outage \in BOOLEAN

VARIABLES
    route,   \* redis_alias in the row of the namespace
    cache,   \* the namespace's entry of the map in the Django cache
    memo,    \* memo[p]: the entry of _memo in process p
    proc,    \* proc[p]: what process p is doing
    jobs,    \* jobs[a]: jobs on shard a, by when they were accepted
    traces,  \* traces[a]: are there other keys of the namespace, of metrics?
    closed,  \* closed[a]: gates of shard a a remap has closed
    remap,   \* the remap under way
    moves,   \* how many remaps have begun
    since,   \* history: ticks since the row was flipped, up to Settled
    unfinished \* history: shards a remap has failed to move the namespace away
               \* from, and none has done so since

shards == <<jobs, traces, closed>>
history == <<moves, since, unfinished>>
vars == <<route, cache, memo, proc, shards, remap, history>>

Known == Alias \cup {NoAlias}
Gates == {"pump", "producer"}
Keys == {"jobs", "traces", "gates"}

\* Mutant: the map in the cache outlives the memo that is filled from it.
WindowMemo == MemoTTL

\* _convergence_window_seconds.
Window == MemoTTL + CacheTTL

\* For how long copies of a route may be used after the row was flipped: the
\* window begins late for a route that a slow call puts into the cache, and a
\* slow call uses its copy late.
Settled == Window + 2 * Stall

\* The row is flipped, and a first and a second time the remap waits and sweeps.
Moving == {"invalidate", "wait", "sweep", "verify", "final"}

Idle == [at |-> "idle", alias |-> NoAlias, age |-> 0]
NoRemap == [at |-> "idle", old |-> NoAlias, new |-> NoAlias, left |-> 0, todo |-> {}]

Memos == [alias : Known, left : 0 .. MemoTTL]
Calls == [at : {"idle", "loaded", "assign", "counting", "create", "created", "use"},
          alias : Known, age : 0 .. Stall]
Remaps == [at : {"idle", "pause", "close", "flip"} \cup Moving,
           old : Known, new : Known, left : 0 .. Window, todo : SUBSET Keys]

TypeOK ==
    /\ route \in Known
    /\ cache \in [alias : Known, left : 0 .. CacheTTL]
    /\ memo \in [Proc -> Memos]
    /\ proc \in [Proc -> Calls]
    /\ jobs \in [Alias -> SUBSET {"fair", "behind"}]
    /\ traces \in [Alias -> BOOLEAN]
    /\ closed \in [Alias -> SUBSET Gates]
    /\ remap \in Remaps
    /\ moves \in 0 .. MaxMoves
    /\ since \in 0 .. Settled
    /\ unfinished \in SUBSET Alias

Init ==
    /\ route = NoAlias
    /\ cache = [alias |-> NoAlias, left |-> 0]
    /\ memo = [p \in Proc |-> [alias |-> NoAlias, left |-> 0]]
    /\ proc = [p \in Proc |-> Idle]
    /\ jobs = [a \in Alias |-> {}]
    /\ traces = [a \in Alias |-> FALSE]
    /\ closed = [a \in Alias |-> {}]
    /\ remap = NoRemap
    /\ moves = 0
    /\ since = Settled
    /\ unfinished = {}

-----------------------------------------------------------------------------
(* conn_for_namespace                                                      *)

Go(p, label, a) == proc' = [proc EXCEPT ![p] = [at |-> label, alias |-> a, age |-> @.age]]

\* The memo lives from the moment before the route was looked up.
Memoize(p, a) ==
    memo' = [memo EXCEPT ![p] = [alias |-> a,
                                 left |-> IF proc[p].age < MemoTTL THEN MemoTTL - proc[p].age ELSE 0]]

MemoHit(p) ==
    /\ proc[p].at = "idle"
    /\ memo[p].left > 0
    /\ Go(p, "use", memo[p].alias)
    /\ UNCHANGED <<route, cache, memo, shards, remap, history>>

\* resolve_alias with the route that _get_routes has returned: a map from before
\* the assignment does not name the namespace.
Resolved(p, a) ==
    IF a = NoAlias
    THEN Go(p, "assign", NoAlias) /\ UNCHANGED memo
    ELSE Go(p, "use", a) /\ Memoize(p, a)

\* assign_route loads the map again, to count the namespaces of each alias.
Counted(p) == Go(p, "create", NoAlias) /\ UNCHANGED memo

\* _get_routes finds the map in the cache.
CacheHit(p) ==
    /\ cache.left > 0
    /\ \/ proc[p].at = "idle" /\ memo[p].left = 0 /\ Resolved(p, cache.alias)
       \/ proc[p].at = "assign" /\ Counted(p)
    /\ UNCHANGED <<route, cache, shards, remap, history>>

\* The cache has no map or fails, and the rows are read.
LoadRoutes(p) ==
    /\ \/ proc[p].at = "idle" /\ memo[p].left = 0 /\ Go(p, "loaded", route)
       \/ proc[p].at = "assign" /\ Go(p, "counting", route)
    /\ UNCHANGED <<route, cache, memo, shards, remap, history>>

\* What was read goes into the cache, if that does not fail, whatever has
\* become of the row and of the cache since.
StoreRoutes(p, stored) ==
    /\ proc[p].at \in {"loaded", "counting"}
    /\ cache' = IF stored THEN [alias |-> proc[p].alias, left |-> CacheTTL] ELSE cache
    /\ IF proc[p].at = "loaded" THEN Resolved(p, proc[p].alias) ELSE Counted(p)
    /\ UNCHANGED <<route, shards, remap, history>>

\* Mutant: who comes second overwrites the row.
AssignRouteAnew(p, a) ==
    /\ proc[p].at = "create"
    /\ route' = a
    /\ Go(p, "created", a)
    /\ UNCHANGED <<cache, memo, shards, remap, history>>

\* assign_route: get_or_create of the row; the second process reads the row
\* of the first.
AssignRoute(p, a) ==
    /\ proc[p].at = "create"
    /\ IF route = NoAlias
       THEN /\ route' = a
            /\ Go(p, "created", a)
            /\ UNCHANGED memo
       ELSE /\ Go(p, "use", route)
            /\ Memoize(p, route)
            /\ UNCHANGED route
    /\ UNCHANGED <<cache, shards, remap, history>>

\* invalidate_route of the creator; the deletion may fail.
AssignInvalidate(p, deleted) ==
    /\ proc[p].at = "created"
    /\ cache' = IF deleted THEN [cache EXCEPT !.left = 0] ELSE cache
    /\ Go(p, "use", proc[p].alias)
    /\ Memoize(p, proc[p].alias)
    /\ UNCHANGED <<route, shards, remap, history>>

\* Cache and database fail, and the memo that has run out is used again.
ServeStale(p) ==
    /\ Outage \/ moves = 0
    /\ proc[p].at = "idle"
    /\ memo[p].left = 0
    /\ memo[p].alias # NoAlias
    /\ Go(p, "use", memo[p].alias)
    /\ UNCHANGED <<route, cache, memo, shards, remap, history>>

Free(p) == proc' = [proc EXCEPT ![p] = Idle]

\* The process dies, and the next one begins with an empty memo.
Restart(p) ==
    /\ Free(p)
    /\ memo' = [memo EXCEPT ![p] = [alias |-> NoAlias, left |-> 0]]
    /\ UNCHANGED <<route, cache, shards, remap, history>>

-----------------------------------------------------------------------------
(* What the connection is for                                              *)

\* A job is accepted behind the gate on the shard that the remap moves away
\* from: by the code that can only be while the gate is being swept away, or has
\* been, and as long as copies of the old route may be used.
Kind(a) ==
    IF /\ a = remap.old
       /\ remap.at \in {"flip"} \cup Moving
       /\ ~(remap.at \in {"sweep", "verify", "final"} /\ since < Settled)
    THEN "behind"
    ELSE "fair"

Trace(a) == traces' = [traces EXCEPT ![a] = TRUE]

\* enqueue_jobs on the shard that was resolved: the gate is looked at in the
\* same script.  Metrics are written in any case.
Produce(p) ==
    /\ proc[p].at = "use"
    /\ LET a == proc[p].alias
       IN  /\ jobs' = IF "producer" \in closed[a] THEN jobs ELSE [jobs EXCEPT ![a] = @ \cup {Kind(a)}]
           /\ Trace(a)
    /\ Free(p)
    /\ UNCHANGED <<route, cache, memo, closed, remap, history>>

\* A tick of the pump, whose workers end some jobs, unless the lock is paused.
Drain(p, S) ==
    /\ proc[p].at = "use"
    /\ LET a == proc[p].alias
       IN  IF "pump" \in closed[a]
           THEN UNCHANGED <<jobs, traces>>
           ELSE /\ jobs' = [jobs EXCEPT ![a] = @ \ S]
                /\ Trace(a)
    /\ Free(p)
    /\ UNCHANGED <<route, cache, memo, closed, remap, history>>

-----------------------------------------------------------------------------
(* remap_namespace, one at a time                                          *)

Advance(label) == remap' = [remap EXCEPT !.at = label]

Begin(a) ==
    /\ remap.at = "idle"
    /\ moves < MaxMoves
    /\ route \notin {NoAlias, a}
    /\ remap' = [NoRemap EXCEPT !.at = "pause", !.old = route, !.new = a]
    /\ moves' = moves + 1
    /\ UNCHANGED <<route, cache, memo, proc, shards, since, unfinished>>

Close(gate) == closed' = [closed EXCEPT ![remap.old] = @ \cup {gate}]

\* pause_queue_pump on the old shard, which also writes a baseline for metrics.
PausePump ==
    /\ remap.at = "pause"
    /\ Close("pump")
    /\ Trace(remap.old)
    /\ Advance("close")
    /\ UNCHANGED <<route, cache, memo, proc, jobs, history>>

\* Mutant: only the pump is paused.
CloseGateNot ==
    /\ remap.at = "close"
    /\ Advance("flip")
    /\ UNCHANGED <<route, cache, memo, proc, shards, history>>

\* pause_queue_producer on the old shard.
CloseGate ==
    /\ remap.at = "close"
    /\ Close("producer")
    /\ Advance("flip")
    /\ UNCHANGED <<route, cache, memo, proc, jobs, traces, history>>

FlipRoute ==
    /\ remap.at = "flip"
    /\ route' = remap.new
    /\ since' = 0
    /\ Advance("invalidate")
    /\ UNCHANGED <<cache, memo, proc, shards, moves, unfinished>>

\* A call of Redis or of the database fails, or the process dies, and the remap
\* is left where it is: nothing takes back what it has done.
Fail ==
    /\ remap.at # "idle"
    /\ remap' = NoRemap
    /\ unfinished' = IF remap.at = "pause" THEN unfinished ELSE unfinished \cup {remap.old}
    /\ UNCHANGED <<route, cache, memo, proc, shards, moves, since>>

\* An operator resumes the pump afterwards, as remap_namespace asks its callers
\* to, and may or may not think of the producers.
Resume(gate) ==
    /\ remap.at = "idle"
    /\ route \in unfinished
    /\ gate \in closed[route]
    /\ closed' = [closed EXCEPT ![route] = @ \ {gate}]
    /\ IF gate = "pump" THEN Trace(route) ELSE UNCHANGED traces
    /\ UNCHANGED <<route, cache, memo, proc, jobs, remap, history>>

\* _invalidate_dispatch_route on commit; the deletion may fail.  Then
\* _wait_convergence_window begins.
Invalidate(deleted) ==
    /\ remap.at = "invalidate"
    /\ cache' = IF deleted THEN [cache EXCEPT !.left = 0] ELSE cache
    /\ remap' = [remap EXCEPT !.at = "wait", !.left = Window]
    /\ UNCHANGED <<route, memo, proc, shards, history>>

\* A window is over, and sweep_namespace begins.
StartSweep ==
    /\ remap.at \in {"wait", "verify"}
    /\ remap.left = 0
    /\ remap' = [remap EXCEPT !.at = IF @ = "wait" THEN "sweep" ELSE "final", !.todo = Keys]
    /\ UNCHANGED <<route, cache, memo, proc, shards, history>>

\* UNLINK of a batch: the keys of the old shard come in any order.
SweepBatch(K) ==
    /\ remap.at \in {"sweep", "final"}
    /\ K # {} /\ K \subseteq remap.todo
    /\ jobs' = IF "jobs" \in K THEN [jobs EXCEPT ![remap.old] = {}] ELSE jobs
    /\ traces' = IF "traces" \in K THEN [traces EXCEPT ![remap.old] = FALSE] ELSE traces
    /\ closed' = IF "gates" \in K THEN [closed EXCEPT ![remap.old] = {}] ELSE closed
    /\ remap' = [remap EXCEPT !.todo = @ \ K]
    /\ UNCHANGED <<route, cache, memo, proc, history>>

\* The end of the first sweep, and that of the second, with which the remap is
\* finished.
Ended(last) ==
    /\ remap' = IF last THEN NoRemap ELSE [remap EXCEPT !.at = "verify", !.left = Window, !.todo = {}]
    /\ unfinished' = IF last THEN unfinished \ {remap.old} ELSE unfinished
    /\ UNCHANGED <<route, cache, memo, proc, shards, moves, since>>

\* Mutants: the last batch, if it is not full, is forgotten; the remap ends
\* with its first sweep.
EndSweepEarly ==
    /\ remap.at \in {"sweep", "final"}
    /\ Cardinality(remap.todo) =< 1
    /\ Ended(remap.at = "final")

EndSweepOnce ==
    /\ remap.at \in {"sweep", "final"}
    /\ remap.todo = {}
    /\ Ended(TRUE)

\* A second window follows the first sweep, and what the second still finds
\* is logged as an error.
EndSweep ==
    /\ remap.at \in {"sweep", "final"}
    /\ remap.todo = {}
    /\ Ended(remap.at = "final")

-----------------------------------------------------------------------------

Less(n) == IF n > 0 THEN n - 1 ELSE 0

\* Time passes for all, unless a process has been at its call for too long.
Tick ==
    /\ \A p \in Proc : proc[p].at # "idle" => proc[p].age < Stall
    /\ cache' = [cache EXCEPT !.left = Less(@)]
    /\ memo' = [p \in Proc |-> [memo[p] EXCEPT !.left = Less(@)]]
    /\ proc' = [p \in Proc |-> IF proc[p].at = "idle" THEN proc[p] ELSE [proc[p] EXCEPT !.age = @ + 1]]
    /\ remap' = [remap EXCEPT !.left = Less(@)]
    /\ since' = IF since < Settled THEN since + 1 ELSE since
    /\ UNCHANGED <<route, shards, moves, unfinished>>

Resolve(p) ==
    \/ MemoHit(p) \/ CacheHit(p) \/ LoadRoutes(p) \/ ServeStale(p) \/ Restart(p)
    \/ \E ok \in BOOLEAN : StoreRoutes(p, ok) \/ AssignInvalidate(p, ok)
    \/ \E a \in Alias : AssignRoute(p, a)

Remap ==
    \/ \E a \in Alias : Begin(a)
    \/ PausePump \/ CloseGate \/ FlipRoute \/ Fail
    \/ \E gate \in Gates : Resume(gate)
    \/ \E ok \in BOOLEAN : Invalidate(ok)
    \/ StartSweep \/ EndSweep
    \/ \E K \in SUBSET Keys : SweepBatch(K)

Next ==
    \/ \E p \in Proc : Resolve(p) \/ Produce(p)
    \/ \E p \in Proc, S \in SUBSET {"fair", "behind"} : Drain(p, S)
    \/ Remap
    \/ Tick

Spec == Init /\ [][Next]_vars

-----------------------------------------------------------------------------
(* Properties                                                              *)

\* From Settled after the last flip of the row on, every call goes to the shard
\* of the row, whatever has become of the remap: copies of a route that was read
\* before have run out, although the deletion of the cache failed or a slow
\* process filled it again, and processes that assigned the route at once agree.
\* (conn_for_namespace, ROUTE_MEMO_TTL_SECONDS + ROUTE_CACHE_TTL_SECONDS)
Converged ==
    since = Settled =>
        \A p \in Proc : /\ proc[p].at = "use" => proc[p].alias = route
                        /\ memo[p].left > 0 => memo[p].alias = route

\* Nothing of the namespace is left on another shard, but while it is moved away
\* from there or where a remap has failed: a remap that is finished has also
\* found what was written between its sweeps, and what an earlier one has left
\* behind that died on the same way.  (sweep_namespace)
NothingLeft ==
    remap.at \notin Moving =>
        \A a \in Alias \ ({route} \cup unfinished) : jobs[a] = {} /\ ~traces[a] /\ closed[a] = {}

\* From the moment its gate is closed on, a remap takes no job in on the shard it
\* drops, but in the time that copies of the route outlive the window by: there
\* the first sweep may have taken the gate away, and a job that is accepted then
\* is dropped without a word.  The calls need not be slow for that, one that
\* crosses a tick is enough, and so what remap_namespace says of the producers
\* ("get enqueue_producer_paused") is not quite true.
\* (remap_namespace, pause_queue_producer, sweep_namespace)
NothingBetrayed == \A a \in Alias : "behind" \notin jobs[a]

\* Without a remap under way the gates are open where the row points, also when
\* the namespace comes back to a shard it was moved away from ("Success needs
\* no resume"), unless a remap has failed there; a later one that is finished
\* mends it.  A remap that failed before the flip does leave the producers' gate
\* closed where the row points: resume_queue_pump does not open it.
\* (remap_namespace)
OpenAtRest == remap.at = "idle" /\ route \notin unfinished \cup {NoAlias} => closed[route] = {}
=============================================================================
