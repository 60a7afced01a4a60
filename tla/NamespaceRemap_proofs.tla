----------------------- MODULE NamespaceRemap_proofs -----------------------
(***************************************************************************)
(* Proofs about NamespaceRemap, for any number of processes and shards,    *)
(* and any lifetimes of the copies of a route.  The argument is one about  *)
(* time: a copy of an old route can only be the start of another copy with *)
(* less time left, and all of them have run out when Settled ticks have    *)
(* passed since the row was flipped.                                       *)
(***************************************************************************)
EXTENDS NamespaceRemap, TLAPS

Preparing == {"pause", "close", "flip"}

\* Alias a is not that of the row, and so that of a row before, and for need
\* ticks at most there are calls because of it.
Outdated(a, need) ==
    a \notin {route, NoAlias} => a \in {remap.old} \cup unfinished /\ since + need =< Settled

RowInv ==
    /\ remap.at = "idle" => remap.old = NoAlias
    /\ remap.at # "idle" => remap.old \in Alias /\ remap.new \in Alias /\ remap.old # remap.new
    /\ remap.at \in Preparing => route = remap.old
    /\ remap.at \in Moving => route = remap.new
    /\ moves = 0 => remap.at = "idle" /\ since = Settled
    /\ moves > 0 => route # NoAlias

\* How long the remap has waited at least.
TimeInv ==
    /\ remap.at = "wait" => since + remap.left >= Window
    /\ remap.at = "sweep" => since >= Window
    /\ remap.at = "verify" => since + remap.left >= Settled
    /\ remap.at = "final" => since = Settled

GateInv ==
    /\ remap.at \in {"flip", "invalidate", "wait"} => "producer" \in closed[remap.old]
    /\ \A a \in Alias :
          a \notin unfinished /\ (a # remap.old \/ remap.at = "pause") => closed[a] = {}
    /\ remap.at = "final" /\ "gates" \notin remap.todo => closed[remap.old] = {}

FirstInv == moves = 0 => \A p \in Proc : memo[p].alias \in {NoAlias, route}

CacheInv == cache.left > 0 => Outdated(cache.alias, cache.left + MemoTTL + Stall)

MemoInv == \A p \in Proc : memo[p].left > 0 =>
    memo[p].alias # NoAlias /\ Outdated(memo[p].alias, memo[p].left + Stall)

CallOK(p) ==
    /\ proc[p].at \in {"loaded", "counting"} =>
          Outdated(proc[p].alias, Stall - proc[p].age + CacheTTL + MemoTTL + Stall)
    /\ proc[p].at = "created" =>
          proc[p].alias # NoAlias /\ Outdated(proc[p].alias, MemoTTL - proc[p].age + Stall)
    /\ proc[p].at = "use" =>
          proc[p].alias # NoAlias /\ Outdated(proc[p].alias, Stall - proc[p].age + 1)

ProcInv == \A p \in Proc : CallOK(p)

ShardInv ==
    /\ \A a \in Alias : a \notin {route, remap.old} \cup unfinished => jobs[a] = {} /\ ~traces[a]
    /\ remap.at = "final" =>
          /\ "jobs" \notin remap.todo => jobs[remap.old] = {}
          /\ "traces" \notin remap.todo => ~traces[remap.old]
    /\ \A a \in Alias : "behind" \notin jobs[a]

\* What holds whatever fails, and what holds unless cache and database fail
\* together.
BaseInv == TypeOK /\ RowInv /\ TimeInv /\ GateInv

RemapInv ==
    /\ BaseInv
    /\ FirstInv
    /\ CacheInv
    /\ MemoInv
    /\ ProcInv
    /\ ShardInv

\* What a call remembers: the route it has found, from its beginning on.
LEMMA Memoized ==
    ASSUME TypeOK, NEW p \in Proc, NEW a \in Known, Memoize(p, a)
    PROVE  /\ memo' \in [Proc -> Memos]
           /\ memo'[p].alias = a
           /\ memo'[p].left > 0 => memo'[p].left = MemoTTL - proc[p].age
           /\ \A q \in Proc \ {p} : memo'[q] = memo[q]
<1>. USE RemapAssumption DEF RemapAssumption
<1>1. proc[p].age \in Nat /\ memo \in [Proc -> Memos]
  BY DEF TypeOK, Calls
<1>. DEFINE new == [alias |-> a, left |-> IF proc[p].age < MemoTTL THEN MemoTTL - proc[p].age ELSE 0]
<1>2. new \in Memos
  BY <1>1 DEF Memos
<1>3. memo' = [memo EXCEPT ![p] = new]
  BY DEF Memoize
<1>. QED BY <1>1, <1>2, <1>3

\* Every step keeps the types.
LEMMA TypeStep ==
    ASSUME TypeOK, RowInv, [Next]_vars
    PROVE  TypeOK'
<1>. USE RemapAssumption DEF RemapAssumption, TypeOK, Resolved, Counted, Go,
        Free, Idle, NoRemap, Advance, Close, Trace, Kind, Less, shards, history,
        Known, Gates, Keys, Window, Settled
<1>1. ASSUME NEW p \in Proc, MemoHit(p) PROVE TypeOK'
  BY <1>1 DEF MemoHit, Memos, Calls
<1>2. ASSUME NEW p \in Proc, CacheHit(p) PROVE TypeOK'
  <2>1. memo' \in [Proc -> Memos]
    BY <1>2, Memoized DEF CacheHit
  <2>2. proc' \in [Proc -> Calls]
    BY <1>2 DEF CacheHit, Calls
  <2>. QED BY <1>2, <2>1, <2>2 DEF CacheHit
<1>3. ASSUME NEW p \in Proc, LoadRoutes(p) PROVE TypeOK'
  <2>1. proc' \in [Proc -> Calls]
    BY <1>3 DEF LoadRoutes, Calls
  <2>. QED BY <1>3, <2>1 DEF LoadRoutes
<1>4. ASSUME NEW p \in Proc, ServeStale(p) PROVE TypeOK'
  BY <1>4 DEF ServeStale, Memos, Calls
<1>5. ASSUME NEW p \in Proc, Restart(p) PROVE TypeOK'
  BY <1>5 DEF Restart, Memos, Calls
<1>6. ASSUME NEW p \in Proc, NEW ok \in BOOLEAN, StoreRoutes(p, ok) PROVE TypeOK'
  <2>1. memo' \in [Proc -> Memos]
    BY <1>6, Memoized DEF StoreRoutes, Calls
  <2>2. cache' \in [alias : Known, left : 0 .. CacheTTL]
    BY <1>6 DEF StoreRoutes, Calls
  <2>3. proc' \in [Proc -> Calls]
    BY <1>6 DEF StoreRoutes, Calls
  <2>. QED BY <1>6, <2>1, <2>2, <2>3 DEF StoreRoutes
<1>7. ASSUME NEW p \in Proc, NEW ok \in BOOLEAN, AssignInvalidate(p, ok) PROVE TypeOK'
  <2>1. memo' \in [Proc -> Memos]
    BY <1>7, Memoized DEF AssignInvalidate, Calls
  <2>2. cache' \in [alias : Known, left : 0 .. CacheTTL]
    BY <1>7 DEF AssignInvalidate
  <2>3. proc' \in [Proc -> Calls]
    BY <1>7 DEF AssignInvalidate, Calls
  <2>. QED BY <1>7, <2>1, <2>2, <2>3 DEF AssignInvalidate
<1>8. ASSUME NEW p \in Proc, NEW a \in Alias, AssignRoute(p, a) PROVE TypeOK'
  <2>1. memo' \in [Proc -> Memos]
    BY <1>8, Memoized DEF AssignRoute
  <2>. QED BY <1>8, <2>1 DEF AssignRoute, Calls
<1>9. ASSUME NEW p \in Proc, Produce(p) PROVE TypeOK'
  <2>1. jobs' \in [Alias -> SUBSET {"fair", "behind"}]
    BY <1>9 DEF Produce
  <2>2. traces' \in [Alias -> BOOLEAN]
    BY <1>9 DEF Produce
  <2>3. proc' \in [Proc -> Calls]
    BY <1>9 DEF Produce, Calls
  <2>. QED BY <1>9, <2>1, <2>2, <2>3 DEF Produce
<1>10. ASSUME NEW p \in Proc, NEW S \in SUBSET {"fair", "behind"}, Drain(p, S) PROVE TypeOK'
  <2>1. jobs' \in [Alias -> SUBSET {"fair", "behind"}]
    BY <1>10 DEF Drain
  <2>2. traces' \in [Alias -> BOOLEAN]
    BY <1>10 DEF Drain
  <2>3. proc' \in [Proc -> Calls]
    BY <1>10 DEF Drain, Calls
  <2>. QED BY <1>10, <2>1, <2>2, <2>3 DEF Drain
<1>11. ASSUME NEW a \in Alias, Begin(a) PROVE TypeOK'
  <2>1. remap' \in Remaps
    <3>1. 0 \in 0 .. Window
      OBVIOUS
    <3>2. remap' = [at |-> "pause", old |-> route, new |-> a, left |-> 0, todo |-> {}]
      BY <1>11 DEF Begin
    <3>. HIDE DEF Window, Moving
    <3>. QED BY <3>1, <3>2 DEF Remaps
  <2>2. moves' \in 0 .. MaxMoves
    BY <1>11 DEF Begin
  <2>. QED BY <1>11, <2>1, <2>2 DEF Begin
<1>12. ASSUME PausePump PROVE TypeOK'
  BY <1>12 DEF PausePump, Remaps, Moving
<1>13. ASSUME CloseGate PROVE TypeOK'
  BY <1>13 DEF CloseGate, Remaps, Moving
<1>14. ASSUME FlipRoute PROVE TypeOK'
  BY <1>14 DEF FlipRoute, Remaps, Moving
<1>15. ASSUME Fail PROVE TypeOK'
  <2>1. remap' \in Remaps
    <3>1. 0 \in 0 .. Window
      OBVIOUS
    <3>2. remap' = [at |-> "idle", old |-> NoAlias, new |-> NoAlias, left |-> 0, todo |-> {}]
      BY <1>15 DEF Fail
    <3>. HIDE DEF Window, Moving
    <3>. QED BY <3>1, <3>2 DEF Remaps
  <2>2. unfinished' \in SUBSET Alias
    <3>1. remap.old \in Alias
      BY <1>15 DEF Fail, RowInv
    <3>. QED BY <1>15, <3>1 DEF Fail
  <2>. QED BY <1>15, <2>1, <2>2 DEF Fail
<1>16. ASSUME NEW gate \in Gates, Resume(gate) PROVE TypeOK'
  <2>1. remap' \in Remaps
    BY <1>16 DEF Resume, Remaps, Moving
  <2>2. traces' \in [Alias -> BOOLEAN] /\ closed' \in [Alias -> SUBSET Gates]
    BY <1>16 DEF Resume
  <2>. QED BY <1>16, <2>1, <2>2 DEF Resume
<1>17. ASSUME NEW ok \in BOOLEAN, Invalidate(ok) PROVE TypeOK'
  <2>1. remap' \in Remaps
    <3>1. Window \in 0 .. Window /\ "wait" \in Moving
      BY DEF Moving
    <3>2. remap' = [at |-> "wait", old |-> remap.old, new |-> remap.new, left |-> Window, todo |-> remap.todo]
      BY <1>17 DEF Invalidate, Remaps
    <3>. HIDE DEF Window, Moving
    <3>. QED BY <3>1, <3>2 DEF Remaps
  <2>2. cache' \in [alias : Known, left : 0 .. CacheTTL]
    BY <1>17 DEF Invalidate
  <2>. QED BY <1>17, <2>1, <2>2 DEF Invalidate
<1>18. ASSUME StartSweep PROVE TypeOK'
  BY <1>18 DEF StartSweep, Remaps, Moving
<1>19. ASSUME NEW K \in SUBSET Keys, SweepBatch(K) PROVE TypeOK'
  BY <1>19 DEF SweepBatch, Remaps, Moving
<1>20. ASSUME EndSweep PROVE TypeOK'
  <2>1. CASE remap.at = "final"
    BY <1>20, <2>1 DEF EndSweep, Ended, Remaps, Moving
  <2>2. CASE remap.at # "final"
    <3>1. Window \in 0 .. Window /\ "verify" \in Moving
      BY DEF Moving
    <3>2. remap' = [at |-> "verify", old |-> remap.old, new |-> remap.new, left |-> Window, todo |-> remap.todo]
      BY <1>20, <2>2 DEF EndSweep, Ended, Remaps
    <3>3. remap' \in Remaps
      <4>. HIDE DEF Window, Moving
      <4>. QED BY <3>1, <3>2 DEF Remaps
    <3>. QED BY <1>20, <3>3 DEF EndSweep, Ended
  <2>. QED BY <2>1, <2>2
<1>21. ASSUME Tick PROVE TypeOK'
  <2>1. cache' \in [alias : Known, left : 0 .. CacheTTL]
    BY <1>21 DEF Tick
  <2>2. memo' \in [Proc -> Memos]
    <3>1. ASSUME NEW q \in Proc PROVE [memo[q] EXCEPT !.left = Less(@)] \in Memos
      <4>1. memo[q] \in Memos
        OBVIOUS
      <4>. QED BY <4>1 DEF Memos
    <3>2. memo' = [q \in Proc |-> [memo[q] EXCEPT !.left = Less(@)]]
      BY <1>21 DEF Tick
    <3>. HIDE DEF TypeOK, Less
    <3>. QED BY <3>1, <3>2
  <2>3. proc' \in [Proc -> Calls]
    BY <1>21 DEF Tick, Calls
  <2>4. remap' \in Remaps
    BY <1>21 DEF Tick, Remaps
  <2>. QED BY <1>21, <2>1, <2>2, <2>3, <2>4 DEF Tick
<1>22. ASSUME UNCHANGED vars PROVE TypeOK'
  BY <1>22 DEF vars, shards, history
<1>. HIDE DEF TypeOK, Keys, Window, Settled
<1>. QED BY <1>1, <1>2, <1>3, <1>4, <1>5, <1>6, <1>7, <1>8, <1>9, <1>10, <1>11,
        <1>12, <1>13, <1>14, <1>15, <1>16, <1>17, <1>18, <1>19, <1>20, <1>21,
        <1>22 DEF Next, Resolve, Remap

\* Every step keeps the row and the remap in agreement.
LEMMA RowStep ==
    ASSUME BaseInv, [Next]_vars
    PROVE  RowInv'
<1>. USE RemapAssumption DEF RemapAssumption, BaseInv, TypeOK, Memos, Calls,
        Remaps, RowInv, Preparing, Resolved, Counted, Go, Free, Idle, NoRemap,
        Advance, Close, Trace, Kind, Less, shards, history, Known, Keys, Moving,
        Window, Settled
<1>1. ASSUME NEW p \in Proc, MemoHit(p) PROVE RowInv'
  BY <1>1 DEF MemoHit
<1>2. ASSUME NEW p \in Proc, CacheHit(p) PROVE RowInv'
  BY <1>2 DEF CacheHit
<1>3. ASSUME NEW p \in Proc, LoadRoutes(p) PROVE RowInv'
  BY <1>3 DEF LoadRoutes
<1>4. ASSUME NEW p \in Proc, ServeStale(p) PROVE RowInv'
  BY <1>4 DEF ServeStale
<1>5. ASSUME NEW p \in Proc, Restart(p) PROVE RowInv'
  BY <1>5 DEF Restart
<1>6. ASSUME NEW p \in Proc, NEW ok \in BOOLEAN, StoreRoutes(p, ok) PROVE RowInv'
  BY <1>6 DEF StoreRoutes
<1>7. ASSUME NEW p \in Proc, NEW ok \in BOOLEAN, AssignInvalidate(p, ok) PROVE RowInv'
  BY <1>7 DEF AssignInvalidate
<1>8. ASSUME NEW p \in Proc, NEW a \in Alias, AssignRoute(p, a) PROVE RowInv'
  BY <1>8 DEF AssignRoute
<1>9. ASSUME NEW p \in Proc, Produce(p) PROVE RowInv'
  BY <1>9 DEF Produce
<1>10. ASSUME NEW p \in Proc, NEW S \in SUBSET {"fair", "behind"}, Drain(p, S) PROVE RowInv'
  BY <1>10 DEF Drain
<1>11. ASSUME NEW a \in Alias, Begin(a) PROVE RowInv'
  BY <1>11 DEF Begin
<1>12. ASSUME PausePump PROVE RowInv'
  BY <1>12 DEF PausePump
<1>13. ASSUME CloseGate PROVE RowInv'
  BY <1>13 DEF CloseGate
<1>14. ASSUME FlipRoute PROVE RowInv'
  BY <1>14 DEF FlipRoute
<1>15. ASSUME Fail PROVE RowInv'
  BY <1>15 DEF Fail
<1>16. ASSUME NEW gate \in Gates, Resume(gate) PROVE RowInv'
  BY <1>16 DEF Resume
<1>17. ASSUME NEW ok \in BOOLEAN, Invalidate(ok) PROVE RowInv'
  BY <1>17 DEF Invalidate
<1>18. ASSUME StartSweep PROVE RowInv'
  BY <1>18 DEF StartSweep
<1>19. ASSUME NEW K \in SUBSET Keys, SweepBatch(K) PROVE RowInv'
  BY <1>19 DEF SweepBatch
<1>20. ASSUME EndSweep PROVE RowInv'
  BY <1>20 DEF EndSweep, Ended
<1>21. ASSUME Tick PROVE RowInv'
  BY <1>21 DEF Tick
<1>22. ASSUME UNCHANGED vars PROVE RowInv'
  BY <1>22 DEF vars, shards, history
<1>. HIDE DEF BaseInv, TypeOK, Memos, Calls, Remaps, RowInv, Keys, Moving,
        Window, Settled
<1>. QED BY <1>1, <1>2, <1>3, <1>4, <1>5, <1>6, <1>7, <1>8, <1>9, <1>10, <1>11,
        <1>12, <1>13, <1>14, <1>15, <1>16, <1>17, <1>18, <1>19, <1>20, <1>21,
        <1>22 DEF Next, Resolve, Remap

\* The remap has waited as long as it is due.
LEMMA TimeStep ==
    ASSUME BaseInv, [Next]_vars
    PROVE  TimeInv'
<1>. USE RemapAssumption DEF RemapAssumption, BaseInv, TypeOK, Memos, Calls,
        Remaps, TimeInv, Preparing, Resolved, Counted, Go, Free, Idle, NoRemap,
        Advance, Close, Trace, Kind, Less, shards, history, Known, Keys, Moving,
        Window, Settled
<1>1. ASSUME NEW p \in Proc, MemoHit(p) PROVE TimeInv'
  BY <1>1 DEF MemoHit
<1>2. ASSUME NEW p \in Proc, CacheHit(p) PROVE TimeInv'
  BY <1>2 DEF CacheHit
<1>3. ASSUME NEW p \in Proc, LoadRoutes(p) PROVE TimeInv'
  BY <1>3 DEF LoadRoutes
<1>4. ASSUME NEW p \in Proc, ServeStale(p) PROVE TimeInv'
  BY <1>4 DEF ServeStale
<1>5. ASSUME NEW p \in Proc, Restart(p) PROVE TimeInv'
  BY <1>5 DEF Restart
<1>6. ASSUME NEW p \in Proc, NEW ok \in BOOLEAN, StoreRoutes(p, ok) PROVE TimeInv'
  BY <1>6 DEF StoreRoutes
<1>7. ASSUME NEW p \in Proc, NEW ok \in BOOLEAN, AssignInvalidate(p, ok) PROVE TimeInv'
  BY <1>7 DEF AssignInvalidate
<1>8. ASSUME NEW p \in Proc, NEW a \in Alias, AssignRoute(p, a) PROVE TimeInv'
  BY <1>8 DEF AssignRoute
<1>9. ASSUME NEW p \in Proc, Produce(p) PROVE TimeInv'
  BY <1>9 DEF Produce
<1>10. ASSUME NEW p \in Proc, NEW S \in SUBSET {"fair", "behind"}, Drain(p, S) PROVE TimeInv'
  BY <1>10 DEF Drain
<1>11. ASSUME NEW a \in Alias, Begin(a) PROVE TimeInv'
  BY <1>11 DEF Begin
<1>12. ASSUME PausePump PROVE TimeInv'
  BY <1>12 DEF PausePump
<1>13. ASSUME CloseGate PROVE TimeInv'
  BY <1>13 DEF CloseGate
<1>14. ASSUME FlipRoute PROVE TimeInv'
  BY <1>14 DEF FlipRoute
<1>15. ASSUME Fail PROVE TimeInv'
  BY <1>15 DEF Fail
<1>16. ASSUME NEW gate \in Gates, Resume(gate) PROVE TimeInv'
  BY <1>16 DEF Resume
<1>17. ASSUME NEW ok \in BOOLEAN, Invalidate(ok) PROVE TimeInv'
  BY <1>17 DEF Invalidate
<1>18. ASSUME StartSweep PROVE TimeInv'
  <2>1. CASE remap.at = "wait"
    <3>1. remap'.at = "sweep" /\ since >= Window
      BY <1>18, <2>1 DEF StartSweep
    <3>. QED BY <1>18, <3>1 DEF StartSweep
  <2>2. CASE remap.at = "verify"
    <3>1. remap'.at = "final" /\ since' = since
      BY <1>18, <2>2 DEF StartSweep
    <3>2. since >= Settled
      BY <1>18, <2>2 DEF StartSweep
    <3>3. since = Settled
      BY <3>2
    <3>. QED BY <3>1, <3>3
  <2>. QED BY <1>18, <2>1, <2>2 DEF StartSweep
<1>19. ASSUME NEW K \in SUBSET Keys, SweepBatch(K) PROVE TimeInv'
  BY <1>19 DEF SweepBatch
<1>20. ASSUME EndSweep PROVE TimeInv'
  BY <1>20 DEF EndSweep, Ended
<1>21. ASSUME Tick PROVE TimeInv'
  BY <1>21 DEF Tick
<1>22. ASSUME UNCHANGED vars PROVE TimeInv'
  BY <1>22 DEF vars, shards, history
<1>. HIDE DEF BaseInv, TypeOK, Memos, Calls, Remaps, TimeInv, Keys, Moving,
        Window, Settled
<1>. QED BY <1>1, <1>2, <1>3, <1>4, <1>5, <1>6, <1>7, <1>8, <1>9, <1>10, <1>11,
        <1>12, <1>13, <1>14, <1>15, <1>16, <1>17, <1>18, <1>19, <1>20, <1>21,
        <1>22 DEF Next, Resolve, Remap

\* Every step keeps the gates of the old shard closed until they are swept.
LEMMA GateStep ==
    ASSUME BaseInv, [Next]_vars
    PROVE  GateInv'
<1>. USE RemapAssumption DEF RemapAssumption, BaseInv, TypeOK, Memos, Calls,
        Remaps, RowInv, Preparing, Resolved, Counted, Go, Free, Idle, NoRemap,
        Advance, Close, Trace, Kind, Less, shards, history, Known, Keys, Moving,
        Window, Settled, GateInv, Gates
<1>1. ASSUME NEW p \in Proc, MemoHit(p) PROVE GateInv'
  BY <1>1 DEF MemoHit
<1>2. ASSUME NEW p \in Proc, CacheHit(p) PROVE GateInv'
  BY <1>2 DEF CacheHit
<1>3. ASSUME NEW p \in Proc, LoadRoutes(p) PROVE GateInv'
  BY <1>3 DEF LoadRoutes
<1>4. ASSUME NEW p \in Proc, ServeStale(p) PROVE GateInv'
  BY <1>4 DEF ServeStale
<1>5. ASSUME NEW p \in Proc, Restart(p) PROVE GateInv'
  BY <1>5 DEF Restart
<1>6. ASSUME NEW p \in Proc, NEW ok \in BOOLEAN, StoreRoutes(p, ok) PROVE GateInv'
  BY <1>6 DEF StoreRoutes
<1>7. ASSUME NEW p \in Proc, NEW ok \in BOOLEAN, AssignInvalidate(p, ok) PROVE GateInv'
  BY <1>7 DEF AssignInvalidate
<1>8. ASSUME NEW p \in Proc, NEW a \in Alias, AssignRoute(p, a) PROVE GateInv'
  BY <1>8 DEF AssignRoute
<1>9. ASSUME NEW p \in Proc, Produce(p) PROVE GateInv'
  BY <1>9 DEF Produce
<1>10. ASSUME NEW p \in Proc, NEW S \in SUBSET {"fair", "behind"}, Drain(p, S) PROVE GateInv'
  BY <1>10 DEF Drain
<1>11. ASSUME NEW a \in Alias, Begin(a) PROVE GateInv'
  BY <1>11 DEF Begin
<1>12. ASSUME PausePump PROVE GateInv'
  BY <1>12 DEF PausePump
<1>13. ASSUME CloseGate PROVE GateInv'
  BY <1>13 DEF CloseGate
<1>14. ASSUME FlipRoute PROVE GateInv'
  BY <1>14 DEF FlipRoute
<1>15. ASSUME Fail PROVE GateInv'
  BY <1>15 DEF Fail
<1>16. ASSUME NEW gate \in Gates, Resume(gate) PROVE GateInv'
  BY <1>16 DEF Resume
<1>17. ASSUME NEW ok \in BOOLEAN, Invalidate(ok) PROVE GateInv'
  BY <1>17 DEF Invalidate
<1>18. ASSUME StartSweep PROVE GateInv'
  BY <1>18 DEF StartSweep
<1>19. ASSUME NEW K \in SUBSET Keys, SweepBatch(K) PROVE GateInv'
  BY <1>19 DEF SweepBatch
<1>20. ASSUME EndSweep PROVE GateInv'
  BY <1>20 DEF EndSweep, Ended
<1>21. ASSUME Tick PROVE GateInv'
  BY <1>21 DEF Tick
<1>22. ASSUME UNCHANGED vars PROVE GateInv'
  BY <1>22 DEF vars, shards, history
<1>. HIDE DEF BaseInv, TypeOK, Memos, Calls, Remaps, RowInv, GateInv, Keys,
        Moving, Window, Settled
<1>. QED BY <1>1, <1>2, <1>3, <1>4, <1>5, <1>6, <1>7, <1>8, <1>9, <1>10, <1>11,
        <1>12, <1>13, <1>14, <1>15, <1>16, <1>17, <1>18, <1>19, <1>20, <1>21,
        <1>22 DEF Next, Resolve, Remap

\* Before the first remap there is only one route.
LEMMA FirstStep ==
    ASSUME RemapInv, ~Outage, [Next]_vars
    PROVE  FirstInv'
<1>. USE RemapAssumption DEF RemapAssumption, RemapInv, BaseInv, TypeOK, Memos,
        Calls, Remaps, RowInv, Preparing, Resolved, Counted, Go, Free, Idle,
        NoRemap, Advance, Close, Trace, Kind, Less, shards, history, Known,
        Keys, Moving, Window, Settled, FirstInv
<1>1. ASSUME NEW p \in Proc, MemoHit(p) PROVE FirstInv'
  BY <1>1 DEF MemoHit
<1>2. ASSUME NEW p \in Proc, CacheHit(p) PROVE FirstInv'
  <2>1. FirstInv' \/ (moves = 0 /\ proc[p].at = "idle" /\ cache.alias # NoAlias)
    BY <1>2 DEF CacheHit
  <2>2. CASE moves = 0 /\ proc[p].at = "idle" /\ cache.alias # NoAlias
    <3>1. cache.alias = route
      BY <1>2, <2>2 DEF CacheHit, CacheInv, Outdated
    <3>2. memo'[p].alias = route /\ \A q \in Proc \ {p} : memo'[q] = memo[q]
      BY <1>2, <2>2, <3>1, Memoized DEF CacheHit
    <3>3. \A q \in Proc : memo'[q].alias \in {NoAlias, route}
      BY <2>2, <3>2
    <3>. QED BY <1>2, <2>2, <3>3 DEF CacheHit
  <2>. QED BY <2>1, <2>2
<1>3. ASSUME NEW p \in Proc, LoadRoutes(p) PROVE FirstInv'
  BY <1>3 DEF LoadRoutes
<1>4. ASSUME NEW p \in Proc, ServeStale(p) PROVE FirstInv'
  BY <1>4 DEF ServeStale
<1>5. ASSUME NEW p \in Proc, Restart(p) PROVE FirstInv'
  BY <1>5 DEF Restart
<1>6. ASSUME NEW p \in Proc, NEW ok \in BOOLEAN, StoreRoutes(p, ok) PROVE FirstInv'
  <2>1. FirstInv' \/ (moves = 0 /\ proc[p].at = "loaded" /\ proc[p].alias # NoAlias)
    BY <1>6 DEF StoreRoutes
  <2>2. CASE moves = 0 /\ proc[p].at = "loaded" /\ proc[p].alias # NoAlias
    <3>1. proc[p].alias = route
      BY <1>6, <2>2 DEF StoreRoutes, ProcInv, CallOK, Outdated
    <3>2. memo'[p].alias = route /\ \A q \in Proc \ {p} : memo'[q] = memo[q]
      BY <1>6, <2>2, <3>1, Memoized DEF StoreRoutes
    <3>3. \A q \in Proc : memo'[q].alias \in {NoAlias, route}
      BY <2>2, <3>2
    <3>. QED BY <1>6, <2>2, <3>3 DEF StoreRoutes
  <2>. QED BY <2>1, <2>2
<1>7. ASSUME NEW p \in Proc, NEW ok \in BOOLEAN, AssignInvalidate(p, ok) PROVE FirstInv'
  <2>1. FirstInv' \/ moves = 0
    BY <1>7 DEF AssignInvalidate
  <2>2. CASE moves = 0
    <3>1. proc[p].alias = route
      <4>1. proc[p].age \in 0 .. Stall /\ MemoTTL - proc[p].age + Stall > 0 /\ since = Settled
        BY <2>2
      <4>2. proc[p].alias # NoAlias /\ Outdated(proc[p].alias, MemoTTL - proc[p].age + Stall)
        BY <1>7 DEF AssignInvalidate, ProcInv, CallOK
      <4>. QED BY <4>1, <4>2 DEF Outdated
    <3>2. memo'[p].alias = route /\ \A q \in Proc \ {p} : memo'[q] = memo[q]
      BY <1>7, <2>2, <3>1, Memoized DEF AssignInvalidate
    <3>3. \A q \in Proc : memo'[q].alias \in {NoAlias, route}
      BY <2>2, <3>2
    <3>. QED BY <1>7, <2>2, <3>3 DEF AssignInvalidate
  <2>. QED BY <2>1, <2>2
<1>8. ASSUME NEW p \in Proc, NEW a \in Alias, AssignRoute(p, a) PROVE FirstInv'
  <2>1. CASE route = NoAlias
    BY <1>8, <2>1 DEF AssignRoute
  <2>2. CASE route # NoAlias
    <3>1. moves = 0 => \A q \in Proc : memo'[q].alias \in {NoAlias, route}
      BY <1>8, <2>2, Memoized DEF AssignRoute
    <3>. QED BY <1>8, <2>2, <3>1 DEF AssignRoute
  <2>. QED BY <2>1, <2>2
<1>9. ASSUME NEW p \in Proc, Produce(p) PROVE FirstInv'
  BY <1>9 DEF Produce
<1>10. ASSUME NEW p \in Proc, NEW S \in SUBSET {"fair", "behind"}, Drain(p, S) PROVE FirstInv'
  BY <1>10 DEF Drain
<1>11. ASSUME NEW a \in Alias, Begin(a) PROVE FirstInv'
  BY <1>11 DEF Begin
<1>12. ASSUME PausePump PROVE FirstInv'
  BY <1>12 DEF PausePump
<1>13. ASSUME CloseGate PROVE FirstInv'
  BY <1>13 DEF CloseGate
<1>14. ASSUME FlipRoute PROVE FirstInv'
  BY <1>14 DEF FlipRoute
<1>15. ASSUME Fail PROVE FirstInv'
  BY <1>15 DEF Fail
<1>16. ASSUME NEW gate \in Gates, Resume(gate) PROVE FirstInv'
  BY <1>16 DEF Resume
<1>17. ASSUME NEW ok \in BOOLEAN, Invalidate(ok) PROVE FirstInv'
  BY <1>17 DEF Invalidate
<1>18. ASSUME StartSweep PROVE FirstInv'
  BY <1>18 DEF StartSweep
<1>19. ASSUME NEW K \in SUBSET Keys, SweepBatch(K) PROVE FirstInv'
  BY <1>19 DEF SweepBatch
<1>20. ASSUME EndSweep PROVE FirstInv'
  BY <1>20 DEF EndSweep, Ended
<1>21. ASSUME Tick PROVE FirstInv'
  BY <1>21 DEF Tick
<1>22. ASSUME UNCHANGED vars PROVE FirstInv'
  BY <1>22 DEF vars, shards, history
<1>. HIDE DEF RemapInv, BaseInv, TypeOK, Memos, Calls, Remaps, RowInv, FirstInv,
        Keys, Moving, Window, Settled
<1>. QED BY <1>1, <1>2, <1>3, <1>4, <1>5, <1>6, <1>7, <1>8, <1>9, <1>10, <1>11,
        <1>12, <1>13, <1>14, <1>15, <1>16, <1>17, <1>18, <1>19, <1>20, <1>21,
        <1>22 DEF Next, Resolve, Remap

\* What the cache has of the old route runs out in the budget.
LEMMA CacheStep ==
    ASSUME RemapInv, ~Outage, [Next]_vars
    PROVE  CacheInv'
<1>. USE RemapAssumption DEF RemapAssumption, RemapInv, BaseInv, TypeOK, Memos,
        Calls, Remaps, RowInv, Preparing, Resolved, Counted, Go, Free, Idle,
        NoRemap, Advance, Close, Trace, Kind, Less, shards, history, Known,
        Moving, Window, Settled, Outdated, FirstInv, CacheInv, MemoInv, ProcInv,
        CallOK
<1>1. ASSUME NEW p \in Proc, MemoHit(p) PROVE CacheInv'
  BY <1>1 DEF MemoHit
<1>2. ASSUME NEW p \in Proc, CacheHit(p) PROVE CacheInv'
  BY <1>2 DEF CacheHit
<1>3. ASSUME NEW p \in Proc, LoadRoutes(p) PROVE CacheInv'
  BY <1>3 DEF LoadRoutes
<1>4. ASSUME NEW p \in Proc, ServeStale(p) PROVE CacheInv'
  BY <1>4 DEF ServeStale
<1>5. ASSUME NEW p \in Proc, Restart(p) PROVE CacheInv'
  BY <1>5 DEF Restart
<1>6. ASSUME NEW p \in Proc, NEW ok \in BOOLEAN, StoreRoutes(p, ok) PROVE CacheInv'
  BY <1>6 DEF StoreRoutes
<1>7. ASSUME NEW p \in Proc, NEW ok \in BOOLEAN, AssignInvalidate(p, ok) PROVE CacheInv'
  BY <1>7 DEF AssignInvalidate
<1>8. ASSUME NEW p \in Proc, NEW a \in Alias, AssignRoute(p, a) PROVE CacheInv'
  BY <1>8 DEF AssignRoute
<1>9. ASSUME NEW p \in Proc, Produce(p) PROVE CacheInv'
  BY <1>9 DEF Produce
<1>10. ASSUME NEW p \in Proc, NEW S \in SUBSET {"fair", "behind"}, Drain(p, S) PROVE CacheInv'
  BY <1>10 DEF Drain
<1>11. ASSUME NEW a \in Alias, Begin(a) PROVE CacheInv'
  BY <1>11 DEF Begin
<1>12. ASSUME PausePump PROVE CacheInv'
  BY <1>12 DEF PausePump
<1>13. ASSUME CloseGate PROVE CacheInv'
  BY <1>13 DEF CloseGate
<1>14. ASSUME FlipRoute PROVE CacheInv'
  BY <1>14 DEF FlipRoute
<1>15. ASSUME Fail PROVE CacheInv'
  BY <1>15 DEF Fail
<1>16. ASSUME NEW gate \in Gates, Resume(gate) PROVE CacheInv'
  BY <1>16 DEF Resume
<1>17. ASSUME NEW ok \in BOOLEAN, Invalidate(ok) PROVE CacheInv'
  BY <1>17 DEF Invalidate
<1>18. ASSUME StartSweep PROVE CacheInv'
  BY <1>18 DEF StartSweep
<1>19. ASSUME NEW K \in SUBSET Keys, SweepBatch(K) PROVE CacheInv'
  BY <1>19 DEF SweepBatch
<1>20. ASSUME EndSweep PROVE CacheInv'
  <2>1. CASE remap.at = "final"
    <3>1. since = Settled /\ UNCHANGED <<cache, route, since>>
      BY <1>20, <2>1 DEF EndSweep, Ended, TimeInv
    <3>2. cache.left > 0 => cache.alias \in {route, NoAlias}
      BY <3>1
    <3>. QED BY <3>1, <3>2
  <2>2. CASE remap.at = "sweep"
    <3>1. UNCHANGED <<cache, route, since, unfinished>> /\ remap'.old = remap.old
      BY <1>20, <2>2 DEF EndSweep, Ended
    <3>. QED BY <3>1
  <2>. QED BY <1>20, <2>1, <2>2 DEF EndSweep
<1>21. ASSUME Tick PROVE CacheInv'
  BY <1>21 DEF Tick
<1>22. ASSUME UNCHANGED vars PROVE CacheInv'
  BY <1>22 DEF vars, shards, history
<1>. HIDE DEF RemapInv, BaseInv, TypeOK, Memos, Calls, Remaps, RowInv, FirstInv,
        CacheInv, MemoInv, ProcInv, CallOK, Outdated, Moving, Window, Settled
<1>. QED BY <1>1, <1>2, <1>3, <1>4, <1>5, <1>6, <1>7, <1>8, <1>9, <1>10, <1>11,
        <1>12, <1>13, <1>14, <1>15, <1>16, <1>17, <1>18, <1>19, <1>20, <1>21,
        <1>22 DEF Next, Resolve, Remap

\* And so do the memos.
LEMMA MemoStep ==
    ASSUME RemapInv, ~Outage, [Next]_vars
    PROVE  MemoInv'
<1>. USE RemapAssumption DEF RemapAssumption, RemapInv, BaseInv, TypeOK, Memos,
        Calls, Remaps, RowInv, Preparing, Resolved, Counted, Go, Free, Idle,
        NoRemap, Advance, Close, Trace, Kind, Less, shards, history, Known,
        Moving, Window, Settled, Outdated, FirstInv, CacheInv, MemoInv, ProcInv,
        CallOK
<1>1. ASSUME NEW p \in Proc, MemoHit(p) PROVE MemoInv'
  BY <1>1 DEF MemoHit
<1>2. ASSUME NEW p \in Proc, CacheHit(p) PROVE MemoInv'
  <2>1. CASE memo' = memo
    BY <1>2, <2>1 DEF CacheHit
  <2>2. CASE memo' # memo
    <3>1. Memoize(p, cache.alias) /\ cache.alias # NoAlias /\ proc[p].at = "idle"
      BY <1>2, <2>2 DEF CacheHit
    <3>2. memo'[p].left > 0 => Outdated(memo'[p].alias, memo'[p].left + Stall)
      BY <1>2, <3>1, Memoized DEF CacheHit
    <3>3. \A q \in Proc \ {p} : memo'[q] = memo[q]
      BY <1>2, <3>1, Memoized DEF CacheHit
    <3>4. memo'[p].alias # NoAlias
      BY <1>2, <3>1, Memoized DEF CacheHit
    <3>. QED BY <1>2, <3>2, <3>3, <3>4 DEF CacheHit
  <2>. QED BY <2>1, <2>2
<1>3. ASSUME NEW p \in Proc, LoadRoutes(p) PROVE MemoInv'
  BY <1>3 DEF LoadRoutes
<1>4. ASSUME NEW p \in Proc, ServeStale(p) PROVE MemoInv'
  BY <1>4 DEF ServeStale
<1>5. ASSUME NEW p \in Proc, Restart(p) PROVE MemoInv'
  BY <1>5 DEF Restart
<1>6. ASSUME NEW p \in Proc, NEW ok \in BOOLEAN, StoreRoutes(p, ok) PROVE MemoInv'
  <2>1. CASE memo' = memo
    BY <1>6, <2>1 DEF StoreRoutes
  <2>2. CASE memo' # memo
    <3>1. Memoize(p, proc[p].alias) /\ proc[p].alias # NoAlias /\ proc[p].at = "loaded"
      BY <1>6, <2>2 DEF StoreRoutes
    <3>2. memo'[p].left > 0 => Outdated(memo'[p].alias, memo'[p].left + Stall)
      BY <1>6, <3>1, Memoized DEF StoreRoutes
    <3>3. \A q \in Proc \ {p} : memo'[q] = memo[q]
      BY <1>6, <3>1, Memoized DEF StoreRoutes
    <3>4. memo'[p].alias # NoAlias
      BY <1>6, <3>1, Memoized DEF StoreRoutes
    <3>. QED BY <1>6, <3>2, <3>3, <3>4 DEF StoreRoutes
  <2>. QED BY <2>1, <2>2
<1>7. ASSUME NEW p \in Proc, NEW ok \in BOOLEAN, AssignInvalidate(p, ok) PROVE MemoInv'
  <2>1. memo'[p].left > 0 => memo'[p].alias # NoAlias /\ Outdated(memo'[p].alias, memo'[p].left + Stall)
    BY <1>7, Memoized DEF AssignInvalidate
  <2>2. \A q \in Proc \ {p} : memo'[q] = memo[q]
    BY <1>7, Memoized DEF AssignInvalidate
  <2>. QED BY <1>7, <2>1, <2>2 DEF AssignInvalidate
<1>8. ASSUME NEW p \in Proc, NEW a \in Alias, AssignRoute(p, a) PROVE MemoInv'
  <2>1. CASE route = NoAlias
    <3>1. moves = 0 /\ since = Settled
      BY <2>1
    <3>. QED BY <1>8, <2>1, <3>1 DEF AssignRoute
  <2>2. CASE route # NoAlias
    <3>1. memo'[p].alias = route /\ \A q \in Proc \ {p} : memo'[q] = memo[q]
      BY <1>8, <2>2, Memoized DEF AssignRoute
    <3>. QED BY <1>8, <2>2, <3>1 DEF AssignRoute
  <2>. QED BY <2>1, <2>2
<1>9. ASSUME NEW p \in Proc, Produce(p) PROVE MemoInv'
  BY <1>9 DEF Produce
<1>10. ASSUME NEW p \in Proc, NEW S \in SUBSET {"fair", "behind"}, Drain(p, S) PROVE MemoInv'
  BY <1>10 DEF Drain
<1>11. ASSUME NEW a \in Alias, Begin(a) PROVE MemoInv'
  BY <1>11 DEF Begin
<1>12. ASSUME PausePump PROVE MemoInv'
  BY <1>12 DEF PausePump
<1>13. ASSUME CloseGate PROVE MemoInv'
  BY <1>13 DEF CloseGate
<1>14. ASSUME FlipRoute PROVE MemoInv'
  BY <1>14 DEF FlipRoute
<1>15. ASSUME Fail PROVE MemoInv'
  BY <1>15 DEF Fail
<1>16. ASSUME NEW gate \in Gates, Resume(gate) PROVE MemoInv'
  BY <1>16 DEF Resume
<1>17. ASSUME NEW ok \in BOOLEAN, Invalidate(ok) PROVE MemoInv'
  BY <1>17 DEF Invalidate
<1>18. ASSUME StartSweep PROVE MemoInv'
  BY <1>18 DEF StartSweep
<1>19. ASSUME NEW K \in SUBSET Keys, SweepBatch(K) PROVE MemoInv'
  BY <1>19 DEF SweepBatch
<1>20. ASSUME EndSweep PROVE MemoInv'
  <2>. TAKE q \in Proc
  <2>1. CASE remap.at = "final"
    <3>1. since = Settled /\ UNCHANGED <<memo, route, since>>
      BY <1>20, <2>1 DEF EndSweep, Ended, TimeInv
    <3>2. memo[q].left > 0 => memo[q].alias \in {route, NoAlias}
      BY <3>1
    <3>. QED BY <3>1, <3>2
  <2>2. CASE remap.at = "sweep"
    <3>1. UNCHANGED <<memo, route, since, unfinished>> /\ remap'.old = remap.old
      BY <1>20, <2>2 DEF EndSweep, Ended
    <3>. QED BY <3>1
  <2>. QED BY <1>20, <2>1, <2>2 DEF EndSweep
<1>21. ASSUME Tick PROVE MemoInv'
  BY <1>21 DEF Tick
<1>22. ASSUME UNCHANGED vars PROVE MemoInv'
  BY <1>22 DEF vars, shards, history
<1>. HIDE DEF RemapInv, BaseInv, TypeOK, Memos, Calls, Remaps, RowInv, FirstInv,
        CacheInv, MemoInv, ProcInv, CallOK, Outdated, Moving, Window, Settled
<1>. QED BY <1>1, <1>2, <1>3, <1>4, <1>5, <1>6, <1>7, <1>8, <1>9, <1>10, <1>11,
        <1>12, <1>13, <1>14, <1>15, <1>16, <1>17, <1>18, <1>19, <1>20, <1>21,
        <1>22 DEF Next, Resolve, Remap

\* And so do the calls that are under way.
LEMMA ProcStep ==
    ASSUME RemapInv, ~Outage, [Next]_vars
    PROVE  ProcInv'
<1>. USE RemapAssumption DEF RemapAssumption, RemapInv, BaseInv, TypeOK, Memos,
        Calls, Remaps, RowInv, Preparing, Resolved, Counted, Go, Free, Idle,
        NoRemap, Advance, Close, Trace, Kind, Less, shards, history, Known,
        Moving, Window, Settled, Outdated, FirstInv, CacheInv, MemoInv, ProcInv,
        CallOK
<1>1. ASSUME NEW p \in Proc, MemoHit(p) PROVE ProcInv'
  BY <1>1 DEF MemoHit
<1>2. ASSUME NEW p \in Proc, CacheHit(p) PROVE ProcInv'
  <2>1. \A q \in Proc \ {p} : CallOK(q)'
    BY <1>2 DEF CacheHit
  <2>2. CallOK(p)'
    BY <1>2 DEF CacheHit
  <2>. QED BY <2>1, <2>2
<1>3. ASSUME NEW p \in Proc, LoadRoutes(p) PROVE ProcInv'
  <2>1. \A q \in Proc \ {p} : CallOK(q)'
    BY <1>3 DEF LoadRoutes
  <2>2. CallOK(p)'
    BY <1>3 DEF LoadRoutes
  <2>. QED BY <2>1, <2>2
<1>4. ASSUME NEW p \in Proc, ServeStale(p) PROVE ProcInv'
  BY <1>4 DEF ServeStale
<1>5. ASSUME NEW p \in Proc, Restart(p) PROVE ProcInv'
  BY <1>5 DEF Restart
<1>6. ASSUME NEW p \in Proc, NEW ok \in BOOLEAN, StoreRoutes(p, ok) PROVE ProcInv'
  <2>1. \A q \in Proc \ {p} : CallOK(q)'
    BY <1>6 DEF StoreRoutes
  <2>2. CallOK(p)'
    BY <1>6 DEF StoreRoutes
  <2>. QED BY <2>1, <2>2
<1>7. ASSUME NEW p \in Proc, NEW ok \in BOOLEAN, AssignInvalidate(p, ok) PROVE ProcInv'
  <2>1. \A q \in Proc \ {p} : CallOK(q)'
    BY <1>7 DEF AssignInvalidate
  <2>2. CallOK(p)'
    <3>1. /\ proc[p].at = "created"
          /\ proc'[p] = [at |-> "use", alias |-> proc[p].alias, age |-> proc[p].age]
          /\ UNCHANGED <<route, remap, since, unfinished>>
      BY <1>7 DEF AssignInvalidate
    <3>2. proc[p].alias # NoAlias /\ Outdated(proc[p].alias, MemoTTL - proc[p].age + Stall)
      BY <3>1
    <3>3. Outdated(proc[p].alias, Stall - proc[p].age + 1)
      BY <3>2
    <3>. QED BY <3>1, <3>2, <3>3
  <2>. QED BY <2>1, <2>2
<1>8. ASSUME NEW p \in Proc, NEW a \in Alias, AssignRoute(p, a) PROVE ProcInv'
  BY <1>8 DEF AssignRoute
<1>9. ASSUME NEW p \in Proc, Produce(p) PROVE ProcInv'
  BY <1>9 DEF Produce
<1>10. ASSUME NEW p \in Proc, NEW S \in SUBSET {"fair", "behind"}, Drain(p, S) PROVE ProcInv'
  BY <1>10 DEF Drain
<1>11. ASSUME NEW a \in Alias, Begin(a) PROVE ProcInv'
  BY <1>11 DEF Begin
<1>12. ASSUME PausePump PROVE ProcInv'
  BY <1>12 DEF PausePump
<1>13. ASSUME CloseGate PROVE ProcInv'
  BY <1>13 DEF CloseGate
<1>14. ASSUME FlipRoute PROVE ProcInv'
  <2>. TAKE q \in Proc
  <2>1. route = remap.old
    BY <1>14 DEF FlipRoute
  <2>2. remap'.old = remap.old /\ since' = 0 /\ UNCHANGED <<proc, unfinished>>
    BY <1>14 DEF FlipRoute
  <2>3. proc[q].age \in 0 .. Stall /\ Stall \in Nat
    OBVIOUS
  <2>4. proc[q].at \in {"loaded", "counting", "created", "use"} =>
            proc[q].alias \in {NoAlias, remap.old} \cup unfinished
    BY <2>1, <2>3
  <2>5. /\ Stall - proc[q].age + CacheTTL + MemoTTL + Stall =< Settled
        /\ MemoTTL - proc[q].age + Stall =< Settled
        /\ Stall - proc[q].age + 1 =< Settled
    BY <2>3
  <2>6. proc[q].at \in {"created", "use"} => proc[q].alias # NoAlias
    OBVIOUS
  <2>. HIDE DEF Settled
  <2>. QED BY <2>2, <2>4, <2>5, <2>6
<1>15. ASSUME Fail PROVE ProcInv'
  BY <1>15 DEF Fail
<1>16. ASSUME NEW gate \in Gates, Resume(gate) PROVE ProcInv'
  BY <1>16 DEF Resume
<1>17. ASSUME NEW ok \in BOOLEAN, Invalidate(ok) PROVE ProcInv'
  BY <1>17 DEF Invalidate
<1>18. ASSUME StartSweep PROVE ProcInv'
  BY <1>18 DEF StartSweep
<1>19. ASSUME NEW K \in SUBSET Keys, SweepBatch(K) PROVE ProcInv'
  BY <1>19 DEF SweepBatch
<1>20. ASSUME EndSweep PROVE ProcInv'
  <2>. TAKE q \in Proc
  <2>1. CASE remap.at = "final"
    <3>1. since = Settled /\ UNCHANGED <<proc, route, since>>
      BY <1>20, <2>1 DEF EndSweep, Ended, TimeInv
    <3>2. proc[q].age \in 0 .. Stall
      OBVIOUS
    <3>3. proc[q].at \in {"loaded", "counting", "created", "use"} => proc[q].alias \in {NoAlias, route}
      BY <3>1, <3>2
    <3>. QED BY <3>1, <3>2, <3>3
  <2>2. CASE remap.at = "sweep"
    <3>1. UNCHANGED <<proc, route, since, unfinished>> /\ remap'.old = remap.old
      BY <1>20, <2>2 DEF EndSweep, Ended
    <3>. QED BY <3>1
  <2>. QED BY <1>20, <2>1, <2>2 DEF EndSweep, Ended
<1>21. ASSUME Tick PROVE ProcInv'
  BY <1>21 DEF Tick
<1>22. ASSUME UNCHANGED vars PROVE ProcInv'
  BY <1>22 DEF vars, shards, history
<1>. HIDE DEF RemapInv, BaseInv, TypeOK, Memos, Calls, Remaps, RowInv, FirstInv,
        CacheInv, MemoInv, ProcInv, CallOK, Outdated, Moving, Window, Settled
<1>. QED BY <1>1, <1>2, <1>3, <1>4, <1>5, <1>6, <1>7, <1>8, <1>9, <1>10, <1>11,
        <1>12, <1>13, <1>14, <1>15, <1>16, <1>17, <1>18, <1>19, <1>20, <1>21,
        <1>22 DEF Next, Resolve, Remap

\* Nothing is written to other shards than the old and the new one.
LEMMA ShardStep ==
    ASSUME RemapInv, ~Outage, [Next]_vars
    PROVE  ShardInv'
<1>. USE RemapAssumption DEF RemapAssumption, RemapInv, BaseInv, TypeOK, Memos,
        Calls, Remaps, RowInv, Preparing, Resolved, Counted, Go, Free, Idle,
        NoRemap, Advance, Close, Trace, Kind, Less, shards, history, Known,
        Keys, Moving, Window, Settled, Outdated, ProcInv, CallOK, ShardInv,
        GateInv
<1>1. ASSUME NEW p \in Proc, MemoHit(p) PROVE ShardInv'
  BY <1>1 DEF MemoHit
<1>2. ASSUME NEW p \in Proc, CacheHit(p) PROVE ShardInv'
  BY <1>2 DEF CacheHit
<1>3. ASSUME NEW p \in Proc, LoadRoutes(p) PROVE ShardInv'
  BY <1>3 DEF LoadRoutes
<1>4. ASSUME NEW p \in Proc, ServeStale(p) PROVE ShardInv'
  BY <1>4 DEF ServeStale
<1>5. ASSUME NEW p \in Proc, Restart(p) PROVE ShardInv'
  BY <1>5 DEF Restart
<1>6. ASSUME NEW p \in Proc, NEW ok \in BOOLEAN, StoreRoutes(p, ok) PROVE ShardInv'
  BY <1>6 DEF StoreRoutes
<1>7. ASSUME NEW p \in Proc, NEW ok \in BOOLEAN, AssignInvalidate(p, ok) PROVE ShardInv'
  BY <1>7 DEF AssignInvalidate
<1>8. ASSUME NEW p \in Proc, NEW a \in Alias, AssignRoute(p, a) PROVE ShardInv'
  BY <1>8 DEF AssignRoute
<1>9. ASSUME NEW p \in Proc, Produce(p) PROVE ShardInv'
  <2>. DEFINE b == proc[p].alias
  <2>1. b \in Alias /\ Outdated(b, Stall - proc[p].age + 1) /\ proc[p].age \in 0 .. Stall
    BY <1>9 DEF Produce
  <2>2. b \in {route, remap.old} \cup unfinished /\ (since = Settled => b = route)
    BY <2>1
  <2>3. remap.at = "final" => b # remap.old
    BY <2>2 DEF TimeInv
  <2>4. Kind(b) = "behind" => "producer" \in closed[b]
    <3>1. CASE remap.at \in {"flip", "invalidate", "wait"}
      BY <3>1
    <3>2. CASE remap.at \in {"sweep", "verify", "final"}
      <4>1. since = Settled => b # remap.old
        BY <2>2, <3>2
      <4>. QED BY <3>2, <4>1
    <3>3. CASE remap.at \in {"idle", "pause", "close"}
      BY <3>3
    <3>. QED BY <3>1, <3>2, <3>3
  <2>5. /\ \A a \in Alias \ {b} : jobs'[a] = jobs[a] /\ traces'[a] = traces[a]
        /\ jobs'[b] \subseteq jobs[b] \cup {Kind(b)}
        /\ "producer" \in closed[b] => jobs'[b] = jobs[b]
        /\ UNCHANGED <<route, remap, unfinished>>
    <3>. DEFINE kind == Kind(b)
    <3>1. /\ jobs' = IF "producer" \in closed[b] THEN jobs ELSE [jobs EXCEPT ![b] = @ \cup {kind}]
          /\ traces' = [traces EXCEPT ![b] = TRUE]
          /\ UNCHANGED <<route, remap, unfinished>>
      BY <1>9 DEF Produce
    <3>. HIDE DEF kind
    <3>2. /\ \A a \in Alias \ {b} : jobs'[a] = jobs[a]
          /\ jobs'[b] \subseteq jobs[b] \cup {kind}
          /\ "producer" \in closed[b] => jobs'[b] = jobs[b]
      BY <2>1, <3>1
    <3>3. \A a \in Alias \ {b} : traces'[a] = traces[a]
      BY <2>1, <3>1
    <3>. QED BY <3>1, <3>2, <3>3 DEF kind
  <2>. HIDE DEF b, Kind
  <2>. QED BY <2>1, <2>2, <2>3, <2>4, <2>5
<1>10. ASSUME NEW p \in Proc, NEW S \in SUBSET {"fair", "behind"}, Drain(p, S) PROVE ShardInv'
  <2>. DEFINE b == proc[p].alias
  <2>1. b \in Alias /\ Outdated(b, Stall - proc[p].age + 1) /\ proc[p].age \in 0 .. Stall
    BY <1>10 DEF Drain
  <2>2. b \in {route, remap.old} \cup unfinished /\ (since = Settled => b = route)
    BY <2>1
  <2>3. remap.at = "final" => b # remap.old
    BY <2>2 DEF TimeInv
  <2>4. /\ \A a \in Alias \ {b} : jobs'[a] = jobs[a] /\ traces'[a] = traces[a]
        /\ jobs'[b] \subseteq jobs[b]
        /\ UNCHANGED <<route, remap, unfinished>>
    BY <1>10, <2>1 DEF Drain
  <2>. HIDE DEF b
  <2>. QED BY <2>1, <2>2, <2>3, <2>4
<1>11. ASSUME NEW a \in Alias, Begin(a) PROVE ShardInv'
  BY <1>11 DEF Begin
<1>12. ASSUME PausePump PROVE ShardInv'
  BY <1>12 DEF PausePump
<1>13. ASSUME CloseGate PROVE ShardInv'
  BY <1>13 DEF CloseGate
<1>14. ASSUME FlipRoute PROVE ShardInv'
  BY <1>14 DEF FlipRoute
<1>15. ASSUME Fail PROVE ShardInv'
  BY <1>15 DEF Fail
<1>16. ASSUME NEW gate \in Gates, Resume(gate) PROVE ShardInv'
  BY <1>16 DEF Resume
<1>17. ASSUME NEW ok \in BOOLEAN, Invalidate(ok) PROVE ShardInv'
  BY <1>17 DEF Invalidate
<1>18. ASSUME StartSweep PROVE ShardInv'
  BY <1>18 DEF StartSweep
<1>19. ASSUME NEW K \in SUBSET Keys, SweepBatch(K) PROVE ShardInv'
  BY <1>19 DEF SweepBatch
<1>20. ASSUME EndSweep PROVE ShardInv'
  BY <1>20 DEF EndSweep, Ended
<1>21. ASSUME Tick PROVE ShardInv'
  BY <1>21 DEF Tick
<1>22. ASSUME UNCHANGED vars PROVE ShardInv'
  BY <1>22 DEF vars, shards, history
<1>. HIDE DEF RemapInv, BaseInv, TypeOK, Memos, Calls, Remaps, RowInv, GateInv,
        ProcInv, CallOK, ShardInv, Outdated, Keys, Moving, Window, Settled
<1>. QED BY <1>1, <1>2, <1>3, <1>4, <1>5, <1>6, <1>7, <1>8, <1>9, <1>10, <1>11,
        <1>12, <1>13, <1>14, <1>15, <1>16, <1>17, <1>18, <1>19, <1>20, <1>21,
        <1>22 DEF Next, Resolve, Remap

-----------------------------------------------------------------------------

\* RemapInv holds when nothing has been assigned yet.
LEMMA InitInv == Init => RemapInv
<1>. USE RemapAssumption DEF RemapAssumption, Init
<1>1. ASSUME Init PROVE TypeOK
  <2>. DEFINE mine == [alias |-> NoAlias, left |-> 0]
  <2>1. mine \in Memos /\ mine \in [alias : Known, left : 0 .. CacheTTL]
    BY DEF Memos, Known
  <2>2. Idle \in Calls /\ NoRemap \in Remaps
    BY DEF Idle, Calls, NoRemap, Remaps, Known, Window
  <2>. USE <1>1
  <2>3. memo \in [Proc -> Memos] /\ proc \in [Proc -> Calls] /\ remap \in Remaps
    BY <2>1, <2>2
  <2>4. jobs \in [Alias -> SUBSET {"fair", "behind"}] /\ closed \in [Alias -> SUBSET Gates]
    OBVIOUS
  <2>5. route \in Known /\ cache \in [alias : Known, left : 0 .. CacheTTL]
    BY <2>1 DEF Known
  <2>6. traces \in [Alias -> BOOLEAN]
    BY <1>1, Zenon
  <2>7. moves \in 0 .. MaxMoves /\ since \in 0 .. Settled /\ unfinished \in SUBSET Alias
    BY DEF Settled, Window
  <2>. QED BY <2>3, <2>4, <2>5, <2>6, <2>7 DEF TypeOK
<1>2. Init => RowInv /\ TimeInv /\ GateInv /\ FirstInv /\ CacheInv /\ ShardInv
  BY DEF RowInv, TimeInv, GateInv, FirstInv, CacheInv, ShardInv, NoRemap, Preparing, Moving
<1>3. Init => MemoInv /\ ProcInv
  BY DEF MemoInv, ProcInv, CallOK, Idle
<1>. QED BY <1>1, <1>2, <1>3 DEF RemapInv, BaseInv

\* The part of the invariant that rests on the gates only, whatever fails.
THEOREM Base == Spec => []BaseInv
<1>1. Init => BaseInv
  BY InitInv DEF RemapInv
<1>2. BaseInv /\ [Next]_vars => BaseInv'
  <2>1. TypeOK /\ RowInv /\ [Next]_vars => TypeOK'
    BY TypeStep
  <2>2. BaseInv /\ [Next]_vars => RowInv' /\ TimeInv' /\ GateInv'
    BY RowStep, TimeStep, GateStep
  <2>. QED BY <2>1, <2>2 DEF BaseInv
<1>. QED BY <1>1, <1>2, PTL DEF Spec

\* All old copies run out before the remap stops waiting, unless cache and
\* database fail together.
THEOREM Inductive == ASSUME ~Outage PROVE Spec => []RemapInv
<1>1. Init => RemapInv
  BY InitInv
<1>2. RemapInv /\ BaseInv' /\ [Next]_vars => RemapInv'
  <2>1. ASSUME RemapInv, ~Outage, [Next]_vars PROVE FirstInv' /\ CacheInv' /\ MemoInv' /\ ProcInv' /\ ShardInv'
    BY <2>1, FirstStep, CacheStep, MemoStep, ProcStep, ShardStep
  <2>. QED BY <2>1 DEF RemapInv
<1>. QED BY <1>1, <1>2, Base, PTL DEF Spec

\* Every variable keeps its type.
THEOREM Typing == Spec => []TypeOK
<1>1. BaseInv => TypeOK
  BY DEF BaseInv
<1>. QED BY <1>1, Base, PTL

\* Whatever fails, the gates where the row points are open once no remap is under
\* way, but where one has failed and none been finished since.  (remap_namespace)
THEOREM Reopened == Spec => []OpenAtRest
<1>1. BaseInv => OpenAtRest
  BY RemapAssumption DEF BaseInv, TypeOK, RowInv, GateInv, OpenAtRest, Known, RemapAssumption
<1>. QED BY <1>1, Base, PTL

\* Unless cache and database fail together, no remap takes a job in behind the
\* gate it has closed, from the time on when copies of the route have run out
\* not even after it has swept the gate away.  (remap_namespace)
THEOREM Unbetrayed == ASSUME ~Outage PROVE Spec => []NothingBetrayed
<1>1. RemapInv => NothingBetrayed
  BY DEF RemapInv, ShardInv, NothingBetrayed
<1>. QED BY <1>1, Inductive, PTL

\* And from then on all calls go where the row points.  (conn_for_namespace)
THEOREM Convergence == ASSUME ~Outage PROVE Spec => []Converged
<1>1. RemapInv => Converged
  <2>. SUFFICES ASSUME RemapInv, since = Settled, NEW p \in Proc
                PROVE  /\ proc[p].at = "use" => proc[p].alias = route
                       /\ memo[p].left > 0 => memo[p].alias = route
    BY DEF Converged
  <2>1. proc[p].age \in 0 .. Stall /\ memo[p].left \in Nat /\ Stall \in Nat /\ Settled \in Nat
    BY RemapAssumption DEF RemapAssumption, RemapInv, BaseInv, TypeOK, Calls, Memos, Settled, Window
  <2>. QED BY <2>1 DEF RemapInv, MemoInv, ProcInv, CallOK, Outdated
<1>. QED BY <1>1, Inductive, PTL

\* And a finished move has left nothing on the shards the row does not point to.
\* (sweep_namespace)
THEOREM Swept == ASSUME ~Outage PROVE Spec => []NothingLeft
<1>1. RemapInv => NothingLeft
  BY RemapAssumption
     DEF RemapAssumption, RemapInv, BaseInv, TypeOK, RowInv, GateInv, ShardInv, NothingLeft, Remaps,
         Preparing
<1>. QED BY <1>1, Inductive, PTL
=============================================================================
