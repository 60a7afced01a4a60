------------------------ MODULE DispatchPump_proofs ------------------------
(***************************************************************************)
(* The dispatch queue with any number of pumps, workers and jobs: types,   *)
(* limits and counts, the admission control it implements, and what it     *)
(* keeps of a job that is not disturbed.                                   *)
(***************************************************************************)
EXTENDS DispatchPump, FiniteSetTheorems, TLAPS

\* Every script of the queue, and every expiry, keeps the types, the limits and
\* the counts per task.
QueueInv == QueueTypeOK /\ SlotsBounded /\ CountsOneSided

\* A half of the hash and the ZSET it counts, after what has set them at odds.
Counts(count, S, drift) ==
    /\ count \in [Task -> Nat]
    /\ "expired" \notin drift => AtLeast(count, S)
    /\ "unresolved" \notin drift => AtMost(count, S)

-----------------------------------------------------------------------------
(* Counting the jobs of a task                                             *)

\* A set of jobs, and the part of it that belongs to a task, is finite.
LEMMA JobsFinite ==
    ASSUME NEW S \in SUBSET Job, NEW t
    PROVE  /\ IsFiniteSet(S) /\ Cardinality(S) \in Nat
           /\ Of(S, t) \in SUBSET S
           /\ IsFiniteSet(Of(S, t)) /\ Cardinality(Of(S, t)) \in Nat
<1>1. IsFiniteSet(S)
  BY FS_Subset, QueueAssumption
<1>2. Of(S, t) \in SUBSET S
  BY DEF Of
<1>3. IsFiniteSet(Of(S, t))
  BY <1>1, <1>2, FS_Subset
<1> QED BY <1>1, <1>2, <1>3, FS_CardinalityType

\* HINCRBY keeps a field on its side of the number of members when members
\* are added.
LEMMA RaisedCounts ==
    ASSUME NEW S \in SUBSET Job, NEW A \in SUBSET Job, S \cap A = {},
           NEW count, NEW drift, Counts(count, S, drift)
    PROVE  Counts(Raised(count, A), S \cup A, drift)
<1> SUFFICES ASSUME NEW t \in Task
             PROVE  /\ count[t] + Cardinality(Of(A, t)) \in Nat
                    /\ count[t] >= Cardinality(Of(S, t))
                         => count[t] + Cardinality(Of(A, t)) >= Cardinality(Of(S \cup A, t))
                    /\ count[t] =< Cardinality(Of(S, t))
                         => count[t] + Cardinality(Of(A, t)) =< Cardinality(Of(S \cup A, t))
  BY JobsFinite DEF Raised, Counts, AtLeast, AtMost
<1>1. /\ IsFiniteSet(Of(S, t)) /\ IsFiniteSet(Of(A, t))
      /\ Cardinality(Of(S, t)) \in Nat /\ Cardinality(Of(A, t)) \in Nat
  BY JobsFinite
<1>2. Of(S \cup A, t) = Of(S, t) \cup Of(A, t) /\ Of(S, t) \cap Of(A, t) = {}
  BY DEF Of
<1>3. Cardinality(Of(S, t) \cup Of(A, t))
        = Cardinality(Of(S, t)) + Cardinality(Of(A, t)) - Cardinality(Of(S, t) \cap Of(A, t))
  BY <1>1, FS_Union
<1>4. Cardinality(Of(S, t) \cap Of(A, t)) = 0
  BY <1>2, FS_EmptySet
<1>5. Cardinality(Of(S \cup A, t)) = Cardinality(Of(S, t)) + Cardinality(Of(A, t)) - 0
  BY <1>2, <1>3, <1>4
<1>6. count[t] \in Nat
  BY DEF Counts
<1> QED BY <1>1, <1>5, <1>6

\* The same when members are taken away: where the clamp at zero bites, the
\* field was too low before.
LEMMA LoweredCounts ==
    ASSUME NEW S \in SUBSET Job, NEW A \in SUBSET S,
           NEW count, NEW drift, Counts(count, S, drift)
    PROVE  Counts(Lowered(count, A), S \ A, drift)
<1> DEFINE n(t) == Cardinality(Of(S, t))
           k(t) == Cardinality(Of(A, t))
<1>1. ASSUME NEW t \in Task
      PROVE  /\ n(t) \in Nat /\ k(t) \in Nat /\ k(t) =< n(t)
             /\ Cardinality(Of(S \ A, t)) = n(t) - k(t)
  <2>1. /\ IsFiniteSet(Of(S, t)) /\ IsFiniteSet(Of(A, t))
        /\ n(t) \in Nat /\ k(t) \in Nat
    BY JobsFinite
  <2>2. Of(S \ A, t) = Of(S, t) \ Of(A, t) /\ Of(S, t) \cap Of(A, t) = Of(A, t)
    BY DEF Of
  <2>3. Cardinality(Of(S, t) \ Of(A, t))
          = Cardinality(Of(S, t)) - Cardinality(Of(S, t) \cap Of(A, t))
    BY <2>1, FS_Difference
  <2>4. Of(A, t) \in SUBSET Of(S, t)
    BY DEF Of
  <2>5. k(t) =< n(t)
    BY <2>1, <2>4, FS_Subset
  <2> QED BY <2>1, <2>2, <2>3, <2>5
<1>2. \A t \in Task : count[t] \in Nat
  BY DEF Counts
<1>3. \A t \in Task : Lowered(count, A)[t] = IF count[t] > k(t) THEN count[t] - k(t) ELSE 0
  BY DEF Lowered
<1>4. \A t \in Task : Lowered(count, A)[t] \in Nat
  <2> HIDE DEF k
  <2> QED BY <1>1, <1>2, <1>3
<1>5. Lowered(count, A) \in [Task -> Nat]
  BY <1>4 DEF Lowered
<1>6. ASSUME AtLeast(count, S) PROVE AtLeast(Lowered(count, A), S \ A)
  <2>1. \A t \in Task : n(t) =< count[t]
    BY <1>6 DEF AtLeast
  <2>2. \A t \in Task : Cardinality(Of(S \ A, t)) =< Lowered(count, A)[t]
    <3> HIDE DEF n, k
    <3> QED BY <1>1, <1>2, <1>3, <2>1
  <2> QED BY <2>2 DEF AtLeast
<1>7. ASSUME AtMost(count, S) PROVE AtMost(Lowered(count, A), S \ A)
  <2>1. \A t \in Task : count[t] =< n(t)
    BY <1>7 DEF AtMost
  <2>2. ASSUME NEW t \in Task
        PROVE  Lowered(count, A)[t] =< Cardinality(Of(S \ A, t))
    <3>1. /\ count[t] \in Nat /\ count[t] =< n(t)
          /\ n(t) \in Nat /\ k(t) \in Nat /\ k(t) =< n(t)
          /\ Cardinality(Of(S \ A, t)) = n(t) - k(t)
          /\ Lowered(count, A)[t] = IF count[t] > k(t) THEN count[t] - k(t) ELSE 0
      BY <1>1, <1>2, <1>3, <2>1
    <3> HIDE DEF n, k
    <3>2. CASE count[t] > k(t)
      BY <3>1, <3>2
    <3>3. CASE ~(count[t] > k(t))
      BY <3>1, <3>3
    <3> QED BY <3>2, <3>3
  <2> QED BY <2>2 DEF AtMost
<1> HIDE DEF n, k
<1> QED BY <1>5, <1>6, <1>7 DEF Counts

\* Members that leave behind the back of the hash: it counts no less.
LEMMA ForgottenCounts ==
    ASSUME NEW S \in SUBSET Job, NEW A \in SUBSET S,
           NEW count, NEW drift, Counts(count, S, drift)
    PROVE  /\ Counts(count, S \ A, drift \cup {"unresolved"})
           /\ A = {} => Counts(count, S \ A, drift)
<1>1. A = {} => S \ A = S
  OBVIOUS
<1>2. ASSUME NEW t \in Task
      PROVE  /\ Cardinality(Of(S \ A, t)) =< Cardinality(Of(S, t))
             /\ Cardinality(Of(S \ A, t)) \in Nat /\ Cardinality(Of(S, t)) \in Nat
  <2>1. IsFiniteSet(Of(S, t)) /\ Cardinality(Of(S, t)) \in Nat
    BY JobsFinite
  <2>2. Of(S \ A, t) \in SUBSET Of(S, t)
    BY DEF Of
  <2>3. Cardinality(Of(S \ A, t)) \in Nat
    BY JobsFinite
  <2> QED BY <2>1, <2>2, <2>3, FS_Subset
<1>3. AtLeast(count, S) => AtLeast(count, S \ A)
  <2>1. \A t \in Task : count[t] \in Nat
    BY DEF Counts
  <2> QED BY <1>2, <2>1 DEF AtLeast
<1> QED BY <1>1, <1>3 DEF Counts

-----------------------------------------------------------------------------
(* The scripts                                                             *)

\* What a step has to show of the two ZSETs and the two counts.
LEMMA QueueInvFrom ==
    ASSUME QueueTypeOK', SlotsBounded',
           Counts(waiting', pending', drifted'),
           Counts(holding', reserved', drifted')
    PROVE  QueueInv'
BY DEF QueueInv, CountsOneSided, Counts

\* An admission keeps the invariant of the queue.
LEMMA EnqueueKeeps ==
    ASSUME QueueInv, NEW j \in Job, NEW later \in BOOLEAN, Enqueue(j, later)
    PROVE  QueueInv'
<1> USE DEF QueueInv
<1>1. pending \in SUBSET Job /\ reserved \in SUBSET Job
  BY DEF QueueTypeOK
<1>2. /\ Cardinality(pending) \in Nat /\ Cardinality(reserved) \in Nat
      /\ IsFiniteSet(pending) /\ IsFiniteSet(reserved)
  BY <1>1, JobsFinite
<1>3. Cardinality(pending') = Cardinality(pending) + 1
  BY <1>2, FS_AddElement DEF Enqueue
<1>4. Counts(waiting', pending', drifted')
  <2>1. pending \cap {j} = {} /\ waiting \in [Task -> Nat] /\ {j} \in SUBSET Job
    BY DEF Enqueue, QueueTypeOK
  <2>2. Counts(waiting, pending, drifted)
    BY DEF Counts, CountsOneSided, QueueTypeOK
  <2>3. waiting' = Raised(waiting, {j}) /\ pending' = pending \cup {j} /\ drifted' = drifted
    BY DEF Enqueue
  <2> QED BY <1>1, <2>1, <2>2, <2>3, RaisedCounts
<1>5. Counts(holding', reserved', drifted')
  BY DEF Counts, CountsOneSided, QueueTypeOK, Enqueue
<1>6. QueueTypeOK'
  <2>1. payload' \in [Job -> {"none", "live", "late"}] /\ attempt' \in [Job -> Attempt]
    BY QueueAssumption DEF QueueTypeOK, Enqueue, Attempt
  <2>2. dedupe' \in [Job -> {"none", "paired", "own"}]
    BY DEF QueueTypeOK, Enqueue
  <2>3. pending' \in SUBSET Job /\ delayed' \in SUBSET pending' /\ UNCHANGED <<reserved, holding, drifted>>
    BY DEF QueueTypeOK, Enqueue
  <2> QED BY <1>4, <2>1, <2>2, <2>3 DEF Counts, QueueTypeOK
<1>7. SlotsBounded'
  BY <1>2, <1>3, QueueAssumption DEF SlotsBounded, Enqueue
<1> QED BY <1>4, <1>5, <1>6, <1>7, QueueInvFrom

\* A reservation moves jobs within both limits.
LEMMA ReserveKeeps ==
    ASSUME QueueInv, NEW S \in SUBSET Job, NEW chunk, NEW copy \in [Job -> Attempt],
           Reserve(S, chunk, copy)
    PROVE  QueueInv'
<1> USE DEF QueueInv
<1>1. /\ pending \in SUBSET Job /\ reserved \in SUBSET Job
      /\ S \in SUBSET pending /\ S \cap reserved = {}
  BY DEF QueueTypeOK, Reserve, SlotsBounded
<1>2. /\ Cardinality(pending) \in Nat /\ Cardinality(reserved) \in Nat /\ Cardinality(S) \in Nat
      /\ IsFiniteSet(pending) /\ IsFiniteSet(reserved) /\ IsFiniteSet(S)
  BY <1>1, JobsFinite
<1>3. Cardinality(pending') = Cardinality(pending) - Cardinality(S)
  <2>1. pending \cap S = S
    BY <1>1
  <2> QED BY <1>2, <2>1, FS_Difference DEF Reserve
<1>4. Cardinality(reserved') = Cardinality(reserved) + Cardinality(S)
  <2>1. Cardinality(reserved \cup S) = Cardinality(reserved) + Cardinality(S) - Cardinality(reserved \cap S)
    BY <1>2, FS_Union
  <2>2. Cardinality(reserved \cap S) = 0
    BY <1>1, FS_EmptySet
  <2> QED BY <1>2, <2>1, <2>2 DEF Reserve
<1>5. Counts(waiting', pending', drifted')
  <2>1. /\ waiting \in [Task -> Nat]
        /\ Counts(waiting, pending, drifted)
    BY DEF Counts, CountsOneSided, QueueTypeOK
  <2>2. waiting' = Lowered(waiting, S) /\ pending' = pending \ S /\ drifted' = drifted
    BY DEF Reserve
  <2> QED BY <1>1, <2>1, <2>2, LoweredCounts
<1>6. Counts(holding', reserved', drifted')
  <2>1. /\ holding \in [Task -> Nat]
        /\ Counts(holding, reserved, drifted)
    BY DEF Counts, CountsOneSided, QueueTypeOK
  <2>2. holding' = Raised(holding, S) /\ reserved' = reserved \cup S /\ drifted' = drifted
    BY DEF Reserve
  <2>3. reserved \cap S = {}
    BY <1>1
  <2> QED BY <1>1, <2>1, <2>2, <2>3, RaisedCounts
<1>7. QueueTypeOK'
  <2>1. payload' \in [Job -> {"none", "live", "late"}]
    BY DEF QueueTypeOK, Reserve
  <2>2. attempt' \in [Job -> Attempt]
    BY DEF QueueTypeOK, Reserve
  <2>3. dedupe' \in [Job -> {"none", "paired", "own"}]
    BY DEF QueueTypeOK, Reserve
  <2>4. pending' \in SUBSET Job /\ delayed' \in SUBSET pending' /\ reserved' \in SUBSET Job
        /\ UNCHANGED drifted
    BY DEF QueueTypeOK, Reserve
  <2> QED BY <1>5, <1>6, <2>1, <2>2, <2>3, <2>4 DEF Counts, QueueTypeOK
<1>8. SlotsBounded'
  <2>1. pending' \cap reserved' = {}
    BY DEF SlotsBounded, Reserve
  <2>2. Cardinality(reserved') =< MaxReserved
    BY <1>4 DEF Reserve
  <2>3. Cardinality(pending') + Cardinality(reserved') =< MaxAdmitted
    BY <1>2, <1>3, <1>4, QueueAssumption DEF SlotsBounded
  <2> QED BY <2>1, <2>2, <2>3 DEF SlotsBounded
<1> QED BY <1>5, <1>6, <1>7, <1>8, QueueInvFrom

\* Removing a job from a ZSET, or not finding it there.
LEMMA RemovedCounts ==
    ASSUME NEW S \in SUBSET Job, NEW j,
           NEW count, NEW drift, Counts(count, S, drift)
    PROVE  /\ Counts(Lowered(count, {j} \cap S), S \ {j}, drift)
           /\ Cardinality(S \ {j}) = IF j \in S THEN Cardinality(S) - 1 ELSE Cardinality(S)
           /\ Cardinality(S) \in Nat
           /\ j \in S => Cardinality(S) > 0
<1>1. S \ ({j} \cap S) = S \ {j} /\ {j} \cap S \in SUBSET S
  OBVIOUS
<1>2. IsFiniteSet(S) /\ Cardinality(S) \in Nat
  BY JobsFinite
<1>3. j \in S => Cardinality(S) > 0
  BY <1>2, FS_EmptySet
<1>4. Cardinality(S \ {j}) = IF j \in S THEN Cardinality(S) - 1 ELSE Cardinality(S)
  BY <1>2, FS_RemoveElement
<1>5. Counts(Lowered(count, {j} \cap S), S \ ({j} \cap S), drift)
  BY <1>1, LoweredCounts
<1> QED BY <1>1, <1>2, <1>3, <1>4, <1>5

\* A requeue moves a job that holds a slot back, and adds none.
LEMMA RequeueKeeps ==
    ASSUME QueueInv, NEW j \in Job, NEW n \in Attempt, NEW later \in BOOLEAN, Requeue(j, n, later)
    PROVE  QueueInv'
<1> USE DEF QueueInv
<1>1. /\ pending \in SUBSET Job /\ reserved \in SUBSET Job /\ {j} \in SUBSET Job
      /\ pending \cap {j} = {} /\ {j} \cap reserved = {j} /\ j \in reserved /\ j \notin pending
      /\ waiting \in [Task -> Nat] /\ holding \in [Task -> Nat]
  BY DEF QueueTypeOK, Requeue, SlotsBounded
<1>2. /\ Counts(waiting, pending, drifted)
      /\ Counts(holding, reserved, drifted)
  BY DEF Counts, CountsOneSided, QueueTypeOK
<1>3. /\ waiting' = Raised(waiting, {j}) /\ pending' = pending \cup {j}
      /\ holding' = Lowered(holding, {j}) /\ reserved' = reserved \ {j}
      /\ drifted' = drifted
  BY DEF Requeue
<1>4. Counts(waiting', pending', drifted')
  BY <1>1, <1>2, <1>3, RaisedCounts
<1>5. /\ Counts(holding', reserved', drifted')
      /\ Cardinality(reserved') = Cardinality(reserved) - 1
      /\ Cardinality(reserved) \in Nat
  <2>1. /\ Counts(Lowered(holding, {j} \cap reserved), reserved \ {j}, drifted)
        /\ Cardinality(reserved \ {j}) = IF j \in reserved THEN Cardinality(reserved) - 1
                                         ELSE Cardinality(reserved)
        /\ Cardinality(reserved) \in Nat
    BY <1>1, <1>2, RemovedCounts
  <2> QED BY <1>1, <1>3, <2>1
<1>6. /\ Cardinality(pending') = Cardinality(pending) + 1
      /\ Cardinality(pending) \in Nat
  <2>1. IsFiniteSet(pending) /\ Cardinality(pending) \in Nat
    BY <1>1, JobsFinite
  <2> QED BY <1>1, <1>3, <2>1, FS_AddElement
<1>7. QueueTypeOK'
  <2>1. /\ pending' \in SUBSET Job /\ delayed' \in SUBSET pending' /\ reserved' \in SUBSET Job
        /\ UNCHANGED drifted
    BY DEF QueueTypeOK, Requeue
  <2>2. payload' \in [Job -> {"none", "live", "late"}] /\ attempt' \in [Job -> Attempt]
    BY DEF QueueTypeOK, Requeue
  <2>3. dedupe' \in [Job -> {"none", "paired", "own"}]
    BY DEF QueueTypeOK, Requeue
  <2> QED BY <1>4, <1>5, <2>1, <2>2, <2>3 DEF Counts, QueueTypeOK
<1>8. SlotsBounded'
  <2>1. pending' \cap reserved' = {}
    BY <1>1, <1>3 DEF SlotsBounded
  <2>2. /\ Cardinality(reserved') =< MaxReserved
        /\ Cardinality(pending') + Cardinality(reserved') =< MaxAdmitted
    BY <1>5, <1>6, QueueAssumption DEF SlotsBounded
  <2> QED BY <2>1, <2>2 DEF SlotsBounded
<1> QED BY <1>4, <1>5, <1>7, <1>8, QueueInvFrom

\* Finalize takes away one slot at most.
LEMMA FinalizeKeeps ==
    ASSUME QueueInv, NEW j \in Job, Finalize(j)
    PROVE  QueueInv'
<1> USE DEF QueueInv
<1>1. /\ reserved \in SUBSET Job /\ holding \in [Task -> Nat]
      /\ Counts(holding, reserved, drifted)
  BY DEF Counts, CountsOneSided, QueueTypeOK
<1>2. /\ Counts(holding', reserved', drifted')
      /\ Cardinality(reserved') = IF j \in reserved THEN Cardinality(reserved) - 1
                                  ELSE Cardinality(reserved)
      /\ Cardinality(reserved) \in Nat
  BY <1>1, RemovedCounts DEF Finalize
<1>3. Cardinality(pending) \in Nat
  BY JobsFinite DEF QueueTypeOK
<1>4. QueueTypeOK'
  <2>1. payload' \in [Job -> {"none", "live", "late"}] /\ attempt' \in [Job -> Attempt]
    BY QueueAssumption DEF QueueTypeOK, Finalize, Attempt
  <2>2. dedupe' \in [Job -> {"none", "paired", "own"}]
    BY DEF QueueTypeOK, Finalize
  <2> QED BY <1>2, <2>1, <2>2 DEF Counts, QueueTypeOK, Finalize
<1>5. SlotsBounded'
  BY <1>2, <1>3, QueueAssumption DEF SlotsBounded, Finalize
<1>6. Counts(waiting', pending', drifted')
  BY DEF Counts, CountsOneSided, QueueTypeOK, Finalize
<1> QED BY <1>2, <1>4, <1>5, <1>6, QueueInvFrom

\* Purge takes a job away from wherever it is, and tells the counts or not.
LEMMA PurgeKeeps ==
    ASSUME QueueInv, NEW j \in Job, NEW resolved \in BOOLEAN, Purge(j, resolved)
    PROVE  QueueInv'
<1> USE DEF QueueInv
<1>1. /\ pending \in SUBSET Job /\ waiting \in [Task -> Nat]
      /\ reserved \in SUBSET Job /\ holding \in [Task -> Nat]
      /\ Counts(waiting, pending, drifted)
      /\ Counts(holding, reserved, drifted)
  BY DEF Counts, CountsOneSided, QueueTypeOK
<1>2. /\ Counts(Lowered(holding, {j} \cap reserved), reserved \ {j}, drifted)
      /\ Cardinality(reserved \ {j}) = IF j \in reserved THEN Cardinality(reserved) - 1
                                       ELSE Cardinality(reserved)
      /\ Cardinality(reserved) \in Nat
  BY <1>1, RemovedCounts
<1>3. /\ Counts(Lowered(waiting, {j} \cap pending), pending \ {j}, drifted)
      /\ Cardinality(pending \ {j}) = IF j \in pending THEN Cardinality(pending) - 1
                                      ELSE Cardinality(pending)
      /\ Cardinality(pending) \in Nat
  BY <1>1, RemovedCounts
<1>4. /\ Counts(waiting', pending', drifted') /\ Counts(holding', reserved', drifted')
      /\ drifted' \in SUBSET {"expired", "unresolved"}
  <2>1. CASE resolved
    BY <1>2, <1>3, <2>1 DEF Purge, QueueTypeOK
  <2>2. CASE ~resolved
    <3> DEFINE P == {j} \cap pending
               R == {j} \cap reserved
    <3>1. /\ pending' = pending \ P /\ reserved' = reserved \ R
          /\ waiting' = waiting /\ holding' = holding
          /\ drifted' = IF P = {} /\ R = {} THEN drifted ELSE drifted \cup {"unresolved"}
          /\ P \in SUBSET pending /\ R \in SUBSET reserved
      BY <2>2 DEF Purge
    <3> HIDE DEF P, R
    <3>2. /\ Counts(waiting, pending \ P, drifted \cup {"unresolved"})
          /\ P = {} => Counts(waiting, pending \ P, drifted)
      BY <1>1, <3>1, ForgottenCounts
    <3>3. /\ Counts(holding, reserved \ R, drifted \cup {"unresolved"})
          /\ R = {} => Counts(holding, reserved \ R, drifted)
      BY <1>1, <3>1, ForgottenCounts
    <3> QED BY <3>1, <3>2, <3>3 DEF QueueTypeOK
  <2> QED BY <2>1, <2>2
<1>5. QueueTypeOK'
  BY <1>4 DEF Counts, QueueTypeOK, Purge
<1>6. SlotsBounded'
  BY <1>2, <1>3, QueueAssumption DEF SlotsBounded, Purge
<1> QED BY <1>4, <1>5, <1>6, QueueInvFrom

\* The expiry of the hash leaves nothing counted that is not there.
LEMMA ExpireCountsKeeps ==
    ASSUME QueueInv, ExpireCounts
    PROVE  QueueInv'
<1>1. QueueTypeOK'
  BY DEF QueueInv, QueueTypeOK, ExpireCounts
<1>2. SlotsBounded'
  BY DEF QueueInv, SlotsBounded, ExpireCounts
<1>3. ASSUME NEW count \in {waiting', holding'}, NEW S \in SUBSET (pending \cup reserved)
      PROVE  Counts(count, S, drifted')
  <2>1. S \in SUBSET Job
    BY DEF QueueInv, QueueTypeOK
  <2>2. count = [t \in Task |-> 0]
    BY DEF ExpireCounts
  <2>3. \A t \in Task : Cardinality(Of(S, t)) \in Nat
    BY <2>1, JobsFinite
  <2>4. S = {} => \A t \in Task : Cardinality(Of(S, t)) = 0
    BY FS_EmptySet DEF Of
  <2>5. "expired" \in drifted' \/ S = {}
    BY DEF ExpireCounts
  <2> QED BY <2>2, <2>3, <2>4, <2>5 DEF Counts, AtLeast, AtMost
<1>4. Counts(waiting', pending', drifted') /\ Counts(holding', reserved', drifted')
  BY <1>3 DEF ExpireCounts
<1> QED BY <1>1, <1>2, <1>4, QueueInvFrom

\* What leaves the ZSETs and the counts alone keeps their limits and mirror.
LEMMA ZSetsUnchanged ==
    ASSUME QueueInv, QueueTypeOK', UNCHANGED <<pending, reserved, counts>>
    PROVE  QueueInv'
<1>1. SlotsBounded'
  BY DEF QueueInv, SlotsBounded
<1>2. Counts(waiting', pending', drifted')
  BY DEF Counts, CountsOneSided, QueueTypeOK, QueueInv, counts
<1>3. Counts(holding', reserved', drifted')
  BY DEF Counts, CountsOneSided, QueueTypeOK, QueueInv, counts
<1> QED BY <1>1, <1>2, <1>3, QueueInvFrom

\* A pump deletes the keys of one job, knowing its task or not.
LEMMA PumpDeleteKeys ==
    ASSUME NEW p \in Pump, PumpDelete(p)
    PROVE  \E resolved \in BOOLEAN : DeleteKeys(pump[p].cut, resolved)
<1>1. CASE pump[p].cut \in pump[p].known
  BY <1>1 DEF PumpDelete, DeleteKeys
<1>2. CASE pump[p].cut \notin pump[p].known
  BY <1>2 DEF PumpDelete, DeleteKeys
<1> QED BY <1>1, <1>2

\* The second half of a discard keeps the invariant of the queue.
LEMMA DeleteKeysKeeps ==
    ASSUME QueueInv, NEW j \in Job, NEW resolved \in BOOLEAN, DeleteKeys(j, resolved)
    PROVE  QueueInv'
<1>1. QueueTypeOK'
  <2>1. payload' \in [Job -> {"none", "live", "late"}] /\ attempt' \in [Job -> Attempt]
    BY QueueAssumption DEF QueueInv, QueueTypeOK, DeleteKeys, Attempt
  <2>2. dedupe' \in [Job -> {"none", "paired", "own"}]
    BY DEF QueueInv, QueueTypeOK, DeleteKeys
  <2> QED BY <2>1, <2>2 DEF QueueInv, QueueTypeOK, DeleteKeys, counts
<1> QED BY <1>1, ZSetsUnchanged DEF DeleteKeys

\* Expiry keeps the invariant of the queue.
LEMMA ElapseKeeps ==
    ASSUME QueueInv, NEW j \in Job, Elapse(j)
    PROVE  QueueInv'
<1>1. UNCHANGED <<pending, reserved, counts>>
  BY DEF Elapse, Ripen, PassDeadline, Expire, ExpireDedupe
<1>2. delayed' \in SUBSET pending'
  BY DEF Elapse, Ripen, PassDeadline, Expire, ExpireDedupe, QueueInv, QueueTypeOK
<1>3. payload' \in [Job -> {"none", "live", "late"}]
  BY DEF Elapse, Ripen, PassDeadline, Expire, ExpireDedupe, QueueInv, QueueTypeOK
<1>4. attempt' \in [Job -> Attempt]
  BY QueueAssumption DEF Elapse, Ripen, PassDeadline, Expire, ExpireDedupe, QueueInv, QueueTypeOK, Attempt
<1>5. dedupe' \in [Job -> {"none", "paired", "own"}]
  BY DEF Elapse, Ripen, PassDeadline, Expire, ExpireDedupe, QueueInv, QueueTypeOK
<1>6. QueueTypeOK'
  BY <1>1, <1>2, <1>3, <1>4, <1>5 DEF QueueInv, QueueTypeOK, counts
<1> QED BY <1>1, <1>6, ZSetsUnchanged

\* The empty queue.
LEMMA QueueInitInv == QueueInit => QueueInv
<1> SUFFICES ASSUME QueueInit PROVE QueueInv
  OBVIOUS
<1>1. \A t : Of({}, t) = {}
  BY DEF Of
<1>2. Cardinality({}) = 0
  BY FS_EmptySet
<1> QED BY <1>1, <1>2, QueueAssumption
        DEF QueueInit, QueueInv, QueueTypeOK, SlotsBounded, CountsOneSided, AtLeast, AtMost, Attempt

-----------------------------------------------------------------------------
(* Pumps and workers                                                       *)

\* A worker that is not idle has a job, and a pump that has purged one knows
\* which; nothing a pump is about to reserve or to give back is to be removed.
GoodTick == {r \in Tick : /\ r.at = "delete" => r.cut \in Job
                          /\ r.at \in {"discard", "delete"} <=> r.next # "off"
                          /\ r.gone \cap r.todo = {}
                          /\ r.cut \notin r.todo}

GoodRun == {r \in Run : IF r.at = "idle" THEN r.job = NoJob ELSE r.job \in Job}

ProcessInv ==
    /\ lock \in {"free", "paused"} \cup Pump
    /\ pump \in [Pump -> GoodTick]
    /\ mail \in [Job -> 0 .. MaxMail]
    /\ worker \in [Worker -> GoodRun]
    /\ disturbed \in SUBSET Job
    /\ overlapped \in SUBSET Pump

TypeInv == QueueInv /\ ProcessInv

Marked(p, j) == j \in pump[p].gone \/ j = pump[p].cut

\* One process at most has job j in hand: a message, a pump that has got its
\* slot, or a worker.
OneHand(j) ==
    /\ mail[j] =< 1
    /\ \A p, q \in Pump : Holds(p, j) /\ Holds(q, j) => p = q
    /\ \A v, w \in Worker : worker[v].job = j /\ worker[w].job = j => v = w
    /\ \A p \in Pump : Holds(p, j) => mail[j] = 0
    /\ \A w \in Worker : worker[w].job = j => mail[j] = 0
    /\ \A p \in Pump, w \in Worker : ~ (Holds(p, j) /\ worker[w].job = j)

\* It has the slot and the payload while it may still use them, and knows the
\* attempts that have been made.
InSlot(j) == j \in reserved /\ payload[j] = "live"

UsedBy(w, j) == worker[w].job = j /\ worker[w].at \in {"run", "final", "discard"}

SlotKept(j) ==
    /\ mail[j] > 0 => InSlot(j)
    /\ \A p \in Pump : Holds(p, j) => InSlot(j) /\ pump[p].copy[j] = attempt[j]
    /\ \A w \in Worker : UsedBy(w, j) => InSlot(j)
    /\ \A w \in Worker : worker[w].job = j =>
           /\ worker[w].at \in {"run", "final", "discard", "delete", "leave", "lost"}
           /\ worker[w].at = "run" => worker[w].copy = attempt[j]
           /\ j \notin pending

\* What a pump is about to remove nobody uses.
Used(j) ==
    \/ mail[j] > 0
    \/ \E p \in Pump : Holds(p, j)
    \/ \E w \in Worker : UsedBy(w, j)

Dead(j) ==
    \A p \in Pump : Marked(p, j) => ~ Used(j) /\ (j \in pending => payload[j] # "live")

\* What a pump alone has peeked waits until it reserves it.
Plans(p) == pump[p].at = "reserve" \/ pump[p].next = "reserve"

PeekedBy(p, j) ==
    /\ pump[p].at = "hydrate" /\ j \in pump[p].todo => j \in pending
    /\ Plans(p) /\ j \in pump[p].todo => j \in pending /\ attempt[j] =< pump[p].copy[j]

Peeked(j) == overlapped = {} => \A p \in Pump : PeekedBy(p, j)

Alone == overlapped = {} => \A p, q \in AtWork : p = q

Sound(j) == OneHand(j) /\ SlotKept(j) /\ Dead(j) /\ Peeked(j)

TokenInv == Alone /\ \A j \in Job \ disturbed : Sound(j)

-----------------------------------------------------------------------------
(* Types, limits and counts *)

\* A tick goes on with what is to be discarded, or at the next stage.
LEMMA DiscardingGood ==
    ASSUME NEW gone \in SUBSET Job, NEW known \in SUBSET Job,
           NEW todo \in SUBSET Job, gone \cap todo = {},
           NEW next \in {"peek", "reserve", "requeue"}, NEW copy \in Copy
    PROVE  Discarding(gone, known, next, todo, copy) \in GoodTick
BY PumpAssumption DEF Discarding, GoodTick, Tick

\* A pump that is off, and one that has read nothing yet.
LEMMA OffGood ==
    /\ Off.copy \in Copy
    /\ Off \in GoodTick
    /\ \A at \in {"reap", "peek", "publish"} : [Off EXCEPT !.at = at] \in GoodTick
    /\ \A at \in {"mget", "hydrate"}, todo \in SUBSET Job :
           [Off EXCEPT !.at = at, !.todo = todo] \in GoodTick
<1>1. [j \in Job |-> 0] \in Copy
  BY QueueAssumption DEF Copy, Attempt
<1> QED BY <1>1, PumpAssumption DEF Off, GoodTick, Tick

\* A pump that steps to a good tick leaves the other pumps alone.
LEMMA StepGood ==
    ASSUME ProcessInv, NEW p \in Pump, NEW r \in GoodTick, Step(p, r)
    PROVE  pump' \in [Pump -> GoodTick]
BY DEF ProcessInv, Step

\* The same of a worker.
LEMMA BecomeGood ==
    ASSUME ProcessInv, NEW w \in Worker, NEW r \in GoodRun, Become(w, r)
    PROVE  worker' \in [Worker -> GoodRun]
BY DEF ProcessInv, Become

\* Who is off has nothing; an idle worker is good.
LEMMA IdleGood == Idle \in GoodRun
BY QueueAssumption DEF Idle, GoodRun, Run, Attempt

\* A worker that changes its stage keeps its job.
LEMMA StageGood ==
    ASSUME NEW r \in GoodRun, r.at # "idle",
           NEW at \in {"final", "discard", "delete", "leave", "clear", "spent", "lost"}
    PROVE  /\ [r EXCEPT !.at = at] \in GoodRun
           /\ [r EXCEPT !.at = at, !.copy = 0] \in GoodRun
           /\ r.job \in Job
<1>1. 0 \in Attempt
  BY QueueAssumption DEF Attempt
<1> QED BY <1>1 DEF GoodRun, Run

\* The keys of the queue are left alone.
LEMMA QueueUnchanged == QueueInv /\ UNCHANGED queue => QueueInv'
<1> SUFFICES ASSUME QueueInv, UNCHANGED queue PROVE QueueInv'
  OBVIOUS
<1>1. QueueTypeOK'
  BY DEF queue, counts, QueueInv, QueueTypeOK
<1> QED BY <1>1, ZSetsUnchanged DEF queue

\* A submission, and time, keep the types.
LEMMA OthersTyped ==
    ASSUME TypeInv,
           \/ \E j \in Job, later \in BOOLEAN : Submit(j, later)
           \/ LockExpires \/ PausePump \/ ResumePump
           \/ \E j \in Job : Pass(j)
           \/ PassCounts
           \/ UNCHANGED vars
    PROVE  TypeInv'
<1> USE DEF TypeInv
<1>1. CASE \E j \in Job, later \in BOOLEAN : Submit(j, later)
  <2>1. PICK j \in Job, later \in BOOLEAN : Submit(j, later)
    BY <1>1
  <2>2. QueueInv'
    BY <2>1, EnqueueKeeps DEF Submit
  <2>3. ProcessInv'
    BY <2>1 DEF Submit, ProcessInv
  <2> QED BY <2>2, <2>3
<1>2. CASE LockExpires \/ PausePump \/ ResumePump \/ UNCHANGED vars
  <2>1. UNCHANGED queue
    BY <1>2 DEF LockExpires, PausePump, ResumePump, vars
  <2>2. ProcessInv'
    BY <1>2 DEF LockExpires, PausePump, ResumePump, vars, ghosts, ProcessInv
  <2> QED BY <2>1, <2>2, QueueUnchanged
<1>3. CASE \E j \in Job : Pass(j)
  <2>1. PICK j \in Job : Pass(j)
    BY <1>3
  <2>2. QueueInv'
    BY <2>1, ElapseKeeps DEF Pass
  <2>3. ProcessInv'
    BY <2>1 DEF Pass, ProcessInv
  <2> QED BY <2>2, <2>3
<1>4. CASE PassCounts
  <2>1. QueueInv'
    BY <1>4, ExpireCountsKeeps DEF PassCounts
  <2>2. ProcessInv'
    BY <1>4 DEF PassCounts, ghosts, ProcessInv
  <2> QED BY <2>1, <2>2
<1> QED BY <1>1, <1>2, <1>3, <1>4

\* What a step of a pump has to show: its new tick is good, and what else it
\* changes keeps its type.
LEMMA PumpTyped ==
    ASSUME ProcessInv, QueueInv', NEW p \in Pump, NEW r \in GoodTick, Step(p, r),
           lock' \in {lock, "free", "paused", p}, mail' \in [Job -> 0 .. MaxMail],
           disturbed' \in SUBSET Job, overlapped' \in SUBSET Pump, UNCHANGED worker
    PROVE  TypeInv'
<1>1. pump' \in [Pump -> GoodTick]
  BY StepGood
<1> QED BY <1>1 DEF ProcessInv, TypeInv

\* What the tick of a pump is made of.
LEMMA TickParts ==
    ASSUME ProcessInv, NEW p \in Pump
    PROVE  /\ pump[p] \in GoodTick
           /\ pump[p].todo \in SUBSET Job /\ pump[p].gone \in SUBSET Job
           /\ pump[p].gone \cap pump[p].todo = {} /\ pump[p].cut \notin pump[p].todo
           /\ pump[p].copy \in Copy
           /\ pump[p].at = "delete" => pump[p].cut \in Job
BY DEF ProcessInv, GoodTick, Tick

\* Reading, and giving up, by a pump keeps the types.
LEMMA ReadsTyped ==
    ASSUME TypeInv, NEW p \in Pump,
           \/ \E at \in {"reap", "peek"} : StartTick(p, at)
           \/ ReapScan(p) \/ ReapRead(p) \/ Peek(p) \/ HydrateFails(p)
           \/ \E batch \in SUBSET Job : Hydrate(p, batch)
           \/ FinishTick(p) \/ PumpDies(p)
    PROVE  TypeInv'
<1> USE DEF TypeInv
<1>1. QueueInv'
  <2>1. UNCHANGED queue
    BY DEF StartTick, ReapScan, ReapRead, Peek, HydrateFails, Hydrate, FinishTick, PumpDies
  <2> QED BY <2>1, QueueUnchanged
<1>2. /\ mail' \in [Job -> 0 .. MaxMail] /\ UNCHANGED worker
      /\ lock' \in {lock, "free", "paused", p}
  BY DEF StartTick, ReapScan, ReapRead, Peek, HydrateFails, Hydrate, FinishTick, PumpDies, ProcessInv
<1>3. /\ pending \in SUBSET Job /\ reserved \in SUBSET Job
      /\ payload \in [Job -> {"none", "live", "late"}] /\ attempt \in [Job -> Attempt]
  BY DEF QueueInv, QueueTypeOK
<1>4. overlapped' \in SUBSET Pump
  BY DEF StartTick, ReapScan, ReapRead, Peek, HydrateFails, Hydrate, FinishTick, PumpDies, ProcessInv, AtWork, ghosts
<1>5. disturbed' \in SUBSET Job
  BY TickParts DEF StartTick, ReapScan, ReapRead, Peek, HydrateFails, Hydrate, FinishTick, PumpDies, ProcessInv, ghosts
<1>6. \E r \in GoodTick : Step(p, r)
  <2>1. CASE \E at \in {"reap", "peek"} : StartTick(p, at)
    BY <2>1, OffGood DEF StartTick
  <2>2. CASE ReapScan(p)
    BY <2>2, <1>3, OffGood DEF ReapScan
  <2>3. CASE ReapRead(p)
    <3>1. {j \in pump[p].todo : payload[j] = "none"} \in SUBSET Job
      BY TickParts
    <3>2. Discarding({j \in pump[p].todo : payload[j] = "none"}, {}, "peek", {}, Off.copy) \in GoodTick
      BY <3>1, DiscardingGood, OffGood
    <3> QED BY <2>3, <3>2 DEF ReapRead
  <2>4. CASE Peek(p)
    <3>1. (IF Cardinality(reserved) < MaxReserved THEN pending \ delayed ELSE {}) \in SUBSET Job
      BY <1>3
    <3> QED BY <2>4, <3>1, OffGood DEF Peek
  <2>5. CASE HydrateFails(p)
    BY <2>5, TickParts, DiscardingGood, OffGood DEF HydrateFails
  <2>6. CASE \E batch \in SUBSET Job : Hydrate(p, batch)
    <3>1. PICK batch \in SUBSET Job : Hydrate(p, batch)
      BY <2>6
    <3> DEFINE gone == {j \in pump[p].todo : payload[j] # "live"}
               known == {j \in gone : payload[j] = "late"}
               copy == [j \in Job |-> IF j \in batch THEN attempt[j] ELSE 0]
    <3>2. gone \in SUBSET Job /\ known \in SUBSET Job /\ gone \cap batch = {}
      BY <3>1, TickParts DEF Hydrate
    <3>3. copy \in Copy
      BY <1>3, QueueAssumption DEF Copy, Attempt
    <3>4. Discarding(gone, known, "reserve", batch, copy) \in GoodTick
      BY <3>2, <3>3, DiscardingGood
    <3> QED BY <3>1, <3>4 DEF Hydrate
  <2>7. CASE FinishTick(p) \/ PumpDies(p)
    BY <2>7, OffGood DEF FinishTick, PumpDies
  <2> QED BY <2>1, <2>2, <2>3, <2>4, <2>5, <2>6, <2>7
<1> QED BY <1>1, <1>2, <1>4, <1>5, <1>6, PumpTyped

\* The scripts that a pump runs, and its messages, keep the types.
LEMMA CallsTyped ==
    ASSUME TypeInv, NEW p \in Pump,
           \/ \E j \in Job, resolved \in BOOLEAN : PumpPurge(p, j, resolved)
           \/ \E j \in Job : Publish(p, j) \/ RequeueTail(p, j) \/ SpendTail(p, j)
           \/ \E j \in Job, delivered \in BOOLEAN : PublishFails(p, j, delivered)
           \/ \E S \in SUBSET Job, answered \in BOOLEAN : PumpReserve(p, S, answered)
           \/ PumpDelete(p)
    PROVE  TypeInv'
<1> USE DEF TypeInv
<1>1. ASSUME NEW j \in Job, NEW resolved \in BOOLEAN, PumpPurge(p, j, resolved) PROVE TypeInv'
  <2>1. QueueInv'
    BY <1>1, PurgeKeeps DEF PumpPurge
  <2>2. [pump[p] EXCEPT !.at = "delete", !.gone = @ \ {j}, !.cut = j,
                        !.known = IF resolved THEN @ \cup {j} ELSE @] \in GoodTick
    BY <1>1, TickParts DEF PumpPurge, GoodTick, Tick
  <2> QED BY <1>1, <2>1, <2>2, PumpTyped DEF PumpPurge, ProcessInv, ghosts
<1>2. ASSUME NEW j \in Job, Publish(p, j) PROVE TypeInv'
  <2>1. QueueInv'
    BY <1>2, QueueUnchanged DEF Publish
  <2>2. [pump[p] EXCEPT !.todo = @ \ {j}] \in GoodTick
    BY TickParts DEF GoodTick, Tick
  <2>3. mail' \in [Job -> 0 .. MaxMail]
    BY <1>2, PumpAssumption DEF Publish, ProcessInv
  <2> QED BY <1>2, <2>1, <2>2, <2>3, PumpTyped DEF Publish, ProcessInv, ghosts
<1>3. ASSUME NEW j \in Job, RequeueTail(p, j) PROVE TypeInv'
  <2>1. QueueInv'
    <3>1. pump[p].copy[j] \in Attempt
      BY TickParts DEF Copy
    <3> QED BY <1>3, <3>1, RequeueKeeps, QueueUnchanged DEF RequeueTail
  <2>2. [pump[p] EXCEPT !.todo = @ \ {j}] \in GoodTick
    BY TickParts DEF GoodTick, Tick
  <2> QED BY <1>3, <2>1, <2>2, PumpTyped DEF RequeueTail, ProcessInv, ghosts
<1>4. ASSUME NEW j \in Job, SpendTail(p, j) PROVE TypeInv'
  <2>1. QueueInv'
    BY <1>4, QueueUnchanged DEF SpendTail
  <2>2. Discarding({j}, {j}, "requeue", pump[p].todo \ {j}, pump[p].copy) \in GoodTick
    BY TickParts, DiscardingGood
  <2> QED BY <1>4, <2>1, <2>2, PumpTyped DEF SpendTail, ProcessInv, ghosts
<1>5. ASSUME NEW j \in Job, NEW delivered \in BOOLEAN, PublishFails(p, j, delivered) PROVE TypeInv'
  <2>1. QueueInv'
    BY <1>5, QueueUnchanged DEF PublishFails
  <2>2. [pump[p] EXCEPT !.at = "requeue"] \in GoodTick
    BY <1>5, TickParts DEF PublishFails, GoodTick, Tick
  <2>3. mail' \in [Job -> 0 .. MaxMail]
    BY <1>5, PumpAssumption DEF PublishFails, ProcessInv
  <2>4. disturbed' \in SUBSET Job
    BY <1>5 DEF PublishFails, ProcessInv
  <2> QED BY <1>5, <2>1, <2>2, <2>3, <2>4, PumpTyped DEF PublishFails, ProcessInv
<1>6. ASSUME NEW S \in SUBSET Job, NEW answered \in BOOLEAN, PumpReserve(p, S, answered) PROVE TypeInv'
  <2>1. QueueInv'
    BY <1>6, TickParts, ReserveKeeps DEF PumpReserve, Copy
  <2>2. S \in SUBSET pump[p].todo
    BY <1>6 DEF PumpReserve, Reserve
  <2>3. [pump[p] EXCEPT !.at = "publish", !.todo = S] \in GoodTick
    BY <1>6, <2>2, TickParts DEF PumpReserve, GoodTick, Tick
  <2>4. disturbed' \in SUBSET Job
    BY <1>6 DEF PumpReserve, ProcessInv
  <2>5. \E r \in GoodTick : Step(p, r)
    BY <1>6, <2>3, OffGood DEF PumpReserve
  <2> QED BY <1>6, <2>1, <2>4, <2>5, PumpTyped DEF PumpReserve, ProcessInv
<1>7. ASSUME PumpDelete(p) PROVE TypeInv'
  <2>1. QueueInv'
    BY <1>7, TickParts, DeleteKeysKeeps, PumpDeleteKeys DEF PumpDelete
  <2>2. Discarding(pump[p].gone, pump[p].known \cap pump[p].gone, pump[p].next, pump[p].todo, pump[p].copy) \in GoodTick
    BY <1>7, TickParts, PumpAssumption DEF PumpDelete, Discarding, GoodTick, Tick
  <2> QED BY <1>7, <2>1, <2>2, PumpTyped DEF PumpDelete, ProcessInv, ghosts
<1> QED BY <1>1, <1>2, <1>3, <1>4, <1>5, <1>6, <1>7

\* What a worker is made of.
LEMMA RunParts ==
    ASSUME ProcessInv, NEW w \in Worker
    PROVE  /\ worker[w] \in GoodRun
           /\ worker[w].at # "idle" => worker[w].job \in Job
           /\ worker[w].copy \in Attempt
BY DEF ProcessInv, GoodRun, Run

\* What a step of a worker has to show.
LEMMA WorkerTyped ==
    ASSUME ProcessInv, QueueInv', NEW w \in Worker, NEW r \in GoodRun, Become(w, r),
           mail' \in [Job -> 0 .. MaxMail], disturbed' \in SUBSET Job,
           UNCHANGED <<lock, pump, overlapped>>
    PROVE  TypeInv'
<1>1. worker' \in [Worker -> GoodRun]
  BY BecomeGood
<1> QED BY <1>1 DEF ProcessInv, TypeInv

\* Every step of a worker keeps the types.
LEMMA WorkerStepTyped ==
    ASSUME TypeInv, NEW w \in Worker, WorkerStep(w)
    PROVE  TypeInv'
<1> USE DEF TypeInv
<1>1. ASSUME NEW j \in Job, Receive(w, j) \/ ReceiveNothing(w, j) PROVE TypeInv'
  <2>1. QueueInv'
    BY <1>1, QueueUnchanged DEF Receive, ReceiveNothing
  <2>2. \E r \in GoodRun : Become(w, r)
    <3>1. attempt[j] \in Attempt /\ 0 \in Attempt
      BY QueueAssumption DEF QueueInv, QueueTypeOK, Attempt
    <3>2. \A at \in {"run", "stray", "discard"}, n \in Attempt : [at |-> at, job |-> j, copy |-> n] \in GoodRun
      BY DEF GoodRun, Run
    <3> QED BY <1>1, <3>1, <3>2 DEF Receive, ReceiveNothing
  <2>3. mail' \in [Job -> 0 .. MaxMail]
    BY <1>1, PumpAssumption DEF Receive, ReceiveNothing, ProcessInv
  <2>4. disturbed' \in SUBSET Job /\ UNCHANGED <<lock, pump, overlapped>>
    BY <1>1 DEF Receive, ReceiveNothing, ProcessInv, ghosts
  <2> QED BY <2>1, <2>2, <2>3, <2>4, WorkerTyped
<1>2. CASE WorkerFinalize(w) \/ FinalizeFails(w) \/ FailureHandler(w)
  <2>1. worker[w].job \in Job
    BY <1>2, RunParts DEF WorkerFinalize, FinalizeFails, FailureHandler
  <2>2. QueueInv'
    BY <1>2, <2>1, QueueUnchanged, FinalizeKeeps DEF WorkerFinalize, FinalizeFails, FailureHandler
  <2>3. Become(w, Idle)
    BY <1>2 DEF WorkerFinalize, FinalizeFails, FailureHandler
  <2>4. UNCHANGED <<lock, pump, mail, disturbed, overlapped>>
    BY <1>2 DEF WorkerFinalize, FinalizeFails, FailureHandler, ghosts
  <2> QED BY <2>2, <2>3, <2>4, IdleGood, WorkerTyped DEF ProcessInv
<1>3. CASE WorkerRequeue(w) \/ RequeueUnanswered(w)
  <2>1. worker[w].job \in Job /\ worker[w].copy + 1 \in Attempt /\ worker[w].at # "idle"
    <3>1. worker[w].at # "idle" /\ worker[w].copy < MaxAttempts
      BY <1>3 DEF WorkerRequeue, RequeueUnanswered, MayRequeue
    <3>2. worker[w].job \in Job /\ worker[w].copy \in Attempt
      BY <3>1, RunParts
    <3>3. \A n \in Attempt : n < MaxAttempts => n + 1 \in Attempt
      BY QueueAssumption DEF Attempt
    <3> QED BY <3>1, <3>2, <3>3
  <2>2. QueueInv'
    BY <1>3, <2>1, RequeueKeeps DEF WorkerRequeue, RequeueUnanswered
  <2>3. \E r \in GoodRun : Become(w, r)
    BY <1>3, <2>1, IdleGood, RunParts, StageGood DEF WorkerRequeue, RequeueUnanswered
  <2>4. UNCHANGED <<lock, pump, mail, overlapped>> /\ disturbed' \in SUBSET Job
    BY <1>3, <2>1 DEF WorkerRequeue, RequeueUnanswered, ghosts, ProcessInv
  <2> QED BY <2>2, <2>3, <2>4, WorkerTyped DEF ProcessInv
<1>4. CASE RequeueDenied(w) \/ RequeueSpent(w)
  <2>1. QueueInv'
    BY <1>4, QueueUnchanged DEF RequeueDenied, RequeueSpent
  <2>2. \E r \in GoodRun : Become(w, r)
    BY <1>4, RunParts, StageGood DEF RequeueDenied, RequeueSpent, MayRequeue
  <2>3. UNCHANGED <<lock, pump, mail, disturbed, overlapped>>
    BY <1>4 DEF RequeueDenied, RequeueSpent, ghosts
  <2> QED BY <2>1, <2>2, <2>3, WorkerTyped DEF ProcessInv
<1>5. CASE WorkerDelete(w) \/ \E resolved \in BOOLEAN : WorkerPurge(w, resolved)
  <2>1. worker[w].job \in Job
    BY <1>5, RunParts DEF WorkerPurge, WorkerDelete
  <2>2. QueueInv'
    BY <1>5, <2>1, PurgeKeeps, DeleteKeysKeeps DEF WorkerPurge, WorkerDelete
  <2>3. \E r \in GoodRun : Become(w, r)
    <3>1. ASSUME NEW resolved \in BOOLEAN, WorkerPurge(w, resolved)
          PROVE  \E r \in GoodRun : Become(w, r)
      <4> DEFINE at == IF ~resolved THEN "leave" ELSE IF worker[w].at = "spent" THEN "clear" ELSE "delete"
      <4>1. at \in {"clear", "leave", "delete"}
        OBVIOUS
      <4>2. Become(w, [worker[w] EXCEPT !.at = at]) /\ worker[w].at # "idle"
        BY <3>1 DEF WorkerPurge
      <4> HIDE DEF at
      <4> QED BY <4>1, <4>2, RunParts, StageGood
    <3>2. CASE WorkerDelete(w)
      BY <3>2, RunParts, StageGood, IdleGood DEF WorkerDelete
    <3> QED BY <1>5, <3>1, <3>2
  <2>4. UNCHANGED <<lock, pump, mail, disturbed, overlapped>>
    BY <1>5 DEF WorkerPurge, WorkerDelete, ghosts
  <2> QED BY <2>2, <2>3, <2>4, WorkerTyped DEF ProcessInv
<1>6. ASSUME NEW noticed \in BOOLEAN, WorkerDies(w, noticed) PROVE TypeInv'
  <2>1. QueueInv'
    BY <1>6, QueueUnchanged DEF WorkerDies
  <2>2. \E r \in GoodRun : Become(w, r)
    BY <1>6, RunParts, StageGood, IdleGood DEF WorkerDies
  <2>3. UNCHANGED <<lock, pump, mail, disturbed, overlapped>>
    BY <1>6 DEF WorkerDies, ghosts
  <2> QED BY <2>1, <2>2, <2>3, WorkerTyped DEF ProcessInv
<1> QED BY <1>1, <1>2, <1>3, <1>4, <1>5, <1>6 DEF WorkerStep

\* Whatever the processes and time do, every variable keeps its type, a job
\* waits or holds a slot within both limits, and the hash counts the ZSETs as
\* far as it can.
THEOREM TypeInvariant == Spec => []TypeInv
<1>1. Init => TypeInv
  <2> SUFFICES ASSUME Init PROVE TypeInv
    OBVIOUS
  <2>1. QueueInv
    BY QueueInitInv DEF Init
  <2>2. ProcessInv
    <3>1. mail \in [Job -> 0 .. MaxMail]
      BY PumpAssumption DEF Init
    <3>2. pump \in [Pump -> GoodTick] /\ worker \in [Worker -> GoodRun]
      BY OffGood, IdleGood DEF Init
    <3> QED BY <3>1, <3>2 DEF Init, ProcessInv
  <2> QED BY <2>1, <2>2 DEF TypeInv
<1>2. TypeInv /\ [Next]_vars => TypeInv'
  <2> SUFFICES ASSUME TypeInv, [Next]_vars PROVE TypeInv'
    OBVIOUS
  <2>1. ASSUME NEW p \in Pump, NEW at \in {"reap", "peek"}, StartTick(p, at) PROVE TypeInv'
    BY <2>1, ReadsTyped
  <2>2. ASSUME NEW p \in Pump, PumpStep(p) PROVE TypeInv'
    BY <2>2, ReadsTyped, CallsTyped DEF PumpStep
  <2>3. ASSUME NEW w \in Worker, WorkerStep(w) PROVE TypeInv'
    BY <2>3, WorkerStepTyped
  <2> QED BY <2>1, <2>2, <2>3, OthersTyped DEF Next
<1> QED BY <1>1, <1>2, PTL DEF Spec

\* The types are those that the runs check.
THEOREM Typing == Spec => []TypeOK
<1>1. TypeInv => TypeOK
  BY DEF TypeInv, ProcessInv, QueueInv, TypeOK, GoodTick, GoodRun
<1> QED BY <1>1, TypeInvariant, PTL

\* No more than MaxReserved jobs hold a slot, no more than MaxAdmitted are in
\* the queue, and none is in both ZSETs.
THEOREM Limits == Spec => []SlotsBounded
<1>1. TypeInv => SlotsBounded
  BY DEF TypeInv, QueueInv
<1> QED BY <1>1, TypeInvariant, PTL

\* The counts per task are those of the ZSETs but on the side to which they have
\* drifted.
THEOREM CountsRight == Spec => []CountsOneSided
<1>1. TypeInv => CountsOneSided
  BY DEF TypeInv, QueueInv
<1> QED BY <1>1, TypeInvariant, PTL

-----------------------------------------------------------------------------
(* One hand per job *)

\* What the queue knows of job k stays as it is.
QSame(k) ==
    /\ (k \in pending') = (k \in pending) /\ (k \in reserved') = (k \in reserved)
    /\ payload'[k] = payload[k] /\ attempt'[k] = attempt[k]

\* A script for one job leaves the others alone.
LEMMA OtherJobs ==
    ASSUME QueueInv, NEW k \in Job, NEW j, j # k,
           \/ \E n, later : Requeue(j, n, later)
           \/ Finalize(j) \/ (\E resolved \in BOOLEAN : Purge(j, resolved) \/ DeleteKeys(j, resolved)) \/ Elapse(j) \/ UNCHANGED queue
           \/ \E later : Enqueue(j, later)
    PROVE  QSame(k)
BY DEF QSame, Requeue, Finalize, Purge, DeleteKeys, Elapse, Ripen, PassDeadline, Expire,
       ExpireDedupe, Enqueue, queue, QueueInv, QueueTypeOK

\* What a worker may become for job k without taking it up: done with it, or
\* further on.
Further(w, k) ==
    worker'[w].job = k =>
        /\ worker[w].job = k
        /\ worker'[w].at \in {"run", "final", "discard", "delete", "leave", "lost"}
        /\ UsedBy(w, k)' => UsedBy(w, k)
        /\ worker'[w].at = "run" => worker[w].at = "run" /\ worker'[w].copy = worker[w].copy

\* A step after which no more hands have the job than before keeps it sound.
LEMMA Fewer ==
    ASSUME NEW k \in Job, Sound(k),
           mail[k] \in Nat, mail'[k] \in Nat, mail'[k] =< mail[k],
           \A p \in Pump : Holds(p, k)' => Holds(p, k) /\ pump'[p].copy = pump[p].copy,
           \A w \in Worker : Further(w, k),
           Used(k)' => QSame(k),
           (\E w \in Worker : UsedBy(w, k)' /\ worker'[w].at = "run") => attempt'[k] = attempt[k],
           \A w \in Worker : worker'[w].job = k => k \notin pending',
           \A p \in Pump : Marked(p, k)' =>
               /\ Marked(p, k) \/ ~ Used(k)
               /\ k \in pending' => payload'[k] # "live",
           Peeked(k)'
    PROVE  Sound(k)'
<1> USE DEF Further
<1>1. OneHand(k)'
  <2>1. mail'[k] > 0 => mail[k] > 0
    OBVIOUS
  <2>2. /\ \A p, q \in Pump : Holds(p, k)' /\ Holds(q, k)' => p = q
        /\ \A v, w \in Worker : worker'[v].job = k /\ worker'[w].job = k => v = w
        /\ \A p \in Pump, w \in Worker : ~ (Holds(p, k)' /\ worker'[w].job = k)
    BY DEF Sound, OneHand
  <2>3. /\ mail'[k] =< 1
        /\ \A p \in Pump : Holds(p, k)' => mail'[k] = 0
        /\ \A w \in Worker : worker'[w].job = k => mail'[k] = 0
    BY DEF Sound, OneHand
  <2> QED BY <2>2, <2>3 DEF OneHand
<1>2. Used(k)' => Used(k)
  <2>1. mail'[k] > 0 => mail[k] > 0
    OBVIOUS
  <2>2. \A w \in Worker : UsedBy(w, k)' => UsedBy(w, k)
    BY DEF UsedBy
  <2> QED BY <2>1, <2>2 DEF Used
<1>3. Dead(k)'
  BY <1>2 DEF Sound, Dead
<1>4. SlotKept(k)'
  <2>1. mail'[k] > 0 => InSlot(k)'
    <3> SUFFICES ASSUME mail'[k] > 0 PROVE InSlot(k)'
      OBVIOUS
    <3>1. mail[k] > 0
      OBVIOUS
    <3>2. QSame(k)
      BY DEF Used
    <3> QED BY <3>1, <3>2 DEF Sound, SlotKept, InSlot, QSame
  <2>2. ASSUME NEW p \in Pump, Holds(p, k)' PROVE InSlot(k)' /\ pump'[p].copy[k] = attempt'[k]
    <3>1. QSame(k)
      BY <2>2 DEF Used
    <3> QED BY <2>2, <3>1 DEF Sound, SlotKept, InSlot, QSame
  <2>3. ASSUME NEW w \in Worker, UsedBy(w, k)' PROVE InSlot(k)'
    <3>1. QSame(k)
      BY <2>3 DEF Used
    <3>2. UsedBy(w, k)
      BY <2>3 DEF UsedBy
    <3> QED BY <3>1, <3>2 DEF Sound, SlotKept, InSlot, QSame
  <2>4. ASSUME NEW w \in Worker, worker'[w].job = k
        PROVE  /\ worker'[w].at \in {"run", "final", "discard", "delete", "leave", "lost"}
               /\ worker'[w].at = "run" => worker'[w].copy = attempt'[k]
               /\ k \notin pending'
    BY <2>4 DEF Sound, SlotKept, UsedBy
  <2> QED BY <2>1, <2>2, <2>3, <2>4 DEF SlotKept
<1> QED BY <1>1, <1>3, <1>4 DEF Sound

\* A pump that is off neither peeks nor holds.
LEMMA OffPlansNothing ==
    ASSUME ProcessInv, NEW p \in Pump, pump[p].at = "off", NEW k
    PROVE  PeekedBy(p, k) /\ ~ Holds(p, k)
BY DEF ProcessInv, GoodTick, PeekedBy, Plans, Holds

\* A pump steps and does not take the job up: the others are where they were.
LEMMA PumpMoves ==
    ASSUME TypeInv, Alone, NEW k \in Job, Sound(k), NEW p \in Pump, NEW r, Step(p, r),
           pump[p].at # "off",
           UNCHANGED <<worker, overlapped>>, mail'[k] = mail[k], QSame(k),
           Holds(p, k)' => Holds(p, k) /\ pump'[p].copy = pump[p].copy,
           Marked(p, k)' => Marked(p, k) \/ (~ Used(k) /\ (k \in pending => payload[k] # "live")),
           overlapped = {} => PeekedBy(p, k)'
    PROVE  Sound(k)'
<1> USE DEF TypeInv
<1>1. \A q \in Pump \ {p} : pump'[q] = pump[q]
  BY DEF Step, ProcessInv
<1>2. \A q \in Pump \ {p} : Holds(q, k)' = Holds(q, k) /\ Marked(q, k)' = Marked(q, k)
  BY <1>1 DEF Holds, Marked
<1>3. \A q \in Pump : Holds(q, k)' => Holds(q, k) /\ pump'[q].copy = pump[q].copy
  BY <1>1, <1>2
<1>4. Peeked(k)'
  <2> SUFFICES ASSUME overlapped = {}, NEW q \in Pump \ {p} PROVE PeekedBy(q, k)'
    BY DEF Peeked
  <2>1. pump'[q].at = "off" /\ pump'[q] = pump[q]
    BY <1>1 DEF Alone, AtWork
  <2>2. pump[q].next = "off"
    BY <2>1 DEF ProcessInv, GoodTick
  <2> QED BY <2>1, <2>2 DEF PeekedBy, Plans
<1>5. \A q \in Pump : Marked(q, k)' =>
          /\ Marked(q, k) \/ ~ Used(k)
          /\ k \in pending' => payload'[k] # "live"
  BY <1>2 DEF QSame, Sound, Dead
<1>6. \A w \in Worker : Further(w, k)
  BY DEF Further, Sound, SlotKept, UsedBy
<1>7. \A w \in Worker : worker'[w].job = k => k \notin pending'
  BY DEF Sound, SlotKept, QSame
<1>8. mail[k] \in Nat /\ mail'[k] \in Nat /\ mail'[k] =< mail[k] /\ attempt'[k] = attempt[k]
  BY DEF ProcessInv, QSame
<1> QED BY <1>3, <1>4, <1>5, <1>6, <1>7, <1>8, Fewer

\* A worker steps and does not take the job up.
LEMMA WorkerMoves ==
    ASSUME TypeInv, NEW k \in Job, Sound(k), NEW w \in Worker, NEW r, Become(w, r),
           UNCHANGED <<pump, overlapped>>, mail'[k] = mail[k], QSame(k),
           Further(w, k)
    PROVE  Sound(k)'
<1> USE DEF TypeInv
<1>1. \A v \in Worker \ {w} : worker'[v] = worker[v]
  BY DEF Become, ProcessInv
<1>2. \A v \in Worker : Further(v, k)
  <2> SUFFICES ASSUME NEW v \in Worker, v # w PROVE Further(v, k)
    OBVIOUS
  <2> QED BY <1>1 DEF Further, Sound, SlotKept, UsedBy
<1>3. \A q \in Pump : Holds(q, k)' = Holds(q, k) /\ Marked(q, k)' = Marked(q, k)
  BY DEF Holds, Marked
<1>4. Peeked(k)'
  BY DEF Sound, Peeked, PeekedBy, Plans, QSame
<1>5. \A q \in Pump : Marked(q, k)' => Marked(q, k) /\ (k \in pending' => payload'[k] # "live")
  BY <1>3 DEF QSame, Sound, Dead
<1>6. \A v \in Worker : worker'[v].job = k => k \notin pending'
  BY <1>2 DEF Sound, SlotKept, QSame, Further
<1>7. mail[k] \in Nat /\ mail'[k] \in Nat /\ mail'[k] =< mail[k] /\ attempt'[k] = attempt[k]
  BY DEF ProcessInv, QSame
<1> QED BY <1>2, <1>3, <1>4, <1>5, <1>6, <1>7, Fewer

\* A submission: nobody is at the job, or it is disturbed.
LEMMA SubmitSound ==
    ASSUME TypeInv, NEW k \in Job, Sound(k), NEW j \in Job, NEW later \in BOOLEAN,
           Submit(j, later), k \notin disturbed'
    PROVE  Sound(k)'
<1> USE DEF TypeInv
<1>1. \A q \in Pump : Holds(q, k)' = Holds(q, k) /\ Marked(q, k)' = Marked(q, k) /\ pump'[q] = pump[q]
  BY DEF Holds, Marked, Submit
<1>2. \A w \in Worker : Further(w, k)
  BY DEF Further, Sound, SlotKept, UsedBy, Submit
<1>3. mail[k] \in Nat /\ mail'[k] \in Nat /\ mail'[k] =< mail[k]
  BY DEF ProcessInv, Submit
<1>4. CASE j # k
  <2>1. QSame(k)
    BY <1>4, OtherJobs DEF Submit
  <2>2. Peeked(k)'
    BY <2>1 DEF Sound, Peeked, PeekedBy, Plans, QSame, Submit
  <2>3. \A q \in Pump : Marked(q, k)' => Marked(q, k) /\ (k \in pending' => payload'[k] # "live")
    BY <1>1, <2>1 DEF QSame, Sound, Dead
  <2>4. \A w \in Worker : worker'[w].job = k => k \notin pending'
    BY <2>1 DEF Sound, SlotKept, QSame, Submit
  <2> QED BY <1>1, <1>2, <1>3, <2>1, <2>2, <2>3, <2>4, Fewer DEF QSame
<1>5. CASE j = k
  <2>1. ~ Doomed(k) /\ k \notin pending /\ k \notin reserved
    BY <1>5 DEF Submit, Enqueue
  <2>2. \A q \in Pump : ~ Marked(q, k)
    BY <2>1 DEF Doomed, Marked
  <2>3. ~ Used(k)
    BY <2>1 DEF Sound, SlotKept, Used, InSlot
  <2>4. \A w \in Worker : worker[w].job # k
    BY <2>1, <2>3 DEF Used, UsedBy, Doomed, Sound, SlotKept
  <2>5. ~ Used(k)' /\ \A w \in Worker : worker'[w].job # k
    <3>1. UNCHANGED <<mail, pump, worker>>
      BY DEF Submit
    <3> QED BY <2>3, <2>4, <3>1 DEF Used, UsedBy, Holds
  <2>6. Peeked(k)'
    BY <2>1 DEF Sound, Peeked, PeekedBy, Plans, Submit
  <2> QED BY <1>1, <1>2, <1>3, <2>2, <2>5, <2>6, Fewer DEF UsedBy
<1> QED BY <1>4, <1>5

\* Time: a key of a job in hand expires only with its lease outlived.
LEMMA PassSound ==
    ASSUME TypeInv, NEW k \in Job, Sound(k), NEW j \in Job, Pass(j), k \notin disturbed'
    PROVE  Sound(k)'
<1> USE DEF TypeInv
<1>1. \A q \in Pump : Holds(q, k)' = Holds(q, k) /\ Marked(q, k)' = Marked(q, k) /\ pump'[q] = pump[q]
  BY DEF Holds, Marked, Pass
<1>2. \A w \in Worker : Further(w, k)
  BY DEF Further, Sound, SlotKept, UsedBy, Pass
<1>3. mail[k] \in Nat /\ mail'[k] \in Nat /\ mail'[k] =< mail[k]
  BY DEF ProcessInv, Pass
<1>4. Used(k)' = Used(k)
  <2>1. UNCHANGED <<mail, pump, worker>>
    BY DEF Pass
  <2> QED BY <2>1 DEF Used, UsedBy, Holds
<1>5. /\ (k \in pending') = (k \in pending) /\ (k \in reserved') = (k \in reserved)
      /\ payload'[k] = payload[k] => attempt'[k] = attempt[k]
      /\ attempt'[k] =< attempt[k]
      /\ payload'[k] = "live" => payload[k] = "live"
  BY DEF Pass, Elapse, Ripen, PassDeadline, Expire, ExpireDedupe, QueueInv, QueueTypeOK, Attempt
<1>6. Used(k) => payload'[k] = payload[k]
  <2> SUFFICES ASSUME Used(k), payload'[k] # payload[k] PROVE FALSE
    OBVIOUS
  <2>1. j = k
    BY OtherJobs DEF Pass, QSame
  <2>2. Underway(k) /\ k \in reserved
    BY DEF Used, UsedBy, Underway, Sound, SlotKept, InSlot
  <2> QED BY <2>1, <2>2 DEF Pass
<1>7. Used(k)' => QSame(k)
  BY <1>4, <1>5, <1>6 DEF QSame
<1>8. Peeked(k)'
  <2>1. \A n \in Nat : attempt[k] =< n => attempt'[k] =< n
    BY <1>5 DEF QueueInv, QueueTypeOK, Attempt, Pass, Elapse, Ripen, PassDeadline, Expire, ExpireDedupe
  <2>2. \A q \in Pump : pump[q].copy[k] \in Nat
    BY TickParts DEF Copy, Attempt
  <2> QED BY <1>1, <1>5, <2>1, <2>2 DEF Sound, Peeked, PeekedBy, Plans, Pass
<1>9. \A q \in Pump : Marked(q, k)' => Marked(q, k) /\ (k \in pending' => payload'[k] # "live")
  BY <1>1, <1>5 DEF Sound, Dead
<1>10. \A w \in Worker : worker'[w].job = k => k \notin pending'
  BY <1>5 DEF Sound, SlotKept, Pass
<1>11. (\E w \in Worker : UsedBy(w, k)' /\ worker'[w].at = "run") => attempt'[k] = attempt[k]
  BY <1>7 DEF Used, QSame
<1> QED BY <1>1, <1>2, <1>3, <1>7, <1>8, <1>9, <1>10, <1>11, Fewer

-----------------------------------------------------------------------------
(* Pumps *)

\* A pump steps to tick r.
LEMMA TickOf ==
    ASSUME ProcessInv, NEW p \in Pump, NEW r, Step(p, r)
    PROVE  pump'[p] = r
BY DEF ProcessInv, Step

\* What a pump holds and marks when it goes on to discard jobs.
LEMMA DiscardingParts ==
    ASSUME NEW gone, NEW known, NEW next, NEW todo, NEW copy
    PROVE  /\ Discarding(gone, known, next, todo, copy).todo = todo
           /\ Discarding(gone, known, next, todo, copy).gone = gone
           /\ Discarding(gone, known, next, todo, copy).cut = NoJob
           /\ Discarding(gone, known, next, todo, copy).copy = copy
           /\ Discarding(gone, known, next, todo, copy).at \in {next, "discard"}
           /\ Discarding(gone, known, next, todo, copy).next \in {next, "off"}
BY DEF Discarding

\* A pump that begins, reads or gives up takes no job up.
LEMMA ReadsSound ==
    ASSUME TypeInv, Alone, NEW k \in Job, Sound(k), NEW p \in Pump, k \notin disturbed',
           \/ ReapScan(p) \/ ReapRead(p) \/ Peek(p) \/ HydrateFails(p)
           \/ \E batch \in SUBSET Job : Hydrate(p, batch)
           \/ FinishTick(p) \/ PumpDies(p)
    PROVE  Sound(k)'
<1> USE DEF TypeInv
<1>1. QSame(k) /\ UNCHANGED <<worker, overlapped, mail>> /\ pump[p].at # "off"
  BY DEF ReapScan, ReapRead, Peek, HydrateFails, Hydrate, FinishTick, PumpDies, QSame, queue, ghosts
<1>2. NoJob # k
  BY PumpAssumption
<1>3. CASE ReapScan(p)
  <2>1. pump'[p] = [Off EXCEPT !.at = "mget", !.todo = pending \cup reserved]
    BY <1>3, TickOf DEF ReapScan
  <2>2. ~ Holds(p, k)' /\ ~ Marked(p, k)' /\ PeekedBy(p, k)'
    BY <1>2, <2>1 DEF Off, Holds, Marked, PeekedBy, Plans
  <2> QED BY <1>1, <1>3, <2>2, PumpMoves DEF ReapScan
<1>4. CASE FinishTick(p) \/ PumpDies(p)
  <2>1. pump'[p] = Off
    BY <1>4, TickOf DEF FinishTick, PumpDies
  <2>2. ~ Holds(p, k)' /\ ~ Marked(p, k)' /\ PeekedBy(p, k)'
    BY <1>2, <2>1 DEF Off, Holds, Marked, PeekedBy, Plans
  <2> QED BY <1>1, <1>4, <2>2, PumpMoves DEF FinishTick, PumpDies
<1>5. CASE ReapRead(p)
  <2> DEFINE gone == {j \in pump[p].todo : payload[j] = "none"}
  <2>1. pump'[p] = Discarding(gone, {}, "peek", {}, Off.copy)
    BY <1>5, TickOf DEF ReapRead
  <2>2. ~ Holds(p, k)' /\ PeekedBy(p, k)'
    BY <2>1, DiscardingParts DEF Holds, PeekedBy, Plans
  <2>3. Marked(p, k)' => payload[k] = "none"
    BY <1>2, <2>1, DiscardingParts DEF Marked
  <2>4. payload[k] = "none" => ~ Used(k)
    BY DEF Sound, SlotKept, InSlot, Used
  <2> QED BY <1>1, <1>5, <2>2, <2>3, <2>4, PumpMoves DEF ReapRead
<1>6. CASE Peek(p)
  <2> DEFINE todo == IF Cardinality(reserved) < MaxReserved THEN pending \ delayed ELSE {}
  <2>1. pump'[p] = [Off EXCEPT !.at = "hydrate", !.todo = todo]
    BY <1>6, TickOf DEF Peek
  <2>2. ~ Holds(p, k)' /\ ~ Marked(p, k)'
    BY <1>2, <2>1 DEF Off, Holds, Marked
  <2>3. PeekedBy(p, k)'
    BY <1>1, <2>1 DEF Off, PeekedBy, Plans, QSame
  <2> QED BY <1>1, <1>6, <2>2, <2>3, PumpMoves DEF Peek
<1>7. CASE HydrateFails(p)
  <2>1. pump'[p] = Discarding(pump[p].todo, {}, "reserve", {}, Off.copy)
    BY <1>7, TickOf DEF HydrateFails
  <2>2. ~ Holds(p, k)' /\ PeekedBy(p, k)'
    BY <2>1, DiscardingParts DEF Holds, PeekedBy, Plans
  <2>3. ~ Marked(p, k)'
    BY <1>2, <1>7, <2>1, DiscardingParts DEF Marked, HydrateFails
  <2> QED BY <1>1, <1>7, <2>2, <2>3, PumpMoves DEF HydrateFails
<1>8. CASE \E batch \in SUBSET Job : Hydrate(p, batch)
  <2>1. PICK batch \in SUBSET Job : Hydrate(p, batch)
    BY <1>8
  <2> DEFINE gone == {j \in pump[p].todo : payload[j] # "live"}
             known == {j \in gone : payload[j] = "late"}
             copy == [j \in Job |-> IF j \in batch THEN attempt[j] ELSE 0]
  <2>2. pump'[p] = Discarding(gone, known, "reserve", batch, copy)
    BY <2>1, TickOf DEF Hydrate
  <2>3. ~ Holds(p, k)'
    BY <2>2, DiscardingParts DEF Holds
  <2>4. Marked(p, k)' => payload[k] # "live"
    BY <1>2, <2>2, DiscardingParts DEF Marked
  <2>5. payload[k] # "live" => ~ Used(k)
    BY DEF Sound, SlotKept, InSlot, Used
  <2>6. overlapped = {} => PeekedBy(p, k)'
    <3> SUFFICES ASSUME overlapped = {} PROVE PeekedBy(p, k)'
      OBVIOUS
    <3>1. pump'[p].at # "hydrate"
      BY <2>2, DiscardingParts
    <3>2. k \in pump'[p].todo => k \in batch /\ k \in pump[p].todo
      BY <2>1, <2>2, DiscardingParts DEF Hydrate
    <3>3. k \in pump[p].todo => k \in pending
      BY <2>1 DEF Sound, Peeked, PeekedBy, Hydrate
    <3>4. k \in batch => pump'[p].copy[k] = attempt[k]
      BY <2>2, DiscardingParts
    <3>5. attempt[k] =< attempt[k]
      BY DEF QueueInv, QueueTypeOK, Attempt
    <3> QED BY <1>1, <3>1, <3>2, <3>3, <3>4, <3>5 DEF PeekedBy, Plans, QSame
  <2> QED BY <1>1, <2>1, <2>3, <2>4, <2>5, <2>6, PumpMoves DEF Hydrate
<1> QED BY <1>3, <1>4, <1>5, <1>6, <1>7, <1>8

\* A tick that begins.
LEMMA StartSound ==
    ASSUME TypeInv, NEW k \in Job, Sound(k), NEW p \in Pump, NEW at \in {"reap", "peek"},
           StartTick(p, at)
    PROVE  Sound(k)'
<1> USE DEF TypeInv
<1>1. QSame(k) /\ UNCHANGED <<worker, mail>>
  BY DEF StartTick, QSame, queue
<1>2. pump'[p] = [Off EXCEPT !.at = at]
  BY TickOf DEF StartTick
<1>3. ~ Holds(p, k)' /\ ~ Marked(p, k)' /\ PeekedBy(p, k)'
  BY <1>2, PumpAssumption DEF Off, Holds, Marked, PeekedBy, Plans
<1>4. \A q \in Pump \ {p} : pump'[q] = pump[q]
  BY DEF StartTick, Step, ProcessInv
<1>5. \A q \in Pump : Holds(q, k)' => Holds(q, k) /\ pump'[q].copy = pump[q].copy
  BY <1>3, <1>4 DEF Holds
<1>6. \A q \in Pump : Marked(q, k)' => Marked(q, k) /\ (k \in pending' => payload'[k] # "live")
  BY <1>1, <1>3, <1>4 DEF Marked, Sound, Dead, QSame
<1>7. Peeked(k)'
  <2> SUFFICES ASSUME overlapped' = {}, NEW q \in Pump \ {p} PROVE PeekedBy(q, k)'
    BY <1>3 DEF Peeked
  <2>1. AtWork = {}
    BY DEF StartTick
  <2>2. pump[q].at = "off" /\ pump[q].next = "off"
    BY <2>1 DEF AtWork, ProcessInv, GoodTick
  <2> QED BY <1>4, <2>2 DEF PeekedBy, Plans
<1>8. \A w \in Worker : Further(w, k) /\ (worker'[w].job = k => k \notin pending')
  BY <1>1 DEF Further, Sound, SlotKept, UsedBy, QSame
<1>9. mail[k] \in Nat /\ mail'[k] \in Nat /\ mail'[k] =< mail[k] /\ attempt'[k] = attempt[k]
  BY <1>1 DEF ProcessInv, QSame
<1> QED BY <1>1, <1>5, <1>6, <1>7, <1>8, <1>9, Fewer

\* What a pump discards, it or a worker has found dead.
LEMMA PumpPurgeSound ==
    ASSUME TypeInv, Alone, NEW k \in Job, Sound(k), NEW p \in Pump, NEW j \in Job,
           NEW resolved \in BOOLEAN, PumpPurge(p, j, resolved)
    PROVE  Sound(k)'
<1> USE DEF TypeInv
<1>1. pump'[p] = [pump[p] EXCEPT !.at = "delete", !.gone = @ \ {j}, !.cut = j,
                                 !.known = IF resolved THEN @ \cup {j} ELSE @]
  BY TickOf DEF PumpPurge
<1>2. /\ pump[p] \in Tick /\ pump[p].at = "discard" /\ j \in pump[p].gone
      /\ pump[p].gone \cap pump[p].todo = {}
  BY DEF PumpPurge, ProcessInv, GoodTick
<1>3. /\ pump'[p].todo = pump[p].todo /\ pump'[p].next = pump[p].next /\ pump'[p].at = "delete"
      /\ pump'[p].copy = pump[p].copy /\ pump'[p].gone = pump[p].gone \ {j} /\ pump'[p].cut = j
  BY <1>1, <1>2 DEF Tick
<1>4. Holds(p, k)' => Holds(p, k)
  BY <1>2, <1>3 DEF Holds
<1>5. UNCHANGED <<worker, overlapped, mail>>
  BY DEF PumpPurge, ghosts
<1>6. Marked(p, k)' => Marked(p, k)
  BY <1>2, <1>3 DEF Marked
<1>7. CASE j # k
  <2>1. QSame(k)
    BY <1>7, OtherJobs DEF PumpPurge
  <2>2. overlapped = {} => PeekedBy(p, k)'
    BY <1>2, <1>3, <2>1 DEF Sound, Peeked, PeekedBy, Plans, QSame
  <2> QED BY <1>2, <1>3, <1>4, <1>5, <1>6, <2>1, <2>2, PumpMoves DEF PumpPurge
<1>8. CASE j = k
  <2>1. ~ Used(k)
    BY <1>2, <1>8 DEF Marked, Sound, Dead
  <2>2. \A q \in Pump \ {p} : pump'[q] = pump[q]
    BY DEF PumpPurge, Step, ProcessInv
  <2>3. \A q \in Pump : (Holds(q, k)' => Holds(q, k)) /\ pump'[q].copy = pump[q].copy /\ (Marked(q, k)' => Marked(q, k))
    BY <1>3, <1>4, <1>6, <2>2 DEF Holds, Marked
  <2>4. k \notin pending' /\ payload'[k] = payload[k] /\ attempt'[k] = attempt[k]
    BY <1>8 DEF PumpPurge, Purge
  <2>5. Peeked(k)'
    <3> SUFFICES ASSUME overlapped = {}, NEW q \in Pump PROVE PeekedBy(q, k)'
      BY <1>5 DEF Peeked
    <3>1. CASE q = p
      BY <1>2, <1>3, <1>8, <3>1 DEF PeekedBy, Plans
    <3>2. CASE q # p
      <4>1. pump[q].at = "off" /\ pump[q].next = "off"
        BY <1>2, <3>2 DEF Alone, AtWork, ProcessInv, GoodTick
      <4> QED BY <2>2, <3>2, <4>1 DEF PeekedBy, Plans
    <3> QED BY <3>1, <3>2
  <2>6. ~ Used(k)'
    BY <1>5, <2>1, <2>3 DEF Used, UsedBy
  <2>7. \A w \in Worker : Further(w, k)
    BY <1>5 DEF Further, Sound, SlotKept, UsedBy
  <2>8. mail[k] \in Nat /\ mail'[k] \in Nat /\ mail'[k] =< mail[k]
    BY <1>5 DEF ProcessInv
  <2> QED BY <2>1, <2>3, <2>4, <2>5, <2>6, <2>7, <2>8, Fewer
<1> QED BY <1>7, <1>8

\* The keys of what it has purged.
LEMMA PumpDeleteSound ==
    ASSUME TypeInv, Alone, NEW k \in Job, Sound(k), NEW p \in Pump, PumpDelete(p)
    PROVE  Sound(k)'
<1> USE DEF TypeInv
<1> DEFINE r == Discarding(pump[p].gone, pump[p].known \cap pump[p].gone, pump[p].next, pump[p].todo, pump[p].copy)
<1>1. pump'[p] = r
  BY TickOf DEF PumpDelete
<1>2. pump[p].at = "delete" /\ pump[p].next # "off" /\ pump[p].cut \in Job /\ pump[p].cut \notin pump[p].todo
  BY DEF PumpDelete, ProcessInv, GoodTick
<1>3. /\ pump'[p].todo = pump[p].todo /\ pump'[p].next \in {pump[p].next, "off"}
      /\ pump'[p].at \in {pump[p].next, "discard"}
      /\ pump'[p].copy = pump[p].copy /\ pump'[p].gone = pump[p].gone /\ pump'[p].cut = NoJob
  BY <1>1, DiscardingParts
<1>4. pump[p].next \in {"peek", "reserve", "requeue"}
  BY <1>2 DEF ProcessInv, GoodTick, Tick
<1>5. Holds(p, k)' => Holds(p, k)
  BY <1>2, <1>3, <1>4 DEF Holds
<1>6. UNCHANGED <<worker, overlapped, mail>>
  BY DEF PumpDelete, ghosts
<1>7. Marked(p, k)' => Marked(p, k)
  BY <1>3, PumpAssumption DEF Marked
<1>8. CASE pump[p].cut # k
  <2>1. QSame(k)
    BY <1>8, OtherJobs, PumpDeleteKeys DEF PumpDelete
  <2>2. overlapped = {} => PeekedBy(p, k)'
    BY <1>3, <1>4, <2>1 DEF Sound, Peeked, PeekedBy, Plans, QSame
  <2> QED BY <1>2, <1>3, <1>5, <1>6, <1>7, <2>1, <2>2, PumpMoves DEF PumpDelete
<1>9. CASE pump[p].cut = k
  <2>1. ~ Used(k)
    BY <1>9 DEF Marked, Sound, Dead
  <2>2. \A q \in Pump \ {p} : pump'[q] = pump[q]
    BY DEF PumpDelete, Step, ProcessInv
  <2>3. \A q \in Pump : (Holds(q, k)' => Holds(q, k)) /\ pump'[q].copy = pump[q].copy /\ (Marked(q, k)' => Marked(q, k))
    BY <1>3, <1>5, <1>7, <2>2 DEF Holds, Marked
  <2>4. pending' = pending /\ payload'[k] = "none"
    BY <1>9 DEF PumpDelete, DeleteKeys, QueueInv, QueueTypeOK
  <2>5. Peeked(k)'
    <3> SUFFICES ASSUME overlapped = {}, NEW q \in Pump PROVE PeekedBy(q, k)'
      BY <1>6 DEF Peeked
    <3>1. CASE q = p
      BY <1>2, <1>3, <1>9, <3>1 DEF PeekedBy, Plans
    <3>2. CASE q # p
      <4>1. pump[q].at = "off" /\ pump[q].next = "off"
        BY <1>2, <3>2 DEF Alone, AtWork, ProcessInv, GoodTick
      <4> QED BY <2>2, <3>2, <4>1 DEF PeekedBy, Plans
    <3> QED BY <3>1, <3>2
  <2>6. ~ Used(k)'
    BY <1>6, <2>1, <2>3 DEF Used, UsedBy
  <2>7. \A w \in Worker : Further(w, k)
    BY <1>6 DEF Further, Sound, SlotKept, UsedBy
  <2>8. mail[k] \in Nat /\ mail'[k] \in Nat /\ mail'[k] =< mail[k]
    BY <1>6 DEF ProcessInv
  <2>9. \A w \in Worker : worker'[w].job = k => k \notin pending'
    BY <1>6, <2>4 DEF Sound, SlotKept
  <2>10. \A w \in Worker : ~ UsedBy(w, k)'
    BY <2>6 DEF Used
  <2>11. (\E w \in Worker : UsedBy(w, k)' /\ worker'[w].at = "run") => attempt'[k] = attempt[k]
    BY <2>10
  <2>12. \A q \in Pump : Marked(q, k)' =>
             /\ Marked(q, k) \/ ~ Used(k)
             /\ k \in pending' => payload'[k] # "live"
    BY <2>1, <2>4
  <2> QED BY <2>3, <2>5, <2>6, <2>7, <2>8, <2>9, <2>11, <2>12, Fewer
<1> QED BY <1>8, <1>9

\* A slot for a job that waits: nobody has it in hand.
LEMMA ReserveSound ==
    ASSUME TypeInv, Alone, NEW k \in Job, Sound(k), NEW p \in Pump, NEW S \in SUBSET Job,
           NEW answered \in BOOLEAN, PumpReserve(p, S, answered), k \notin disturbed'
    PROVE  Sound(k)'
<1> USE DEF TypeInv
<1> DEFINE r == IF answered THEN [pump[p] EXCEPT !.at = "publish", !.todo = S]
                ELSE [Off EXCEPT !.at = "publish"]
<1>1. pump'[p] = r
  BY TickOf DEF PumpReserve
<1>2. pump[p] \in Tick /\ pump[p].at = "reserve" /\ pump[p].next = "off"
  BY DEF PumpReserve, ProcessInv, GoodTick
<1>3. /\ pump'[p].at = "publish" /\ pump'[p].next = "off"
      /\ pump'[p].todo = IF answered THEN S ELSE {}
      /\ answered => /\ pump'[p].copy = pump[p].copy
                     /\ pump'[p].gone = pump[p].gone /\ pump'[p].cut = pump[p].cut
      /\ ~ answered => pump'[p].gone = {} /\ pump'[p].cut = NoJob
  BY <1>1, <1>2 DEF Tick, Off
<1>4. S \in SUBSET pending /\ UNCHANGED <<worker, overlapped, mail>> /\ QueueInv'
  <2>1. QueueInv'
    BY ReserveKeeps, TickParts DEF PumpReserve, Copy
  <2> QED BY <2>1 DEF PumpReserve, Reserve
<1>5. PeekedBy(p, k)'
  BY <1>3 DEF PeekedBy, Plans
<1>6. Marked(p, k)' => Marked(p, k)
  BY <1>3, PumpAssumption DEF Marked
<1>7. ~ Holds(p, k)
  BY <1>2 DEF Holds
<1>8. CASE k \notin S
  <2>1. QSame(k)
    BY <1>8 DEF PumpReserve, Reserve, QSame, QueueInv, QueueTypeOK
  <2>2. ~ Holds(p, k)'
    BY <1>3, <1>8 DEF Holds
  <2> QED BY <1>2, <1>4, <1>5, <1>6, <2>1, <2>2, PumpMoves DEF PumpReserve
<1>9. CASE k \in S
  <2>1. k \in pending /\ k \notin reserved
    BY <1>4, <1>9 DEF QueueInv, SlotsBounded
  <2>2. ~ Used(k) /\ \A w \in Worker : worker[w].job # k
    BY <2>1 DEF Used, Sound, SlotKept, InSlot
  <2>3. ~ Doomed(k)
    BY <1>9 DEF PumpReserve
  <2>4. \A q \in Pump : ~ Marked(q, k)
    BY <2>3 DEF Doomed, Marked
  <2>5. InSlot(k)' /\ attempt'[k] = pump[p].copy[k]
    BY <1>9 DEF PumpReserve, Reserve, InSlot
  <2>6. \A q \in Pump \ {p} : pump'[q] = pump[q]
    BY DEF PumpReserve, Step, ProcessInv
  <2>7. /\ mail'[k] = 0 /\ \A w \in Worker : worker'[w].job # k
        /\ \A q \in Pump \ {p} : ~ Holds(q, k)'
        /\ \A q \in Pump : ~ Marked(q, k)'
    <3>1. mail[k] = 0
      BY <2>2 DEF Used, ProcessInv
    <3>2. \A q \in Pump \ {p} : ~ Holds(q, k)
      BY <2>2 DEF Used
    <3> QED BY <1>4, <1>6, <2>2, <2>4, <2>6, <3>1, <3>2 DEF Holds, Marked
  <2>8. Holds(p, k)' => pump'[p].copy[k] = attempt'[k]
    BY <1>3, <2>5 DEF Holds
  <2>9. Peeked(k)'
    <3> SUFFICES ASSUME overlapped = {}, NEW q \in Pump \ {p} PROVE PeekedBy(q, k)'
      BY <1>4, <1>5 DEF Peeked
    <3>1. pump[q].at = "off" /\ pump[q].next = "off"
      BY <1>2 DEF Alone, AtWork, ProcessInv, GoodTick
    <3> QED BY <2>6, <3>1 DEF PeekedBy, Plans
  <2>10. OneHand(k)'
    BY <2>7 DEF OneHand
  <2>11. SlotKept(k)'
    BY <2>5, <2>7, <2>8 DEF SlotKept, UsedBy
  <2>12. Dead(k)'
    BY <2>7 DEF Dead
  <2> QED BY <2>9, <2>10, <2>11, <2>12 DEF Sound
<1> QED BY <1>8, <1>9

\* A message takes the job from the pump that had its slot.
LEMMA PublishSound ==
    ASSUME TypeInv, Alone, NEW k \in Job, Sound(k), NEW p \in Pump, NEW j \in Job, Publish(p, j)
    PROVE  Sound(k)'
<1> USE DEF TypeInv
<1>1. pump'[p] = [pump[p] EXCEPT !.todo = @ \ {j}]
  BY TickOf DEF Publish
<1>2. pump[p] \in Tick /\ pump[p].at = "publish" /\ pump[p].next = "off" /\ j \in pump[p].todo
  BY DEF Publish, ProcessInv, GoodTick
<1>3. /\ pump'[p].at = "publish" /\ pump'[p].next = "off"
      /\ pump'[p].todo = pump[p].todo \ {j} /\ pump'[p].copy = pump[p].copy
      /\ pump'[p].gone = pump[p].gone /\ pump'[p].cut = pump[p].cut
  BY <1>1, <1>2 DEF Tick
<1>4. QSame(k) /\ UNCHANGED <<worker, overlapped>>
  BY DEF Publish, queue, QSame, ghosts
<1>5. PeekedBy(p, k)'
  BY <1>3 DEF PeekedBy, Plans
<1>6. Holds(p, k)' => Holds(p, k) /\ k # j
  BY <1>2, <1>3 DEF Holds
<1>7. Marked(p, k)' => Marked(p, k)
  BY <1>3 DEF Marked
<1>8. CASE j # k
  <2>1. mail'[k] = mail[k]
    BY <1>8 DEF Publish, ProcessInv
  <2> QED BY <1>2, <1>3, <1>4, <1>5, <1>6, <1>7, <2>1, PumpMoves DEF Publish
<1>9. CASE j = k
  <2>1. Holds(p, k)
    BY <1>2, <1>9 DEF Holds
  <2>2. mail[k] = 0 /\ \A w \in Worker : worker[w].job # k
    BY <2>1 DEF Sound, OneHand
  <2>3. \A q \in Pump \ {p} : ~ Holds(q, k) /\ pump'[q] = pump[q]
    BY <2>1 DEF Sound, OneHand, Publish, Step, ProcessInv
  <2>4. \A q \in Pump : ~ Holds(q, k)'
    BY <1>6, <1>9, <2>3 DEF Holds
  <2>5. \A q \in Pump : ~ Marked(q, k)
    BY <2>1 DEF Sound, Dead, Used
  <2>6. \A q \in Pump : ~ Marked(q, k)'
    BY <1>7, <2>3, <2>5 DEF Marked
  <2>7. mail'[k] = 1
    BY <1>9, <2>2 DEF Publish, ProcessInv
  <2>8. InSlot(k)'
    BY <1>4, <2>1 DEF Sound, SlotKept, InSlot, QSame
  <2>9. Peeked(k)'
    <3> SUFFICES ASSUME overlapped = {}, NEW q \in Pump \ {p} PROVE PeekedBy(q, k)'
      BY <1>4, <1>5 DEF Peeked
    <3>1. pump[q].at = "off" /\ pump[q].next = "off"
      BY <1>2 DEF Alone, AtWork, ProcessInv, GoodTick
    <3> QED BY <2>3, <3>1 DEF PeekedBy, Plans
  <2>10. OneHand(k)'
    BY <1>4, <2>2, <2>4, <2>7 DEF OneHand
  <2>11. SlotKept(k)'
    BY <1>4, <2>2, <2>4, <2>8 DEF SlotKept, UsedBy
  <2>12. Dead(k)'
    BY <2>6 DEF Dead
  <2> QED BY <2>9, <2>10, <2>11, <2>12 DEF Sound
<1> QED BY <1>8, <1>9

\* A message that fails, and a job of the tail whose wait is over.
LEMMA TailKeptSound ==
    ASSUME TypeInv, Alone, NEW k \in Job, Sound(k), NEW p \in Pump, NEW j \in Job, k \notin disturbed',
           SpendTail(p, j) \/ \E delivered \in BOOLEAN : PublishFails(p, j, delivered)
    PROVE  Sound(k)'
<1> USE DEF TypeInv
<1>1. CASE SpendTail(p, j)
  <2>1. pump'[p] = Discarding({j}, {j}, "requeue", pump[p].todo \ {j}, pump[p].copy)
    BY <1>1, TickOf DEF SpendTail
  <2>2. pump[p].at = "requeue" /\ j \in pump[p].todo
    BY <1>1 DEF SpendTail
  <2>3. /\ pump'[p].todo = pump[p].todo \ {j} /\ pump'[p].copy = pump[p].copy
        /\ pump'[p].gone = {j} /\ pump'[p].cut = NoJob
        /\ pump'[p].at \in {"requeue", "discard"} /\ pump'[p].next \in {"requeue", "off"}
    BY <2>1, DiscardingParts
  <2>4. Holds(p, k)' => Holds(p, k)
    BY <2>2, <2>3 DEF Holds
  <2>5. PeekedBy(p, k)'
    BY <2>3 DEF PeekedBy, Plans
  <2>6. QSame(k) /\ UNCHANGED <<worker, overlapped, mail>>
    BY <1>1 DEF SpendTail, queue, QSame, ghosts
  <2>7. k # j \/ pump'[p].at # "requeue"
    BY <2>1 DEF Discarding
  <2>8. CASE k # j
    <3>1. ~ Marked(p, k)'
      BY <2>3, <2>8, PumpAssumption DEF Marked
    <3> QED BY <1>1, <2>2, <2>3, <2>4, <2>5, <2>6, <3>1, PumpMoves DEF SpendTail
  <2>9. CASE k = j
    <3>1. Holds(p, k)
      BY <2>2, <2>9 DEF Holds
    <3>2. mail[k] = 0 /\ (\A w \in Worker : worker[w].job # k) /\ k \notin pending
      BY <3>1 DEF Sound, OneHand, SlotKept, InSlot, QueueInv, SlotsBounded
    <3>3. \A q \in Pump \ {p} : ~ Holds(q, k) /\ pump'[q] = pump[q]
      BY <1>1, <3>1 DEF Sound, OneHand, SpendTail, Step, ProcessInv
    <3>4. \A q \in Pump : ~ Holds(q, k)'
      BY <2>3, <2>9, <3>3 DEF Holds
    <3>5. k \notin pending'
      BY <2>6, <3>2 DEF QSame
    <3>6. Peeked(k)'
      <4> SUFFICES ASSUME overlapped = {}, NEW q \in Pump \ {p} PROVE PeekedBy(q, k)'
        BY <2>5, <2>6 DEF Peeked
      <4>1. pump[q].at = "off" /\ pump[q].next = "off"
        BY <2>2 DEF Alone, AtWork, ProcessInv, GoodTick
      <4> QED BY <3>3, <4>1 DEF PeekedBy, Plans
    <3>7. OneHand(k)' /\ SlotKept(k)'
      BY <2>6, <3>2, <3>4 DEF OneHand, SlotKept, UsedBy
    <3>8. Dead(k)'
      BY <2>6, <3>2, <3>4, <3>5 DEF Dead, Used, UsedBy
    <3> QED BY <3>6, <3>7, <3>8 DEF Sound
  <2> QED BY <2>8, <2>9
<1>2. ASSUME NEW delivered \in BOOLEAN, PublishFails(p, j, delivered) PROVE Sound(k)'
  <2>1. pump'[p] = [pump[p] EXCEPT !.at = "requeue"]
    BY <1>2, TickOf DEF PublishFails
  <2>2. pump[p] \in Tick /\ pump[p].at = "publish" /\ pump[p].next = "off"
    BY <1>2 DEF PublishFails, ProcessInv, GoodTick
  <2>3. /\ pump'[p].at = "requeue" /\ pump'[p].next = "off"
        /\ pump'[p].todo = pump[p].todo /\ pump'[p].copy = pump[p].copy
        /\ pump'[p].gone = pump[p].gone /\ pump'[p].cut = pump[p].cut
    BY <2>1, <2>2 DEF Tick
  <2>4. mail'[k] = mail[k]
    BY <1>2 DEF PublishFails, ProcessInv
  <2>5. QSame(k) /\ UNCHANGED <<worker, overlapped>>
    BY <1>2 DEF PublishFails, queue, QSame
  <2>6. /\ Holds(p, k)' => Holds(p, k)
        /\ Marked(p, k)' => Marked(p, k)
        /\ PeekedBy(p, k)'
    BY <2>2, <2>3 DEF Holds, Marked, PeekedBy, Plans
  <2> QED BY <1>2, <2>2, <2>3, <2>4, <2>5, <2>6, PumpMoves DEF PublishFails
<1> QED BY <1>1, <1>2

\* A job of the tail goes back to waiting, or keeps a slot that will expire.
LEMMA RequeueTailSound ==
    ASSUME TypeInv, Alone, NEW k \in Job, Sound(k), NEW p \in Pump, NEW j \in Job, RequeueTail(p, j)
    PROVE  Sound(k)'
<1> USE DEF TypeInv
<1>1. pump'[p] = [pump[p] EXCEPT !.todo = @ \ {j}]
  BY TickOf DEF RequeueTail
<1>2. pump[p] \in Tick /\ pump[p].at = "requeue" /\ pump[p].next = "off" /\ j \in pump[p].todo
  BY DEF RequeueTail, ProcessInv, GoodTick
<1>3. /\ pump'[p].at = "requeue" /\ pump'[p].next = "off"
      /\ pump'[p].todo = pump[p].todo \ {j} /\ pump'[p].copy = pump[p].copy
      /\ pump'[p].gone = pump[p].gone /\ pump'[p].cut = pump[p].cut
  BY <1>1, <1>2 DEF Tick
<1>4. UNCHANGED <<worker, overlapped, mail>>
  BY DEF RequeueTail, ghosts
<1>5. /\ PeekedBy(p, k)'
      /\ Holds(p, k)' => Holds(p, k) /\ k # j
      /\ Marked(p, k)' => Marked(p, k)
  BY <1>2, <1>3 DEF PeekedBy, Plans, Holds, Marked
<1>6. CASE j # k
  <2>1. QSame(k)
    BY <1>6, OtherJobs DEF RequeueTail
  <2> QED BY <1>2, <1>3, <1>4, <1>5, <2>1, PumpMoves DEF RequeueTail
<1>7. CASE j = k
  <2>1. Holds(p, k)
    BY <1>2, <1>7 DEF Holds
  <2>2. mail[k] = 0 /\ \A w \in Worker : worker[w].job # k
    BY <2>1 DEF Sound, OneHand
  <2>3. \A q \in Pump \ {p} : ~ Holds(q, k) /\ pump'[q] = pump[q]
    BY <2>1 DEF Sound, OneHand, RequeueTail, Step, ProcessInv
  <2>4. \A q \in Pump : ~ Holds(q, k)'
    BY <1>5, <1>7, <2>3 DEF Holds
  <2>5. \A q \in Pump : ~ Marked(q, k)
    BY <2>1 DEF Sound, Dead, Used
  <2>6. \A q \in Pump : ~ Marked(q, k)'
    BY <1>5, <2>3, <2>5 DEF Marked
  <2>7. Peeked(k)'
    <3> SUFFICES ASSUME overlapped = {}, NEW q \in Pump \ {p} PROVE PeekedBy(q, k)'
      BY <1>4, <1>5 DEF Peeked
    <3>1. pump[q].at = "off" /\ pump[q].next = "off"
      BY <1>2 DEF Alone, AtWork, ProcessInv, GoodTick
    <3> QED BY <2>3, <3>1 DEF PeekedBy, Plans
  <2>8. OneHand(k)' /\ SlotKept(k)' /\ Dead(k)'
    BY <1>4, <2>2, <2>4, <2>6 DEF OneHand, SlotKept, Dead, UsedBy
  <2> QED BY <2>7, <2>8 DEF Sound
<1> QED BY <1>6, <1>7

\* Every step of a pump keeps a job sound that it does not disturb.
LEMMA PumpStepSound ==
    ASSUME TypeInv, Alone, NEW k \in Job, Sound(k), k \notin disturbed', NEW p \in Pump, PumpStep(p)
    PROVE  Sound(k)'
<1>1. CASE \/ ReapScan(p) \/ ReapRead(p) \/ Peek(p) \/ HydrateFails(p)
           \/ \E batch \in SUBSET Job : Hydrate(p, batch)
           \/ FinishTick(p) \/ PumpDies(p)
  BY <1>1, ReadsSound
<1>2. CASE \/ \E j \in Job, resolved \in BOOLEAN : PumpPurge(p, j, resolved)
           \/ \E j \in Job : Publish(p, j) \/ RequeueTail(p, j)
  BY <1>2, PumpPurgeSound, PublishSound, RequeueTailSound
<1>3. CASE PumpDelete(p)
  BY <1>3, PumpDeleteSound
<1>4. CASE \E j \in Job : SpendTail(p, j) \/ \E delivered \in BOOLEAN : PublishFails(p, j, delivered)
  BY <1>4, TailKeptSound
<1>5. CASE \E S \in SUBSET Job, answered \in BOOLEAN : PumpReserve(p, S, answered)
  BY <1>5, ReserveSound
<1> QED BY <1>1, <1>2, <1>3, <1>4, <1>5 DEF PumpStep

-----------------------------------------------------------------------------
(* Workers *)

\* A worker becomes r.
LEMMA RunOf ==
    ASSUME ProcessInv, NEW w \in Worker, NEW r, Become(w, r)
    PROVE  worker'[w] = r /\ \A v \in Worker \ {w} : worker'[v] = worker[v]
BY DEF ProcessInv, Become

\* A message is taken by one worker, which then has the job in hand.
LEMMA ReceiveSound ==
    ASSUME TypeInv, NEW k \in Job, Sound(k), NEW w \in Worker, NEW j \in Job, k \notin disturbed',
           Receive(w, j) \/ ReceiveNothing(w, j)
    PROVE  Sound(k)'
<1> USE DEF TypeInv
<1> DEFINE r == IF Receive(w, j)
                THEN [at |-> IF j \in pending THEN "stray" ELSE "run", job |-> j, copy |-> attempt[j]]
                ELSE [at |-> "discard", job |-> j, copy |-> 0]
<1>1. Become(w, r)
  BY DEF Receive, ReceiveNothing
<1>2. worker'[w] = r /\ \A v \in Worker \ {w} : worker'[v] = worker[v]
  BY <1>1, RunOf
<1>3. QSame(k) /\ UNCHANGED <<pump, overlapped>> /\ mail[j] > 0
  BY DEF Receive, ReceiveNothing, QSame, queue, ghosts
<1>4. worker'[w].job = j
  BY <1>2
<1>5. CASE j # k
  <2>1. mail'[k] = mail[k]
    BY <1>5 DEF Receive, ReceiveNothing, ProcessInv
  <2>2. Further(w, k)
    BY <1>4, <1>5 DEF Further
  <2> HIDE DEF r
  <2> QED BY <1>1, <1>3, <2>1, <2>2, WorkerMoves
<1>6. CASE j = k
  <2>1. mail'[k] = 0 /\ mail[k] > 0
    BY <1>3, <1>6 DEF Receive, ReceiveNothing, ProcessInv, Sound, OneHand
  <2>2. (\A q \in Pump : ~ Holds(q, k)) /\ (\A v \in Worker : worker[v].job # k)
    BY <2>1 DEF Sound, OneHand
  <2>3. InSlot(k) /\ k \notin pending /\ \A q \in Pump : ~ Marked(q, k)
    BY <2>1 DEF Sound, SlotKept, InSlot, QueueInv, SlotsBounded, Dead, Used
  <2>4. worker'[w].at \in {"run", "discard"} /\ (worker'[w].at = "run" => worker'[w].copy = attempt[k])
    BY <1>2, <1>6, <2>3
  <2>5. \A q \in Pump : ~ Holds(q, k)' /\ ~ Marked(q, k)'
    BY <1>3, <2>2, <2>3 DEF Holds, Marked
  <2>6. \A v \in Worker : worker'[v].job = k => v = w
    BY <1>2, <2>2
  <2>7. OneHand(k)'
    BY <2>1, <2>5, <2>6 DEF OneHand
  <2>8. SlotKept(k)'
    BY <1>3, <2>1, <2>3, <2>4, <2>5, <2>6 DEF SlotKept, InSlot, QSame, UsedBy
  <2>9. Dead(k)'
    BY <2>5 DEF Dead
  <2>10. Peeked(k)'
    BY <1>3 DEF Sound, Peeked, PeekedBy, Plans, QSame
  <2> QED BY <2>7, <2>8, <2>9, <2>10 DEF Sound
<1> QED BY <1>5, <1>6

\* The one worker of the job stops using it.
LEMMA HandEmptied ==
    ASSUME TypeInv, NEW k \in Job, Sound(k), NEW w \in Worker, worker[w].job = k, NEW r, Become(w, r),
           r.job = k => r.at \in {"delete", "leave", "lost"} /\ k \notin pending',
           UNCHANGED <<pump, mail, overlapped>>,
           \A p \in Pump : Marked(p, k) => (k \in pending' => payload'[k] # "live")
    PROVE  Sound(k)'
<1> USE DEF TypeInv
<1>1. worker'[w] = r /\ \A v \in Worker \ {w} : worker'[v] = worker[v]
  BY RunOf
<1>2. mail[k] = 0 /\ k \notin pending
  BY DEF Sound, OneHand, SlotKept
<1>3. \A q \in Pump : ~ Holds(q, k)
  BY DEF Sound, OneHand
<1>4. \A v \in Worker \ {w} : worker[v].job # k
  BY DEF Sound, OneHand
<1>5. \A q \in Pump : ~ Holds(q, k)' /\ Marked(q, k)' = Marked(q, k)
  BY <1>3 DEF Holds, Marked
<1>6. \A v \in Worker : worker'[v].job = k => v = w /\ ~ UsedBy(v, k)' /\ worker'[v].at \in {"delete", "leave", "lost"} /\ k \notin pending'
  BY <1>1, <1>4 DEF UsedBy
<1>7. ~ Used(k)'
  BY <1>2, <1>5, <1>6 DEF Used, UsedBy
<1>8. OneHand(k)'
  BY <1>2, <1>5, <1>6 DEF OneHand
<1>9. SlotKept(k)'
  BY <1>2, <1>5, <1>6 DEF SlotKept, UsedBy
<1>10. Dead(k)'
  BY <1>5, <1>7 DEF Dead
<1>11. Peeked(k)'
  BY <1>2 DEF Sound, Peeked, PeekedBy, Plans
<1> QED BY <1>8, <1>9, <1>10, <1>11 DEF Sound

\* What a call of a worker for its own job leaves alone.
LEMMA CallsAreLocal ==
    ASSUME TypeInv, NEW k \in Job, NEW w \in Worker, worker[w].job # k,
           \/ WorkerFinalize(w) \/ FinalizeFails(w) \/ WorkerRequeue(w) \/ RequeueDenied(w)
           \/ RequeueUnanswered(w) \/ RequeueSpent(w) \/ WorkerDelete(w)
           \/ (\E resolved \in BOOLEAN : WorkerPurge(w, resolved))
           \/ FailureHandler(w) \/ \E noticed \in BOOLEAN : WorkerDies(w, noticed)
    PROVE  QSame(k) /\ worker'[w].job # k
<1> USE DEF TypeInv
<1>1. QSame(k)
  BY OtherJobs DEF WorkerFinalize, FinalizeFails, WorkerRequeue, RequeueDenied, RequeueUnanswered,
     RequeueSpent, WorkerPurge, WorkerDelete, FailureHandler, WorkerDies
<1>2. \E r : Become(w, r) /\ r.job # k
  <2>1. worker[w] \in Run /\ Idle.job # k
    BY PumpAssumption DEF ProcessInv, GoodRun, Idle
  <2>2. \A at, n : [worker[w] EXCEPT !.at = at].job # k /\ [worker[w] EXCEPT !.at = at, !.copy = n].job # k
    BY <2>1 DEF Run
  <2> QED BY <2>1, <2>2 DEF WorkerFinalize, FinalizeFails, WorkerRequeue, RequeueDenied, RequeueUnanswered,
     RequeueSpent, WorkerPurge, WorkerDelete, FailureHandler, WorkerDies
<1>3. worker'[w].job # k
  BY <1>2, RunOf
<1> QED BY <1>1, <1>3

\* Every other step of a worker keeps a job sound that it does not disturb.
LEMMA WorkerCallSound ==
    ASSUME TypeInv, NEW k \in Job, Sound(k), NEW w \in Worker, k \notin disturbed',
           \/ WorkerFinalize(w) \/ FinalizeFails(w) \/ WorkerRequeue(w) \/ RequeueDenied(w)
           \/ RequeueUnanswered(w) \/ RequeueSpent(w) \/ WorkerDelete(w)
           \/ (\E resolved \in BOOLEAN : WorkerPurge(w, resolved))
           \/ FailureHandler(w) \/ \E noticed \in BOOLEAN : WorkerDies(w, noticed)
    PROVE  Sound(k)'
<1> USE DEF TypeInv
<1>1. UNCHANGED <<pump, mail, overlapped>>
  BY DEF WorkerFinalize, FinalizeFails, WorkerRequeue, RequeueDenied, RequeueUnanswered,
     RequeueSpent, WorkerPurge, WorkerDelete, FailureHandler, WorkerDies, ghosts
<1>2. CASE worker[w].job # k
  <2>1. QSame(k) /\ worker'[w].job # k
    BY <1>2, CallsAreLocal
  <2>2. Further(w, k)
    BY <2>1 DEF Further
  <2>3. \E r : Become(w, r)
    BY DEF WorkerFinalize, FinalizeFails, WorkerRequeue, RequeueDenied, RequeueUnanswered,
     RequeueSpent, WorkerPurge, WorkerDelete, FailureHandler, WorkerDies
  <2> QED BY <1>1, <2>1, <2>2, <2>3, WorkerMoves
<1>3. CASE worker[w].job = k
  <2>1. /\ worker[w] \in Run /\ Idle.job # k /\ k \notin pending
        /\ worker[w].at \in {"run", "final", "discard", "delete", "leave", "lost"}
        /\ worker[w].at \in {"run", "final", "discard"} => \A p \in Pump : ~ Marked(p, k)
    BY <1>3, PumpAssumption DEF ProcessInv, GoodRun, Idle, Sound, SlotKept, Dead, Used, UsedBy
  <2>2. CASE WorkerFinalize(w) \/ FinalizeFails(w) \/ FailureHandler(w)
    <3>1. Become(w, Idle)
      BY <2>2 DEF WorkerFinalize, FinalizeFails, FailureHandler
    <3>2. k \notin pending'
      BY <2>1, <2>2 DEF WorkerFinalize, FinalizeFails, FailureHandler, Finalize, queue
    <3> QED BY <1>1, <1>3, <2>1, <3>1, <3>2, HandEmptied
  <2>3. CASE WorkerRequeue(w)
    <3>1. Become(w, Idle) /\ \A p \in Pump : ~ Marked(p, k)
      BY <2>1, <2>3 DEF WorkerRequeue, MayRequeue
    <3> QED BY <1>1, <1>3, <2>1, <3>1, HandEmptied
  <2>4. CASE RequeueDenied(w)
    <3> DEFINE r == [worker[w] EXCEPT !.at = "final", !.copy = 0]
    <3>1. Become(w, r) /\ QSame(k) /\ worker[w].at \in {"run", "stray"}
      BY <2>4 DEF RequeueDenied, MayRequeue, queue, QSame
    <3>2. worker'[w] = r
      BY <3>1, RunOf
    <3>3. Further(w, k)
      BY <1>3, <2>1, <3>1, <3>2 DEF Further, UsedBy, Run
    <3> HIDE DEF r
    <3> QED BY <1>1, <3>1, <3>3, WorkerMoves
  <2>5. CASE RequeueUnanswered(w)
    BY <1>3, <2>5 DEF RequeueUnanswered
  <2>6. CASE RequeueSpent(w)
    BY <2>1, <2>6 DEF RequeueSpent
  <2>7. ASSUME NEW resolved \in BOOLEAN, WorkerPurge(w, resolved) PROVE Sound(k)'
    <3> DEFINE r == [worker[w] EXCEPT !.at = IF ~resolved THEN "leave"
                                             ELSE IF @ = "spent" THEN "clear" ELSE "delete"]
    <3>1. Become(w, r) /\ k \notin pending'
      BY <1>3, <2>7 DEF WorkerPurge, Purge
    <3>2. r.at \in {"delete", "leave"}
      BY <2>1 DEF Run
    <3> HIDE DEF r
    <3> QED BY <1>1, <1>3, <3>1, <3>2, HandEmptied
  <2>8. CASE WorkerDelete(w)
    <3>1. Become(w, Idle) /\ k \notin pending'
      BY <2>1, <2>8 DEF WorkerDelete, DeleteKeys
    <3> QED BY <1>1, <1>3, <2>1, <3>1, HandEmptied
  <2>9. ASSUME NEW noticed \in BOOLEAN, WorkerDies(w, noticed) PROVE Sound(k)'
    <3> DEFINE r == IF noticed THEN [worker[w] EXCEPT !.at = "lost", !.copy = 0] ELSE Idle
    <3>1. Become(w, r) /\ k \notin pending'
      BY <2>1, <2>9 DEF WorkerDies, queue
    <3>2. r.job = k => r.at = "lost"
      BY <2>1 DEF Run
    <3> HIDE DEF r
    <3> QED BY <1>1, <1>3, <3>1, <3>2, HandEmptied
  <2> QED BY <2>2, <2>3, <2>4, <2>5, <2>6, <2>7, <2>8, <2>9
<1> QED BY <1>2, <1>3

-----------------------------------------------------------------------------
(* What is kept of an undisturbed job *)

\* While the tick of a pump began alone and goes on alone, no other is at work.
LEMMA AloneKept ==
    ASSUME TypeInv, Alone, [Next]_vars
    PROVE  Alone'
<1> USE DEF TypeInv
<1>1. CASE UNCHANGED <<pump, overlapped>>
  BY <1>1 DEF Alone, AtWork
<1>2. ASSUME NEW p \in Pump, NEW at \in {"reap", "peek"}, StartTick(p, at) PROVE Alone'
  <2>1. overlapped' = {} => AtWork = {}
    BY <1>2 DEF StartTick
  <2>2. \A q \in Pump \ {p} : pump'[q] = pump[q]
    BY <1>2 DEF StartTick, Step, ProcessInv
  <2> QED BY <2>1, <2>2 DEF Alone, AtWork
<1>3. ASSUME NEW p \in Pump, UNCHANGED overlapped, pump[p].at # "off",
             NEW r, Step(p, r)
      PROVE  Alone'
  <2>1. \A q \in Pump \ {p} : pump'[q] = pump[q]
    BY <1>3 DEF Step, ProcessInv
  <2> QED BY <1>3, <2>1 DEF Alone, AtWork
<1>4. ASSUME NEW p \in Pump, PumpStep(p) PROVE Alone'
  <2>1. UNCHANGED overlapped /\ pump[p].at # "off"
    BY <1>4 DEF PumpStep, ReapScan, ReapRead, Peek, HydrateFails, Hydrate, FinishTick, PumpDies,
       PumpPurge, Publish, RequeueTail, SpendTail, PublishFails, PumpReserve, PumpDelete, ghosts
  <2>2. \E r : Step(p, r)
    BY <1>4 DEF PumpStep, ReapScan, ReapRead, Peek, HydrateFails, Hydrate, FinishTick, PumpDies,
       PumpPurge, Publish, RequeueTail, SpendTail, PublishFails, PumpReserve, PumpDelete
  <2> QED BY <1>3, <2>1, <2>2
<1>5. ASSUME NEW w \in Worker, WorkerStep(w) PROVE UNCHANGED <<pump, overlapped>>
  BY <1>5 DEF WorkerStep, Receive, ReceiveNothing, WorkerFinalize, FinalizeFails, WorkerRequeue, RequeueDenied,
     RequeueUnanswered, RequeueSpent, WorkerPurge, WorkerDelete, FailureHandler, WorkerDies, ghosts
<1> QED BY <1>1, <1>2, <1>4, <1>5 DEF Next, vars, ghosts, Submit, Pass, PassCounts, LockExpires, PausePump, ResumePump

\* The ghost only grows.
LEMMA DisturbedGrows ==
    ASSUME [Next]_vars
    PROVE  disturbed \subseteq disturbed'
BY DEF Next, vars, ghosts, Submit, Pass, PassCounts, LockExpires, PausePump, ResumePump, StartTick,
   PumpStep, ReapScan, ReapRead, Peek, HydrateFails, Hydrate, FinishTick, PumpDies,
   PumpPurge, Publish, RequeueTail, SpendTail, PublishFails, PumpReserve, PumpDelete,
   WorkerStep, Receive, ReceiveNothing, WorkerFinalize, FinalizeFails, WorkerRequeue, RequeueDenied,
   RequeueUnanswered, RequeueSpent, WorkerPurge, WorkerDelete, FailureHandler, WorkerDies

\* Only one process has an undisturbed job in hand, and while it may use the
\* slot and the payload, they are there.
THEOREM Tokens == Spec => []TokenInv
<1>1. Init => TokenInv
  <2> SUFFICES ASSUME Init PROVE TokenInv
    OBVIOUS
  <2>1. Alone
    BY DEF Init, Off, Alone, AtWork
  <2>2. ASSUME NEW k \in Job PROVE Sound(k)
    <3>1. /\ mail[k] = 0
          /\ \A p \in Pump : ~ Holds(p, k) /\ ~ Marked(p, k) /\ PeekedBy(p, k)
          /\ \A w \in Worker : worker[w].job # k
      BY PumpAssumption DEF Init, Off, Idle, Holds, Marked, PeekedBy, Plans
    <3> QED BY <3>1 DEF Sound, OneHand, SlotKept, Dead, Peeked, UsedBy
  <2> QED BY <2>1, <2>2 DEF TokenInv
<1>2. TypeInv /\ TokenInv /\ [Next]_vars => TokenInv'
  <2> SUFFICES ASSUME TypeInv, TokenInv, [Next]_vars, NEW k \in Job, k \notin disturbed'
               PROVE  Sound(k)'
    BY AloneKept DEF TokenInv
  <2>1. Alone /\ Sound(k)
    BY DisturbedGrows DEF TokenInv
  <2>2. CASE UNCHANGED <<queue, pump, mail, worker, overlapped>>
    BY <2>1, <2>2 DEF Sound, OneHand, SlotKept, InSlot, Dead, Used, UsedBy, Peeked, PeekedBy, Plans, Holds, Marked, queue
  <2>3. ASSUME NEW j \in Job, NEW later \in BOOLEAN, Submit(j, later) PROVE Sound(k)'
    BY <2>1, <2>3, SubmitSound
  <2>4. ASSUME NEW p \in Pump, NEW at \in {"reap", "peek"}, StartTick(p, at) PROVE Sound(k)'
    BY <2>1, <2>4, StartSound
  <2>5. ASSUME NEW p \in Pump, PumpStep(p) PROVE Sound(k)'
    BY <2>1, <2>5, PumpStepSound
  <2>6. ASSUME NEW w \in Worker, WorkerStep(w) PROVE Sound(k)'
    BY <2>1, <2>6, ReceiveSound, WorkerCallSound DEF WorkerStep
  <2>7. ASSUME NEW j \in Job, Pass(j) PROVE Sound(k)'
    BY <2>1, <2>7, PassSound
  <2>8. CASE PassCounts
    BY <2>1, <2>8 DEF PassCounts, ExpireCounts, ghosts, Sound, OneHand, SlotKept, InSlot, Dead, Used, UsedBy, Peeked,
       PeekedBy, Plans, Holds, Marked
  <2> QED BY <2>2, <2>3, <2>4, <2>5, <2>6, <2>7, <2>8 DEF Next, vars, ghosts, LockExpires, PausePump, ResumePump
<1> QED BY <1>1, <1>2, TypeInvariant, PTL DEF Spec

\* No undisturbed job is executed twice at a time, or without its slot.
THEOREM NoDouble == Spec => []NoDoubleExecution
<1>1. TypeInv /\ TokenInv => NoDoubleExecution
  <2> SUFFICES ASSUME TypeInv, TokenInv, NEW j \in Job \ disturbed
               PROVE  /\ Cardinality(Executing(j)) =< 1
                      /\ Executing(j) # {} => j \in reserved
    BY DEF NoDoubleExecution
  <2>1. Sound(j)
    BY DEF TokenInv
  <2>2. Executing(j) # {} => j \in reserved
    BY <2>1 DEF Executing, Sound, SlotKept, UsedBy, InSlot
  <2>3. Cardinality(Executing(j)) =< 1
    <3>1. CASE Executing(j) = {}
      BY <3>1, FS_EmptySet
    <3>2. CASE Executing(j) # {}
      <4>1. PICK w \in Executing(j) : TRUE
        BY <3>2
      <4>2. Executing(j) = {w}
        BY <2>1, <4>1 DEF Executing, Sound, OneHand
      <4> QED BY <4>2, FS_Singleton
    <3> QED BY <3>1, <3>2
  <2> QED BY <2>2, <2>3
<1> QED BY <1>1, TypeInvariant, Tokens, PTL

\* A waiting job in time is kept by every step that does not disturb it.
LEMMA StepKeeps ==
    ASSUME TypeInv, NEW j \in pending, Sound(j), j \notin disturbed', payload[j] = "live", [Next]_vars
    PROVE  Kept(j)
<1> USE DEF TypeInv
<1>1. j \in Job /\ j \notin reserved
  BY DEF QueueInv, QueueTypeOK, SlotsBounded
<1>2. /\ \A p \in Pump : ~ Marked(p, j)
      /\ \A w \in Worker : worker[w].job # j
      /\ ~ Used(j)
  BY <1>1 DEF Sound, Dead, SlotKept, InSlot, Used
<1>3. CASE QSame(j)
  BY <1>3 DEF QSame, Kept
<1>4. CASE UNCHANGED queue
  BY <1>4 DEF queue, Kept
<1>5. ASSUME NEW k \in Job, NEW later \in BOOLEAN, Submit(k, later) PROVE Kept(j)
  <2>1. k # j
    BY <1>5 DEF Submit, Enqueue
  <2> QED BY <1>1, <1>3, <1>5, <2>1, OtherJobs DEF Submit
<1>6. ASSUME NEW p \in Pump, PumpStep(p) PROVE Kept(j)
  <2>1. CASE UNCHANGED queue
    BY <1>4, <2>1
  <2>2. ASSUME NEW k \in Job, NEW resolved \in BOOLEAN, PumpPurge(p, k, resolved) PROVE Kept(j)
    <3>1. k # j
      BY <1>2, <2>2 DEF PumpPurge, Marked
    <3> QED BY <1>1, <1>3, <2>2, <3>1, OtherJobs DEF PumpPurge
  <2>3. ASSUME NEW k \in Job, RequeueTail(p, k) PROVE Kept(j)
    <3>1. k # j
      BY <1>2, <2>3 DEF RequeueTail, Used, Holds
    <3> QED BY <1>1, <1>3, <2>3, <3>1, OtherJobs DEF RequeueTail
  <2>4. CASE PumpDelete(p)
    <3>1. pump[p].cut # j
      BY <1>2 DEF Marked
    <3> QED BY <1>1, <1>3, <2>4, <3>1, OtherJobs, PumpDeleteKeys DEF PumpDelete
  <2>5. ASSUME NEW S \in SUBSET Job, NEW answered \in BOOLEAN, PumpReserve(p, S, answered) PROVE Kept(j)
    <3>1. CASE j \in S
      BY <2>5, <3>1 DEF PumpReserve, Reserve, Kept
    <3>2. CASE j \notin S
      BY <1>1, <2>5, <3>2 DEF PumpReserve, Reserve, Kept
    <3> QED BY <3>1, <3>2
  <2> QED BY <1>6, <2>1, <2>2, <2>3, <2>4, <2>5
     DEF PumpStep, ReapScan, ReapRead, Peek, HydrateFails, Hydrate, FinishTick, PumpDies, Publish, SpendTail, PublishFails
<1>7. ASSUME NEW w \in Worker, WorkerStep(w) PROVE Kept(j)
  <2>1. CASE \E k \in Job : Receive(w, k) \/ ReceiveNothing(w, k)
    BY <1>4, <2>1 DEF Receive, ReceiveNothing
  <2>2. CASE \/ WorkerFinalize(w) \/ FinalizeFails(w) \/ WorkerRequeue(w) \/ RequeueDenied(w)
             \/ RequeueUnanswered(w) \/ RequeueSpent(w) \/ WorkerDelete(w)
           \/ (\E resolved \in BOOLEAN : WorkerPurge(w, resolved))
             \/ FailureHandler(w) \/ \E noticed \in BOOLEAN : WorkerDies(w, noticed)
    BY <1>1, <1>2, <1>3, <2>2, CallsAreLocal
  <2> QED BY <1>7, <2>1, <2>2 DEF WorkerStep
<1>8. ASSUME NEW k \in Job, Pass(k) PROVE Kept(j)
  BY <1>8 DEF Pass, Elapse, Ripen, PassDeadline, Expire, ExpireDedupe, Kept, QueueInv, QueueTypeOK
<1>9. CASE PassCounts
  BY <1>9 DEF PassCounts, ExpireCounts, Kept
<1> QED BY <1>4, <1>5, <1>6, <1>7, <1>8, <1>9 DEF Next, vars, StartTick, LockExpires, PausePump, ResumePump

\* An accepted job in time stays in the queue until it gets a slot.
THEOREM Accepted == Spec => AcceptedKept
<1>1. TypeInv /\ TokenInv /\ [Next]_vars =>
        [\A j \in pending \ disturbed' : payload[j] = "live" => Kept(j)]_vars
  <2> SUFFICES ASSUME TypeInv, TokenInv, [Next]_vars, NEW j \in pending \ disturbed', payload[j] = "live"
               PROVE  Kept(j)
    OBVIOUS
  <2>1. j \in Job \ disturbed
    BY DisturbedGrows DEF TypeInv, QueueInv, QueueTypeOK
  <2> QED BY <2>1, StepKeeps DEF TokenInv
<1> QED BY <1>1, TypeInvariant, Tokens, PTL DEF Spec, AcceptedKept

\* While no pump has met another, no step makes a job's attempts fewer.
LEMMA StepCounts ==
    ASSUME TypeInv, NEW j \in pending \cup reserved, Sound(j), j \notin disturbed', [Next]_vars,
           payload[j] # "none", payload'[j] # "none", overlapped = {}
    PROVE  attempt[j] =< attempt'[j]
<1> USE DEF TypeInv
<1>1. j \in Job /\ attempt[j] \in Nat /\ attempt[j] =< attempt[j]
  BY DEF QueueInv, QueueTypeOK, Attempt
<1>2. attempt'[j] = attempt[j] => attempt[j] =< attempt'[j]
  BY <1>1
<1>3. CASE UNCHANGED queue
  BY <1>1, <1>3 DEF queue
<1>4. ASSUME NEW k \in Job, NEW later \in BOOLEAN, Submit(k, later) PROVE attempt'[j] = attempt[j]
  <2>1. k # j
    BY <1>4 DEF Submit, Enqueue
  <2> QED BY <1>1, <1>4, <2>1, OtherJobs DEF Submit, QSame
<1>5. ASSUME NEW p \in Pump, PumpStep(p) PROVE attempt[j] =< attempt'[j]
  <2>1. CASE UNCHANGED queue
    BY <1>3, <2>1
  <2>2. ASSUME NEW k \in Job, NEW resolved \in BOOLEAN, PumpPurge(p, k, resolved) PROVE attempt[j] =< attempt'[j]
    BY <1>2, <2>2 DEF PumpPurge, Purge
  <2>3. ASSUME NEW k \in Job, RequeueTail(p, k) PROVE attempt[j] =< attempt'[j]
    <3>1. CASE k # j
      BY <1>1, <1>2, <2>3, <3>1, OtherJobs DEF RequeueTail, QSame
    <3>2. CASE k = j
      <4>1. Holds(p, j)
        BY <2>3, <3>2 DEF RequeueTail, Holds
      <4>2. pump[p].copy[j] = attempt[j]
        BY <4>1 DEF Sound, SlotKept
      <4>3. attempt'[j] = attempt[j]
        BY <2>3, <3>2, <4>2 DEF RequeueTail, Requeue, queue, QueueInv, QueueTypeOK
      <4> QED BY <1>2, <4>3
    <3> QED BY <3>1, <3>2
  <2>4. CASE PumpDelete(p)
    <3>1. pump[p].cut # j
      BY <1>1, <2>4 DEF PumpDelete, DeleteKeys, QueueInv, QueueTypeOK
    <3> QED BY <1>1, <1>2, <2>4, <3>1, OtherJobs, PumpDeleteKeys DEF PumpDelete, QSame
  <2>5. ASSUME NEW S \in SUBSET Job, NEW answered \in BOOLEAN, PumpReserve(p, S, answered)
        PROVE  attempt[j] =< attempt'[j]
    <3>1. CASE j \in S
      <4>1. attempt'[j] = pump[p].copy[j] /\ j \in pump[p].todo /\ pump[p].at = "reserve"
        BY <1>1, <2>5, <3>1 DEF PumpReserve, Reserve
      <4>2. attempt[j] =< pump[p].copy[j]
        BY <4>1 DEF Sound, Peeked, PeekedBy, Plans
      <4> QED BY <4>1, <4>2
    <3>2. CASE j \notin S
      BY <1>1, <1>2, <2>5, <3>2 DEF PumpReserve, Reserve
    <3> QED BY <3>1, <3>2
  <2> QED BY <1>5, <2>1, <2>2, <2>3, <2>4, <2>5
     DEF PumpStep, ReapScan, ReapRead, Peek, HydrateFails, Hydrate, FinishTick, PumpDies, Publish, SpendTail, PublishFails
<1>6. ASSUME NEW w \in Worker, WorkerStep(w) PROVE attempt[j] =< attempt'[j]
  <2>1. CASE \E k \in Job : Receive(w, k) \/ ReceiveNothing(w, k)
    BY <1>3, <2>1 DEF Receive, ReceiveNothing
  <2>2. CASE \/ WorkerFinalize(w) \/ FinalizeFails(w) \/ WorkerRequeue(w) \/ RequeueDenied(w)
             \/ RequeueUnanswered(w) \/ RequeueSpent(w) \/ WorkerDelete(w)
           \/ (\E resolved \in BOOLEAN : WorkerPurge(w, resolved))
             \/ FailureHandler(w) \/ \E noticed \in BOOLEAN : WorkerDies(w, noticed)
    <3>1. CASE worker[w].job # j
      BY <1>1, <1>2, <2>2, <3>1, CallsAreLocal DEF QSame
    <3>2. CASE worker[w].job = j
      <4>1. CASE UNCHANGED queue
        BY <1>3, <4>1
      <4>2. CASE \E resolved \in BOOLEAN : WorkerPurge(w, resolved)
        BY <1>2, <4>2 DEF WorkerPurge, Purge
      <4>3. CASE WorkerFinalize(w) \/ WorkerDelete(w) \/ (FailureHandler(w) /\ Finalize(j))
        BY <1>1, <3>2, <4>3 DEF WorkerFinalize, WorkerDelete, Finalize, DeleteKeys, QueueInv, QueueTypeOK
      <4>4. CASE WorkerRequeue(w)
        <5>1. worker[w].copy = attempt[j]
          BY <3>2, <4>4 DEF WorkerRequeue, MayRequeue, Sound, SlotKept
        <5>2. attempt'[j] = attempt[j] + 1
          BY <1>1, <3>2, <4>4, <5>1 DEF WorkerRequeue, Requeue, QueueInv, QueueTypeOK
        <5> QED BY <1>1, <5>2
      <4>5. CASE RequeueUnanswered(w)
        BY <3>2, <4>5 DEF RequeueUnanswered
      <4> QED BY <2>2, <3>2, <4>1, <4>2, <4>3, <4>4, <4>5
         DEF FinalizeFails, RequeueDenied, RequeueSpent, FailureHandler, WorkerDies
    <3> QED BY <3>1, <3>2
  <2> QED BY <1>6, <2>1, <2>2 DEF WorkerStep
<1>7. ASSUME NEW k \in Job, Pass(k) PROVE attempt'[j] = attempt[j]
  BY <1>1, <1>7 DEF Pass, Elapse, Ripen, PassDeadline, Expire, ExpireDedupe, QueueInv, QueueTypeOK
<1>8. CASE PassCounts
  BY <1>2, <1>8 DEF PassCounts, ExpireCounts
<1> QED BY <1>2, <1>3, <1>4, <1>5, <1>6, <1>7, <1>8 DEF Next, vars, StartTick, LockExpires, PausePump, ResumePump

\* The budget of attempts of a job is per job unless two pumps have met.
THEOREM Attempts == Spec => AttemptsKept
<1> DEFINE A == \A j \in (pending \cup reserved) \ disturbed' :
                    payload[j] # "none" /\ payload'[j] # "none" /\ attempt'[j] < attempt[j]
                        => overlapped # {}
<1>1. TypeInv /\ TypeInv' /\ TokenInv /\ [Next]_vars => [A]_vars
  <2> SUFFICES ASSUME TypeInv, TypeInv', TokenInv, [Next]_vars, NEW j \in (pending \cup reserved) \ disturbed',
                      payload[j] # "none", payload'[j] # "none", overlapped = {}
               PROVE  ~ (attempt'[j] < attempt[j])
    OBVIOUS
  <2>1. j \in Job \ disturbed
    BY DisturbedGrows DEF TypeInv, QueueInv, QueueTypeOK
  <2>2. Sound(j)
    BY <2>1 DEF TokenInv
  <2>3. attempt[j] =< attempt'[j]
    BY <2>2, StepCounts
  <2>4. attempt[j] \in Nat /\ attempt'[j] \in Nat
    BY <2>1 DEF TypeInv, QueueInv, QueueTypeOK, Attempt
  <2> QED BY <2>3, <2>4
<1> QED BY <1>1, TypeInvariant, Tokens, PTL DEF Spec, AttemptsKept

-----------------------------------------------------------------------------
(* The admission control *)

\* The abstract queue counts as the concrete one does.
LEMMA SameCount == \A S : Admitted!Cardinality(S) = Cardinality(S)
BY DEF Cardinality, Admitted!Cardinality

\* What the scripts do is what AdmittedJobs promises, whoever calls them.
LEMMA ScriptsAdmit ==
    ASSUME QueueInv, NEW j \in Job,
           \/ \E n, later : Requeue(j, n, later)
           \/ Finalize(j) \/ (\E resolved \in BOOLEAN : Purge(j, resolved) \/ DeleteKeys(j, resolved)) \/ Elapse(j) \/ UNCHANGED queue
           \/ \E later : Enqueue(j, later)
    PROVE  [Admitted!Next]_<<pending, reserved>>
<1>1. CASE UNCHANGED <<pending, reserved>>
  BY <1>1
<1>2. CASE \E later : Enqueue(j, later)
  <2>1. Admitted!Admit(j)
    BY <1>2, SameCount DEF Enqueue, Admitted!Admit
  <2> QED BY <2>1 DEF Admitted!Next
<1>3. CASE \E n, later : Requeue(j, n, later)
  BY <1>3 DEF Requeue, Admitted!Next, Admitted!GiveBack
<1>4. CASE Finalize(j)
  <2>1. CASE j \in reserved
    BY <1>4, <2>1 DEF Finalize, Admitted!Next, Admitted!GiveBack
  <2>2. CASE j \notin reserved
    BY <1>4, <2>2 DEF Finalize
  <2> QED BY <2>1, <2>2
<1>5. CASE \E resolved \in BOOLEAN : Purge(j, resolved)
  <2>1. CASE j \in reserved
    <3>1. j \notin pending
      BY <2>1 DEF QueueInv, SlotsBounded
    <3> QED BY <1>5, <2>1, <3>1 DEF Purge, Admitted!Next, Admitted!GiveBack
  <2>2. CASE j \in pending
    <3>1. j \notin reserved
      BY <2>2 DEF QueueInv, SlotsBounded
    <3> QED BY <1>5, <2>2, <3>1 DEF Purge, Admitted!Next, Admitted!Withdraw
  <2>3. CASE j \notin reserved /\ j \notin pending
    BY <1>5, <2>3 DEF Purge
  <2> QED BY <2>1, <2>2, <2>3
<1> QED BY <1>1, <1>2, <1>3, <1>4, <1>5 DEF DeleteKeys, Elapse, Ripen, PassDeadline, Expire, ExpireDedupe, queue

\* The safety part of the refinement: every behaviour admits, grants, withdraws
\* and gives back as AdmittedJobs does.
THEOREM Admits == Spec => Admitted!Init /\ [][Admitted!Next]_<<pending, reserved>>
<1>1. Init => Admitted!Init
  BY DEF Init, QueueInit, Admitted!Init
<1>2. TypeInv /\ [Next]_vars => [Admitted!Next]_<<pending, reserved>>
  <2> SUFFICES ASSUME TypeInv, [Next]_vars PROVE [Admitted!Next]_<<pending, reserved>>
    OBVIOUS
  <2> USE DEF TypeInv
  <2>1. CASE UNCHANGED queue
    BY <2>1 DEF queue
  <2>2. ASSUME NEW j \in Job, NEW later \in BOOLEAN, Submit(j, later) PROVE [Admitted!Next]_<<pending, reserved>>
    BY <2>2, ScriptsAdmit DEF Submit
  <2>3. ASSUME NEW j \in Job, Pass(j) PROVE [Admitted!Next]_<<pending, reserved>>
    BY <2>3, ScriptsAdmit DEF Pass
  <2>4. ASSUME NEW p \in Pump, PumpStep(p) PROVE [Admitted!Next]_<<pending, reserved>>
    <3>1. CASE \E j \in Job : RequeueTail(p, j) \/ \E resolved \in BOOLEAN : PumpPurge(p, j, resolved)
      BY <2>1, <3>1, ScriptsAdmit DEF PumpPurge, RequeueTail
    <3>2. CASE PumpDelete(p)
      <4>1. PICK resolved \in BOOLEAN : DeleteKeys(pump[p].cut, resolved)
        BY <3>2, PumpDeleteKeys
      <4> QED BY <4>1 DEF DeleteKeys
    <3>3. ASSUME NEW S \in SUBSET Job, NEW answered \in BOOLEAN, PumpReserve(p, S, answered)
          PROVE  [Admitted!Next]_<<pending, reserved>>
      <4>1. Admitted!Grant(S)
        BY <3>3, SameCount DEF PumpReserve, Reserve, Admitted!Grant
      <4> QED BY <4>1 DEF Admitted!Next
    <3> QED BY <2>1, <2>4, <3>1, <3>2, <3>3
       DEF PumpStep, ReapScan, ReapRead, Peek, HydrateFails, Hydrate, FinishTick, PumpDies, Publish, SpendTail, PublishFails
  <2>5. ASSUME NEW w \in Worker, WorkerStep(w) PROVE [Admitted!Next]_<<pending, reserved>>
    <3>1. CASE UNCHANGED queue
      BY <2>1, <3>1
    <3>2. CASE \/ WorkerFinalize(w) \/ WorkerRequeue(w) \/ RequeueUnanswered(w)
               \/ WorkerDelete(w) \/ FailureHandler(w)
               \/ \E resolved \in BOOLEAN : WorkerPurge(w, resolved)
      <4>1. worker[w].job \in Job
        BY <3>2, RunParts DEF WorkerFinalize, WorkerRequeue, RequeueUnanswered, MayRequeue, WorkerPurge,
           WorkerDelete, FailureHandler
      <4> QED BY <2>1, <3>2, <4>1, ScriptsAdmit DEF WorkerFinalize, WorkerRequeue, RequeueUnanswered, WorkerPurge,
           WorkerDelete, FailureHandler
    <3> QED BY <2>5, <3>1, <3>2
       DEF WorkerStep, Receive, ReceiveNothing, FinalizeFails, RequeueDenied, RequeueSpent, WorkerDies
  <2>6. CASE PassCounts
    BY <2>6 DEF PassCounts, ExpireCounts
  <2> QED BY <2>1, <2>2, <2>3, <2>4, <2>5, <2>6 DEF Next, vars, StartTick, LockExpires, PausePump, ResumePump
<1> QED BY <1>1, <1>2, TypeInvariant, PTL DEF Spec
=============================================================================
