------------------------ MODULE SlidingWindow_proofs ------------------------
(***************************************************************************)
(* What SlidingWindow guarantees for any instances, events, businesses,    *)
(* passes and durations.                                                   *)
(***************************************************************************)
EXTENDS SlidingWindow, WindowManager_proofs

-----------------------------------------------------------------------------
(* Types *)

\* The manager and the batches keep their types.
THEOREM TypeCorrect == Spec => []TypeOK
<1>1. Init => TypeOK
  BY WindowAssumption DEF Init, TypeOK, NewManager, NoEntry, Manager, Entry
<1>2. TypeOK /\ [Next]_vars => TypeOK'
  <2> SUFFICES ASSUME TypeOK, [Next]_vars
               PROVE  TypeOK'
    OBVIOUS
  <2>1. ASSUME NEW k \in Key, NEW d \in 0 .. PushDelay, Push(k, d)
        PROVE  TypeOK'
    BY <2>1, PushedType, PassAssumption DEF Push, TypeOK
  <2>2. ASSUME NEW p \in Pass, NEW b \in Biz, PopAndMarkStart(p, b)
        PROVE  TypeOK'
    BY <2>2, PoppedType DEF PopAndMarkStart, TypeOK, Ripe
  <2>3. ASSUME NEW p \in Pass, NEW k \in Key, MarkDone(p, k)
        PROVE  TypeOK'
    <3>1. k[1] \in Inst
      BY DEF Key
    <3>2. QED
      BY <2>3, <3>1, DoneType DEF MarkDone, TypeOK
  <2>4. CASE Tick
    BY <2>4, ElapsedType DEF Tick, TypeOK
  <2>5. CASE UNCHANGED vars
    BY <2>5 DEF vars, TypeOK
  <2>6. QED
    BY <2>1, <2>2, <2>3, <2>4, <2>5 DEF Next
<1>3. QED
  BY <1>1, <1>2, PTL DEF Spec

-----------------------------------------------------------------------------
(* Marks and the passes that set them *)

\* A mark belongs to a pass that is still at work, with any events and however
\* slow the passes: what is done with never blocks the next failure.
THEOREM NoStrayMarks == Spec => []NoStrayMark
<1>1. Init => NoStrayMark
  BY DEF Init, NewManager, NoStrayMark
<1>2. TypeOK /\ NoStrayMark /\ [Next]_vars => NoStrayMark'
  <2> SUFFICES ASSUME TypeOK, NoStrayMark, [Next]_vars
               PROVE  NoStrayMark'
    OBVIOUS
  <2>1. ASSUME NEW k \in Key, NEW d \in 0 .. PushDelay, Push(k, d)
        PROVE  NoStrayMark'
    <3>1. manager'.marks = manager.marks
      BY <2>1, PushedType, PassAssumption DEF Push, TypeOK
    <3>2. QED
      BY <2>1, <3>1 DEF Push, NoStrayMark
  <2>2. ASSUME NEW p \in Pass, NEW b \in Biz, PopAndMarkStart(p, b)
        PROVE  NoStrayMark'
    <3>1. \A q \in Pass : batch[q] \subseteq batch'[q]
      BY <2>2 DEF PopAndMarkStart, TypeOK
    <3>2. SUFFICES ASSUME NEW i \in Inst, manager'.marks[i] > 0
                   PROVE  \E q \in Pass : i \in Hit(batch'[q])
      BY DEF NoStrayMark
    <3>3. CASE i \in Hit(Ripe(manager, b))
      BY <2>2, <3>3 DEF PopAndMarkStart, TypeOK
    <3>4. CASE i \notin Hit(Ripe(manager, b))
      <4>1. manager.marks[i] > 0
        BY <2>2, <3>2, <3>4 DEF PopAndMarkStart, Popped
      <4>2. QED
        BY <3>1, <4>1 DEF NoStrayMark, Hit
    <3>5. QED
      BY <3>3, <3>4
  <2>3. ASSUME NEW p \in Pass, NEW k \in Key, MarkDone(p, k)
        PROVE  NoStrayMark'
    <3>1. SUFFICES ASSUME NEW i \in Inst, manager'.marks[i] > 0
                   PROVE  \E q \in Pass : i \in Hit(batch'[q])
      BY DEF NoStrayMark
    <3>2. i # k[1] /\ manager.marks[i] > 0
      BY <2>3, <3>1 DEF MarkDone, Done, TypeOK, Manager, Key
    <3>3. PICK q \in Pass : i \in Hit(batch[q])
      BY <3>2 DEF NoStrayMark
    <3>4. i \in Hit(batch'[q])
      BY <2>3, <3>2, <3>3 DEF MarkDone, Hit, TypeOK
    <3>5. QED
      BY <3>4
  <2>4. CASE Tick
    <3>1. SUFFICES ASSUME NEW i \in Inst, manager'.marks[i] > 0
                   PROVE  manager.marks[i] > 0
      BY <2>4 DEF NoStrayMark, Tick
    <3>2. manager.marks[i] \in Nat
      BY WindowAssumption DEF TypeOK, Manager
    <3>3. QED
      BY <2>4, <3>1, <3>2, ElapsedType DEF Tick, TypeOK
  <2>5. CASE UNCHANGED vars
    BY <2>5 DEF vars, NoStrayMark
  <2>6. QED
    BY <2>1, <2>2, <2>3, <2>4, <2>5 DEF Next
<1>3. QED
  BY <1>1, <1>2, TypeCorrect, PTL DEF Spec

-----------------------------------------------------------------------------
(* Why two passes may get one instance *)

InHand(i) == \E p \in Pass : i \in Hit(batch[p])

\* A failure of instance i has not left its window.
SomeWaiting(i) == \E k \in Key : k[1] = i /\ Waiting(manager, k)

\* No mark of i has run out under a pass, or gone with a key of i that was
\* popped together with others.
MarkHolds(i) == InHand(i) => manager.marks[i] > 0

\* A pass that gets i leaves no other failure of it behind in the window.
TakesAll(i) ==
    \A p \in Pass :
        (i \notin Hit(batch[p]) /\ i \in Hit(batch'[p])) => ~SomeWaiting(i)'

\* Instance i is with one pass at the most, and then nothing of it waits.
Alone(i) ==
    /\ \A p, q \in Pass : i \in Hit(batch[p]) \cap Hit(batch[q]) => p = q
    /\ InHand(i) => ~SomeWaiting(i)

LEMMA AloneStep ==
    ASSUME NEW i \in Inst, TypeOK, MarkHolds(i), Alone(i), Next, TakesAll(i)
    PROVE  Alone(i)'
<1>1. ASSUME NEW k \in Key, NEW d \in 0 .. PushDelay, Push(k, d)
      PROVE  Alone(i)'
  <2>1. \A h \in Key : (Waiting(manager', h) /\ ~Waiting(manager, h)) =>
                           h = k /\ manager.marks[k[1]] = 0
    BY <1>1, PushedType, PassAssumption DEF Push, TypeOK
  <2>2. batch' = batch
    BY <1>1 DEF Push
  <2>3. InHand(i) => ~SomeWaiting(i)'
    BY <2>1 DEF Alone, MarkHolds, SomeWaiting
  <2>4. QED
    BY <2>2, <2>3 DEF Alone, InHand
<1>2. ASSUME NEW p \in Pass, NEW b \in Biz, PopAndMarkStart(p, b)
      PROVE  Alone(i)'
  <2>1. /\ batch[p] = {}
        /\ batch' = [batch EXCEPT ![p] = Ripe(manager, b)]
    BY <1>2 DEF PopAndMarkStart
  <2>2. \A q \in Pass : q # p => batch'[q] = batch[q]
    BY <2>1 DEF TypeOK
  <2>3. CASE i \in Hit(Ripe(manager, b))
    <3>1. SomeWaiting(i)
      BY <2>3 DEF Hit, Ripe, SomeWaiting
    <3>2. \A q \in Pass : i \notin Hit(batch[q])
      BY <3>1 DEF Alone, InHand
    <3>3. ~SomeWaiting(i)'
      BY <2>1, <2>3, <3>2 DEF TakesAll, TypeOK
    <3>4. QED
      BY <2>2, <3>2, <3>3 DEF Alone
  <2>4. CASE i \notin Hit(Ripe(manager, b))
    <3>1. \A q \in Pass : i \in Hit(batch'[q]) => i \in Hit(batch[q])
      BY <2>1, <2>2, <2>4 DEF TypeOK
    <3>2. SomeWaiting(i)' => SomeWaiting(i)
      BY <1>2 DEF PopAndMarkStart, Popped, SomeWaiting, Waiting, NoEntry
    <3>3. QED
      BY <3>1, <3>2 DEF Alone, InHand
  <2>5. QED
    BY <2>3, <2>4
<1>3. ASSUME NEW p \in Pass, NEW k \in Key, MarkDone(p, k)
      PROVE  Alone(i)'
  <2>1. \A q \in Pass : i \in Hit(batch'[q]) => i \in Hit(batch[q])
    BY <1>3 DEF MarkDone, Hit, TypeOK
  <2>2. k[1] \in Inst
    BY DEF Key
  <2>3. SomeWaiting(i)' => SomeWaiting(i)
    BY <1>3, <2>2, DoneEffect DEF MarkDone, SomeWaiting, TypeOK
  <2>4. QED
    BY <2>1, <2>3 DEF Alone, InHand
<1>4. CASE Tick
  <2>1. SomeWaiting(i)' => SomeWaiting(i)
    BY <1>4, ElapsedType DEF Tick, SomeWaiting, TypeOK
  <2>2. QED
    BY <1>4, <2>1 DEF Tick, Alone, InHand
<1>5. QED
  BY <1>1, <1>2, <1>3, <1>4 DEF Next

\* Two passes get one instance for two reasons only: its mark was gone while a
\* pass had it, or a pass that took it left another failure of it behind.
\* Where neither happens to an instance it is with one pass at a time, however
\* slow the passes are, whatever happens to other instances, and with any
\* events.  (Push under the marks of PopAndMarkStart, markDoneAll)
THEOREM OnePassUnless ==
    \A i \in Inst :
        Spec => (([]MarkHolds(i) /\ [][TakesAll(i)]_vars) => []Alone(i))
<1> SUFFICES ASSUME NEW i \in Inst
             PROVE  Spec => (([]MarkHolds(i) /\ [][TakesAll(i)]_vars) => []Alone(i))
  OBVIOUS
<1>1. Init => Alone(i)
  BY DEF Init, Alone, InHand, Hit
<1>2. TypeOK /\ MarkHolds(i) /\ Alone(i) /\ [Next]_vars /\ [TakesAll(i)]_vars
        => Alone(i)'
  <2>1. ASSUME UNCHANGED vars, Alone(i)
        PROVE  Alone(i)'
    BY <2>1 DEF vars, Alone, InHand, SomeWaiting, Waiting
  <2>2. QED
    BY <2>1, AloneStep
<1>3. QED
  BY <1>1, <1>2, TypeCorrect, PTL DEF Spec

-----------------------------------------------------------------------------
(* No failure is lost *)

\* Only a pop takes an entry out of its window, and the pass that pops it has
\* it in its batch and has marked its instance, in every configuration.
THEOREM NoFailureLost == Spec => NothingLost
<1> DEFINE Kept ==
      \A k \in Key : (Waiting(manager, k) /\ ~Waiting(manager, k)') =>
          /\ \E p \in Pass : k \in batch'[p] \ batch[p]
          /\ manager'.marks[k[1]] = InflightTTL
<1>1. TypeOK /\ [Next]_vars => [Kept]_vars
  <2> SUFFICES ASSUME TypeOK, Next, NEW k \in Key,
                      Waiting(manager, k), ~Waiting(manager, k)'
               PROVE  /\ \E p \in Pass : k \in batch'[p] \ batch[p]
                      /\ manager'.marks[k[1]] = InflightTTL
    BY DEF vars
  <2>1. ASSUME NEW p \in Pass, NEW b \in Biz, PopAndMarkStart(p, b)
        PROVE  /\ k \in batch'[p] \ batch[p]
               /\ manager'.marks[k[1]] = InflightTTL
    <3>1. k \in Ripe(manager, b)
      BY <2>1 DEF PopAndMarkStart, Popped, Waiting
    <3>2. k[1] \in Inst /\ k[1] \in Hit(Ripe(manager, b))
      BY <3>1 DEF Hit, Key
    <3>3. batch'[p] = Ripe(manager, b) /\ batch[p] = {}
      BY <2>1 DEF PopAndMarkStart, TypeOK
    <3>4. QED
      BY <2>1, <3>1, <3>2, <3>3 DEF PopAndMarkStart, Popped
  <2>2. ASSUME NEW h \in Key, NEW d \in 0 .. PushDelay, Push(h, d)
        PROVE  FALSE
    BY <2>2, PushedKeeps, PassAssumption DEF Push, TypeOK, Waiting
  <2>3. ASSUME NEW p \in Pass, NEW h \in Key, MarkDone(p, h)
        PROVE  FALSE
    BY <2>3, DoneEffect DEF MarkDone, TypeOK, Waiting, Key
  <2>4. CASE Tick
    BY <2>4, ElapsedType DEF Tick, TypeOK, Waiting
  <2>5. QED
    BY <2>1, <2>2, <2>3, <2>4 DEF Next
<1>2. QED
  BY <1>1, TypeCorrect, PTL DEF Spec, NothingLost
=============================================================================
