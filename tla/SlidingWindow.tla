--------------------------- MODULE SlidingWindow ---------------------------
(***************************************************************************)
(* One analysis process at work on its windows: the scan loop pushes the   *)
(* failures it has double-checked (LivenessDoubleCheck), the passes of the *)
(* pop loop take the ripe ones, mark their instances as inflight, work on  *)
(* them and delete the marks one by one (popAndSwitchForBiz,               *)
(* handleFailureGroup, markDoneAll).  PopAndSwitch does not wait for the   *)
(* passes it starts, so several of them, also of one business, overlap.    *)
(***************************************************************************)
EXTENDS WindowManager

CONSTANTS
    Pass,       \* the goroutines of the pop loop (popSwitchSem bounds them)
    PushDelay,  \* ticks a failure may wait between its detection and Push
    Prompt      \* does every pass finish before its marks run out?

ASSUME PassAssumption ==
    /\ PushDelay \in Nat
    /\ Prompt \in BOOLEAN

VARIABLES
    manager,  \* the BizWindowManager
    batch     \* batch[p]: what pass p popped and has not called MarkDone for

vars == <<manager, batch>>

TypeOK ==
    /\ manager \in Manager
    /\ batch \in [Pass -> SUBSET Key]

Init ==
    /\ manager = NewManager
    /\ batch = [p \in Pass |-> {}]

Push(k, d) ==
    /\ manager' = Pushed(manager, k, d)
    /\ UNCHANGED batch

\* An empty result ends the pass at once.
PopAndMarkStart(p, b) ==
    /\ batch[p] = {}
    /\ Ripe(manager, b) # {}
    /\ batch' = [batch EXCEPT ![p] = Ripe(manager, b)]
    /\ manager' = Popped(manager, b)

\* handleFailureGroup has returned: markDoneAll takes its keys one by one,
\* and an instance popped with two events is in the list twice.
MarkDone(p, k) ==
    /\ k \in batch[p]
    /\ batch' = [batch EXCEPT ![p] = @ \ {k}]
    /\ manager' = Done(manager, k[1])

\* The instance of key k is being worked on.
AtWork(k) == \E p \in Pass : k[1] \in Hit(batch[p])

Tick ==
    /\ Prompt => \A k \in Key : AtWork(k) => manager.marks[k[1]] # 1
    /\ manager' = Elapsed(manager)
    /\ UNCHANGED batch

Next ==
    \/ \E k \in Key, d \in 0 .. PushDelay : Push(k, d)
    \/ \E p \in Pass, b \in Biz : PopAndMarkStart(p, b)
    \/ \E p \in Pass, k \in Key : MarkDone(p, k)
    \/ Tick

Spec == Init /\ [][Next]_vars

\* Time goes by, whatever the passes do.
TimeSpec == Spec /\ WF_vars(Tick)

\* PopAndSwitch visits every business in turn, waiting for a free goroutine at
\* each, and the passes it starts do not hang.
PassesReturn ==
    /\ \A p \in Pass : WF_vars(\E k \in Key : MarkDone(p, k))
    /\ \A b \in Biz : SF_vars(\E p \in Pass : PopAndMarkStart(p, b))

-----------------------------------------------------------------------------
(* Properties *)

\* No two passes handle one instance at the same time.  It holds for failures
\* of one event name handled by prompt passes: then what is handled is marked,
\* and nothing of it waits to be popped a second time.  (PopAndMarkStart, Push)
NoDuplicateHandling ==
    \A p, q \in Pass : p # q => Hit(batch[p]) \cap Hit(batch[q]) = {}

\* A mark that still discards failures belongs to a pass that is still at
\* work, so nothing done with blocks the next failure of its instance, with
\* any events and however slow the passes.  (markDoneAll in the defer of
\* handleFailureGroup)
NoStrayMark ==
    \A i \in Inst :
        manager.marks[i] > 0 => \E p \in Pass : i \in Hit(batch[p])

\* A failure leaves its window only in the hands of a pass that has marked
\* its instance.  (pop, and the deletion of empty windows)
NothingLost ==
    [][\A k \in Key :
          (Waiting(manager, k) /\ ~Waiting(manager, k)') =>
              /\ \E p \in Pass : k \in batch'[p] \ batch[p]
              /\ manager'.marks[k[1]] = InflightTTL]_vars

\* Unless passes hang, a failure that was accepted is handled in the end,
\* however often it is reported again.  (push keeps FirstAt; pop)
FailureHandled ==
    PassesReturn =>
        \A k \in Key : Waiting(manager, k) ~> \E p \in Pass : k \in batch[p]

\* Even if passes hang, no instance is cut off from the window for good: again
\* and again its failures would be accepted.  (inflightTTL in Push)
NeverBlockedForever == \A i \in Inst : []<>(manager.marks[i] = 0)
=============================================================================
