------------------------------ MODULE BizLock ------------------------------
(***************************************************************************)
(* What the switch lock of a business promises to the switching passes of  *)
(* the analysis modules (AMs), whatever it is made of: passes of one AM    *)
(* may share a business, passes of two AMs never do.                       *)
(* MetadataReader.AcquireSwitchLock and InProcessLockTracker state this    *)
(* promise; module LockTracker is the code that has to keep it.            *)
(***************************************************************************)
CONSTANTS
    Am,       \* the analysis processes
    Biz,      \* the businesses
    Pass,     \* the goroutines that run popAndSwitchForBiz
    AmOf      \* the process each goroutine belongs to

VARIABLE inside   \* inside[b]: the passes working on business b

Init == inside = [b \in Biz |-> {}]

\* A pass enters a business that no other process is working on.
Enter(p, b) ==
    /\ \A c \in Biz : p \notin inside[c]
    /\ \A q \in inside[b] : AmOf[q] = AmOf[p]
    /\ inside' = [inside EXCEPT ![b] = @ \cup {p}]

\* A pass is done with its business.
Leave(p, b) ==
    /\ p \in inside[b]
    /\ inside' = [inside EXCEPT ![b] = @ \ {p}]

\* A process dies with every pass it was running.
Crash(a) ==
    inside' = [b \in Biz |-> {p \in inside[b] : AmOf[p] # a}]

Next ==
    \/ \E p \in Pass, b \in Biz : Enter(p, b) \/ Leave(p, b)
    \/ \E a \in Am : Crash(a)

Spec == Init /\ [][Next]_inside
=============================================================================
