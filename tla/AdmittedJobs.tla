---------------------------- MODULE AdmittedJobs ----------------------------
(***************************************************************************)
(* What the dispatch queue of a namespace promises its producers and its   *)
(* workers: a job waits or holds one of MaxReserved slots, no more than    *)
(* MaxAdmitted jobs are in the queue, a slot is got only from waiting, and *)
(* nobody holds a slot for good.                                           *)
(***************************************************************************)
EXTENDS Naturals, FiniteSets

CONSTANTS Job, MaxAdmitted, MaxReserved

VARIABLES pending, reserved

vars == <<pending, reserved>>

Init == pending = {} /\ reserved = {}

Admit(j) ==
    /\ j \notin pending \cup reserved
    /\ Cardinality(pending) + Cardinality(reserved) < MaxAdmitted
    /\ pending' = pending \cup {j}
    /\ UNCHANGED reserved

Grant(S) ==
    /\ S \subseteq pending
    /\ Cardinality(reserved) + Cardinality(S) =< MaxReserved
    /\ pending' = pending \ S
    /\ reserved' = reserved \cup S

\* A waiting job is given up.
Withdraw(j) ==
    /\ j \in pending
    /\ pending' = pending \ {j}
    /\ UNCHANGED reserved

\* A slot is given back, and its job waits again or is gone.
GiveBack(j) ==
    /\ j \in reserved
    /\ reserved' = reserved \ {j}
    /\ pending' \in {pending, pending \cup {j}}

Next ==
    \/ \E j \in Job : Admit(j) \/ Withdraw(j) \/ GiveBack(j)
    \/ \E S \in SUBSET Job : Grant(S)

Spec == Init /\ [][Next]_vars /\ \A j \in Job : WF_vars(GiveBack(j))
=============================================================================
