----------------------------- MODULE SwitchOnce -----------------------------
(***************************************************************************)
(* What failover promises to an instance: it is taken out of service in    *)
(* DBM before anything is switched away from it, and from then on it is    *)
(* switched away from once at the most, until an operator has brought it   *)
(* back.  Module Failover is the code that has to keep this promise.       *)
(***************************************************************************)
CONSTANT Inst

VARIABLE stage   \* stage[i]: "running", "unavailable" or "switched"

Init == stage = [i \in Inst |-> "running"]

\* Instances of one host may be taken down by one call.
TakeDown(S) ==
    /\ \A i \in S : stage[i] = "running"
    /\ stage' = [i \in Inst |-> IF i \in S THEN "unavailable" ELSE stage[i]]

Switch(i) ==
    /\ stage[i] = "unavailable"
    /\ stage' = [stage EXCEPT ![i] = "switched"]

Repair(i) ==
    /\ stage[i] \in {"unavailable", "switched"}
    /\ stage' = [stage EXCEPT ![i] = "running"]

Next ==
    \/ \E S \in SUBSET Inst : TakeDown(S)
    \/ \E i \in Inst : Switch(i) \/ Repair(i)

Spec == Init /\ [][Next]_stage
=============================================================================
