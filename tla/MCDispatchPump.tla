--------------------------- MODULE MCDispatchPump ---------------------------
(***************************************************************************)
(* DispatchPump for TLC: one task, with one job or with two.               *)
(***************************************************************************)
EXTENDS DispatchPump, TLC

CONSTANTS j1, j2, t1

OneJob == {j1}
TwoJobs == {j1, j2}
SameTask == [j \in Job |-> t1]

\* Pumps, workers and jobs of a task are interchangeable.
DispatchSymmetry == Permutations(Pump) \cup Permutations(Worker) \cup Permutations(Job)

\* Bound: a behaviour ends with the first job that is disturbed, after which
\* the properties say nothing of that job.
Calm == disturbed = {}

\* Bound: no pause.  To the pumps at work a pause and its end are what the
\* expiry of the lock is, and dispatch_slots has them.
Unpaused == lock # "paused"

\* Bound: once the counts have drifted, one pump at a time.
DriftAlone == drifted # {} => overlapped = {}

\* A job with an attempt behind it, in the queue or in a copy, or one that is
\* not ready or not in time.
Seasoned(j) ==
    \/ j \in delayed \/ payload[j] = "late" \/ attempt[j] > 0
    \/ \E p \in Pump : pump[p].copy[j] > 0
    \/ \E w \in Worker : worker[w].job = j /\ worker[w].copy > 0

Discarders ==
    {p \in Pump : pump[p].at \in {"discard", "delete"}}
        \cup {w \in Worker : worker[w].at \notin {"idle", "run", "stray"}}

\* Bound: while pumps overlap, all jobs but one are fresh, and one process at a
\* time, pump or worker, is about to discard or to finalize.
PlainOverlap ==
    overlapped # {} => /\ Cardinality({j \in Job : Seasoned(j)}) =< 1
                       /\ Cardinality(Discarders) =< 1
=============================================================================
