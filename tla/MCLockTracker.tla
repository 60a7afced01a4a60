--------------------------- MODULE MCLockTracker ---------------------------
(***************************************************************************)
(* LockTracker for TLC: two processes, the first with two passes that can  *)
(* share the lock of a business and race each other into etcd.             *)
(***************************************************************************)
EXTENDS LockTracker, TLC

CONSTANTS a1, a2, p1, p2, p3

MCAm == {a1, a2}
MCPass == {p1, p2, p3}
MCAmOf == (p1 :> a1) @@ (p2 :> a1) @@ (p3 :> a2)

\* Sessions are interchangeable.
SessionSymmetry == Permutations(Session)
=============================================================================
