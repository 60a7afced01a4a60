----------------------------- MODULE MCFailover -----------------------------
(***************************************************************************)
(* Failover for TLC: two processes, the first with two passes, and two     *)
(* instances of one business, on one host or on a host each.               *)
(***************************************************************************)
EXTENDS Failover, TLC

CONSTANTS a1, a2, p1, p2, p3, i1, i2, b1, h1, h2

MCAm == {a1, a2}
MCPass == {p1, p2, p3}
MCAmOf == (p1 :> a1) @@ (p2 :> a1) @@ (p3 :> a2)

TwoInst == {i1, i2}
TwoInstBiz == (i1 :> b1) @@ (i2 :> b1)
HostEach == (i1 :> h1) @@ (i2 :> h2)
SameHost == (i1 :> h1) @@ (i2 :> h1)
=============================================================================
