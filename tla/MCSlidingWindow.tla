-------------------------- MODULE MCSlidingWindow --------------------------
(***************************************************************************)
(* SlidingWindow for TLC: two passes, and two instances whose businesses   *)
(* the configuration chooses (the same one, or one each).                  *)
(***************************************************************************)
EXTENDS SlidingWindow, TLC

CONSTANTS i1, i2, b1, b2

MCInst == {i1, i2}
OneBiz == {b1}
SameBiz == (i1 :> b1) @@ (i2 :> b1)
TwoBiz == {b1, b2}
BizEach == (i1 :> b1) @@ (i2 :> b2)
=============================================================================
