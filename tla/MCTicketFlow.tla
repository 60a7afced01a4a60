---------------------------- MODULE MCTicketFlow ----------------------------
(***************************************************************************)
(* TicketFlow for TLC: a pipeline between two confirmations, and a single  *)
(* pipeline.                                                               *)
(***************************************************************************)
EXTENDS TicketFlow, TLC

CONSTANTS c1, c2

PauseInnerPause == (1 :> "pause") @@ (2 :> "inner") @@ (3 :> "pause")
OnlyInner == (1 :> "inner")
=============================================================================
