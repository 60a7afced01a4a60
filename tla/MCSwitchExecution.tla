------------------------- MODULE MCSwitchExecution -------------------------
(***************************************************************************)
(* Two requests.  Host A has the master of cluster c and a slave of        *)
(* cluster d, host B the two proxies of cluster c.                         *)
(***************************************************************************)
EXTENDS SwitchExecution

MCClusterOf == [i \in Inst |-> IF i = "s" THEN "d" ELSE "c"]
MCHostOf == [i \in Inst |-> IF i \in {"m", "s"} THEN "A" ELSE "B"]
MCRole == [i \in Inst |-> CASE i = "m" -> "master"
                            [] i = "s" -> "slave"
                            [] OTHER -> "proxy"]
MCHost == {"A", "B"}
=============================================================================
