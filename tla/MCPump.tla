------------------------------- MODULE MCPump -------------------------------
(***************************************************************************)
(* Pump.tla for TLC.  A configuration file cannot write the number that    *)
(* stands for an absent cursor.                                            *)
(***************************************************************************)
EXTENDS Pump

ColdOrResumed == {Unset, 0}
=============================================================================
