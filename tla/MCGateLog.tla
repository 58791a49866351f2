------------------------------ MODULE MCGateLog ------------------------------
(* The instances of GateLog that TLC checks. *)
EXTENDS GateLog
=============================================================================
