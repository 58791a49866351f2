---------------------------- MODULE MCGateCards ----------------------------
(* The instances of GateCards that TLC checks. *)
EXTENDS GateCards
=============================================================================
