------------------------------ MODULE MCGateBus ------------------------------
(* GateBus for the model checker. *)
EXTENDS GateDoors
=============================================================================
