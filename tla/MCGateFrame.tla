----------------------------- MODULE MCGateFrame -----------------------------
(* GateFrame for the model checker. *)
EXTENDS GateFrame

\* Nothing but zeros behind receiv_mess.buf, or nothing but GP_ESC.
MCBehind == {[i \in BufLen..2 * BufLen |-> b] : b \in {0, ESC}}
=============================================================================
