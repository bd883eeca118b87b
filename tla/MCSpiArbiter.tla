----------------------------- MODULE MCSpiArbiter ----------------------------
(* Model-checking instance of SpiArbiter. *)
EXTENDS SpiArbiter
=============================================================================
