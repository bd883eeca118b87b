----------------------------- MODULE MCNvmStore -----------------------------
(* Model-checking instance of NvmStore. *)
EXTENDS NvmStore
=============================================================================
