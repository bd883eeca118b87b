----------------------------- MODULE MCUsbStdout ------------------------------
(* Model-checking instance of UsbStdout. *)
EXTENDS UsbStdout
=============================================================================
