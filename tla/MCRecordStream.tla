--------------------------- MODULE MCRecordStream ----------------------------
(* Model-checking instance of RecordStream. *)
EXTENDS RecordStream
=============================================================================
