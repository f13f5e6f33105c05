--------------------------- MODULE MCEventPipeline ---------------------------
(* EventPipeline for TLC: the values are in the .cfg files. *)
EXTENDS EventPipeline
=============================================================================
