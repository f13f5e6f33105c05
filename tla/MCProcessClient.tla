--------------------------- MODULE MCProcessClient ---------------------------
(* ProcessClient for TLC: the values are in the .cfg file. *)
EXTENDS ProcessClient
=============================================================================
