----------------------------- MODULE MCClientCall -----------------------------
(* ClientCall for TLC: the values are in the .cfg files. *)
EXTENDS ClientCall
=============================================================================
