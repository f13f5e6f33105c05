---------------------------- MODULE MCInFlightPoll ----------------------------
(* InFlightPoll for TLC: the values are in the .cfg files. *)
EXTENDS InFlightPoll
=============================================================================
