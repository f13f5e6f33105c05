----------------------------- MODULE MCFlushRetry -----------------------------
(* FlushRetry for TLC: the values are in the .cfg files; one unit of time is     *)
(* 100 ms of the default backoff.                                                *)
EXTENDS FlushRetry
=============================================================================
