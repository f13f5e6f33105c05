--------------------------- MODULE MCNetworkStore ---------------------------
(* NetworkStore for TLC: two workers, the second one's event repeats an id. *)
EXTENDS NetworkStore

CONSTANTS w1, w2

MCWorkers == {w1, w2}
MCTarget == [w \in MCWorkers |-> "url"]
MCEvents == 1..3
MCWorkerOf == [e \in MCEvents |-> IF e = 3 THEN w2 ELSE w1]
MCIdOf == [e \in MCEvents |-> IF e = 3 THEN 1 ELSE e]
=============================================================================
