---------------------------- MODULE MCSqliteStore ----------------------------
(* SqliteStore for TLC: four events, the third repeats the first one's id,    *)
(* the fourth one's row cannot be read.                                         *)
EXTENDS SqliteStore

MCEvents == 1..4
MCUnreadable == {4}
MCIdOf == [e \in MCEvents |-> IF e = 3 THEN 1 ELSE e]
=============================================================================
