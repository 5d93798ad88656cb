---------------------------- MODULE MCTaskStore ----------------------------
(* Instances of TaskStore for TLC.                                         *)
EXTENDS TaskStore

CONSTANTS a, b, d1, d2, g1, u1, u2

\* Two tasks of one name and a third.
TwoAlike == [c \in Creates |-> IF c = 2 THEN b ELSE a]

\* Pages beside creations and a DELETE; two DELETEs beside runs and a reader.
PagesOrSweeps == {{1, 2, 3, d1, Pages}, {1, 2, d1, d2, u1, u2, g1}}
==============================================================================
