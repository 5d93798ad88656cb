----------------------------- MODULE MCSessions -----------------------------
(* Instances of Sessions for TLC.                                          *)
EXTENDS Sessions

CONSTANTS s1, s2, l1, p1, p2

\* A seed and a list in one process, a seed in another.
OneApart == [s \in Scopes |-> IF s = s2 THEN p2 ELSE p1]
Counts == [s \in Seeds |-> IF s = s1 THEN 2 ELSE 0]

\* Three tasks, two of them with dependent rows; nothing at all.
Before == {[t \in Tables |-> IF t = "tasks" THEN 0..2 ELSE {1, 2}], Blank}
==============================================================================
