---------------------------- MODULE MCTaskRunner ----------------------------
(* Instances of TaskRunner for TLC.                                        *)
EXTENDS TaskRunner

CONSTANTS t1, t2, r1, r2, d1, d2

\* Two runs posted for the same task; a run for each of two tasks.
BothOnOne == [r \in Runs |-> t1]
OneEach == [r \in Runs |-> IF r = r1 THEN t1 ELSE t2]

\* Descendants that stay in the group; those that leave it may keep the pipe.
InGroup == [grouped |-> TRUE, pipe |-> TRUE]
InGroupSilent == [grouped |-> TRUE, pipe |-> FALSE]
Escaped == [grouped |-> FALSE, pipe |-> TRUE]
GroupedKin == {InGroup}
SilentKin == {InGroupSilent}
AllKin == {InGroup, Escaped}
NoKin == {}

NoisyOne == {r1}
NoRuns == {}
==============================================================================
