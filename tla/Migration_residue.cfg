\* Two results, every command, killed at any point.
CONSTANTS
  t1 = t1
  t2 = t2
  Tasks = {t1, t2}
  Commands = {"upgrade head", "downgrade -1", "downgrade base"}
SPECIFICATION Spec
INVARIANTS
  BaseLeavesNoTables
