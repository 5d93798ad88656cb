\* Runs of two tasks with every fault but a failing store; descendants let go of the pipes.
CONSTANTS
  t1 = t1
  t2 = t2
  r1 = r1
  r2 = r2
  d1 = d1
  d2 = d2
  Tasks = {t1, t2}
  Runs = {r1, r2}
  Threads = {d1}
  TaskOf <- OneEach
  Kin <- SilentKin
  Noisy <- NoRuns
  Faults = {"tokenise", "spawn", "raise", "cancel"}
SPECIFICATION FairSpec
INVARIANTS
  NoLostResult
PROPERTIES
  RunSettles
  StatusSettles
