\* One run of one task.
CONSTANTS
  t1 = t1
  t2 = t2
  r1 = r1
  r2 = r2
  d1 = d1
  d2 = d2
  Tasks = {t1}
  Runs = {r1}
  Threads = {d1}
  TaskOf <- BothOnOne
  Kin <- NoKin
  Noisy <- NoisyOne
  Faults = {}
SPECIFICATION FairSpec
PROPERTIES
  WatchdogEndsRun
