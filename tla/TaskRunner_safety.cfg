\* Two runs of one task under every fault; one child floods its pipes;
\* descendants in and out of the group.
CONSTANTS
  t1 = t1
  t2 = t2
  r1 = r1
  r2 = r2
  d1 = d1
  d2 = d2
  Tasks = {t1}
  Runs = {r1, r2}
  Threads = {d1, d2}
  TaskOf <- BothOnOne
  Kin <- AllKin
  Noisy <- NoisyOne
  Faults = {"tokenise", "spawn", "raise", "repo", "cancel"}
SPECIFICATION Spec
INVARIANTS
  TypeOK
  KilledGroupStaysDead
  ReturnAfterCollection
  HistoryTellsVerdict
  TerminalStatusIsEarned
PROPERTIES
  ResultUnderOwnStatus
  LedgerSpec
