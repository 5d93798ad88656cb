\* Three creations under two names and a DELETE beside a client that reads all
\* pages; two DELETEs beside two runs and a reader. All of them may end.
CONSTANTS
  a = a
  b = b
  d1 = d1
  d2 = d2
  g1 = g1
  u1 = u1
  u2 = u2
  Creates = {1, 2, 3}
  NameOf <- TwoAlike
  Deletes = {d1, d2}
  Readers = {g1}
  Runs = {u1, u2}
  Limits = {1, 2}
  Workloads <- PagesOrSweeps
SPECIFICATION FairSpec
CHECK_DEADLOCK FALSE
INVARIANTS
  TypeOK
  SharedNameNeedsRace
  FailureHasRace
  SweptClean
  SlipsNeedChanges
PROPERTIES
  PageWalkEnds
