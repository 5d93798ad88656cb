\* Two seeds and a list over two processes with one connection each. It stops
\* when all scopes are left.
CONSTANTS
  s1 = s1
  s2 = s2
  l1 = l1
  p1 = p1
  p2 = p2
  Scopes = {s1, s2, l1}
  Seeds = {s1, s2}
  CountOf <- Counts
  Procs = {p1, p2}
  ProcOf <- OneApart
  Capacity = 1
  Contents <- Before
SPECIFICATION FairSpec
CHECK_DEADLOCK FALSE
INVARIANTS
  TypeOK
  NothingHeldAfterwards
PROPERTIES
  UnitsAreAtomic
  ScopeEnds
