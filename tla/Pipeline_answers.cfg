\* Every request over the four methods the documents speak of, PUT and PATCH; it
\* stops when the request is answered.
CONSTANTS
  Methods = {"GET", "POST", "PUT", "PATCH", "DELETE"}
  Ids = {"absent", "blank", "given"}
  Signals <- AllSignals
SPECIFICATION Spec
CHECK_DEADLOCK FALSE
INVARIANTS
  StatusAsDocumented
  ErrorsAreProblems
  NothingBeforeTheGate
