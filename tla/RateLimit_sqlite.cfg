\* The same requests on the engine that ignores FOR UPDATE.
CONSTANTS
  q1 = q1
  q2 = q2
  q3 = q3
  Requests = {q1, q2, q3}
  Burst = 6
  Rate = 1
  Cost = 3
  Second = 2
  MaxClock = 2
  Grants = {"read", "write"}
  Required <- TwoToRead
  Engines = {"sqlite"}
SPECIFICATION Spec
CHECK_DEADLOCK FALSE
INVARIANTS
  WithinPolicy
