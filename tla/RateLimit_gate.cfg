\* Three requests for a bucket of one token, half a second to a tick, three
\* ticks to refill a token; both engines. It stops when all are answered.
CONSTANTS
  q1 = q1
  q2 = q2
  q3 = q3
  Requests = {q1, q2, q3}
  Burst = 3
  Rate = 1
  Cost = 3
  Second = 2
  MaxClock = 4
  Grants = {"read", "write"}
  Required <- TwoToRead
  Engines = {"rowlock", "sqlite"}
SPECIFICATION FairSpec
CHECK_DEADLOCK FALSE
INVARIANTS
  TypeOK
  LockedBucketKeepsPolicy
  RetryAfterSuffices
  RevokedKeyIsRefused
PROPERTIES
  RequestAnswered
