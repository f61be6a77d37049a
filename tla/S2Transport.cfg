CONSTANTS
  c1 = c1
  c2 = c2
  Callers = {c1, c2}
  Unit = 2
  Capacity = 2
  MaxRetries = 2
  Backoff <- ExponentialBackoff
  HttpTimeout = 1
  MaxLate = 0
  StartBy = 6
  MaxTime = 24
SPECIFICATION FairSpec
INVARIANT TypeOK
INVARIANT WindowBound
INVARIANT AttemptsPaidFor
PROPERTY RequestsEnd
CHECK_DEADLOCK FALSE
