CONSTANTS
  q1 = q1
  q2 = q2
  r1 = r1
  r2 = r2
  r3 = r3
  Bootstrap = bootstrap
  Shutdown = shutdown
  Requests = {q1, q2}
  Runs = {r1, r2, r3}
  None = None
  Files = 2
  WithDirectory = TRUE
CHECK_DEADLOCK FALSE
SPECIFICATION FairSpec
INVARIANT TypeOK
INVARIANT OneRun
INVARIANT ProgressTrue
INVARIANT StopLeavesNothing
PROPERTY EverythingEnds
