CONSTANTS
  job = job
  req = req
  p1 = p1
  p2 = p2
  Workers = {job, req}
  Job = job
  Entries <- MCEntries
  Newest = 4
  Papers = {p1, p2}
  None = None
  Matches <- MCMatches
  Links <- MCLinks
  BatchSize = 2
  MaxRestarts = 1
SPECIFICATION FairBackfillSpec
INVARIANT TypeOK
PROPERTY BackfillResolves
