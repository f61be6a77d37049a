CONSTANTS
  w1 = w1
  w2 = w2
  e1 = e1
  e2 = e2
  e3 = e3
  p1 = p1
  p2 = p2
  p3 = p3
  Workers = {w1, w2}
  Entries = {e1, e2, e3}
  Library = {e1, e2}
  Papers = {p1, p2}
  None = None
  Matches <- PairMatches
  Links <- PairLinks
  ApiMayFail = FALSE
SPECIFICATION FairSpec
PROPERTY ClaimsReleased
