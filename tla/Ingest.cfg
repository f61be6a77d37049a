SPECIFICATION IngestSpec
CONSTANTS
  Writers = {"job", "cli"}
  Keys = {"k1", "k2", "k3"}
  Titles = {"old", "new", "newer", "main", "listed", "broken", "none"}
  Related = {"a", "b", "c", "d", "p", "q"}
  Slugs <- MCSlugs
  Files <- MCFiles
  Initial <- MCInitial
  OneSession = {"cli"}
  BatchSize = 2
  NoKey = "no key"
  NoRow = NoRow
  Expired = Expired
  MaxFaults = 1
  MaxRuns = 2
INVARIANTS AccountsTrue StoredAsParsed
PROPERTIES CuratedKeepsCanonical IngestsEnd
CHECK_DEADLOCK FALSE
