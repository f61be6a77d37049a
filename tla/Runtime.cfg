SPECIFICATION MCSpec
CONSTANTS
  Release = {1, 2}
  Paper = {"p1"}
  Facts <- FactsOf
  EntriesSeen <- OneEntry
  Admin = {"a1"}
  MaxPosts = 1
  MaxRestarts = 1
  WaitTimeout = 1
  NoRelease = NoRelease
  Server = {"boot", "trigger", "import"}
  Triggers = {"trigger"}
  Imports = {"import"}
  Directories = {"directory"}
  Cli = {"cli"}
  MaxAsks = 2
  Newest = 2
  MaxKills = 1
  Ref = FALSE
  Starts = {"absent", "repo", "elsewhere"}
  Torn = Torn
  PapersOf <- PapersIn
INVARIANTS
  ProcessSafe
  ReleasesSafe
PROPERTIES
  OthersUntouched
  ProcessEnds
CHECK_DEADLOCK FALSE
