CONSTANTS
  None = None
  Raises = Raises
  NoFile = NoFile
  ApiPage = 2
  ChunkSize = 1
  Published <- MCPublished
  MaxAttempts = 2
  MaxCommands = 3
SPECIFICATION Spec
INVARIANT CorpusWhole
INVARIANT TwoSidedAtFirst
PROPERTY CommandsEnd
CHECK_DEADLOCK FALSE
