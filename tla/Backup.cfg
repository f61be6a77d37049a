SPECIFICATION BackupSpec
CONSTANTS
  Clients = {"u", "v"}
  Ids = {1, 2}
  Names = {"n"}
  Entries = {"e1", "e2"}
  Unknown = "e0"
  NoCollection = NoCollection
  MaxCalls = 5
  Marks = {"x"}
  NoMark = NoMark
  NoFile = NoFile
  Foreign <- MCForeign
INVARIANT BackupTypeOK
PROPERTIES UserStateKept CallsAnswered
CHECK_DEADLOCK FALSE
