CONSTANTS
  Invalid = Invalid
  Nothing = Nothing
  Pending = Pending
  Failed = Failed
  NoFile = NoFile
  BadType = BadType
  PgMaxBindParams = 7
  Reserve = 1
  BatchSize = 2
  ApiPage = 3
  ChunkSize = 2
  Plain <- MCPlain
  Normalized <- MCNormalized
  HopCitations = 2
  ExpandCitations = 1
  EnrichFirst = 2
  EnrichPapers = 1
  ExpandFirst = 1
  MinWeight = 34
  SimilarityEdgesShown = 2
  AggregateLimit = 1
  NodesCap = 3
  MaxPage = 4
  MaxSignalPage = 4
  GlobTasks <- MCGlobTasks
  BraceTasks <- MCBraceTasks
  SourceTasks <- MCSourceTasks
  EntryTasks <- MCEntryTasks
  VenueTasks <- MCVenueTasks
  SubjectTasks <- MCSubjectTasks
  ChunkTasks <- MCChunkTasks
  FactTasks <- MCFactTasks
  BundleTasks <- MCBundleTasks
  EdgeTasks <- MCEdgeTasks
  SignalTasks <- MCSignalTasks
  GrowthTasks <- MCGrowthTasks
  CorpusTasks <- MCCorpusTasks
  PaperTasks <- MCPaperTasks
  MetaTasks <- MCMetaTasks
  GraphTasks <- MCGraphTasks
  ListTasks <- MCListTasks
  SearchTasks <- MCSearchTasks
  HealthTasks <- MCHealthTasks
SPECIFICATION Spec
INVARIANT FilesByContract
INVARIANT EntriesKept
INVARIANT ReleaseTold
INVARIANT SourcesAnswer
INVARIANT GraphDrawn
INVARIANT ListsAgree
INVARIANT SearchHonest
CHECK_DEADLOCK FALSE
