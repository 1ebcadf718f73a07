SPECIFICATION Spec
CONSTANTS
  NumAgents = 2
  Edges <- HookEdges
  CondEdges <- HookCond
  Vals <- OneVal
  Seed = 0
  Outcomes <- HookOutcomes
  HookEffects <- HookSet
  CallerSends <- CallerMail
  Fallible = {2}
  AggInit = 0
  HasAggregator = TRUE
  HasMaster = TRUE
  CustomReducer = TRUE
  Parallel = TRUE
  Combiners = {1}
  DagSize <- UnevenSizes
  InterruptBefore = {2}
  InterruptAfter = {2}
  MaxSteps = 3
  FaultTolerance = 1
  Interval = 1
  MaxCheckpoints = 1
  ThreadConfigured = TRUE
  MaxRuns = 2
INVARIANTS OkMeansQuiescent OnlyThisAttemptCounts SeenWithinVersions CheckpointHoldsNoDeliveredMail
PROPERTIES ImplementsBSP RetentionKeepsNewest ProgressKept
