SPECIFICATION Spec
CONSTANTS
  NumAgents = 3
  Edges <- TrioEdges
  CondEdges <- TrioCond
  Vals <- TwoVals
  Seed = 0
  Outcomes <- TrioOutcomes
  HookEffects <- AddHook
  CallerSends <- NoSends
  Fallible = {2}
  AggInit = 0
  HasAggregator = TRUE
  HasMaster = FALSE
  CustomReducer = FALSE
  Parallel = FALSE
  Combiners = {}
  DagSize <- TrioSizes
  InterruptBefore = {}
  InterruptAfter = {}
  MaxSteps = 3
  FaultTolerance = 1
  Interval = 0
  MaxCheckpoints <- KeepAll
  ThreadConfigured = TRUE
  MaxRuns = 1
INVARIANTS TypeOK WokenSeesItsMessage RunOncePerStep WritesSurviveStep
