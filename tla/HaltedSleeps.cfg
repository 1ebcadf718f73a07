SPECIFICATION Spec
CONSTANTS
  NumAgents = 2
  Edges <- ChatEdges
  CondEdges = {}
  Vals <- TwoVals
  Seed = 0
  Outcomes <- ChatOutcomes
  HookEffects <- NoEff
  CallerSends <- NoSends
  Fallible = {}
  AggInit = 0
  HasAggregator = TRUE
  HasMaster = FALSE
  CustomReducer = FALSE
  Parallel = FALSE
  Combiners = {}
  DagSize <- EvenSizes
  InterruptBefore = {}
  InterruptAfter = {}
  MaxSteps = 4
  FaultTolerance = 0
  Interval = 0
  MaxCheckpoints <- KeepAll
  ThreadConfigured = TRUE
  MaxRuns = 1
PROPERTY ArrivalWakes
