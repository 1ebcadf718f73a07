SPECIFICATION Spec
CONSTANTS
  NumWorkers = 2
  NumJobs = 3
  MaxBatches = 1
  Deadline = 1
  MayFail = TRUE
  MayPanic = FALSE
  MayHang = TRUE
INVARIANT WaitIsBounded
PROPERTIES BatchReturns DroppedPoolEnds
