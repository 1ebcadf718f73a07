SPECIFICATION Spec
CHECK_DEADLOCK FALSE
CONSTANTS
  NumWorkers = 2
  NumJobs = 2
  MaxBatches = 2
  Deadline <- NoDeadline
  MayFail = TRUE
  MayPanic = TRUE
  MayHang = FALSE
INVARIANTS EachJobOnce OkIsABarrier ErrorHasCause
PROPERTY ImplementsBatch
