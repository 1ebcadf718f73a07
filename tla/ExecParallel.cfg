SPECIFICATION Spec
CONSTANTS
  MaxCommands = 2
  MaxLimit = 2
  TimeoutChoices = {TRUE, FALSE}
  MayPanic = TRUE
INVARIANTS AtMostConcurrent NobodyWaitsForAPermit CompleteAnswer InInputOrder FewLateStarts
PROPERTIES Returns WorkersEnd
