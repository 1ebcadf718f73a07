SPECIFICATION Spec
CONSTANTS
  engine = engine
  operator = operator
  Clients <- TwoClients
  ThreadIds = {1}
  StepOf <- SomeSteps
  Times = {1, 2}
  Keep = 2
SYMMETRY Symmetry
INVARIANTS SaversAgree RewindGoesBack ResumeIsRecent
