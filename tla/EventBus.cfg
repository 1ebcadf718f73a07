SPECIFICATION Spec
CONSTANTS
  t1 = t1
  t2 = t2
  Threads <- TwoThreads
  Patterns <- SomePatterns
  Events <- SomeEvents
  MaxHandlers = 2
  MaxEmits = 2
  MaxDepth = 2
SYMMETRY Symmetry
INVARIANT DeliversWhatMatches
