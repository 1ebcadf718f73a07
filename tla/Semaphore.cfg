SPECIFICATION SemaphoreSpec
CONSTANTS
  Threads = {t1, t2, t3, t4}
  Permits = 2
  Rounds = 1
  Spurious = 1
INVARIANTS PermitsConserved NoLostWakeup
PROPERTIES AllPairsComplete ImplementsPermits
