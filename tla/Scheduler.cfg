SPECIFICATION Spec
CONSTANTS
  Threads = {t1, t2}
  MaxJobs = 2
  MaxTime = 2
  Word = 5
  Intervals <- ShortAndLongest
INVARIANTS EachJobHasItsTimer
PROPERTIES NeverEarly GoneStaysSilent TickCatchesUp
SYMMETRY Interchangeable
