CONSTANTS
  s1 = s1
  s2 = s2
  Sessions <- MCSessions
  Nobody = nobody
  Ceiling = 2
  QueueDepth = 1
  MaxTurns = 3
  MaxStarts = 3
  MaxRuns = 2
  MaxDeaths = 1
  Trims = FALSE
SPECIFICATION Spec
INVARIANTS Swept
