CONSTANTS
  s1 = s1
  s2 = s2
  Sessions <- MCSessions
  Nobody = nobody
  Pasts <- MCFresh
  MaxTrees = 2
  MaxRows = 6
  MaxTurns = 2
  MaxCached = 1
SPECIFICATION Spec
INVARIANTS DriftTold
