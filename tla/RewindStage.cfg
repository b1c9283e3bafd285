\* No crash: a rewind whose swap failed, then another one in the same daemon.
SPECIFICATION Spec
CONSTANTS
  inner = inner
  outer = outer
  Rules <- MCRules
  Position <- MCPosition
  Nested <- Siblings
  Gens = {g1, g2}
  Platforms = {"unix"}
  Faults = {"exchange"}
  MaxRewinds = 2
  MaxStarts = 0
CHECK_DEADLOCK FALSE
INVARIANTS
  StageIsStale
