\* No failure and no crash: one excluded path under another.
SPECIFICATION Spec
CONSTANTS
  inner = inner
  outer = outer
  Rules <- MCRules
  Position <- MCPosition
  Nested <- InnerFirst
  Gens = {g1, g2}
  Platforms = {"unix"}
  Faults = {}
  MaxRewinds = 1
  MaxStarts = 0
CHECK_DEADLOCK FALSE
INVARIANTS
  LiveKept
