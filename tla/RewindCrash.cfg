\* Crashes anywhere, and every failure the code unwinds or survives.
SPECIFICATION Spec
CONSTANTS
  inner = inner
  outer = outer
  Rules <- MCRules
  Position <- MCPosition
  Nested <- Siblings
  Gens = {g1, g2}
  Platforms = {"unix", "windows"}
  Faults = {"fill", "carry", "park", "unlink"}
  MaxRewinds = 2
  MaxStarts = 2
CHECK_DEADLOCK FALSE
INVARIANTS
  TypeOK
  NeverMixed
  LiveKept
  HomeWhenIdle
PROPERTIES
  JournalLeads
  Implements
