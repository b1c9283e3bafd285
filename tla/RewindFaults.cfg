\* Crashes anywhere and every failure, those the code does not answer included.
SPECIFICATION Spec
CONSTANTS
  inner = inner
  outer = outer
  Rules <- MCRules
  Position <- MCPosition
  Nested <- Siblings
  Gens = {g1, g2}
  Platforms = {"unix", "windows"}
  Faults = {"journal", "fill", "carry", "back", "exchange", "park", "unlink", "recreate", "edit"}
  MaxRewinds = 2
  MaxStarts = 1
CHECK_DEADLOCK FALSE
PROPERTIES
  EditOutlivesItsRewind
