CONSTANTS
  Sessions = {s1}
  Edits = {e1, e2}
  Nobody = nobody
  MaxMishaps = 1
SPECIFICATION Spec
PROPERTIES ConflictMeansMoved
CHECK_DEADLOCK FALSE
