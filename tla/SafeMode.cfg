CONSTANTS
  Sessions = {s1, s2}
  Edits = {e1, e2}
  Nobody = nobody
  MaxMishaps = 1
SPECIFICATION FairSpec
INVARIANTS Isolated ShadowFits WorkKept EditsTracked
PROPERTIES PublishedStays CaptureReturns
CHECK_DEADLOCK FALSE
