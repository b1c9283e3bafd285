\* An edit that comes while a baseline is under way, and nothing failing.
CONSTANTS
  Files = {a}
  Values = {absent, text}
  Absent = absent
  CommitEvery = 2
  Faults = {}
  MaxEdits = 1
  MaxFaults = 0
SPECIFICATION Spec
INVARIANT CaptureIsMarked
