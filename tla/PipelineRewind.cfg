\* A rewind whose recovery fails, and the rewind after it.
CONSTANTS
  Files = {a}
  Values = {absent, text}
  Absent = absent
  CommitEvery = 2
  Faults = {"rebuild"}
  MaxEdits = 1
  MaxFaults = 1
SPECIFICATION FairSpec
PROPERTY RewindSafety
