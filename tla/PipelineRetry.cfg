\* A tick whose recovery baseline fails.
CONSTANTS
  Files = {a}
  Values = {absent, text}
  Absent = absent
  CommitEvery = 2
  Faults = {"overflow", "rebuild"}
  MaxEdits = 1
  MaxFaults = 2
SPECIFICATION FairSpec
PROPERTY TickRetries
