\* A checkpoint whose snapshot fails, and the one after it.
CONSTANTS
  Files = {a}
  Values = {absent, text}
  Absent = absent
  CommitEvery = 2
  Faults = {"snapshot"}
  MaxEdits = 1
  MaxFaults = 1
SPECIFICATION Spec
INVARIANT NoopIsTrue
