\* Every fault the code meets, with two files.
CONSTANTS
  Files = {a, b}
  Values = {absent, text}
  Absent = absent
  CommitEvery = 2
  Faults <- FaultClasses
  MaxEdits = 1
  MaxFaults = 2
SPECIFICATION Spec
INVARIANTS EditsTracked CapturedPending NoopTellsTruth OverwrittenIsOnRecord NeverWedged
