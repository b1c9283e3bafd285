\* The idle timer alone, under faults of the watcher, the store and the daemon.
CONSTANTS
  Files = {a}
  Values = {absent, text}
  Absent = absent
  CommitEvery = 2
  Faults <- NetFaults
  MaxEdits = 2
  MaxFaults = 2
SPECIFICATION FairSpec
PROPERTY AutoNet
