\* An edit comes between the capture of the head and the landing.
CONSTANTS
  d = d
  x = x
  h1 = h1
  h2 = h2
  t = t
  u = u
  Mark = mark
  Absent = absent
  Dir = dir
  Paths <- PathsDX
  Above <- AboveDX
  Hunks = {h1, h2}
  Texts = {t, u}
  Written <- SomeWritten
  Binaries = {}
  Links = {}
  Ignores <- NoneIgnored
  Forks = {f1}
  Faults = {}
  MaxEdits = 1
  MaxWork = 1
  MaxFaults = 0
SPECIFICATION Spec
INVARIANT OverwrittenIsOnRecord
CHECK_DEADLOCK FALSE
