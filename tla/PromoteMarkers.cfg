\* A promote of an unresolved fork fails before it has seen the markers.
CONSTANTS
  d = d
  x = x
  h1 = h1
  h2 = h2
  t = t
  u = u
  Mark = mark
  Absent = absent
  Dir = dir
  Paths <- PathsDX
  Above <- AboveDX
  Hunks = {h1, h2}
  Texts = {t, u}
  Written <- SomeWritten
  Binaries = {}
  Links = {}
  Ignores <- NoneIgnored
  Forks = {f1}
  Faults = {"early"}
  MaxEdits = 1
  MaxWork = 1
  MaxFaults = 1
SPECIFICATION Spec
INVARIANT MarkersNeverLand
CHECK_DEADLOCK FALSE
