\* Promotes of two forks and the edits of the tree, failing at any step.
CONSTANTS
  d = d
  x = x
  h1 = h1
  h2 = h2
  t = t
  u = u
  Mark = mark
  Absent = absent
  Dir = dir
  Paths <- PathsDX
  Above <- AboveDX
  Hunks = {h1, h2}
  Texts = {t, u}
  Written <- SomeWritten
  Binaries = {bin}
  Links = {}
  Ignores <- NoneOrX
  Forks = {f1, f2}
  Faults = {"early", "late", "rebase", "land"}
  MaxEdits = 1
  MaxWork = 2
  MaxFaults = 1
SPECIFICATION Spec
SYMMETRY Symmetric
INVARIANTS MarkersStayOut MarksAreOpen MergeIsThreeWay
PROPERTY WorkOutlivesFork
CHECK_DEADLOCK FALSE
