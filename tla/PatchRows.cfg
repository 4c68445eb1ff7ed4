SPECIFICATION Spec
CONSTANTS
  p1 = p1
  p2 = p2
  t1 = t1
  t2 = t2
  None = None
  Patches = {p1, p2}
  Rows <- MCRows
  Tasks = {t1, t2}
  MaxRequests = 2
  MaxOperations = 2
  MaxTime = 1
  AttemptLimit = 1
  Phases = {}
  Overlapping = {"deploy"}
SYMMETRY MCSymmetry
VIEW MCView
INVARIANTS
  TypeOK
  NoInventedVerdict
  OneRowPerPatch
  SettledRowShowsReport
CHECK_DEADLOCK FALSE
