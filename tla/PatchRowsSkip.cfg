SPECIFICATION Spec
CONSTANTS
  p1 = p1
  p2 = p2
  t1 = t1
  t2 = t2
  None = None
  Patches = {p1, p2}
  Rows <- MCRows
  Tasks = {t1, t2}
  MaxRequests = 2
  MaxOperations = 2
  MaxTime = 0
  AttemptLimit = 1
  Phases = {"EXTRACT"}
  Overlapping = {}
PROPERTY SkippedMeansDeployed
CHECK_DEADLOCK FALSE
