SPECIFICATION SchedulerSpec
CONSTANTS
  p1 = p1
  p2 = p2
  t1 = t1
  t2 = t2
  j1 = j1
  j2 = j2
  None = None
  Patches = {p1, p2}
  Rows <- MCTwoRows
  Tasks = {t1}
  Jobs = {j1, j2}
  MaxRequests = 1
  MaxOperations = 2
  MaxTime = 1
  Timeout = 0
  AttemptLimit = 1
  Phases = {}
  Overlapping = {"deploy", "report"}
INVARIANT SendsTheScheduledPatch
