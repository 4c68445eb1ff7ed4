SPECIFICATION FairScheduler
CONSTANTS
  p1 = p1
  p2 = p2
  t1 = t1
  t2 = t2
  j1 = j1
  j2 = j2
  None = None
  Patches = {p1}
  Rows <- MCOneRow
  Tasks = {t1, t2}
  Jobs = {j1, j2}
  MaxRequests = 0
  MaxOperations = 2
  MaxTime = 2
  Timeout = 1
  AttemptLimit = 0
  Phases = {}
  Overlapping = {"deploy", "report"}
INVARIANTS
  SchedulerTypeOK
  SentInTime
PROPERTY
  LeavesSchedule
