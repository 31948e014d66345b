\* One request slot with one fault, two jobs with one fault, one task
\* with a retry.
SPECIFICATION CleanupSpec
CONSTANTS
  t1 = t1  t2 = t2  a1 = a1  b1 = b1  r1 = r1  j1 = j1  j2 = j2
  Tasks = {t1}
  Items = {a1}
  TaskOf <- MCTaskOf
  Blocking = {}
  Mapped = {}
  Consumers = {}
  Nobody = Nobody
  ObjectMode = TRUE
  MaxTaskMsgs = 2
  Reqs = {r1}
  GuardEnabled = TRUE
  ShortTTL = FALSE
  MaxApiFaults = 1
  Jobs = {j1, j2}
  MaxJobFaults = 1
INVARIANT ListedMeansDeleted
PROPERTIES ScanSparesTasksInFlight OldArchivesDeleted
CHECK_DEADLOCK FALSE
