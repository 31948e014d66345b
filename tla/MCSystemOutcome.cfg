\* Two requests at a time, with retries and second uploads; two items; no fault.
SPECIFICATION SystemSafety
CONSTANTS
  t1 = t1  t2 = t2  a1 = a1  a2 = a2  b1 = b1  r1 = r1  r2 = r2  c1 = c1  c2 = c2
  Tasks = {t1}
  Items = {a1, a2}
  TaskOf <- MCTaskOf
  Blocking = {}
  Mapped = {a1}
  Consumers = {c1}
  Nobody = Nobody
  ObjectMode = TRUE
  MaxTaskMsgs = 2
  Reqs = {r1, r2}
  GuardEnabled = FALSE
  ShortTTL = FALSE
  MaxApiFaults = 0
  BatchSize = 1
  MaxItemConc = 1
  MaxWorkerCrashes = 0
  LeaseEnabled = FALSE
  MaxRecords = 2
  MaxResults = 0
  MaxFaults = 0
  MaxRebalances = 0
INVARIANTS UploadedMeansAllOnce ArchiveKeptWhenCalm
PROPERTY NoItemTwiceWhenCalm
SYMMETRY Slots
CHECK_DEADLOCK FALSE
