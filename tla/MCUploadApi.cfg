\* Two concurrent requests, one fault; t2 has a blocking error.
SPECIFICATION UploadSpec
CONSTANTS
  t1 = t1  t2 = t2  a1 = a1  a2 = a2  b1 = b1  r1 = r1  r2 = r2
  Tasks = {t1, t2}
  Items = {a1, b1}
  TaskOf <- MCTaskOf
  Blocking = {b1}
  Mapped = {a1}
  Consumers = {}
  Nobody = Nobody
  ObjectMode = TRUE
  MaxTaskMsgs = 2
  Reqs = {r1, r2}
  GuardEnabled = TRUE
  ShortTTL = TRUE
  MaxApiFaults = 1
INVARIANTS UploadTypeOK OnlyCleanTasksPublished QueuedMeansPublished
PROPERTY ClaimsFollowUploads
CHECK_DEADLOCK FALSE
