\* One fault of each component; one request slot, one item, two messages.
SPECIFICATION SystemSpec
CONSTANTS
  t1 = t1  t2 = t2  a1 = a1  a2 = a2  b1 = b1  r1 = r1  r2 = r2  c1 = c1  c2 = c2
  Tasks = {t1}
  Items = {a1}
  TaskOf <- MCTaskOf
  Blocking = {}
  Mapped = {a1}
  Consumers = {c1}
  Nobody = Nobody
  ObjectMode = TRUE
  MaxTaskMsgs = 2
  Reqs = {r1}
  GuardEnabled = FALSE
  ShortTTL = FALSE
  MaxApiFaults = 1
  BatchSize = 1
  MaxItemConc = 2
  MaxWorkerCrashes = 1
  LeaseEnabled = FALSE
  MaxRecords = 1
  MaxResults = 0
  MaxFaults = 1
  MaxRebalances = 0
INVARIANT RowsBackedByBytes
PROPERTIES ImplementsLedger PublishedItemsSettle
CHECK_DEADLOCK FALSE
