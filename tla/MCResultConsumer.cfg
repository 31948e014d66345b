\* Two consumers, batches of two, leases on, one crash or error, one rebalance.
SPECIFICATION ConsumerSpec
CONSTANTS
  t1 = t1  t2 = t2  a1 = a1  a2 = a2  b1 = b1  c1 = c1  c2 = c2
  Tasks = {t1, t2}
  Items = {a1, b1}
  TaskOf <- MCTaskOf
  Blocking = {}
  Mapped = {a1}
  Consumers = {c1, c2}
  Nobody = Nobody
  ObjectMode = FALSE
  MaxTaskMsgs = 0
  LeaseEnabled = TRUE
  MaxRecords = 2
  MaxResults = 2
  MaxFaults = 1
  MaxRebalances = 1
INVARIANTS StatusMatchesResult ObjectsMatchResults AckedResultsAccounted
CHECK_DEADLOCK FALSE
