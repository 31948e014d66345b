\* Two consumers with batches of two over two tasks: rows locked in opposite orders.
SPECIFICATION ConsumerSpec
CONSTANTS
  t1 = t1  t2 = t2  a1 = a1  a2 = a2  b1 = b1  c1 = c1  c2 = c2
  Tasks = {t1, t2}
  Items = {a1}
  TaskOf <- MCTaskOf
  Blocking = {}
  Mapped = {a1}
  Consumers = {c1, c2}
  Nobody = Nobody
  ObjectMode = FALSE
  MaxTaskMsgs = 0
  LeaseEnabled = FALSE
  MaxRecords = 2
  MaxResults = 3
  MaxFaults = 0
  MaxRebalances = 1
PROPERTIES CallReturns EveryResultSettled
CHECK_DEADLOCK FALSE
