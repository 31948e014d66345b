\* One message per Consume (the default), object sources, one exit.
SPECIFICATION WorkerSpec
CONSTANTS
  t1 = t1  t2 = t2  a1 = a1  a2 = a2  b1 = b1
  Tasks = {t1}
  Items = {a1, a2}
  TaskOf <- MCTaskOf
  Blocking = {}
  Mapped = {}
  Consumers = {}
  Nobody = Nobody
  BatchSize = 1
  MaxItemConc = 2
  ObjectMode = TRUE
  MaxTaskMsgs = 2
  MaxWorkerCrashes = 1
INVARIANTS WorkerTypeOK AckedTasksAnswered ResultsComplete
PROPERTY EveryTaskAnswered
CHECK_DEADLOCK FALSE
