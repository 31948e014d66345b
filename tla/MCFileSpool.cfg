\* One task, two items, two publications, one fault; two uploads in two ticks.
SPECIFICATION Spec
CONSTANTS
  i1 = i1  i2 = i2
  Items = {i1, i2}
  NumTasks = 1
  TaskOf <- MCTaskOf
  Mapped = {i1}
  Limit = 2
  Window = 2
  MaxPublications = 2
  MaxSpoolFaults = 1
INVARIANT LimiterWindow
PROPERTIES PublishedIsAnswered SpoolImplementsLedger
CHECK_DEADLOCK FALSE
