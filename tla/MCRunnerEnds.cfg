\* Two items of one group, one run at a time, one stream, two faults of any kind.
SPECIFICATION RunnerSpec
CONSTANTS
  a1 = a1  a2 = a2  b1 = b1  r1 = r1  r2 = r2  q1 = q1  q2 = q2  s1 = s1
  Items = {a1, a2}
  GroupOf <- MCGroupOf
  Runs = {r1}
  Reqs = {q1}
  Subs = {s1}
  Slots = 1
  GuardEnabled = TRUE
  ShortTTL = FALSE
  RedisBus = TRUE
  MaxRunFaults = 2
PROPERTIES RunEnds StreamComesToEnd
CHECK_DEADLOCK FALSE
