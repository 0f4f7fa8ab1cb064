CONSTANTS
  a = a
  b = b
  c = c
  idle = idle
  sem = sem
  None = None
  Threads = {a, b, c}
  Idlers = {}
  PrioMax = 3
  Priority <- FlatPriority
  Sems = {sem}
  SemMax = 1
  PrioFlag = TRUE
  InitTick = 1
  MaxTimeout = 1
  Timeouts = {0, 1, None}
  Calls = {"yield"}
  MaxLock = 2
SPECIFICATION Spec
PROPERTIES YieldedGoesLast
