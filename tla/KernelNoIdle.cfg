CONSTANTS
  a = a
  b = b
  c = c
  idle = idle
  sem = sem
  None = None
  Threads = {a, b}
  Idlers = {}
  PrioMax = 3
  Priority <- MCPriority
  Sems = {sem}
  SemMax = 2
  PrioFlag = TRUE
  InitTick = 1
  MaxTimeout = 1
  Timeouts = {1, None}
  Calls = {"take", "release", "isr_release"}
  MaxLock = 0
SPECIFICATION Spec
INVARIANTS TokensConserved
