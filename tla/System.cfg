CONSTANTS
  Writers = {w, x}
  Togglers = {x}
  Main = w
  RingSize = 3
  Bytes = 3
  Messages = {2}
  a = a
  b = b
  c = c
  idle = idle
  sem = sem
  None = None
  Threads = {a, b, c, idle}
  Idlers = {idle}
  PrioMax = 3
  Priority <- MCPriority
  Sems = {sem}
  SemMax = 2
  PrioFlag = TRUE
  InitTick = 1
  MaxTimeout = 1
  Timeouts = {0, 1, None}
  Calls = {"take", "release", "isr_release", "sleep", "park", "exit", "create", "yield", "critical"}
  MaxLock = 2
SPECIFICATION SystemSpec
VIEW Told
INVARIANTS TypeOK ReadyTable HighestRuns OnlyRunningThreadsRun NoLostWaiter TokensConserved UartTyped NoFlood ActiveIsArmed
PROPERTIES CriticalHoldsCpu PreemptedGoesFirst SemaphoresImplemented 
CHECK_DEADLOCK FALSE
