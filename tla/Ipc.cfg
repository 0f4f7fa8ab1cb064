CONSTANTS
  hi = hi
  mid = mid
  lo = lo
  Threads <- MCThreads
  Peers <- Pair
  None = None
  PrioMax = 4
  Priority <- MCPriority
  PrioFlag = TRUE
  Waits = {"ticks", "forever"}
  QueueWaits = {"ticks"}
  Values = {v1, v2}
  Capacity = 2
  Bits = {1, 2}
  Asks <- ThreeAsks
  HoldMax = 2
  SemMax = 2
SPECIFICATION Spec
INVARIANTS
  IpcWaitsSound IpcWaitersByPriority IpcNobodyStranded QueueBlocksConserved
  MutexExclusive MutexNoInversion MutexPriorityRestored
PROPERTIES ChannelImplemented EventImplemented SemaphoreImplemented
SYMMETRY Symmetry
VIEW Relevant
CHECK_DEADLOCK FALSE
