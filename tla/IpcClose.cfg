CONSTANTS
  hi = hi
  mid = mid
  lo = lo
  Threads <- MCThreads
  Peers <- Pair
  None = None
  PrioMax = 4
  Priority <- MCPriority
  PrioFlag = TRUE
  Waits = {"ticks"}
  QueueWaits = {"ticks"}
  Values = {v1}
  Capacity = 1
  Bits = {1}
  Asks = {}
  HoldMax = 1
  SemMax = 1
SPECIFICATION Spec
INVARIANTS CloseTakesWaiters
CHECK_DEADLOCK FALSE
