CONSTANTS
  Static = {s}
  Heap = {h}
  Users = {u, v}
  Names = {n}
  PrioMax = 2
  Usages = {"timed", "close"}
  None = None
  top1 = top1
  top2 = top2
  low = low
  sem = sem
  Calls = {"take", "isr_release", "critical"}
  Timeouts = {1}
  InitTick = 2
  MaxTimeout = 1
  MaxLock = 1
SPECIFICATION LiveSystem
INVARIANTS ListsAgree FreedIsForgotten ContainerExact
PROPERTIES ClosedStaysClosed EveryClosedReaped TimedWaitEnds SliceEnds
