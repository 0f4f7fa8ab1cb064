CONSTANTS
  Writers = {w}
  Main = w
  Togglers = {}
  RingSize = 3
  Bytes = 4
  Messages = {}
  None = None
SPECIFICATION Spec
INVARIANTS PutcWaitsForRoom
CHECK_DEADLOCK FALSE
