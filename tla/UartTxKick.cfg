CONSTANTS
  Writers = {w}
  Main = w
  Togglers = {}
  RingSize = 4
  Bytes = 2
  Messages = {2}
  None = None
SPECIFICATION Spec
INVARIANTS SentInOrder
CHECK_DEADLOCK FALSE
