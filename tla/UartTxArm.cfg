CONSTANTS
  Writers = {w}
  Main = w
  Togglers = {gpioirq}
  RingSize = 4
  Bytes = 3
  Messages = {3}
  None = None
SPECIFICATION LiveSpec
PROPERTIES ReportedBesideOthers
CHECK_DEADLOCK FALSE
