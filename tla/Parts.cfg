CONSTANTS
  Timers = {t1, t2}
  RT_TICK_MAX = 7
  Delays = {0, 1, 2}
  NullTick = 3
  ListHead = ListHead
  Temp = Temp
  Null = Null
  Wild = Wild
  None = None
  SwitchThreads = {h1, h2, h3}
  Long = 4
  Bits = 8
  Wrap = 8
  Incs = {1, 3}
  Late = 7
  MaxClock = 24
VIEW Told
SYMMETRY Alike
SPECIFICATION PartsSpec
INVARIANTS TimerListSound CopiesExactly AnswersRight FormatsAsC ResumedExactly
PROPERTIES OnlyArmedTimersFire TimersAreAlarms DelayKeepsPeriods
CHECK_DEADLOCK FALSE
