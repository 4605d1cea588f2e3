CONSTANTS
  Threads = {m, a, b}
  Main = m
  None = None
SPECIFICATION FairSpec
CHECK_DEADLOCK FALSE
INVARIANT WakeupOnTheWay
PROPERTY TimedEnds
