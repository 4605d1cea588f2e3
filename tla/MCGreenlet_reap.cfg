CONSTANTS
  Threads = {t1}
  Greenlets = {g1, g2}
  None = None
SPECIFICATION Spec
INVARIANT ReapedAbandoned
CHECK_DEADLOCK FALSE
