CONSTANTS
  Threads = {t1}
  Greenlets = {g1, g2}
  None = None
SPECIFICATION Spec
INVARIANT NoPanic
CHECK_DEADLOCK FALSE
