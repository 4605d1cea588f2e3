CONSTANTS
  Threads = {t1, t2}
  Greenlets = {g1, g2}
  None = None
SPECIFICATION Spec
INVARIANT BoundStays
CHECK_DEADLOCK FALSE
