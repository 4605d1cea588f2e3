CONSTANTS
  Threads = {t1}
  Greenlets = {g1, g2}
  None = None
SPECIFICATION Spec
PROPERTY NamesUs
CHECK_DEADLOCK FALSE
