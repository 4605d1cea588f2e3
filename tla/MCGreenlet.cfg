CONSTANTS
  Threads = {t1, t2}
  Greenlets = {g1, g2}
  None = None
SPECIFICATION FairSpec
INVARIANTS OneStack OwnState
PROPERTIES ContractSpec SwitchEnds
CHECK_DEADLOCK FALSE
