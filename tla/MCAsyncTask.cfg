CONSTANTS
  Tasks = {a, b, c}
  Futures = {f}
  MaxCancels = 2
  None = None
SPECIFICATION FairSpec
INVARIANTS TypeOK OneWayOn CurrentRuns CancelOwed
PROPERTY CancelArrives
CHECK_DEADLOCK FALSE
