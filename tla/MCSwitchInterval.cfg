CONSTANTS
  Threads = {a, b}
  Interval = 2
  Never = Never
SPECIFICATION ClockFairSpec
INVARIANTS ClockTypeOK ArmedCovers
PROPERTIES NotedHoldsLast WaiterServed
