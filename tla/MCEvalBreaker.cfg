\* The main thread and a worker, two calls, one signal that comes again and
\* again, drains inside drains.
CONSTANTS
  Threads = {m, a}
  Main = m
  Signals = {1}
  Calls = {c, d}
  MaxMain = 1
  MaxAny = 1
  MaxDepth = 2
SPECIFICATION FairSpec
INVARIANTS GateCovers SignalsOnTheWay QuietSees OneDrain CallsKept
PROPERTY SignalServed
