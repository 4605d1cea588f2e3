\* The main thread and a worker, two calls, no signals.
CONSTANTS
  Threads = {m, a}
  Main = m
  Signals = {}
  Calls = {c, d}
  MaxMain = 1
  MaxAny = 1
  MaxDepth = 1
SPECIFICATION Spec
INVARIANT MainOnly
