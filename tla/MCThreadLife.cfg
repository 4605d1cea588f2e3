\* The main thread and two that are started, in either order, by either.
CONSTANTS
  Threads = {m, a, b}
  Main = m
  None = None
SPECIFICATION FairSpec
\* A process ends, and a lone thread of a fork child does.
CHECK_DEADLOCK FALSE
INVARIANTS JoinTellsEnd ShutdownWaits
PROPERTY WaitsEnd
