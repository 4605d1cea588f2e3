\* Two threads, one cell borrowed twice, one threading.Lock.
CONSTANTS
  t1 = t1
  t2 = t2
  c1 = c1
  l1 = l1
  Threads = {t1, t2}
  Cells = {c1}
  Locks = {l1}
  None = None
  MaxFrames = 3
  MaxGuards = 2
SPECIFICATION CellSpec
SYMMETRY CellSymmetry
\* The program can deadlock: a lock awaited inside a borrow, and NoStuckDrain.
CHECK_DEADLOCK FALSE
INVARIANTS CellTypeOK CellExclusion GuardsSeen SpinsBehindBlocked
