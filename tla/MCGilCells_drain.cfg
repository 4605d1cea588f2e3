\* The bias revoked while the first thread blocks inside a borrow.
CONSTANTS
  t1 = t1
  t2 = t2
  c1 = c1
  l1 = l1
  Threads = {t1, t2}
  Cells = {c1}
  Locks = {l1}
  None = None
  MaxFrames = 3
  MaxGuards = 2
SPECIFICATION CellSpec
SYMMETRY CellSymmetry
CHECK_DEADLOCK FALSE
INVARIANTS NoStuckDrain
