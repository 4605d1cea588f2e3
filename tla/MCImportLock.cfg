\* The main thread and two others; nested levels around forks.
CONSTANTS
  Threads = {m, a, b}
  Main = m
  None = None
  Lost = Lost
  MaxNest = 2
SPECIFICATION Spec
\* A child is stuck when a thread that vanished in the fork had the mutex.
CHECK_DEADLOCK FALSE
INVARIANTS LevelsMatch ChildSeesNoLoad ParkedBehindOwner
