\* Two threads, fair, scopes nested three deep (an entry inside a blocking
\* call inside an entry, as a ctypes callback does).
CONSTANTS
  t1 = t1
  t2 = t2
  Threads = {t1, t2}
  None = None
  MaxFrames = 3
SPECIFICATION FairSpec
INVARIANTS TypeOK StackBacksLock WaitersCounted ScopesRestore
PROPERTIES ContractSpec OperationsEnd
