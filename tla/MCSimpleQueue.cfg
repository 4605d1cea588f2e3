CONSTANTS
  Threads = {a, b, c}
  MaxItems = 2
SPECIFICATION FairSpec
INVARIANTS FlagMeansGate NobodyStranded
PROPERTY ItemServed
