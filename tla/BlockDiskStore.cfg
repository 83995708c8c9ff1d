SPECIFICATION FairSpec
CONSTANTS
  h1 = h1
  h2 = h2
  None = None
  Hashes = {h1, h2}
  MaxQueue = 1
  MaxRows = 1
  Target = 1
  Faults <- MCFaults
  MaxStores = 2
  MaxSaves = 2
  MaxOverlap = 1
  MaxClears = 1
CHECK_DEADLOCK FALSE
INVARIANTS
  NoOrphans
PROPERTIES
  Promise
  Drained
