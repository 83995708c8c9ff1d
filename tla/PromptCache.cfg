SPECIFICATION FairSpec
CONSTANTS
  None = None
  Prompts <- MCPrompts
  Worlds <- MCWorlds
  Limit = 3
  Reduced = 2
  MaxEntries = 1
  MaxQueue = 1
  MaxRows = 1
  MaxRequests = 4
  MaxClears = 1
  MaxStarts = 1
CHECK_DEADLOCK FALSE
INVARIANTS
  
  Budget
PROPERTIES
  Drained
