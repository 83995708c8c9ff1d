SPECIFICATION FairSpec
CONSTANTS
  Cases <- MCCases
  MaxDelta = 2
  TailLen = 3
CHECK_DEADLOCK FALSE

  
  
PROPERTIES
  Ends
