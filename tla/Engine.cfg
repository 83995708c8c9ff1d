SPECIFICATION ShutdownSpec
CONSTANTS
  r1 = r1
  r2 = r2
  cold = cold
  None = None
  Requests = {r1, r2}
  Params <- SameParams
  StopIds <- NoStops
  Eos = {}
  MaxNumSeqs = 2
  MaxTokens = 3
  MaxRetries = 1
  NumDrafts = 0
  MaxRounds = 0
  Hybrids = {FALSE}
  FaultKinds = {"fatal", "insert", "create", "remove"}
  MaxFaults = 1
  StreamInterval = 2
CHECK_DEADLOCK FALSE
INVARIANTS
  WorkHasConsumer
  
PROPERTIES
  NobodyHangs
