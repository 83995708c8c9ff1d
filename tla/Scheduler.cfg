SPECIFICATION SchedulerSpec
CONSTANTS
  r1 = r1
  r2 = r2
  r3 = r3
  eos = eos
  x = x
  y = y
  warm = warm
  cold = cold
  None = None
  Requests = {r1, r2, r3}
  Params <- MixedParams
  StopIds <- SharedStops
  Eos = {eos}
  MaxNumSeqs = 2
  MaxTokens = 4
  MaxRetries = 1
  NumDrafts = 2
  MaxRounds = 1
  Hybrids = {FALSE, TRUE}
  FaultKinds = {"cache", "insert", "verify"}
  MaxFaults = 1
SYMMETRY Alike
CHECK_DEADLOCK FALSE
INVARIANTS
  UidsAgree
  InSync

  
