SPECIFICATION FairSpec
CONSTANTS
  r1 = r1
  r2 = r2
  eos = eos
  None = None
  Requests = {r1, r2}
  Images <- OneImage
  MaxImages = 1
  Kind <- Callers
  StopIds <- NoStops
  Eos = {eos}
  MaxNumSeqs = 2
  BatchSize = 2
  MaxTokens = 2
  MaxRetries = 1
  QueueCap = 2
  FaultKinds = {"create","insert","next","prefill","process"}
  MaxFaults = 2
CHECK_DEADLOCK FALSE
INVARIANTS
  UidsAgree
  ConsumersServed
  InOrder
PROPERTIES
  NobodyHangs
