SPECIFICATION Spec
CONSTANTS
  c1 = c1
  c2 = c2
  c3 = c3
  None = None
  Calls = {c1, c2, c3}
  Kinds = {"infer", "soft", "deep", "wake", "cancel"}
  Modes = {FALSE, TRUE}
  Modalities = {FALSE, TRUE}
  MaxChunks = 1
CHECK_DEADLOCK FALSE
INVARIANTS
  MiddlewareLoadsOnce
  
  OwnAbort
PROPERTIES
  Answered
