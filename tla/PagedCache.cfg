SPECIFICATION Spec
CONSTANTS
  r1 = r1
  r2 = r2
  r3 = r3
  A = A
  B = B
  C = C
  None = None
  NumBlocks = 3
  Requests = {r1, r2, r3}
  Legacy = {A, B, C}
  Hash <- MCHash
  Data <- MCHash
  Prompt <- MCPrompt
  MaxLost = 1
SYMMETRY MCSymmetry
INVARIANTS
  FreeListExact
  RefCountExact
  
  IndexSound
PROPERTIES
  DataStable
