SPECIFICATION Spec
CONSTANTS
  r1 = r1
  r2 = r2
  A = A
  B = B
  C = C
  D = D
  None = None
  Wrong = Wrong
  Users = {"library", "scheduler"}
  NumBlocks = 3
  Requests = {r1, r2}
  Legacy = {A, B, C, D}
  Prompts <- DistinctPrompts
  Hash <- DistinctHash
  Data <- DistinctData
  MaxRef = 4
SYMMETRY MCSymmetry
INVARIANTS
  OwnKV
  
PROPERTIES
  CachedStays
