SPECIFICATION DataSpec
CONSTANTS
  Absent = Absent
  Models <- MCModels
  VisionModels <- MCVisionModels
  SubKinds <- MCSubKinds
  HeadDims = {80, 12}
  GroupSizes = {64}
  Heads = {1, 2}
  BlockSize = 2
  Window = 5
  MaxPrompt = 5
  MaxOutput = 1
  PrefixFree = TRUE
CHECK_DEADLOCK FALSE
INVARIANTS
  
  SSMTogether
  DiskKeepsLayers
