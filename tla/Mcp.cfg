SPECIFICATION McpFairSpec
CONSTANTS
  Servers <- TwoServers
  Enabled = {"a"}
  Offers <- MCOffers
  Batches <- MCBatches
  MaxParallel = 2
  PerMinute = 1
  MaxOps = 3
INVARIANTS
  OneConnection
  
PROPERTY Progress
