SPECIFICATION IndexerFairSpec
CONSTANTS
  Poll <- TwoPolls
  startBlock = 0
  batchSize = 2
  confirmationBlocks = 2
  MaxDepth = 4
  MaxHead = 7
  MaxFork = 2
  MaxFailures = 2
  MaxOverlaps = 1
  MaxOverlapHead = 4
  none = none
  Missing = Missing
INVARIANTS Contiguous StaleWithinWindow
PROPERTIES RollbackNeedsReorg CatchesUp
