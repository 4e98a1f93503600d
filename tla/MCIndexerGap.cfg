SPECIFICATION IndexerSpec
CONSTANTS
  Poll <- TwoPolls
  startBlock = 0
  batchSize = 2
  confirmationBlocks = 1
  MaxDepth = 2
  MaxHead = 4
  MaxFork = 1
  MaxFailures = 0
  MaxOverlaps = 2
  MaxOverlapHead = 4
  none = none
  Missing = Missing
INVARIANT NoBlockSkipped
