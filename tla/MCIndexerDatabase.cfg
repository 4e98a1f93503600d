SPECIFICATION DatabaseSpec
CONSTANTS
  NFT <- TwoCards
  a = a
  b = b
  Transaction <- SmallTransactions
  Events <- SmallEvents
  BlockContents <- SmallContents
  MaxBlock = 2
  none = none
INVARIANTS SnapshotsMatchEvents CachedHistoryIsCurrent
