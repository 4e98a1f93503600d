SPECIFICATION CardContractsSpec
CONSTANTS
  owner = owner
  s1 = s1
  s2 = s2
  null = null
  Address = {owner, s1, s2}
  NFT = {n1}
  \* multi-signature card
  ProposalId = {p1}
  Amounts = {0, 1, 2}
  MaxExecutions = 2
  \* recurring payments
  MandateId = {m1}
  Sums = {0, 1}
  MIN_PERIOD_SECONDS = 1
  MaxPeriod = 2
  MaxCharges = 2
  MaxTime = 5
  \* bridge, lending coordinator, collateral signal
  IntentId = {i1, i2}
  Relayers = {s1}
  MAX_SUPPORTED_CHAIN = 2
  Lenders = {l1, l2}
  Values = {0, 1}
  MaxRounds = 2
INVARIANTS CountIsDistinctSigners QuorumBacksPayment ChargesWithinMandate OneOutcomePerIntent
CHECK_DEADLOCK FALSE
