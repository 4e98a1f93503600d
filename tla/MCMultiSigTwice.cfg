SPECIFICATION MultiSigSpec
CONSTANTS
  owner = owner
  s1 = s1
  s2 = s2
  null = null
  Address = {owner, s1, s2}
  NFT = {n1}
  ProposalId = {p1}
  Amounts = {0, 1, 2}
  MaxExecutions = 2
INVARIANT ExecutedAtMostOnce
CHECK_DEADLOCK FALSE
