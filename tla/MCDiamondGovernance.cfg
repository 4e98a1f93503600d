SPECIFICATION GovernanceSpec
CONSTANTS
  dep = dep
  sig1 = sig1
  sig2 = sig2
  res = res
  ver = ver
  idx = idx
  reg = reg
  alice = alice
  bob = bob
  d1 = d1
  d2 = d2
  good = good
  bad = bad
  null = null
  Address <- MCAddress
  Deployer = dep
  SignerSets <- MCSignerSets
  Resolvers = {res}
  Verifiers = {ver}
  CodeHash = {good}
  CodeOf <- MCCodeOf
  TimelockDelay = 2
  MaxChanges = 2
  Durations = {1}
  Quorum = 1
  PENDING_TTL = 2
  MAX_PENDING_TOTAL = 2
  MAX_PENDING_PER_CLAIMANT = 1
  Voters = {alice, bob}
  MaxProposals = 1
  MaxQuery = 5
  VotesUsed = {"for", "against"}
  MaxSubmissions = 1
  NFT = {d1}
  SnapshotIds = {1}
  VerifierDeployer = dep
  Indexers = {idx}
  Registry = reg
  FirstOwner <- MCFirstOwner
  MaxOwners = 2
  MaxTime = 2
INVARIANTS PendingExact TallyIsBallots OutcomeIsFinal VotersHeldEligibleDiamonds
PROPERTY ConfigNeedsQuorum
CHECK_DEADLOCK FALSE
