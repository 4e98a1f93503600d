CONSTANTS
  adm = adm
  alice = alice
  bob = bob
  locks = locks
  res = res
  settle = settle
  hub = hub
  risk = risk
  lend = lend
  col7 = col7
  col8 = col8
  elsewhere = elsewhere
  n1 = n1
  n2 = n2
  d1 = d1
  null = null
  Address <- MCAddress
  Deployer = adm
  LocksContract = locks
  Resolver = res
  Settlement = settle
  RiskAuthority = risk
  LendingAdapter = lend
  Hub = hub
  HubTarget = hub
  Collection = {}
  Candidates = {}
  RoleCandidates = {}
  DepositId = {d1}
  DepositAmount <- MCDepositAmount
  Amounts = {1}
  TimelockDelay = 1
  RoleTransferDelay = 1
  Wallets = {alice, bob}
  InitialOwner <- MCInitialOwner
  ItemCollection <- MCItemCollection
  NFT = {n1, n2}
  MaxTime = 0
  MaxLockMsgs = 2
  Collections = {col7}
  Targets = {hub}
  QueryTTL = 1
  MaxPending = 2
  MaxQuery = 2
  MaxOwners = 1
SPECIFICATION FairProtocolSpec
INVARIANTS Conservation NoStrandedFunds
PROPERTIES LocksHold LockTakesEffect
CHECK_DEADLOCK FALSE
