CONSTANTS
  adm = adm
  alice = alice
  bob = bob
  locks = locks
  res = res
  settle = settle
  hub = hub
  risk = risk
  lend = lend
  col7 = col7
  col8 = col8
  elsewhere = elsewhere
  n1 = n1
  n2 = n2
  d1 = d1
  null = null
  Address <- MCAddress
  Deployer = adm
  LocksContract = locks
  Resolver = res
  Settlement = settle
  RiskAuthority = risk
  LendingAdapter = lend
  Hub = hub
  HubTarget = hub
  Collection = {c1}
  Candidates = {alice}
  RoleCandidates = {risk, bob}
  DepositId = {d1}
  DepositAmount <- MCDepositAmount
  Amounts = {0}
  TimelockDelay = 1
  RoleTransferDelay = 2
  Wallets = {alice}
  InitialOwner <- MCInitialOwner
  ItemCollection <- MCItemCollection
  NFT = {n1}
  MaxTime = 4
  MaxLockMsgs = 0
  Collections = {col7}
  Targets = {hub}
  QueryTTL = 1
  MaxPending = 1
  MaxQuery = 0
  MaxOwners = 1
SPECIFICATION ProtocolSpec
PROPERTIES AdminHandover LockRoleHandovers
CHECK_DEADLOCK FALSE
