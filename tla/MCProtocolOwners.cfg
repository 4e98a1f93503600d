CONSTANTS
  adm = adm
  alice = alice
  bob = bob
  locks = locks
  res = res
  settle = settle
  hub = hub
  risk = risk
  lend = lend
  col7 = col7
  col8 = col8
  elsewhere = elsewhere
  n1 = n1
  n2 = n2
  d1 = d1
  null = null
  Address <- MCAddress
  Deployer = adm
  LocksContract = locks
  Resolver = res
  Settlement = settle
  RiskAuthority = risk
  LendingAdapter = lend
  Hub = hub
  HubTarget = hub
  Collection = {}
  Candidates = {}
  RoleCandidates = {}
  DepositId = {d1}
  DepositAmount <- MCDepositAmount
  Amounts = {1}
  TimelockDelay = 1
  RoleTransferDelay = 1
  Wallets = {alice, bob}
  InitialOwner <- MCInitialOwner
  ItemCollection <- MCItemCollection
  NFT = {n1, n2}
  MaxTime = 2
  MaxLockMsgs = 0
  Collections = {col7, col8}
  Targets = {hub, elsewhere}
  QueryTTL = 1
  MaxPending = 1
  MaxQuery = 3
  MaxOwners = 2
SPECIFICATION ProtocolSpec
INVARIANTS RecordedOwnerWasOwner PendingCountExact
CHECK_DEADLOCK FALSE
PROPERTIES OwnerNeverRegresses
