SPECIFICATION ServicesSpec
CONSTANTS
  \* API gateway
  Key = {k1, sk}
  Merchant = {m1, m2}
  Ip = {i1}
  Caller = {c1}
  Route = {"create", "read"}
  Grant <- MCGrant
  SandboxKey = sk
  SandboxMerchant = m1
  AuthFailLimit = 1
  PublicLimit = 1
  KeyLimit = 1
  AUTH_CACHE_TTL = 1
  MaxKeyId = 2
  MaxHits = 2
  MaxNow = 1
  nil = nil
  \* webhooks
  Endpoint = {e1}
  Host = {h1}
  Secret = {s1, s2}
  Body = {b1, b2}
  JsonBody = {b1}
  Delivery = {d1}
  CipherKey = {ck1, ck2}
  AddressBits = 2
  BlockedCidrs <- MCBlockedCidrs
  AllowHosts = {}
  Tolerance = 1
  MaxTime = 3
  MaxSent = 2
  none = none
  \* lending adapter
  Owner = {alice, bob}
  Nobody = nobody
  MaxSnapshotAge = 1
  MaxBlock = 2
  MaxInstant = 2
  \* records of the other adapters
  Signer = {a, b, c}
  MaxSigners = 2
  MinPeriod = 1
  MaxPeriod = 2
  MaxRuns = 3
  MaxWire = 2
  MaxDate = 4
  \* readiness gates
  MaxEdits = 1
  MaxGone = 1
INVARIANTS ServedOnlyToOwner RevokedStaysRevoked AcceptedIsGenuine VerifiedAtBlock RecordsAreBacked PassMeansComplete
CHECK_DEADLOCK FALSE
