SPECIFICATION FrontendsSpec
CONSTANTS
  alice = alice
  shop = shop
  junk = junk
  Account = {alice, shop}
  DECIMALS = 2
  PLACES = 1
  \* wallet
  Tab = {t1, t2}
  BusyTab = {t1}
  Platform = "linux"
  NamingWallet <- MCNamingWallet
  Data = {d1}
  nil = nil
  \* mobile app
  Handoff = {h1, h2}
  TypedText = {alice, junk}
  TypedAmount <- MCTypedAmount
  RequestAmount <- MCRequestAmount
  Contexts <- MCContexts
  nobody = nobody
  WalletApp = {w1, w2}
  BadReply = bad
  MaxWaiting = 3
  nothing = nothing
  \* dashboard
  Items = {i1, i2}
  Typed <- MCTyped
  Expirations = {0, 1}
  Merchant = shop
  Hub = alice
  Payer = alice
  unset = unset
  \* SDK
  Seller = {shop}
  Sums = {1, 2}
  Order = {o1}
  Payload = {p1, p2}
  Check = {c1}
  Lifetimes = {1}
  MAX_TBC_NANOCOINS = 1
  MaxBlock = 3
  MaxSeconds = 1
  MaxTx = 1
  MaxLocal = 1
  absent = absent
INVARIANTS WalletShowsItsSession HandoffIsConfirmed LastCallWins PagesAreCurrent VerdictIsSound
CHECK_DEADLOCK FALSE
