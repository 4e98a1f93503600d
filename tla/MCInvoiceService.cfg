SPECIFICATION InvoiceFairSpec
CONSTANTS
  r1 = r1
  null = null
  Client = {c1, c2}
  Parameters = {r1}
  Workloads <- MCWorkloads
  DEFAULT_EXPIRY = 1
  IDEMPOTENCY_TTL = 1
  RETENTION = 0
  MIN_CONFIRMATIONS = 1
  MaxClock = 2
  MaxHead = 1
  MaxInvoices = 6
  MaxPayments = 1
INVARIANTS ConvergesWhileLive IssuedStayStored SettlementIsProven
PROPERTIES OutcomeNeverChanges CallsEnd
CHECK_DEADLOCK FALSE
