---------------------------- MODULE MerchantSdk ----------------------------
(***************************************************************************)
(* The merchant SDKs: invoices made on the client, the verification of a   *)
(* settlement against the chain, the status of an invoice, and the mock    *)
(* that merchants test with. The chain and the merchant API are external;  *)
(* both move on between the awaits of a call. A transaction of the hub is  *)
(* the sequence of messages it sent out, of which an event of a payment is *)
(* one kind.                                                               *)
(***************************************************************************)
EXTENDS PaymentLink

CONSTANTS Seller,       \* merchant accounts
          Sums,         \* amounts asked or paid, in nanocoins
          Order,        \* order ids of the merchant
          Payload,      \* payload hashes
          Check,        \* calls of the SDK (a bound)
          Lifetimes,    \* expirationSeconds passed, or absent
          MAX_TBC_NANOCOINS,
          MaxBlock, MaxSeconds, MaxTx, MaxLocal,   \* bounds
          absent

ASSUME SdkAssumption == MAX_TBC_NANOCOINS \in Nat

VARIABLES sealed,       \* the second at which each masterchain block was sealed
          txs,          \* transactions of the hub, in order
          seconds,      \* the clock
          mine,         \* invoices made by createInvoice
          api,          \* what the merchant API knows of the invoices
          checks,       \* calls in progress and their results
          mock          \* MockTonbankcardSDK and MockSettlementStore

sdkVars == <<sealed, txs, seconds, mine, api, checks, mock>>

-----------------------------------------------------------------------------
(* The head of the masterchain. *)
blocks == Len(sealed)

(* canonicalInvoiceIdPayload, hashed: the id is as good as its fields.     *)
validateInvoiceAmount(n) == n > 0 /\ n <= MAX_TBC_NANOCOINS
generateInvoiceId(merchant, n, order, t) == <<n, merchant, order, t>>

isExpired(expiresAt) == expiresAt # absent /\ expiresAt <= seconds

NewInvoice(merchant, n, order, life) ==
  [id |-> generateInvoiceId(merchant, n, order, seconds),
   merchant |-> merchant, amount |-> n, createdAt |-> seconds,
   expiresAt |-> IF life = absent THEN absent ELSE seconds + life]

(* extractMerchantPayment: the first message that is a well-formed event   *)
(* of a payment.                                                           *)
extractMerchantPayment(tx) ==
  LET events == {i \in DOMAIN tx.out : tx.out[i].kind = "payment"}
  IN IF events = {} THEN absent
     ELSE tx.out[CHOOSE i \in events : \A j \in events : i <= j]

DepthFromOne(head, inclusion) == IF inclusion = absent THEN 0 ELSE head - inclusion + 1

computeConfirmations(head, inclusion) ==
  IF inclusion = absent \/ head <= inclusion THEN 0 ELSE head - inclusion

MatchesInvoice(payment, expected) ==
  /\ expected # absent /\ payment # absent
  /\ payment.merchant = expected.merchant
  /\ payment.amount = expected.amount
  /\ expected.payload # absent => payment.payload = expected.payload

Invalid == [isValid |-> FALSE, confirmations |-> 0, matchesInvoice |-> FALSE]

(* The error class of the Python client for a response.                    *)
ErrorClass(status) ==
  CASE status = 400 -> "InvalidRequestError"
    [] status \in {401, 403} -> "AuthenticationError"
    [] status = 404 -> "InvoiceNotFoundError"
    [] status = 410 -> "InvoiceExpiredError"
    [] status = 429 -> "RateLimitError"
    [] status >= 500 -> "ServerError"
    [] OTHER -> "ApiError"

NoCheck == [step |-> "none"]

SdkInit ==
  /\ sealed = <<0>> /\ seconds = 0
  /\ txs = <<>>
  /\ mine = <<>>
  /\ api = <<>>
  /\ checks = [c \in Check |-> NoCheck]
  /\ mock = [invoices |-> {}, store |-> <<>>, settlements |-> <<>>, given |-> <<>>]

-----------------------------------------------------------------------------
(* createInvoice, in the SDK and the mock; the merchant then records it    *)
(* with the API.                                                           *)
createInvoice(merchant, n, order, life) ==
  /\ Len(mine) < MaxLocal
  /\ validateInvoiceAmount(n) /\ isValidTonAddress(merchant)
  /\ LET i == NewInvoice(merchant, n, order, life) IN
     /\ mine' = Append(mine, i)
     /\ api' = Append(api, [id |-> i.id, expiresAt |-> i.expiresAt, settled |-> FALSE])
     /\ mock' = [mock EXCEPT !.invoices = @ \cup {i}]
  /\ UNCHANGED <<sealed, txs, seconds, checks>>

(* External: a customer pays; a block is sealed, which may or may not      *)
(* include the transactions that wait; the API records that an invoice is  *)
(* settled.                                                                *)
HubTransaction(out, aborted) ==
  /\ Len(txs) < MaxTx
  /\ txs' = Append(txs, [now |-> seconds, block |-> absent, out |-> out, aborted |-> aborted])
  /\ UNCHANGED <<sealed, seconds, mine, api, checks, mock>>
SealBlock(includes) ==
  /\ blocks < MaxBlock
  /\ sealed' = Append(sealed, seconds)
  /\ txs' = [k \in DOMAIN txs |-> IF includes /\ txs[k].block = absent
                                   THEN [txs[k] EXCEPT !.block = blocks + 1] ELSE txs[k]]
  /\ UNCHANGED <<seconds, mine, api, checks, mock>>
ApiSettles(k) ==
  /\ k \in 1..Len(api)
  /\ api' = [api EXCEPT ![k].settled = TRUE]
  /\ UNCHANGED <<sealed, txs, seconds, mine, checks, mock>>
PassSecond ==
  /\ seconds < MaxSeconds
  /\ seconds' = seconds + 1
  /\ UNCHANGED <<sealed, txs, mine, api, checks, mock>>

-----------------------------------------------------------------------------
Goes(c, v) ==
  /\ checks' = [checks EXCEPT ![c] = v]
  /\ UNCHANGED <<sealed, txs, seconds, mine, api, mock>>

(* External: the masterchain block of a moment, the last one sealed by     *)
(* then or the first one sealed since.                                     *)
lookupBlock(unixtime) ==
  LET before == {b \in 1..blocks : sealed[b] <= unixtime}
      since == {b \in 1..blocks : sealed[b] >= unixtime}
  IN {b \in before : \A d \in before : d <= b} \cup {b \in since : \A d \in since : b <= d}

(* verifySettlement: the transaction, the head and the block of the        *)
(* transaction are three requests; any of them may fail. The block is the  *)
(* one that lookupBlock has for the time of the transaction.               *)
verifySettlement(c, k, expected) ==
  /\ checks[c] = NoCheck
  /\ Goes(c, IF k \in 1..Len(txs)
               THEN [step |-> "getMasterchainInfo", tx |-> k, expected |-> expected]
               ELSE [step |-> "verified", tx |-> absent, expected |-> expected, got |-> Invalid])

readHead(c, ok) ==
  LET r == checks[c] IN
  /\ r.step = "getMasterchainInfo"
  /\ Goes(c, IF ok
               THEN [step |-> "lookupBlock", tx |-> r.tx, expected |-> r.expected, head |-> blocks]
               ELSE [step |-> "verified", tx |-> r.tx, expected |-> r.expected, got |-> Invalid])

resolveTransactionSeqno(c) ==
  LET r == checks[c]
      tx == txs[r.tx] IN
  /\ r.step = "lookupBlock"
  /\ \E seqno \in lookupBlock(tx.now) \cup {absent} :
       Goes(c, [step |-> "verified", tx |-> r.tx, expected |-> r.expected,
                got |-> [isValid |-> ~ tx.aborted,
                         confirmations |-> computeConfirmations(r.head, seqno),
                         matchesInvoice |-> MatchesInvoice(extractMerchantPayment(tx), r.expected)]])

(* getInvoiceStatus: the invoice, then, unless it has expired, its         *)
(* settlement; a failed second request counts as none.                     *)
getInvoiceStatus(c, k, ok) ==
  /\ checks[c] = NoCheck
  /\ Goes(c, CASE ~ ok \/ k \notin 1..Len(api) -> [step |-> "answered", of |-> k, status |-> "error"]
               [] isExpired(api[k].expiresAt) -> [step |-> "answered", of |-> k, status |-> "expired"]
               [] OTHER -> [step |-> "getSettlement", of |-> k])

getSettlement(c, ok) ==
  LET r == checks[c] IN
  /\ r.step = "getSettlement"
  /\ Goes(c, [step |-> "answered", of |-> r.of,
              status |-> IF ok /\ api[r.of].settled THEN "settled" ELSE "pending"])

(* get_invoice_status of the Python client: one request, which finds no    *)
(* invoice the API does not know.                                          *)
StatusOfRow(row) ==
  IF row.settled THEN "settled" ELSE IF isExpired(row.expiresAt) THEN "expired" ELSE "pending"
get_invoice_status(c, k, httpStatus) ==
  LET code == IF httpStatus = 200 /\ k \notin 1..Len(api) THEN 404 ELSE httpStatus IN
  /\ checks[c] = NoCheck
  /\ Goes(c, [step |-> "answered", of |-> k,
              status |-> IF code = 200 THEN StatusOfRow(api[k]) ELSE ErrorClass(code)])

Forget(c) == checks[c].step \in {"verified", "answered", "mocked"} /\ Goes(c, NoCheck)

-----------------------------------------------------------------------------
(* The mock takes copies: of the settlements it is created with, and       *)
(* asMap() hands out a copy of the store. Its status looks at the expiry   *)
(* first; its verification compares merchant and amount only, or nothing   *)
(* at all when it approves automatically.                                  *)
asMap == mock.store
MockOnly(v) == mock' = v /\ UNCHANGED <<sealed, txs, seconds, mine, api, checks>>
Put(seq, id) == Append(SelectSeq(seq, LAMBDA i : i # id), id)

createMockSDK ==
  MockOnly([mock EXCEPT !.invoices = {}, !.settlements = asMap, !.given = mock.store])
settle(k) ==
  /\ k \in 1..Len(mine)
  /\ MockOnly([mock EXCEPT !.store = Put(@, mine[k].id)])
clear == MockOnly([mock EXCEPT !.store = <<>>])
simulateSettlement(k) ==
  /\ k \in 1..Len(mine) /\ mine[k] \in mock.invoices
  /\ MockOnly([mock EXCEPT !.settlements = Put(@, mine[k].id)])
registerSettlement(k) ==
  /\ k \in 1..Len(mine)
  /\ MockOnly([mock EXCEPT !.settlements = Put(@, mine[k].id)])
reset == MockOnly([mock EXCEPT !.invoices = {}, !.settlements = <<>>])

MockInvoiceStatus(id) ==
  CASE \E i \in mock.invoices : i.id = id /\ isExpired(i.expiresAt) -> "expired"
    [] id \in ToSet(mock.settlements) -> "settled"
    [] OTHER -> "pending"
computeMatch(id, expected) ==
  expected # absent /\ id[1] = expected.amount /\ id[2] = expected.merchant
MockVerification(id, expected, autoApprove) ==
  CASE autoApprove -> [isValid |-> TRUE, matchesInvoice |-> expected # absent]
    [] id \in ToSet(mock.settlements) -> [isValid |-> TRUE, matchesInvoice |-> computeMatch(id, expected)]
    [] OTHER -> [isValid |-> FALSE, matchesInvoice |-> FALSE]

MockAnswers(c, k, expected, autoApprove) ==
  /\ checks[c] = NoCheck /\ k \in 1..Len(mine)
  /\ Goes(c, [step |-> "mocked", of |-> k, status |-> MockInvoiceStatus(mine[k].id),
              got |-> MockVerification(mine[k].id, expected, autoApprove)])

-----------------------------------------------------------------------------
Messages == [kind : {"payment"}, merchant : Seller, amount : Sums, payload : Payload]
              \cup {[kind |-> "other"]}
Expected == [merchant : Seller, amount : Sums, payload : Payload \cup {absent}] \cup {absent}

SdkNext ==
  \/ \E s \in Seller, n \in Sums, o \in Order, l \in Lifetimes \cup {absent} : createInvoice(s, n, o, l)
  \/ \E m \in Messages, early \in BOOLEAN, aborted \in BOOLEAN :
        HubTransaction(IF early THEN <<[kind |-> "other"], m>> ELSE <<m>>, aborted)
  \/ PassSecond \/ \E includes \in BOOLEAN : SealBlock(includes)
  \/ \E k \in 1..MaxLocal : 
        ApiSettles(k) \/ settle(k) \/ simulateSettlement(k) \/ registerSettlement(k)
  \/ createMockSDK \/ reset \/ clear
  \/ \E c \in Check :
        \/ \E k \in 1..MaxTx, e \in Expected : verifySettlement(c, k, e)
        \/ \E k \in 1..MaxLocal, e \in Expected, auto \in BOOLEAN : MockAnswers(c, k, e, auto)
        \/ \E k \in 1..MaxLocal, s \in {200, 404, 429, 500} : get_invoice_status(c, k, s)
        \/ resolveTransactionSeqno(c)
        \/ \E ok \in BOOLEAN :
              \/ readHead(c, ok) \/ getSettlement(c, ok)
              \/ \E k \in 1..MaxLocal : getInvoiceStatus(c, k, ok)
        \/ Forget(c)

SdkSpec == SdkInit /\ [][SdkNext]_sdkVars

-----------------------------------------------------------------------------
(* The last n masterchain blocks were sealed since the transaction. *)
SealedSince(n, tx) == \A b \in (blocks - n + 1)..blocks : sealed[b] >= tx.now

(* A positive verdict is the truth about the chain: the transaction        *)
(* succeeded, paid that merchant that amount, and since then at least as   *)
(* many blocks were sealed as it reports, although head and block were     *)
(* read in separate requests and the block is that of a moment; and        *)
(* settled is only said of an invoice the API has settled                  *)
(* (verifySettlement, getInvoiceStatus).                                   *)
VerdictIsSound ==
  \A c \in Check : LET r == checks[c] IN
    /\ r.step = "verified" /\ r.got.isValid /\ r.got.matchesInvoice =>
         LET tx == txs[r.tx] IN
         /\ ~ tx.aborted
         /\ \E e \in ToSet(tx.out) :
               /\ e.kind = "payment"
               /\ e.merchant = r.expected.merchant /\ e.amount = r.expected.amount
         /\ SealedSince(r.got.confirmations, tx)
    /\ r.step = "answered" /\ r.status = "settled" => api[r.of].settled

(* "How many blocks were sealed on top of the block that included this     *)
(* transaction" (verifySettlement). Refuted: the block of its moment may   *)
(* lie before the one that includes it.                                    *)
DepthIsFromInclusion ==
  \A c \in Check : LET r == checks[c] IN
    r.step = "verified" /\ r.got.confirmations > 0 =>
      txs[r.tx].block # absent /\ r.got.confirmations <= blocks - txs[r.tx].block

(* "This ensures uniqueness" (utils.ts, generateInvoiceId). Refuted: two   *)
(* invoices of one second with equal amount and no order id share an id.   *)
InvoiceIdsAreUnique ==
  \A i, j \in DOMAIN mine : mine[i].id = mine[j].id => i = j

(* The example of MockSettlementStore in mock.ts: what is settled in the   *)
(* store after the mock was created is settled for the mock. Refuted: both *)
(* sides copy the map.                                                     *)
MockSeesItsStore == mock.given # <<>> => ToSet(mock.store) \subseteq ToSet(mock.settlements)

(* A settled invoice is never reported as expired. Refuted: the expiry is  *)
(* looked at first, in the SDK and in the mock.                            *)
SettledIsNotExpired ==
  \A c \in Check : checks[c].step = "answered" /\ checks[c].status = "expired"
                      => ~ api[checks[c].of].settled
=============================================================================
