--------------------------- MODULE AdapterRecords ---------------------------
(***************************************************************************)
(* backend/adapters: multisig.ts, recurring.ts, bridge.ts, nowpayments.ts, *)
(* changenow.ts and the loan references of coinrabbit.ts keep records of   *)
(* what happens elsewhere. An adapter holds no state: each operation takes *)
(* a record and answers a new one, and the application keeps the last. The *)
(* records of one kind, a kind per behaviour, go through every sequence of *)
(* operations; providers answer late, fail, and send callbacks again and   *)
(* in another order, and others send callbacks of their own.               *)
(***************************************************************************)
EXTENDS Naturals, SequencesExt

CONSTANTS Signer,           \* addresses
          MaxSigners,       \* MAX_SIGNERS
          MinPeriod,        \* MIN_PERIOD_SECONDS
          MaxPeriod,        \* MAX_PERIOD_SECONDS
          MaxRuns,          \* executions of a mandate (a bound)
          MaxWire,          \* answers under way (a bound)
          MaxDate           \* clock (a bound)

ASSUME RecordsAssumption ==
  {MaxSigners, MinPeriod, MaxPeriod, MaxRuns, MaxWire, MaxDate} \subseteq Nat

VARIABLES record,       \* the record the application keeps
          config,       \* the multi-sig configuration it passes along
          date,         \* the clock
          provider,     \* the statuses a payment or swap has had at its provider
          underway      \* answers and callbacks on their way

recordVars == <<record, config, date, provider, underway>>

NoRecord == [kind |-> "none"]
NoConfig == [requiredSignatures |-> 0, signers |-> <<>>, isActive |-> FALSE]
Amount == {"positive", "zero", "malformed"}
isPositiveDecimal(amount) == amount = "positive"
Chain == {"ethereum", "unlisted"}
isChainSupported(chain) == chain # "unlisted"

Return(r) == record' = r /\ UNCHANGED <<config, date, provider, underway>>
Kind(k) == record.kind = k

-----------------------------------------------------------------------------
(* multisig.ts                                                             *)
validateConfig(required, signers) ==
  /\ required \in 1..MaxSigners
  /\ Len(signers) >= required /\ Len(signers) <= MaxSigners
  /\ Cardinality(Range(signers)) = Len(signers)
createConfig(required, signers) ==
  /\ record.kind \in {"none", "proposal"}
  /\ validateConfig(required, signers)
  /\ config' = [requiredSignatures |-> required, signers |-> signers, isActive |-> TRUE]
  /\ UNCHANGED <<record, date, provider, underway>>
deactivateConfig ==
  /\ config # NoConfig
  /\ config' = [config EXCEPT !.isActive = FALSE]
  /\ UNCHANGED <<record, date, provider, underway>>
createProposal(amount, recipient) ==
  /\ Kind("none") /\ config.isActive
  /\ isPositiveDecimal(amount) /\ recipient
  /\ Return([kind |-> "proposal", status |-> "pending", approvers |-> <<>>, approvalCount |-> 0,
             requiredApprovals |-> config.requiredSignatures])
Approved(signer) ==
  LET count == record.approvalCount + 1
  IN [record EXCEPT !.approvers = Append(@, signer), !.approvalCount = count,
                    !.status = IF count >= record.requiredApprovals THEN "approved" ELSE "pending"]
ApproveAgain(signer) ==
  /\ Kind("proposal") /\ record.status = "pending"
  /\ signer \in Range(config.signers)
  /\ Return(Approved(signer))
(* The configuration is the caller's, of whatever time; isActive is not    *)
(* looked at.                                                              *)
recordApproval(signer) ==
  /\ Kind("proposal") /\ record.status = "pending"
  /\ signer \in Range(config.signers)
  /\ signer \notin Range(record.approvers)
  /\ Return(Approved(signer))
rejectProposal ==
  /\ Kind("proposal") /\ record.status = "pending"
  /\ Return([record EXCEPT !.status = "rejected"])
markExecuted ==
  /\ Kind("proposal") /\ record.status = "approved"
  /\ Return([record EXCEPT !.status = "executed"])

-----------------------------------------------------------------------------
(* recurring.ts                                                            *)
Never == MaxDate + 1      \* lastExecutedAt is undefined
validateMandateParams(amount, period) == isPositiveDecimal(amount) /\ period \in MinPeriod..MaxPeriod
createMandate(amount, period, max) ==
  /\ Kind("none")
  /\ validateMandateParams(amount, period)
  /\ Return([kind |-> "mandate", status |-> "active", periodSeconds |-> period, maxExecutions |-> max,
             executionCount |-> 0, lastExecutedAt |-> Never])
cancelMandate ==
  /\ Kind("mandate") /\ record.status = "active"
  /\ Return([record EXCEPT !.status = "cancelled"])
(* What canExecute says is for the caller to ask; it is not asked here.    *)
recordExecution ==
  /\ Kind("mandate") /\ record.status = "active"
  /\ record.executionCount < MaxRuns
  /\ LET count == record.executionCount + 1
     IN Return([record EXCEPT !.executionCount = count, !.lastExecutedAt = date,
                  !.status = IF record.maxExecutions > 0 /\ count >= record.maxExecutions
                             THEN "completed" ELSE "active"])
Exhausted(m) == m.maxExecutions > 0 /\ m.executionCount >= m.maxExecutions
canExecute(m) ==
  /\ m.status = "active" /\ ~ Exhausted(m)
  /\ m.lastExecutedAt # Never => date >= m.lastExecutedAt + m.periodSeconds
(* Never: there is no next time.                                           *)
getNextExecutionTime(m) ==
  IF m.status # "active" \/ Exhausted(m) THEN Never
  ELSE IF m.lastExecutedAt = Never THEN date ELSE m.lastExecutedAt + m.periodSeconds

-----------------------------------------------------------------------------
(* bridge.ts and the loan references of coinrabbit.ts                      *)
createBridgeIntent(chain, amount, address) ==
  /\ Kind("none")
  /\ isChainSupported(chain) /\ isPositiveDecimal(amount) /\ address
  /\ Return([kind |-> "bridge", status |-> "pending", linked |-> FALSE])
(* The status goes back to pending, whatever it was.                       *)
linkProviderTransaction == Kind("bridge") /\ Return([record EXCEPT !.linked = TRUE, !.status = "pending"])
confirmBridgeIntent == Kind("bridge") /\ Return([record EXCEPT !.status = "confirmed"])
cancelBridgeIntent ==
  /\ Kind("bridge") /\ record.status = "pending"
  /\ Return([record EXCEPT !.status = "cancelled"])

LoanReferenceStatus == {"pending", "active", "completed", "cancelled", "unknown"}
createLoanReference == Kind("none") /\ Return([kind |-> "loan", status |-> "pending"])
updateLoanReferenceStatus(status) == Kind("loan") /\ Return([record EXCEPT !.status = status])

-----------------------------------------------------------------------------
(* changenow.ts and nowpayments.ts. The provider's statuses and what they  *)
(* become; one that is not in the table is pending.                        *)
SwapPath == <<"new", "waiting", "confirming", "exchanging", "sending", "finished">>
PaymentPath == <<"waiting", "confirming", "confirmed", "sending", "finished">>
Path == IF Kind("swap") THEN SwapPath ELSE PaymentPath
Dropped == {"failed", "refunded", "expired", "partially_paid", "unheard of"}
mapSwapStatus ==
  [new |-> "pending", waiting |-> "waiting", confirming |-> "confirming", exchanging |-> "exchanging",
   sending |-> "sending", finished |-> "finished", failed |-> "failed", refunded |-> "refunded",
   expired |-> "failed"]
mapPaymentStatus ==
  [waiting |-> "waiting", confirming |-> "confirming", confirmed |-> "finished", sending |-> "sending",
   partially_paid |-> "pending", finished |-> "finished", failed |-> "failed", refunded |-> "refunded",
   expired |-> "failed"]
mapStatus(table, s) == IF s \in DOMAIN table THEN table[s] ELSE "pending"

(* The first answer of the provider makes the record; without one there is *)
(* an error and no record (handleError, wrapError). `from` and `vetted`    *)
(* are history: the status the record was made of, and whether it came     *)
(* from the provider itself or in a callback that verifyCallback accepts.  *)
External(kind, table, s) ==
  [kind |-> kind, status |-> mapStatus(table, s), from |-> s, vetted |-> TRUE]
createSwap ==
  /\ Kind("none")
  /\ provider' = <<"new">>
  /\ record' = External("swap", mapSwapStatus, "new")
  /\ UNCHANGED <<config, date, underway>>
createInvoice ==
  /\ Kind("none")
  /\ provider' = <<"waiting">>
  /\ record' = External("payment", mapPaymentStatus, "waiting")
  /\ UNCHANGED <<config, date, underway>>

(* A swap is asked for: the answer says where the provider is at that time *)
(* and arrives later.                                                      *)
trackSwapStatus ==
  /\ Kind("swap") /\ Cardinality(underway) < MaxWire
  /\ underway' = underway \cup {Last(provider)}
  /\ UNCHANGED <<record, config, date, provider>>
mapSwapToNFTAccount(s) ==
  /\ Kind("swap")
  /\ record' = External("swap", mapSwapStatus, s)
  /\ underway' = underway \ {s}
  /\ UNCHANGED <<config, date, provider>>

(* A payment is told of by callbacks, signed over the body with its keys   *)
(* sorted; the keys may arrive in another order.                           *)
calculateHMAC(body, secret) == [body |-> body, secret |-> secret]
NoSignature == [body |-> [content |-> "none", keys |-> "sorted"], secret |-> "none"]
canonicalizePayload(body) == [body EXCEPT !.keys = "sorted"]
verifyCallback(cb) ==
  /\ cb.signature # NoSignature
  /\ cb.signature = calculateHMAC(canonicalizePayload(cb.body), "ipn secret")
(* Whatever callback the application passes is taken: to ask               *)
(* verifyCallback first is left to it. A callback may arrive again: it     *)
(* stays under way.                                                        *)
emitPaymentSettledEvent(cb) ==
  /\ Kind("payment")
  /\ Return([External("payment", mapPaymentStatus, cb.body.content)
               EXCEPT !.vetted = verifyCallback(cb)])

-----------------------------------------------------------------------------
(* The provider, its callbacks, those of others, and time.                 *)
Callback(s) ==
  LET body == [content |-> s, keys |-> "unsorted"]
  IN [body |-> body, signature |-> calculateHMAC([body EXCEPT !.keys = "sorted"], "ipn secret")]
Advance(s) ==
  LET i == Len(provider)
  IN /\ record.kind \in {"swap", "payment"}
     /\ i < Len(Path) /\ Last(provider) = Path[i]
     /\ s \in {Path[i + 1]} \cup Dropped
     /\ provider' = Append(provider, s)
     /\ underway' = IF Kind("swap") THEN underway ELSE underway \cup {Callback(s)}
     /\ UNCHANGED <<record, config, date>>
SendForged(signature) ==
  LET body == [content |-> "finished", keys |-> "sorted"]
  IN /\ Kind("payment")
     /\ \A cb \in underway : cb.body # body
     /\ signature.secret = "ipn secret" => \E cb \in underway : signature = cb.signature
     /\ underway' = underway \cup {[body |-> body, signature |-> signature]}
     /\ UNCHANGED <<record, config, date, provider>>
LoseAnswer(r) ==
  /\ underway' = underway \ {r}
  /\ UNCHANGED <<record, config, date, provider>>
PassDate ==
  /\ Kind("mandate") /\ date < MaxDate
  /\ date' = date + 1
  /\ UNCHANGED <<record, config, provider, underway>>

RecordsInit ==
  /\ record = NoRecord /\ config = NoConfig
  /\ date = 0 /\ provider = <<>> /\ underway = {}

Lists == UNION {[1..n -> Signer] : n \in 0..(MaxSigners + 1)}
RecordsNext ==
  \/ \E required \in 0..(MaxSigners + 1), signers \in Lists : createConfig(required, signers)
  \/ deactivateConfig
  \/ \E amount \in Amount, given \in BOOLEAN : createProposal(amount, given)
  \/ \E signer \in Signer : recordApproval(signer)
  \/ rejectProposal \/ markExecuted
  \/ \E amount \in Amount, period \in 0..(MaxPeriod + 1), max \in 0..MaxRuns : createMandate(amount, period, max)
  \/ cancelMandate \/ recordExecution
  \/ \E chain \in Chain, amount \in Amount, given \in BOOLEAN : createBridgeIntent(chain, amount, given)
  \/ linkProviderTransaction \/ confirmBridgeIntent \/ cancelBridgeIntent
  \/ createLoanReference
  \/ \E status \in LoanReferenceStatus : updateLoanReferenceStatus(status)
  \/ createSwap \/ trackSwapStatus \/ createInvoice
  \/ \E r \in underway : mapSwapToNFTAccount(r) \/ emitPaymentSettledEvent(r) \/ LoseAnswer(r)
  \/ \E s \in Range(Path) \cup Dropped : Advance(s)
  \/ \E signature \in {NoSignature, calculateHMAC([content |-> "finished", keys |-> "sorted"], "guess")}
                        \cup {Callback(s).signature : s \in Range(PaymentPath)} : SendForged(signature)
  \/ PassDate

RecordsSpec == RecordsInit /\ [][RecordsNext]_recordVars

-----------------------------------------------------------------------------
(* A proposal is approved by as many different signers as its              *)
(* configuration asked for when it was made, whatever configurations are   *)
(* passed later (recordApproval).                                          *)
ApprovedIsBacked ==
  Kind("proposal") /\ record.status \in {"approved", "executed"} =>
    Cardinality(Range(record.approvers)) >= record.requiredApprovals

(* A mandate is complete after exactly the executions it was given, and    *)
(* the two questions about its next execution agree (recordExecution,      *)
(* canExecute, getNextExecutionTime).                                      *)
MandateIsBacked ==
  Kind("mandate") =>
    /\ record.status = "completed" <=> Exhausted(record)
    /\ record.maxExecutions > 0 => record.executionCount <= record.maxExecutions
    /\ canExecute(record) <=> getNextExecutionTime(record) <= date

(* A record of a swap shows a status its provider has had, and so does one *)
(* of a payment, unless the application passed on a callback that          *)
(* verifyCallback refuses.                                                 *)
ExternalIsBacked ==
  Kind("swap") \/ (Kind("payment") /\ record.vetted) => record.from \in Range(provider)

(* What a record says is backed by what it stands for, after every         *)
(* sequence of operations, callbacks and late answers.                     *)
RecordsAreBacked == ApprovedIsBacked /\ MandateIsBacked /\ ExternalIsBacked

(* The same without the exception. Refuted: emitPaymentSettledEvent does   *)
(* not look at the signature.                                              *)
EveryExternalIsBacked == Kind("swap") \/ Kind("payment") => record.from \in Range(provider)

(* "confirmed" is the end of a bridge intent. Refuted: linking a provider  *)
(* transaction makes it pending again, and it can then be cancelled.       *)
ConfirmedIsFinal == [][Kind("bridge") /\ record.status = "confirmed" => record'.status = "confirmed"]_recordVars

(* A finished payment stays finished. Refuted: an earlier callback that    *)
(* arrives late, or again, takes the record back (emitPaymentSettledEvent).*)
FinishedIsFinal == [][Kind("payment") /\ record.status = "finished" => record'.status = "finished"]_recordVars

(* A mandate is not charged twice in a period. Refuted: recordExecution    *)
(* does not ask canExecute.                                                *)
OncePerPeriod ==
  [][Kind("mandate") /\ record'.executionCount # record.executionCount => canExecute(record)]_recordVars
=============================================================================
