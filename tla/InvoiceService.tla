---------------------------- MODULE InvoiceService ----------------------------
(***************************************************************************)
(* The invoice service of the merchant API (api/src/services) over its two *)
(* shared stores: the invoices and the idempotency records.  Requests run  *)
(* concurrently, in one process or in several; each await is a step, and   *)
(* between two steps anything else may happen, the clock included.  A      *)
(* request may also die at any await, by a storage error or a crash.       *)
(*                                                                         *)
(* A request is a pair of its parameters and the expiry it asks for, null  *)
(* for the default; the pair is also its idempotency key.  Requests that   *)
(* fail validation or authorisation change nothing and are left out.       *)
(***************************************************************************)
EXTENDS Integers, Sequences, FiniteSets

CONSTANTS
  Client,              \* concurrent callers of createInvoice
  Parameters,          \* merchant, amount, metadata and API key of a request
  Workloads,           \* the requests of a run, in the order they arrive
  null,
  DEFAULT_EXPIRY,      \* lifetime of an invoice that asks for no expiry
  IDEMPOTENCY_TTL,     \* least lifetime of an idempotency record
  RETENTION,           \* an expired invoice is kept that long
  MIN_CONFIRMATIONS,
  MaxClock, MaxHead,   \* bounds: clock, chain head,
  MaxInvoices,         \*   invoice ids
  MaxPayments          \*   and payments on chain

ASSUME InvoiceAssumption ==
  {DEFAULT_EXPIRY, IDEMPOTENCY_TTL, RETENTION, MIN_CONFIRMATIONS,
   MaxClock, MaxHead, MaxInvoices, MaxPayments} \subseteq Nat

VARIABLES
  clock,          \* Date.now()
  invoices,       \* invoice store
  records,        \* idempotency store
  next_id,        \* ids given out by generateInvoiceId
  call,           \* the progress of each caller's request
  arrivals,       \* requests still to arrive
  head,           \* height of the chain, as the indexer reports it
  payments,       \* payments on chain that name an invoice
  settling,       \* settlement events whose scan has found a pending invoice
  sweeping,       \* records the cleanup has found to point at nothing
  issued          \* history: what was published, with its expiry

stores == <<invoices, records, next_id, issued>>
chain == <<head, payments, settling>>
vars == <<clock, stores, call, arrivals, chain, sweeping>>

Id == 1..MaxInvoices
Expiry == (0..(MaxClock + DEFAULT_EXPIRY)) \cup {null}
Request == Parameters \X Expiry

ASSUME WorkloadAssumption == Workloads \subseteq Seq(Request)

Payment == [invoice : Id, block : 0..MaxHead, tx : Nat]
Invoice == [key : Request, status : {"pending", "settled", "expired"},
            expires_at : Nat, settlement : Payment \cup {null}]
Record == [invoiceId : Id, expiresAt : Nat]

ASSUME NullAssumption ==
  null \notin Nat \cup Invoice \cup Record \cup Request \cup Payment

(* What createInvoice keeps across its awaits: the request, its key, the   *)
(* invoice a record named and the candidate it made itself.                *)
Call == [at : {"idle", "lookup", "fetch", "dropKey", "dropInvoice", "store",
               "publish", "discard", "winner", "unpublish", "dropStale"},
         request : Request \cup {null}, key : Request \cup {null},
         found : Id \cup {null}, mine : Id \cup {null}, expires : Nat]
Idle == [at |-> "idle", request |-> null, key |-> null,
         found |-> null, mine |-> null, expires |-> 0]

(***************************************************************************)
(* The stores.                                                             *)
(***************************************************************************)

Expired(t) == t <= clock

Exists(id) == invoices[id] # null

TransitionUnchecked(id, from, to, settlement) ==
  /\ Exists(id)
  /\ invoices' = [invoices EXCEPT ![id].status = to,
                    ![id].settlement = IF settlement = null THEN @
                                                            ELSE settlement]

(* transition: a compare-and-set on the status.                            *)
Transition(id, from, to, settlement) ==
  /\ Exists(id)
  /\ invoices[id].status = from
  /\ to = "expired" => Expired(invoices[id].expires_at)
  /\ invoices' = [invoices EXCEPT ![id].status = to,
                    ![id].settlement = IF settlement = null THEN @
                                                            ELSE settlement]

(* A record past its time counts as absent.                                *)
Active(key) == records[key] # null /\ records[key].expiresAt >= clock

(***************************************************************************)
(* createInvoice.                                                          *)
(***************************************************************************)

(* validateExpirationTime: an expiry that is asked for lies ahead.         *)
ExpiryValid(request) == request[2] # null => ~Expired(request[2])

Begin(c) ==
  LET request == Head(arrivals) IN
  /\ call[c].at = "idle"
  /\ arrivals # <<>>
  /\ ExpiryValid(request)
  /\ arrivals' = Tail(arrivals)
  /\ call' = [call EXCEPT ![c] = [Idle EXCEPT !.at = "lookup",
                                    !.request = request, !.key = request]]
  /\ UNCHANGED <<clock, stores, chain, sweeping>>

Await(c, at) == call[c].at = at
Goto(c, at) == call' = [call EXCEPT ![c].at = at]
Return(c) == call' = [call EXCEPT ![c] = Idle]

(* The record of this key, if one is active.                               *)
Lookup(c) ==
  LET key == call[c].key IN
  /\ Await(c, "lookup")
  /\ IF Active(key)
       THEN /\ call' = [call EXCEPT ![c].at = "fetch",
                                    ![c].found = records[key].invoiceId]
            /\ UNCHANGED records
       ELSE /\ Goto(c, "store")
            /\ records' = [records EXCEPT ![key] = null]
  /\ UNCHANGED <<clock, invoices, next_id, issued, arrivals, chain, sweeping>>

FetchAgain(c) ==
  LET found == call[c].found IN
  /\ Await(c, "fetch")
  /\ IF Exists(found)
       THEN IF Expired(invoices[found].expires_at)
              THEN Goto(c, "lookup")
              ELSE Return(c)
       ELSE Goto(c, "store")
  /\ UNCHANGED <<clock, stores, arrivals, chain, sweeping>>

(* The invoice the record names is the answer unless it has expired.       *)
Fetch(c) ==
  LET found == call[c].found IN
  /\ Await(c, "fetch")
  /\ IF Exists(found)
       THEN IF Expired(invoices[found].expires_at)
              THEN Goto(c, "dropKey")
              ELSE Return(c)
       ELSE Goto(c, "store")
  /\ UNCHANGED <<clock, stores, arrivals, chain, sweeping>>

DropKey(c) ==
  /\ Await(c, "dropKey")
  /\ records' = [records EXCEPT ![call[c].key] = null]
  /\ Goto(c, "dropInvoice")
  /\ UNCHANGED <<clock, invoices, next_id, issued, arrivals, chain, sweeping>>

DropInvoice(c) ==
  /\ Await(c, "dropInvoice")
  /\ invoices' = [invoices EXCEPT ![call[c].found] = null]
  /\ Goto(c, "store")
  /\ UNCHANGED <<clock, records, next_id, issued, arrivals, chain, sweeping>>

(* A candidate is stored first.  When the expiry asked for has passed      *)
(* meanwhile, the default is written into the request, not the invoice.    *)
Store(c) ==
  LET request == call[c].request
      default == clock + DEFAULT_EXPIRY
      expires == IF request[2] = null THEN default ELSE request[2]
  IN
  /\ Await(c, "store")
  /\ next_id <= MaxInvoices
  /\ next_id' = next_id + 1
  /\ invoices' = [invoices EXCEPT ![next_id] =
                    [key |-> call[c].key, status |-> "pending",
                     expires_at |-> expires, settlement |-> null]]
  /\ call' = [call EXCEPT ![c].at = "publish", ![c].mine = next_id,
                ![c].expires = expires,
                ![c].request = IF Expired(expires)
                                 THEN <<request[1], default>> ELSE @]
  /\ UNCHANGED <<clock, records, issued, arrivals, chain, sweeping>>

Later(a, b) == IF a >= b THEN a ELSE b

(* The record that publishes the candidate.                                *)
Issue(c) ==
  /\ records' = [records EXCEPT ![call[c].key] =
                   [invoiceId |-> call[c].mine,
                    expiresAt |-> Later(call[c].expires,
                                        clock + IDEMPOTENCY_TTL)]]
  /\ issued' = issued \cup {[key |-> call[c].key, invoice |-> call[c].mine,
                             expires |-> call[c].expires]}
  /\ Return(c)

PublishAlways(c) ==
  /\ Await(c, "publish")
  /\ Issue(c)
  /\ UNCHANGED <<clock, invoices, next_id, arrivals, chain, sweeping>>

(* setIfAbsent: the candidate becomes the answer, or an active record of   *)
(* another request is found.                                               *)
Publish(c) ==
  LET key == call[c].key IN
  /\ Await(c, "publish")
  /\ IF Active(key)
       THEN /\ call' = [call EXCEPT ![c].at = "discard",
                                    ![c].found = records[key].invoiceId]
            /\ UNCHANGED <<records, issued>>
       ELSE Issue(c)
  /\ UNCHANGED <<clock, invoices, next_id, arrivals, chain, sweeping>>

DiscardFound(c) ==
  /\ Await(c, "discard")
  /\ invoices' = [invoices EXCEPT ![call[c].found] = null]
  /\ Goto(c, "winner")
  /\ UNCHANGED <<clock, records, next_id, issued, arrivals, chain, sweeping>>

(* The loser removes its candidate ...                                     *)
Discard(c) ==
  /\ Await(c, "discard")
  /\ invoices' = [invoices EXCEPT ![call[c].mine] = null]
  /\ Goto(c, "winner")
  /\ UNCHANGED <<clock, records, next_id, issued, arrivals, chain, sweeping>>

(* ... and answers with the winner's invoice, unless that has expired.     *)
Winner(c) ==
  LET found == call[c].found IN
  /\ Await(c, "winner")
  /\ IF Exists(found) /\ ~Expired(invoices[found].expires_at)
       THEN Return(c)
       ELSE call' = [call EXCEPT ![c].at = "unpublish",
                       ![c].found = IF Exists(found) THEN found ELSE null]
  /\ UNCHANGED <<clock, stores, arrivals, chain, sweeping>>

(* The recursive call: it validates the request again and may throw.       *)
Restart(c) ==
  call' = [call EXCEPT ![c] =
             IF ExpiryValid(@.request)
               THEN [Idle EXCEPT !.at = "lookup", !.request = call[c].request,
                                 !.key = call[c].request]
               ELSE Idle]

Unpublish(c) ==
  /\ Await(c, "unpublish")
  /\ records' = [records EXCEPT ![call[c].key] = null]
  /\ IF call[c].found = null THEN Restart(c) ELSE Goto(c, "dropStale")
  /\ UNCHANGED <<clock, invoices, next_id, issued, arrivals, chain, sweeping>>

DropStale(c) ==
  /\ Await(c, "dropStale")
  /\ invoices' = [invoices EXCEPT ![call[c].found] = null]
  /\ Restart(c)
  /\ UNCHANGED <<clock, records, next_id, issued, arrivals, chain, sweeping>>

CreateStep(c) ==
  \/ Lookup(c) \/ Fetch(c) \/ DropKey(c) \/ DropInvoice(c) \/ Store(c)
  \/ Publish(c) \/ Discard(c) \/ Winner(c) \/ Unpublish(c) \/ DropStale(c)

(* A storage error or a crash ends the request where it stands.            *)
Fail(c) ==
  /\ call[c].at # "idle"
  /\ Return(c)
  /\ UNCHANGED <<clock, stores, arrivals, chain, sweeping>>

(***************************************************************************)
(* Reading and maintenance.                                                *)
(***************************************************************************)

(* getInvoice and the cleanup turn a pending invoice past its time into an *)
(* expired one.  Their earlier read adds nothing to what transition asks.  *)
ExpireInvoice(id) ==
  /\ Transition(id, "pending", "expired", null)
  /\ UNCHANGED <<clock, records, next_id, issued, call, arrivals, chain, sweeping>>

(* The cleanup deletes what has been expired for longer than RETENTION.    *)
RemoveExpired(id) ==
  /\ Exists(id)
  /\ invoices[id].status = "expired"
  /\ clock - invoices[id].expires_at > RETENTION
  /\ invoices' = [invoices EXCEPT ![id] = null]
  /\ UNCHANGED <<clock, records, next_id, issued, call, arrivals, chain, sweeping>>

(* Its second pass reads the invoice of every record ...                   *)
FindDangling(key) ==
  /\ records[key] # null
  /\ ~Exists(records[key].invoiceId)
  /\ key \notin sweeping
  /\ sweeping' = sweeping \cup {key}
  /\ UNCHANGED <<clock, stores, call, arrivals, chain>>

(* ... and deletes the key when it was missing.                            *)
DeleteDangling(key) ==
  /\ key \in sweeping
  /\ sweeping' = sweeping \ {key}
  /\ records' = [records EXCEPT ![key] = null]
  /\ UNCHANGED <<clock, invoices, next_id, issued, call, arrivals, chain>>

(***************************************************************************)
(* processSettlementEvent.                                                 *)
(***************************************************************************)

(* External: a payer pays an invoice; blocks follow.  Payers know an        *)
(* invoice by what a caller was given.                                     *)
Pay(z) ==
  /\ Cardinality(payments) < MaxPayments
  /\ payments' = payments \cup {[invoice |-> z.invoice, block |-> head,
                                 tx |-> Cardinality(payments)]}
  /\ UNCHANGED <<clock, stores, call, arrivals, head, settling, sweeping>>

NewBlock ==
  /\ head < MaxHead
  /\ head' = head + 1
  /\ UNCHANGED <<clock, stores, call, arrivals, payments, settling, sweeping>>

FinalEarly(b, current) == current - b + 1 >= MIN_CONFIRMATIONS

(* isFinal, for an event of block b at the height the indexer reports.     *)
Final(b, current) == current - b >= MIN_CONFIRMATIONS

(* The scan of the invoices finds the pending one the payment names; an    *)
(* event may be delivered again, late or with an old height.               *)
ScanSettlement(p) ==
  /\ \E current \in p.block..head : Final(p.block, current)
  /\ Exists(p.invoice)
  /\ invoices[p.invoice].status = "pending"
  /\ settling' = settling \cup {p}
  /\ UNCHANGED <<clock, stores, call, arrivals, head, payments, sweeping>>

(* The transition succeeds only if the invoice is still pending.           *)
RecordSettlement(p) ==
  /\ p \in settling
  /\ settling' = settling \ {p}
  /\ \/ Transition(p.invoice, "pending", "settled", p)
     \/ /\ ~(Exists(p.invoice) /\ invoices[p.invoice].status = "pending")
        /\ UNCHANGED invoices
  /\ UNCHANGED <<clock, records, next_id, issued, call, arrivals, head, payments,
                 sweeping>>

(***************************************************************************)
(* The specification.                                                      *)
(***************************************************************************)

InvoiceInit ==
  /\ clock = 0
  /\ invoices = [id \in Id |-> null]
  /\ records = [key \in Request |-> null]
  /\ next_id = 1
  /\ call = [c \in Client |-> Idle]
  /\ arrivals \in Workloads
  /\ head = 0
  /\ payments = {}
  /\ settling = {}
  /\ sweeping = {}
  /\ issued = {}

Tick ==
  /\ clock < MaxClock
  /\ clock' = clock + 1
  /\ UNCHANGED <<stores, call, arrivals, chain, sweeping>>

InvoiceNext ==
  \/ \E c \in Client : Begin(c)
  \/ \E c \in Client : CreateStep(c)
  \/ \E c \in Client : Fail(c)
  \/ \E id \in Id : ExpireInvoice(id)
  \/ \E id \in Id : RemoveExpired(id)
  \/ \E key \in Request : FindDangling(key)
  \/ \E key \in Request : DeleteDangling(key)
  \/ \E z \in issued : Pay(z)
  \/ NewBlock
  \/ \E p \in payments : ScanSettlement(p)
  \/ \E p \in settling : RecordSettlement(p)
  \/ Tick

InvoiceSpec == InvoiceInit /\ [][InvoiceNext]_vars

(* A request in progress goes on: every await settles.                     *)
InvoiceFairSpec == InvoiceSpec /\ \A c \in Client : WF_vars(CreateStep(c))

(***************************************************************************)
(* Properties.                                                             *)
(***************************************************************************)

(* The stores hold invoices and records of their types, and a request that *)
(* waits for the invoice of a record has an id to ask for.                 *)
InvoiceTypeOK ==
  /\ clock \in Nat /\ arrivals \in Seq(Request) /\ next_id \in Nat /\ head \in Nat
  /\ invoices \in [Id -> Invoice \cup {null}]
  /\ records \in [Request -> Record \cup {null}]
  /\ call \in [Client -> Call]
  /\ payments \subseteq Payment /\ settling \subseteq payments
  /\ sweeping \subseteq Request
  /\ issued \subseteq [key : Request, invoice : Id, expires : Nat]
  /\ \A c \in Client :
       /\ call[c].at \in {"fetch", "dropKey", "dropInvoice", "discard",
                          "winner", "dropStale"} => call[c].found \in Id
       /\ call[c].at \in {"publish", "discard"} => call[c].mine \in Id

(* Until an invoice issued for a request has expired, the request has only *)
(* one: concurrent creates, crashes between their steps and the cleanup    *)
(* never issue a second one (createInvoice, setIfAbsent).                  *)
ConvergesWhileLive ==
  \A a, b \in issued :
    a.key = b.key /\ a.invoice # b.invoice
      => \E z \in issued : z.key = a.key /\ Expired(z.expires)

(* An invoice that was issued stays in the store until it expires, whoever *)
(* cleans up after a lost race, a stale record or an expiry meanwhile.     *)
IssuedStayStored ==
  \A z \in issued : ~Expired(z.expires) => Exists(z.invoice)

(* An invoice that is settled or expired never changes its status or its   *)
(* settlement again, though settlement, reads and the cleanup race for it  *)
(* (transition).                                                           *)
OutcomeNeverChanges ==
  [][\A id \in Id :
       /\ Exists(id)
       /\ invoices[id].status # "pending"
       /\ invoices'[id] # null
       => invoices'[id] = invoices[id]]_vars

(* A settled invoice carries the payment that names it, buried by at least *)
(* MIN_CONFIRMATIONS blocks (processSettlementEvent).                      *)
SettlementIsProven ==
  \A id \in Id :
    Exists(id) /\ invoices[id].status = "settled"
      => LET p == invoices[id].settlement IN
         /\ p \in payments
         /\ p.invoice = id
         /\ head - p.block >= MIN_CONFIRMATIONS

(* Every createInvoice ends, however often it has to begin again because   *)
(* of a stale record (the recursive call of createInvoice).                *)
CallsEnd == \A c \in Client : call[c].at # "idle" ~> call[c].at = "idle"

(* Equal requests share one invoice for its whole lifetime, also after an  *)
(* earlier one has expired.  The clean-up of a stale record breaks this.   *)
OneLiveInvoicePerRequest ==
  \A a, b \in issued :
    a.key = b.key /\ a.invoice # b.invoice
      => Expired(a.expires) \/ Expired(b.expires)

(* A settled invoice is never deleted.  createInvoice deletes one whose    *)
(* time has passed when the same request comes again.                      *)
SettledIsKept ==
  [][\A id \in Id : Exists(id) /\ invoices[id].status = "settled"
                      => invoices'[id] # null]_vars

(* An invoice is stored with time left to pay it.  An expiry that passes   *)
(* between validation and storing is not replaced in the invoice.          *)
StoredWithTimeLeft ==
  [][\A id \in Id : ~Exists(id) /\ invoices'[id] # null
                      => invoices'[id].expires_at > clock]_vars

===============================================================================
