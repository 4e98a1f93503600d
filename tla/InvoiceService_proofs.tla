------------------------ MODULE InvoiceService_proofs ------------------------
(***************************************************************************)
(* The invoice service, for any number of callers, requests, invoices and  *)
(* crashes and any lifetimes: an invoice a caller was given is never lost  *)
(* while it can still be paid, equal requests answer with one invoice, and *)
(* an outcome is backed by the chain and never changes.                    *)
(***************************************************************************)
EXTENDS InvoiceService, FiniteSetTheorems, TLAPS

(* Types, in three parts: the calls in progress, ...                       *)
Steps == {"lookup", "fetch", "dropKey", "dropInvoice", "store", "publish",
          "discard", "winner", "unpublish", "dropStale"}
NeedsFound == {"fetch", "dropKey", "dropInvoice", "discard", "winner", "dropStale"}
NeedsMine == {"publish", "discard"}

CallOK(k) ==
  /\ k \in Call
  /\ k.at # "idle" => k.request \in Request /\ k.key \in Request
  /\ k.at \in NeedsFound => k.found \in Id
  /\ k.at \in NeedsMine => k.mine \in Id

CallsTyped == call \in [Client -> Call] /\ \A c \in Client : CallOK(call[c])

(* ... the stores ...                                                      *)
StoresTyped ==
  /\ clock \in 0..MaxClock
  /\ next_id \in 1..(MaxInvoices + 1)
  /\ invoices \in [Id -> Invoice \cup {null}]
  /\ records \in [Request -> Record \cup {null}]
  /\ issued \subseteq [key : Request, invoice : Id, expires : Nat]

(* ... and what surrounds them.                                            *)
WorldTyped ==
  /\ arrivals \in Seq(Request)
  /\ head \in 0..MaxHead
  /\ payments \subseteq Payment /\ IsFiniteSet(payments)
  /\ settling \subseteq payments
  /\ sweeping \subseteq Request

TypeInv == CallsTyped /\ StoresTyped /\ WorldTyped

USE InvoiceAssumption, NullAssumption

(* One call moves on.                                                      *)
LEMMA CallUpdate ==
  ASSUME CallsTyped, NEW c \in Client, NEW k, CallOK(k),
         call' = [call EXCEPT ![c] = k]
  PROVE  CallsTyped'
BY DEF CallsTyped, CallOK

LEMMA IdleOK == CallOK(Idle)
BY DEF CallOK, Idle, Call, NeedsFound, NeedsMine

LEMMA ReturnTypes ==
  ASSUME CallsTyped, NEW c \in Client, Return(c)
  PROVE  CallsTyped'
BY CallUpdate, IdleOK DEF Return

(* A call that only moves keeps its fields.                                *)
LEMMA GotoTypes ==
  ASSUME CallsTyped, NEW c \in Client, call[c].at # "idle",
         NEW s \in Steps, s \notin NeedsMine,
         s \in NeedsFound => call[c].found \in Id,
         Goto(c, s)
  PROVE  CallsTyped'
<1> DEFINE k == [call[c] EXCEPT !.at = s]
<1>1. CallOK(call[c])
  BY DEF CallsTyped
<1>2. CallOK(k)
  BY <1>1 DEF CallOK, Call, Steps, NeedsFound, NeedsMine
<1>3. call' = [call EXCEPT ![c] = k]
  BY DEF Goto
<1>4. QED BY <1>2, <1>3, CallUpdate

(* A call takes the id of a record along.                                  *)
LEMMA FoundTypes ==
  ASSUME CallsTyped, NEW c \in Client, call[c].at # "idle",
         NEW s \in Steps, s \in NeedsMine => call[c].mine \in Id,
         NEW f \in Id \cup {null}, s \in NeedsFound => f \in Id,
         call' = [call EXCEPT ![c].at = s, ![c].found = f]
  PROVE  CallsTyped'
<1> DEFINE k == [call[c] EXCEPT !.at = s, !.found = f]
<1>1. CallOK(call[c])
  BY DEF CallsTyped
<1>2. CallOK(k)
  BY <1>1 DEF CallOK, Call, Steps, NeedsFound, NeedsMine
<1>3. call' = [call EXCEPT ![c] = k]
  OBVIOUS
<1>4. QED BY <1>2, <1>3, CallUpdate

(* A call begins, or begins again.                                         *)
LEMMA LookupCallOK ==
  ASSUME NEW q \in Request
  PROVE  CallOK([Idle EXCEPT !.at = "lookup", !.request = q, !.key = q])
BY DEF CallOK, Idle, Call, NeedsFound, NeedsMine

LEMMA RestartTypes ==
  ASSUME CallsTyped, NEW c \in Client, call[c].at # "idle", Restart(c)
  PROVE  CallsTyped'
<1> DEFINE q == call[c].request
           k == [Idle EXCEPT !.at = "lookup", !.request = q, !.key = q]
<1>1. q \in Request
  BY DEF CallsTyped, CallOK
<1>2. CallOK(k) /\ CallOK(Idle)
  BY <1>1, LookupCallOK, IdleOK
<1>3. call' = [call EXCEPT ![c] = IF ExpiryValid(q) THEN k ELSE Idle]
  BY DEF Restart
<1>4. CallOK(IF ExpiryValid(q) THEN k ELSE Idle)
  BY <1>2
<1>5. QED BY <1>3, <1>4, CallUpdate

(* What a call in progress may assume of its own record.                   *)
LEMMA CallFields ==
  ASSUME CallsTyped, NEW c \in Client, call[c].at # "idle"
  PROVE  /\ call[c].request \in Request
         /\ call[c].key \in Request
         /\ call[c].found \in Id \cup {null}
         /\ call[c].mine \in Id \cup {null}
         /\ call[c].expires \in Nat
         /\ call[c].at \in NeedsFound => call[c].found \in Id
         /\ call[c].at \in NeedsMine => call[c].mine \in Id
BY DEF CallsTyped, CallOK, Call

LEMMA InitTypes == InvoiceInit => TypeInv
<1> SUFFICES ASSUME InvoiceInit PROVE TypeInv
  OBVIOUS
<1>1. IsFiniteSet({})
  BY FS_EmptySet
<1>2. CallsTyped
  BY IdleOK DEF InvoiceInit, CallsTyped, CallOK
<1>3. StoresTyped
  BY DEF InvoiceInit, StoresTyped
<1>4. WorldTyped
  BY <1>1, WorkloadAssumption DEF InvoiceInit, WorldTyped
<1>5. QED BY <1>2, <1>3, <1>4 DEF TypeInv

(* Every step of createInvoice keeps the types.                            *)
LEMMA CreateTypes ==
  ASSUME TypeInv, NEW c \in Client, CreateStep(c)
  PROVE  TypeInv'
<1> USE DEF Await
<1>1. CallsTyped /\ StoresTyped /\ WorldTyped
  BY DEF TypeInv
<1>2. UNCHANGED <<arrivals, head, payments, settling, sweeping, clock>>
  BY DEF CreateStep, Lookup, Fetch, DropKey, DropInvoice, Store, Publish,
         Discard, Winner, Unpublish, DropStale, chain
<1>3. WorldTyped'
  BY <1>1, <1>2 DEF WorldTyped
<1>4. call[c].at # "idle"
  BY DEF CreateStep, Lookup, Fetch, DropKey, DropInvoice, Store, Publish,
         Discard, Winner, Unpublish, DropStale
<1> DEFINE key == call[c].key
<1>5. /\ key \in Request
      /\ call[c].at \in NeedsFound => call[c].found \in Id
      /\ call[c].at \in NeedsMine => call[c].mine \in Id
  BY <1>1, <1>4, CallFields
<1>6. ASSUME Active(key) PROVE records[key].invoiceId \in Id
  BY <1>1, <1>5, <1>6 DEF Active, StoresTyped, Record
<1>7. CASE Lookup(c)
  <2>1. CASE Active(key)
    <3>1. CallsTyped'
      BY <1>1, <1>4, <1>6, <1>7, <2>1, FoundTypes
      DEF Lookup, Steps, NeedsFound, NeedsMine
    <3>2. StoresTyped'
      BY <1>1, <1>2, <1>7, <2>1 DEF Lookup, StoresTyped
    <3>3. QED BY <1>3, <3>1, <3>2 DEF TypeInv
  <2>2. CASE ~Active(key)
    <3>1. CallsTyped'
      BY <1>1, <1>4, <1>7, <2>2, GotoTypes DEF Lookup, Steps, NeedsFound, NeedsMine
    <3>2. StoresTyped'
      BY <1>1, <1>2, <1>7, <2>2 DEF Lookup, StoresTyped
    <3>3. QED BY <1>3, <3>1, <3>2 DEF TypeInv
  <2>3. QED BY <2>1, <2>2
<1>8. CASE Fetch(c)
  <2>1. call[c].found \in Id
    BY <1>5, <1>8 DEF Fetch, NeedsFound
  <2>2. Return(c) \/ Goto(c, "dropKey") \/ Goto(c, "store")
    BY <1>8 DEF Fetch
  <2>3. CallsTyped'
    BY <1>1, <1>4, <2>1, <2>2, ReturnTypes, GotoTypes
    DEF Steps, NeedsFound, NeedsMine
  <2>4. StoresTyped'
    BY <1>1, <1>2, <1>8 DEF Fetch, StoresTyped, stores
  <2>5. QED BY <1>3, <2>3, <2>4 DEF TypeInv
<1>9. CASE DropKey(c)
  <2>1. CallsTyped'
    BY <1>1, <1>4, <1>5, <1>9, GotoTypes DEF DropKey, Steps, NeedsFound, NeedsMine
  <2>2. StoresTyped'
    BY <1>1, <1>2, <1>9 DEF DropKey, StoresTyped
  <2>3. QED BY <1>3, <2>1, <2>2 DEF TypeInv
<1>10. CASE DropInvoice(c)
  <2>1. CallsTyped'
    BY <1>1, <1>4, <1>10, GotoTypes DEF DropInvoice, Steps, NeedsFound, NeedsMine
  <2>2. StoresTyped'
    BY <1>1, <1>2, <1>10 DEF DropInvoice, StoresTyped
  <2>3. QED BY <1>3, <2>1, <2>2 DEF TypeInv
<1>11. CASE Store(c)
  <2> DEFINE request == call[c].request
             default == clock + DEFAULT_EXPIRY
             expires == IF request[2] = null THEN default ELSE request[2]
             moved == IF Expired(expires) THEN <<request[1], default>> ELSE request
             k == [call[c] EXCEPT !.at = "publish", !.mine = next_id,
                                  !.expires = expires, !.request = moved]
  <2>1. request \in Request /\ request[1] \in Parameters /\ request[2] \in Expiry
    BY <1>1, <1>4, CallFields DEF Request
  <2>2. clock \in 0..MaxClock /\ next_id \in Id
    BY <1>1, <1>11 DEF StoresTyped, Store, Id
  <2>3. default \in Expiry /\ default \in Nat /\ expires \in Nat
    BY <2>1, <2>2 DEF Expiry
  <2>4. moved \in Request
    BY <2>1, <2>3 DEF Request
  <2>5. call' = [call EXCEPT ![c] = k]
    BY <1>11 DEF Store
  <2> HIDE DEF moved, expires
  <2>6. CallOK(k)
    BY <1>1, <1>5, <2>2, <2>3, <2>4 DEF CallsTyped, CallOK, Call, NeedsFound, NeedsMine
  <2>7. CallsTyped'
    BY <1>1, <2>5, <2>6, CallUpdate
  <2>8. [key |-> key, status |-> "pending", expires_at |-> expires,
         settlement |-> null] \in Invoice
    BY <1>5, <2>3 DEF Invoice
  <2>9. /\ invoices' = [invoices EXCEPT ![next_id] =
                          [key |-> key, status |-> "pending",
                           expires_at |-> expires, settlement |-> null]]
        /\ next_id' = next_id + 1
        /\ UNCHANGED <<records, issued>>
    BY <1>11 DEF Store, expires
  <2>10. StoresTyped'
    BY <1>1, <1>2, <2>2, <2>8, <2>9 DEF StoresTyped, Id
  <2>11. QED BY <1>3, <2>7, <2>10 DEF TypeInv
<1>12. CASE Publish(c)
  <2>1. call[c].mine \in Id /\ call[c].expires \in Nat
    BY <1>1, <1>4, <1>5, <1>12, CallFields DEF Publish, NeedsMine
  <2>2. CASE Active(key)
    <3>1. CallsTyped'
      BY <1>1, <1>4, <1>6, <1>12, <2>1, <2>2, FoundTypes
      DEF Publish, Steps, NeedsFound, NeedsMine
    <3>2. StoresTyped'
      BY <1>1, <1>2, <1>12, <2>2 DEF Publish, StoresTyped
    <3>3. QED BY <1>3, <3>1, <3>2 DEF TypeInv
  <2>3. CASE ~Active(key)
    <3>1. CallsTyped'
      BY <1>1, <1>12, <2>3, ReturnTypes DEF Publish, Issue
    <3>2. Later(call[c].expires, clock + IDEMPOTENCY_TTL) \in Nat
      BY <1>1, <2>1 DEF StoresTyped, Later
    <3>3. StoresTyped'
      BY <1>1, <1>2, <1>5, <1>12, <2>1, <2>3, <3>2 DEF Publish, Issue, StoresTyped, Record
    <3>4. QED BY <1>3, <3>1, <3>3 DEF TypeInv
  <2>4. QED BY <2>2, <2>3
<1>13. CASE Discard(c)
  <2>1. CallsTyped'
    BY <1>1, <1>4, <1>5, <1>13, GotoTypes DEF Discard, Steps, NeedsFound, NeedsMine
  <2>2. StoresTyped'
    BY <1>1, <1>2, <1>13 DEF Discard, StoresTyped
  <2>3. QED BY <1>3, <2>1, <2>2 DEF TypeInv
<1>14. CASE Winner(c)
  <2>1. call[c].found \in Id
    BY <1>5, <1>14 DEF Winner, NeedsFound
  <2>2. CASE Return(c)
    <3>1. CallsTyped'
      BY <1>1, <2>2, ReturnTypes
    <3>2. StoresTyped'
      BY <1>1, <1>2, <1>14 DEF Winner, StoresTyped, stores
    <3>3. QED BY <1>3, <3>1, <3>2 DEF TypeInv
  <2>3. CASE ~Return(c)
    <3> DEFINE f == IF Exists(call[c].found) THEN call[c].found ELSE null
    <3>1. call' = [call EXCEPT ![c].at = "unpublish", ![c].found = f]
      BY <1>14, <2>3 DEF Winner
    <3>2. f \in Id \cup {null}
      BY <2>1
    <3> HIDE DEF f
    <3>3. CallsTyped'
      BY <1>1, <1>4, <3>1, <3>2, FoundTypes DEF Steps, NeedsFound, NeedsMine
    <3>4. StoresTyped'
      BY <1>1, <1>2, <1>14 DEF Winner, StoresTyped, stores
    <3>5. QED BY <1>3, <3>3, <3>4 DEF TypeInv
  <2>4. QED BY <2>2, <2>3
<1>15. CASE Unpublish(c)
  <2>1. CASE call[c].found = null
    BY <1>1, <1>2, <1>3, <1>4, <1>15, <2>1, RestartTypes DEF Unpublish, StoresTyped, TypeInv
  <2>2. CASE call[c].found # null
    <3>1. call[c].found \in Id
      BY <1>1, <1>4, <2>2, CallFields
    <3>2. CallsTyped'
      BY <1>1, <1>4, <1>15, <2>2, <3>1, GotoTypes DEF Unpublish, Steps, NeedsFound, NeedsMine
    <3>3. StoresTyped'
      BY <1>1, <1>2, <1>15 DEF Unpublish, StoresTyped
    <3>4. QED BY <1>3, <3>2, <3>3 DEF TypeInv
  <2>3. QED BY <2>1, <2>2
<1>16. CASE DropStale(c)
  <2>1. CallsTyped'
    BY <1>1, <1>4, <1>16, RestartTypes DEF DropStale
  <2>2. StoresTyped'
    BY <1>1, <1>2, <1>16 DEF DropStale, StoresTyped
  <2>3. QED BY <1>3, <2>1, <2>2 DEF TypeInv
<1>17. QED
  BY <1>7, <1>8, <1>9, <1>10, <1>11, <1>12, <1>13, <1>14, <1>15, <1>16 DEF CreateStep

(* The compare-and-set keeps an invoice an invoice.                        *)
LEMMA TransitionTypes ==
  ASSUME StoresTyped, NEW id \in Id, NEW from, NEW to \in {"settled", "expired"},
         NEW p \in Payment \cup {null}, Transition(id, from, to, p)
  PROVE  invoices' \in [Id -> Invoice \cup {null}]
<1> DEFINE z == invoices[id]
           s == IF p = null THEN z.settlement ELSE p
           n == [z EXCEPT !.status = to, !.settlement = s]
<1>1. z \in Invoice
  BY DEF Transition, Exists, StoresTyped
<1>2. s \in Payment \cup {null}
  BY <1>1 DEF Invoice
<1> HIDE DEF s
<1>3. n \in Invoice
  BY <1>1, <1>2 DEF Invoice
<1>4. invoices' = [invoices EXCEPT ![id] = n]
  BY DEF Transition, s
<1> HIDE DEF n
<1>5. QED BY <1>3, <1>4 DEF StoresTyped

LEMMA NextTypes == TypeInv /\ [InvoiceNext]_vars => TypeInv'
<1> SUFFICES ASSUME TypeInv, [InvoiceNext]_vars PROVE TypeInv'
  OBVIOUS
<1>0. CallsTyped /\ StoresTyped /\ WorldTyped
  BY DEF TypeInv
<1>1. ASSUME NEW c \in Client, Begin(c) PROVE TypeInv'
  <2>1. Head(arrivals) \in Request /\ Tail(arrivals) \in Seq(Request)
    BY <1>0, <1>1 DEF Begin, WorldTyped
  <2>2. CallsTyped'
    BY <1>0, <1>1, <2>1, LookupCallOK, CallUpdate DEF Begin
  <2>3. StoresTyped'
    BY <1>0, <1>1 DEF Begin, StoresTyped, stores
  <2>4. WorldTyped'
    BY <1>0, <1>1, <2>1 DEF Begin, WorldTyped, chain
  <2>5. QED BY <2>2, <2>3, <2>4 DEF TypeInv
<1>2. ASSUME NEW c \in Client, CreateStep(c) PROVE TypeInv'
  BY <1>2, CreateTypes
<1>3. ASSUME NEW c \in Client, Fail(c) PROVE TypeInv'
  <2>1. CallsTyped'
    BY <1>0, <1>3, ReturnTypes DEF Fail
  <2>2. StoresTyped' /\ WorldTyped'
    BY <1>0, <1>3 DEF Fail, StoresTyped, WorldTyped, stores, chain
  <2>3. QED BY <2>1, <2>2 DEF TypeInv
<1>4. ASSUME NEW id \in Id, ExpireInvoice(id) PROVE TypeInv'
  <2>1. invoices' \in [Id -> Invoice \cup {null}]
    BY <1>0, <1>4, TransitionTypes DEF ExpireInvoice
  <2>2. CallsTyped' /\ WorldTyped'
    BY <1>0, <1>4 DEF ExpireInvoice, CallsTyped, WorldTyped, chain
  <2>3. StoresTyped'
    BY <1>0, <1>4, <2>1 DEF ExpireInvoice, StoresTyped
  <2>4. QED BY <2>2, <2>3 DEF TypeInv
<1>5. ASSUME NEW id \in Id, RemoveExpired(id) PROVE TypeInv'
  <2>1. CallsTyped' /\ WorldTyped'
    BY <1>0, <1>5 DEF RemoveExpired, CallsTyped, WorldTyped, chain
  <2>2. StoresTyped'
    BY <1>0, <1>5 DEF RemoveExpired, StoresTyped
  <2>3. QED BY <2>1, <2>2 DEF TypeInv
<1>6. ASSUME NEW key \in Request, FindDangling(key) PROVE TypeInv'
  <2>1. CallsTyped' /\ StoresTyped'
    BY <1>0, <1>6 DEF FindDangling, CallsTyped, StoresTyped, stores
  <2>2. WorldTyped'
    BY <1>0, <1>6 DEF FindDangling, WorldTyped, chain
  <2>3. QED BY <2>1, <2>2 DEF TypeInv
<1>7. ASSUME NEW key \in Request, DeleteDangling(key) PROVE TypeInv'
  <2>1. CallsTyped' /\ StoresTyped'
    BY <1>0, <1>7 DEF DeleteDangling, CallsTyped, StoresTyped
  <2>2. WorldTyped'
    BY <1>0, <1>7 DEF DeleteDangling, WorldTyped, chain
  <2>3. QED BY <2>1, <2>2 DEF TypeInv
<1>8. ASSUME NEW z \in issued, Pay(z) PROVE TypeInv'
  <2> DEFINE p == [invoice |-> z.invoice, block |-> head, tx |-> Cardinality(payments)]
  <2>1. Cardinality(payments) \in Nat
    BY <1>0, FS_CardinalityType DEF WorldTyped
  <2>2. p \in Payment
    BY <1>0, <2>1 DEF StoresTyped, WorldTyped, Payment
  <2>3. payments' = payments \cup {p}
    BY <1>8 DEF Pay
  <2> HIDE DEF p
  <2>4. IsFiniteSet(payments')
    BY <1>0, <2>3, FS_AddElement DEF WorldTyped
  <2>5. WorldTyped'
    BY <1>0, <1>8, <2>2, <2>3, <2>4 DEF Pay, WorldTyped
  <2>6. CallsTyped' /\ StoresTyped'
    BY <1>0, <1>8 DEF Pay, CallsTyped, StoresTyped, stores
  <2>7. QED BY <2>5, <2>6 DEF TypeInv
<1>9. CASE NewBlock
  <2>1. CallsTyped' /\ StoresTyped'
    BY <1>0, <1>9 DEF NewBlock, CallsTyped, StoresTyped, stores
  <2>2. WorldTyped'
    BY <1>0, <1>9 DEF NewBlock, WorldTyped
  <2>3. QED BY <2>1, <2>2 DEF TypeInv
<1>10. ASSUME NEW p \in payments, ScanSettlement(p) PROVE TypeInv'
  <2>1. CallsTyped' /\ StoresTyped'
    BY <1>0, <1>10 DEF ScanSettlement, CallsTyped, StoresTyped, stores
  <2>2. WorldTyped'
    BY <1>0, <1>10 DEF ScanSettlement, WorldTyped
  <2>3. QED BY <2>1, <2>2 DEF TypeInv
<1>11. ASSUME NEW p \in settling, RecordSettlement(p) PROVE TypeInv'
  <2>1. p \in Payment /\ p.invoice \in Id
    BY <1>0 DEF WorldTyped, Payment
  <2>2. invoices' \in [Id -> Invoice \cup {null}]
    <3>1. CASE Transition(p.invoice, "pending", "settled", p)
      BY <1>0, <2>1, <3>1, TransitionTypes
    <3>2. CASE UNCHANGED invoices
      BY <1>0, <3>2 DEF StoresTyped
    <3>3. QED BY <1>11, <3>1, <3>2 DEF RecordSettlement
  <2>3. CallsTyped' /\ StoresTyped'
    BY <1>0, <1>11, <2>2 DEF RecordSettlement, CallsTyped, StoresTyped
  <2>4. WorldTyped'
    BY <1>0, <1>11 DEF RecordSettlement, WorldTyped
  <2>5. QED BY <2>3, <2>4 DEF TypeInv
<1>12. CASE Tick
  <2>1. CallsTyped' /\ WorldTyped'
    BY <1>0, <1>12 DEF Tick, CallsTyped, WorldTyped, chain
  <2>2. StoresTyped'
    BY <1>0, <1>12 DEF Tick, StoresTyped, stores
  <2>3. QED BY <2>1, <2>2 DEF TypeInv
<1>13. CASE UNCHANGED vars
  <2>1. CallsTyped' /\ StoresTyped' /\ WorldTyped'
    BY <1>0, <1>13 DEF vars, stores, chain, CallsTyped, StoresTyped, WorldTyped
  <2>2. QED BY <2>1 DEF TypeInv
<1>14. QED
  BY <1>1, <1>2, <1>3, <1>4, <1>5, <1>6, <1>7, <1>8, <1>9, <1>10, <1>11, <1>12,
     <1>13 DEF InvoiceNext

(* The stores of the invoice service and the requests in progress keep     *)
(* their types; a request that asks for an invoice has an id to ask for.   *)
THEOREM InvoiceTypes == InvoiceSpec => []InvoiceTypeOK
<1>1. TypeInv => InvoiceTypeOK
  BY DEF TypeInv, CallsTyped, StoresTyped, WorldTyped, CallOK, NeedsFound,
         NeedsMine, InvoiceTypeOK
<1>2. QED BY <1>1, InitTypes, NextTypes, PTL DEF InvoiceSpec

(***************************************************************************)
(* An issued invoice is kept until it expires.  Deletions go by an id that *)
(* was read steps earlier, so the invariant says what such an id may be:   *)
(* a request's own candidate was never issued and is nobody else's, and an *)
(* invoice found through a record is deleted only after it has expired.    *)
(***************************************************************************)

IssuedId(id) == \E z \in issued : z.invoice = id

(* What was issued has an id given out before and keeps its expiry.        *)
IssuedKept ==
  \A z \in issued :
    /\ z.invoice < next_id
    /\ Exists(z.invoice) => invoices[z.invoice].expires_at = z.expires
    /\ ~Expired(z.expires) => Exists(z.invoice)

(* A candidate is not issued yet, and still there unless it has expired.   *)
CandidateOK(k) ==
  k.at \in NeedsMine =>
    /\ k.mine < next_id
    /\ ~IssuedId(k.mine)
    /\ k.at = "publish" =>
         /\ Exists(k.mine) => invoices[k.mine].expires_at = k.expires
         /\ ~Expired(k.expires) => Exists(k.mine)

(* An id that came from a record is an issued one.                         *)
RecordsIssued == \A key \in Request : records[key] # null => IssuedId(records[key].invoiceId)
FoundOK(k) == k.found # null => IssuedId(k.found)

(* Before a found invoice is deleted it has expired.                       *)
Deletes == {"dropKey", "dropInvoice", "dropStale", "unpublish"}
StaleOK(k) ==
  k.at \in Deletes => \A z \in issued : z.invoice = k.found => Expired(z.expires)

RequestOK(k) == CandidateOK(k) /\ FoundOK(k) /\ StaleOK(k)
RequestsOK == \A c \in Client : RequestOK(call[c])

(* No two requests have the same candidate.                                *)
CandidatesDiffer ==
  \A c, d \in Client :
    c # d /\ call[c].at \in NeedsMine /\ call[d].at \in NeedsMine
      => call[c].mine # call[d].mine

StayInv == TypeInv /\ IssuedKept /\ RecordsIssued /\ RequestsOK /\ CandidatesDiffer

(* Most steps change little: they delete an invoice nobody may miss, drop  *)
(* records, and move one request on.                                       *)
Dispensable(id) ==
  /\ \A z \in issued : z.invoice = id => Expired(z.expires)
  /\ \A c \in Client : call'[c].at = "publish" /\ call'[c].mine = id
                         => Expired(call'[c].expires)

InvoiceMove(id) ==
  \/ /\ Exists(id) <=> invoices'[id] # null
     /\ Exists(id) => invoices'[id].expires_at = invoices[id].expires_at
  \/ invoices'[id] = null /\ Dispensable(id)

CallMove(c) ==
  \/ call'[c] = call[c]
  \/ /\ call'[c].at \in NeedsMine => /\ call'[c].at = "discard"
                                     /\ call[c].at = "publish"
                                     /\ call'[c].mine = call[c].mine
     /\ call'[c].found # null => IssuedId(call'[c].found)
     /\ call'[c].at \in Deletes
          => \A z \in issued : z.invoice = call'[c].found => Expired(z.expires)

LEMMA QuietStep ==
  ASSUME StayInv, TypeInv', UNCHANGED <<next_id, issued>>, clock <= clock',
         \A key \in Request : records'[key] \in {records[key], null},
         \A id \in Id : InvoiceMove(id),
         \A c \in Client : CallMove(c)
  PROVE  StayInv'
<1>1. /\ clock \in Nat /\ clock' \in Nat
      /\ issued \subseteq [key : Request, invoice : Id, expires : Nat]
      /\ \A c \in Client : /\ call[c].at \in NeedsMine => call[c].mine \in Id
                           /\ call'[c].at \in NeedsMine => call'[c].mine \in Id
                           /\ call[c].expires \in Nat
                           /\ call'[c].expires \in Nat
  BY DEF StayInv, TypeInv, StoresTyped, CallsTyped, CallOK, Call
<1>2. \A t \in Nat : Expired(t) => Expired(t)'
  BY <1>1 DEF Expired
<1>3. IssuedKept'
  <2> SUFFICES ASSUME NEW z \in issued
               PROVE  /\ z.invoice < next_id
                      /\ Exists(z.invoice)' => invoices'[z.invoice].expires_at = z.expires
                      /\ ~Expired(z.expires)' => Exists(z.invoice)'
    BY DEF IssuedKept
  <2>1. z.invoice \in Id /\ z.expires \in Nat
    BY <1>1
  <2>2. /\ z.invoice < next_id
        /\ Exists(z.invoice) => invoices[z.invoice].expires_at = z.expires
        /\ ~Expired(z.expires) => Exists(z.invoice)
    BY DEF StayInv, IssuedKept
  <2>3. InvoiceMove(z.invoice)
    BY <2>1
  <2>4. QED BY <1>2, <2>1, <2>2, <2>3 DEF InvoiceMove, Dispensable, Exists
<1>4. RecordsIssued'
  BY DEF StayInv, RecordsIssued, IssuedId
<1>5. RequestsOK'
  <2> SUFFICES ASSUME NEW c \in Client PROVE RequestOK(call[c])'
    BY DEF RequestsOK
  <2>1. RequestOK(call[c]) /\ CallMove(c)
    BY DEF StayInv, RequestsOK
  <2>2. CandidateOK(call[c])'
    <3> SUFFICES ASSUME call'[c].at \in NeedsMine
                 PROVE  /\ call'[c].mine < next_id
                        /\ ~IssuedId(call'[c].mine)
                        /\ call'[c].at = "publish" =>
                             /\ Exists(call[c].mine)' =>
                                  invoices'[call'[c].mine].expires_at = call'[c].expires
                             /\ ~Expired(call[c].expires)' => Exists(call[c].mine)'
      BY DEF CandidateOK, IssuedId
    <3>1. call'[c].mine = call[c].mine /\ call[c].at \in NeedsMine /\ call'[c].mine \in Id
      BY <1>1, <2>1 DEF CallMove, NeedsMine
    <3>2. call[c].mine < next_id /\ ~IssuedId(call[c].mine)
      BY <2>1, <3>1 DEF RequestOK, CandidateOK
    <3>3. ASSUME call'[c].at = "publish"
          PROVE  /\ Exists(call[c].mine)' =>
                      invoices'[call'[c].mine].expires_at = call'[c].expires
                 /\ ~Expired(call[c].expires)' => Exists(call[c].mine)'
      <4>1. call'[c] = call[c]
        BY <2>1, <3>3 DEF CallMove, NeedsMine
      <4>2. /\ Exists(call[c].mine) => invoices[call[c].mine].expires_at = call[c].expires
            /\ ~Expired(call[c].expires) => Exists(call[c].mine)
        BY <2>1, <3>1, <3>3, <4>1 DEF RequestOK, CandidateOK
      <4>3. InvoiceMove(call[c].mine)
        BY <3>1
      <4>4. QED BY <1>1, <1>2, <3>3, <4>1, <4>2, <4>3 DEF InvoiceMove, Dispensable, Exists
    <3>4. QED BY <3>1, <3>2, <3>3
  <2>3. FoundOK(call[c])'
    BY <2>1 DEF CallMove, RequestOK, FoundOK, IssuedId
  <2>4. StaleOK(call[c])'
    <3> SUFFICES ASSUME call'[c].at \in Deletes, NEW z \in issued,
                        z.invoice = call'[c].found
                 PROVE  Expired(z.expires)'
      BY DEF StaleOK
    <3>1. Expired(z.expires)
      BY <2>1 DEF CallMove, RequestOK, StaleOK
    <3>2. QED BY <1>1, <1>2, <3>1
  <2>5. QED BY <2>2, <2>3, <2>4 DEF RequestOK
<1>6. CandidatesDiffer'
  <2> SUFFICES ASSUME NEW c \in Client, NEW d \in Client, c # d,
                      call'[c].at \in NeedsMine, call'[d].at \in NeedsMine
               PROVE  call'[c].mine # call'[d].mine
    BY DEF CandidatesDiffer
  <2>1. CallMove(c) /\ CallMove(d)
    OBVIOUS
  <2>2. /\ call'[c].mine = call[c].mine /\ call[c].at \in NeedsMine
        /\ call'[d].mine = call[d].mine /\ call[d].at \in NeedsMine
    BY <2>1 DEF CallMove, NeedsMine
  <2>3. QED BY <2>2 DEF StayInv, CandidatesDiffer
<1>7. QED BY <1>3, <1>4, <1>5, <1>6 DEF StayInv

(* A step that changes one request leaves the others alone.                *)
LEMMA OthersStay ==
  ASSUME TypeInv, NEW c \in Client, NEW k, call' = [call EXCEPT ![c] = k]
  PROVE  call'[c] = k /\ \A d \in Client \ {c} : call'[d] = call[d]
BY DEF TypeInv, CallsTyped

(* The three ways a request moves without a candidate of its own.          *)
LEMMA GotoMove ==
  ASSUME TypeInv, NEW c \in Client, RequestOK(call[c]), NEW s, s \notin NeedsMine,
         s \in Deletes => \A z \in issued : z.invoice = call[c].found => Expired(z.expires),
         Goto(c, s)
  PROVE  /\ \A d \in Client : CallMove(d)
         /\ call'[c].at = s
         /\ \A d \in Client \ {c} : call'[d] = call[d]
<1>1. call' = [call EXCEPT ![c] = [call[c] EXCEPT !.at = s]]
  BY DEF Goto
<1>2. call'[c] = [call[c] EXCEPT !.at = s] /\ \A d \in Client \ {c} : call'[d] = call[d]
  BY <1>1, OthersStay
<1>3. call[c] \in Call
  BY DEF TypeInv, CallsTyped
<1>4. call'[c].at = s /\ call'[c].found = call[c].found
  BY <1>2, <1>3 DEF Call
<1>5. CallMove(c)
  BY <1>4 DEF CallMove, RequestOK, FoundOK
<1>6. QED BY <1>2, <1>4, <1>5 DEF CallMove

LEMMA ReturnMove ==
  ASSUME TypeInv, NEW c \in Client, Return(c)
  PROVE  /\ \A d \in Client : CallMove(d)
         /\ call'[c].at = "idle"
         /\ \A d \in Client \ {c} : call'[d] = call[d]
<1>1. call'[c] = Idle /\ \A d \in Client \ {c} : call'[d] = call[d]
  BY OthersStay DEF Return
<1>2. CallMove(c)
  BY <1>1 DEF CallMove, Idle, NeedsMine, Deletes
<1>3. QED BY <1>1, <1>2 DEF CallMove, Idle

LEMMA RestartMove ==
  ASSUME TypeInv, NEW c \in Client, Restart(c)
  PROVE  /\ \A d \in Client : CallMove(d)
         /\ call'[c].at # "publish"
         /\ \A d \in Client \ {c} : call'[d] = call[d]
<1> DEFINE q == call[c].request
           k == [Idle EXCEPT !.at = "lookup", !.request = q, !.key = q]
<1>1. call' = [call EXCEPT ![c] = IF ExpiryValid(q) THEN k ELSE Idle]
  BY DEF Restart
<1>2. /\ call'[c] = IF ExpiryValid(q) THEN k ELSE Idle
      /\ \A d \in Client \ {c} : call'[d] = call[d]
  BY <1>1, OthersStay
<1>3. call'[c].at \in {"lookup", "idle"} /\ call'[c].found = null
  BY <1>2 DEF Idle
<1>4. CallMove(c)
  BY <1>3 DEF CallMove, NeedsMine, Deletes
<1>5. QED BY <1>2, <1>3, <1>4 DEF CallMove

LEMMA FoundMove ==
  ASSUME TypeInv, NEW c \in Client, NEW s,
         s \in NeedsMine => s = "discard" /\ call[c].at = "publish",
         NEW f, f # null => IssuedId(f),
         s \in Deletes => \A z \in issued : z.invoice = f => Expired(z.expires),
         call' = [call EXCEPT ![c].at = s, ![c].found = f]
  PROVE  \A d \in Client : CallMove(d)
<1>1. call' = [call EXCEPT ![c] = [call[c] EXCEPT !.at = s, !.found = f]]
  OBVIOUS
<1>2. /\ call'[c] = [call[c] EXCEPT !.at = s, !.found = f]
      /\ \A d \in Client \ {c} : call'[d] = call[d]
  BY <1>1, OthersStay
<1>3. call[c] \in Call
  BY DEF TypeInv, CallsTyped
<1>4. call'[c].at = s /\ call'[c].found = f /\ call'[c].mine = call[c].mine
  BY <1>2, <1>3 DEF Call
<1>5. CallMove(c)
  BY <1>4 DEF CallMove
<1>6. QED BY <1>2, <1>5 DEF CallMove

(* Stores that stay as they are, or lose a record.                         *)
LEMMA SameInvoices ==
  ASSUME UNCHANGED invoices
  PROVE  \A id \in Id : InvoiceMove(id)
BY DEF InvoiceMove, Exists

(* A deleted invoice may go, the others stay.                              *)
LEMMA OneDeleted ==
  ASSUME TypeInv, NEW x \in Id, Dispensable(x),
         invoices' = [invoices EXCEPT ![x] = null]
  PROVE  \A id \in Id : InvoiceMove(id)
BY DEF TypeInv, StoresTyped, InvoiceMove, Exists

(* An invoice that was issued is nobody's candidate.                       *)
LEMMA FoundDispensable ==
  ASSUME StayInv, NEW c \in Client, call[c].at \in {"dropInvoice", "dropStale"},
         call'[c].at # "publish",
         \A d \in Client \ {c} : call'[d] = call[d]
  PROVE  call[c].found \in Id /\ Dispensable(call[c].found)
<1>1. call[c].found \in Id /\ call[c].found # null
  BY DEF StayInv, TypeInv, CallsTyped, CallOK, NeedsFound, Id
<1>2. /\ IssuedId(call[c].found)
      /\ \A z \in issued : z.invoice = call[c].found => Expired(z.expires)
  BY <1>1 DEF StayInv, RequestsOK, RequestOK, FoundOK, StaleOK, Deletes
<1>3. ASSUME NEW d \in Client, call'[d].at = "publish", call'[d].mine = call[c].found
      PROVE  FALSE
  BY <1>2, <1>3 DEF StayInv, RequestsOK, RequestOK, CandidateOK, NeedsMine
<1>4. QED BY <1>1, <1>2, <1>3 DEF Dispensable

(* A new candidate gets an id that nothing refers to yet.                  *)
LEMMA StoreStays ==
  ASSUME StayInv, TypeInv', NEW c \in Client, Store(c)
  PROVE  StayInv'
<1> DEFINE request == call[c].request
           default == clock + DEFAULT_EXPIRY
           expires == IF request[2] = null THEN default ELSE request[2]
           moved == IF Expired(expires) THEN <<request[1], default>> ELSE request
           k == [call[c] EXCEPT !.at = "publish", !.mine = next_id,
                                !.expires = expires, !.request = moved]
<1>1. TypeInv /\ IssuedKept /\ RecordsIssued /\ RequestsOK /\ CandidatesDiffer
  BY DEF StayInv
<1>2. call' = [call EXCEPT ![c] = k]
  BY DEF Store
<1>3. call'[c] = k /\ \A d \in Client \ {c} : call'[d] = call[d]
  BY <1>1, <1>2, OthersStay
<1>4. /\ invoices' = [invoices EXCEPT ![next_id] =
                        [key |-> call[c].key, status |-> "pending",
                         expires_at |-> expires, settlement |-> null]]
      /\ next_id' = next_id + 1 /\ next_id <= MaxInvoices
      /\ UNCHANGED <<clock, records, issued>>
  BY DEF Store
<1> HIDE DEF expires, moved
<1>5. call[c] \in Call
  BY <1>1 DEF TypeInv, CallsTyped
<1>6. /\ call'[c].at = "publish" /\ call'[c].mine = next_id
      /\ call'[c].expires = expires /\ call'[c].found = call[c].found
  BY <1>3, <1>5 DEF Call
<1>7. /\ next_id \in Id /\ invoices \in [Id -> Invoice \cup {null}]
      /\ issued \subseteq [key : Request, invoice : Id, expires : Nat]
      /\ \A d \in Client : call[d].at \in NeedsMine => call[d].mine \in Id
  BY <1>1, <1>4 DEF TypeInv, StoresTyped, CallsTyped, CallOK, Id
<1>8. \A id \in Id \ {next_id} : invoices'[id] = invoices[id]
  BY <1>4, <1>7
<1>9. invoices'[next_id].expires_at = expires /\ invoices'[next_id] # null
  <2>1. invoices' \in [Id -> Invoice \cup {null}]
    BY DEF TypeInv, StoresTyped
  <2>2. invoices'[next_id] = [key |-> call[c].key, status |-> "pending",
                              expires_at |-> expires, settlement |-> null]
    BY <1>4, <1>7
  <2>3. [key |-> call[c].key, status |-> "pending",
         expires_at |-> expires, settlement |-> null] \in Invoice
    <3>1. call[c].key \in Request
      BY <1>1 DEF TypeInv, CallsTyped, CallOK, Store, Await
    <3>2. call'[c].expires \in Nat
      BY DEF TypeInv, CallsTyped, Call
    <3>3. QED BY <1>6, <3>1, <3>2 DEF Invoice
  <2>4. QED BY <2>2, <2>3
<1>10. IssuedKept'
  <2> SUFFICES ASSUME NEW z \in issued
               PROVE  /\ z.invoice < next_id'
                      /\ Exists(z.invoice)' => invoices'[z.invoice].expires_at = z.expires
                      /\ ~Expired(z.expires)' => Exists(z.invoice)'
    BY <1>4 DEF IssuedKept
  <2>1. z.invoice \in Id \ {next_id} /\ z.invoice < next_id /\ next_id \in Nat
    BY <1>1, <1>7 DEF IssuedKept, Id
  <2>2. invoices'[z.invoice] = invoices[z.invoice]
    BY <1>8, <2>1
  <2>3. QED BY <1>1, <1>4, <2>1, <2>2 DEF IssuedKept, Exists, Expired, Id
<1>11. RecordsIssued'
  BY <1>1, <1>4 DEF RecordsIssued, IssuedId
<1>12. ~IssuedId(next_id)
  BY <1>1, <1>7 DEF IssuedKept, IssuedId, Id
<1>13. RequestsOK'
  <2> SUFFICES ASSUME NEW d \in Client PROVE RequestOK(call[d])'
    BY DEF RequestsOK
  <2>1. RequestOK(call[d])
    BY <1>1 DEF RequestsOK
  <2>2. CASE d = c
    <3>1. CandidateOK(call[d])'
      BY <1>4, <1>6, <1>7, <1>9, <1>12, <2>2 DEF CandidateOK, IssuedId, Exists, Id
    <3>2. FoundOK(call[d])'
      BY <1>4, <1>6, <2>1, <2>2 DEF RequestOK, FoundOK, IssuedId
    <3>3. StaleOK(call[d])'
      BY <1>6, <2>2 DEF StaleOK, Deletes
    <3>4. QED BY <3>1, <3>2, <3>3 DEF RequestOK
  <2>3. CASE d # c
    <3>1. call'[d] = call[d]
      BY <1>3, <2>3
    <3>2. ASSUME call[d].at \in NeedsMine
          PROVE  /\ call[d].mine \in Id \ {next_id}
                 /\ call[d].mine < next_id'
                 /\ invoices'[call[d].mine] = invoices[call[d].mine]
      BY <1>4, <1>7, <1>8, <2>1, <3>2 DEF RequestOK, CandidateOK, Id
    <3>3. CandidateOK(call[d])'
      BY <1>4, <2>1, <3>1, <3>2 DEF RequestOK, CandidateOK, IssuedId, Exists, Expired
    <3>4. FoundOK(call[d])' /\ StaleOK(call[d])'
      BY <1>4, <2>1, <3>1 DEF RequestOK, FoundOK, StaleOK, IssuedId, Expired
    <3>5. QED BY <3>3, <3>4 DEF RequestOK
  <2>4. QED BY <2>2, <2>3
<1>14. CandidatesDiffer'
  <2>1. \A d \in Client : call[d].at \in NeedsMine => call[d].mine # next_id
    BY <1>1, <1>7 DEF RequestsOK, RequestOK, CandidateOK, Id
  <2>2. \A d \in Client \ {c} : call'[d].at \in NeedsMine => call'[d].mine # next_id
    BY <1>3, <2>1
  <2> SUFFICES ASSUME NEW d \in Client, NEW e \in Client, d # e,
                      call'[d].at \in NeedsMine, call'[e].at \in NeedsMine
               PROVE  call'[d].mine # call'[e].mine
    BY DEF CandidatesDiffer
  <2>3. CASE d = c \/ e = c
    BY <1>6, <2>2, <2>3
  <2>4. CASE d # c /\ e # c
    <3>1. call'[d] = call[d] /\ call'[e] = call[e]
      BY <1>3, <2>4
    <3>2. QED BY <1>1, <3>1 DEF CandidatesDiffer
  <2>5. QED BY <2>3, <2>4
<1>15. QED BY <1>10, <1>11, <1>13, <1>14 DEF StayInv

(* Publishing makes a candidate an issued invoice: it is in the store or   *)
(* has expired, and no other request holds its id.                         *)
LEMMA IssueStays ==
  ASSUME StayInv, TypeInv', NEW c \in Client, call[c].at = "publish", Issue(c),
         UNCHANGED <<clock, invoices, next_id>>
  PROVE  StayInv'
<1> DEFINE new == [key |-> call[c].key, invoice |-> call[c].mine,
                   expires |-> call[c].expires]
<1>1. TypeInv /\ IssuedKept /\ RecordsIssued /\ RequestsOK /\ CandidatesDiffer
  BY DEF StayInv
<1>2. call'[c] = Idle /\ \A d \in Client \ {c} : call'[d] = call[d]
  BY <1>1, OthersStay DEF Issue, Return
<1>3. issued' = issued \cup {new}
  BY DEF Issue
<1>4. \A id : IssuedId(id)' <=> IssuedId(id) \/ id = call[c].mine
  <2> TAKE id
  <2>1. new.invoice = call[c].mine
    OBVIOUS
  <2> HIDE DEF new
  <2>2. \A z : z \in issued' <=> z \in issued \/ z = new
    BY <1>3
  <2>3. QED BY <2>1, <2>2 DEF IssuedId
<1>5. /\ call[c].mine < next_id /\ ~IssuedId(call[c].mine)
      /\ Exists(call[c].mine) => invoices[call[c].mine].expires_at = call[c].expires
      /\ ~Expired(call[c].expires) => Exists(call[c].mine)
  BY <1>1 DEF RequestsOK, RequestOK, CandidateOK, NeedsMine
<1>6. IssuedKept'
  BY <1>1, <1>3, <1>5 DEF IssuedKept, Exists, Expired
<1>7. RecordsIssued'
  <2> SUFFICES ASSUME NEW key \in Request, records'[key] # null
               PROVE  IssuedId(records[key].invoiceId)'
    BY DEF RecordsIssued
  <2>1. records' \in [Request -> Record \cup {null}] /\ records \in [Request -> Record \cup {null}]
    BY <1>1 DEF TypeInv, StoresTyped
  <2>2. CASE key = call[c].key
    <3>1. records'[key].invoiceId = call[c].mine
      BY <2>1, <2>2 DEF Issue
    <3>2. QED BY <1>4, <3>1
  <2>3. CASE key # call[c].key
    <3>1. records'[key] = records[key]
      BY <2>1, <2>3 DEF Issue
    <3>2. QED BY <1>1, <1>4, <3>1 DEF RecordsIssued
  <2>4. QED BY <2>2, <2>3
<1>8. RequestsOK'
  <2> SUFFICES ASSUME NEW d \in Client PROVE RequestOK(call[d])'
    BY DEF RequestsOK
  <2>1. RequestOK(call[d])
    BY <1>1 DEF RequestsOK
  <2>2. CASE d = c
    BY <1>2, <2>2 DEF Idle, RequestOK, CandidateOK, FoundOK, StaleOK, NeedsMine, Deletes
  <2>3. CASE d # c
    <3>1. call'[d] = call[d]
      BY <1>2, <2>3
    <3>2. call[d].at \in NeedsMine => call[d].mine # call[c].mine
      BY <1>1, <2>3 DEF CandidatesDiffer, NeedsMine
    <3>3. CandidateOK(call[d])'
      BY <1>4, <2>1, <3>1, <3>2 DEF RequestOK, CandidateOK, Exists, Expired
    <3>4. FoundOK(call[d])'
      BY <1>4, <2>1, <3>1 DEF RequestOK, FoundOK
    <3>5. StaleOK(call[d])'
      <4> SUFFICES ASSUME call[d].at \in Deletes, NEW z \in issued',
                          z.invoice = call[d].found
                   PROVE  Expired(z.expires)
        BY <3>1 DEF StaleOK, Expired
      <4>1. call[d].found # null
        <5>1. z.invoice \in Id
          BY DEF TypeInv, StoresTyped
        <5>2. QED BY <5>1 DEF Id
      <4>2. call[d].found # call[c].mine
        BY <1>5, <2>1, <4>1 DEF RequestOK, FoundOK
      <4>3. z \in issued
        BY <1>3, <4>2
      <4>4. QED BY <2>1, <4>3 DEF RequestOK, StaleOK
    <3>6. QED BY <3>3, <3>4, <3>5 DEF RequestOK
  <2>4. QED BY <2>2, <2>3
<1>9. CandidatesDiffer'
  BY <1>1, <1>2 DEF CandidatesDiffer, Idle, NeedsMine
<1>10. QED BY <1>6, <1>7, <1>8, <1>9 DEF StayInv

(* Every step of createInvoice keeps the invariant.                        *)
LEMMA CreateStays ==
  ASSUME StayInv, NEW c \in Client, CreateStep(c)
  PROVE  StayInv'
<1> USE DEF Await
<1>1. TypeInv /\ TypeInv' /\ RequestOK(call[c])
  BY CreateTypes DEF StayInv, RequestsOK
<1>2. clock \in Nat /\ UNCHANGED clock
  BY <1>1 DEF TypeInv, StoresTyped, CreateStep, Lookup, Fetch, DropKey, DropInvoice,
              Store, Publish, Discard, Winner, Unpublish, DropStale
<1>3. clock <= clock'
  BY <1>2
<1>4. call[c].at # "idle" => call[c].key \in Request
  BY <1>1, CallFields DEF TypeInv
<1>5. records \in [Request -> Record \cup {null}]
  BY <1>1 DEF TypeInv, StoresTyped
<1>6. ASSUME NEW x, records' = [records EXCEPT ![x] = null]
      PROVE  \A key \in Request : records'[key] \in {records[key], null}
  BY <1>5, <1>6
<1>7. CASE Lookup(c)
  <2>1. /\ UNCHANGED <<next_id, issued, invoices>>
        /\ \A key \in Request : records'[key] \in {records[key], null}
    BY <1>6, <1>7 DEF Lookup
  <2>2. \A d \in Client : CallMove(d)
    <3>1. CASE Active(call[c].key)
      <4>1. IssuedId(records[call[c].key].invoiceId)
        BY <1>4, <1>7, <3>1 DEF Lookup, Active, StayInv, RecordsIssued
      <4> DEFINE f == records[call[c].key].invoiceId
      <4>2. call' = [call EXCEPT ![c].at = "fetch", ![c].found = f]
        BY <1>7, <3>1 DEF Lookup
      <4> HIDE DEF f
      <4>3. IssuedId(f)
        BY <4>1 DEF f
      <4>4. "fetch" \notin NeedsMine /\ "fetch" \notin Deletes
        BY DEF NeedsMine, Deletes
      <4>5. QED BY <1>1, <4>2, <4>3, <4>4, FoundMove
    <3>2. CASE ~Active(call[c].key)
      BY <1>1, <1>7, <3>2, GotoMove DEF Lookup, NeedsMine, Deletes
    <3>3. QED BY <3>1, <3>2
  <2>3. QED BY <1>1, <1>3, <2>1, <2>2, SameInvoices, QuietStep
<1>8. CASE Fetch(c)
  <2>1. UNCHANGED <<next_id, issued, invoices, records>>
    BY <1>8 DEF Fetch, stores
  <2>2. \A d \in Client : CallMove(d)
    <3>1. CASE Goto(c, "dropKey") /\ Exists(call[c].found)
               /\ Expired(invoices[call[c].found].expires_at)
      <4>1. \A z \in issued : z.invoice = call[c].found => Expired(z.expires)
        BY <3>1 DEF StayInv, IssuedKept
      <4>2. QED BY <1>1, <3>1, <4>1, GotoMove DEF NeedsMine
    <3>2. CASE Goto(c, "store")
      BY <1>1, <3>2, GotoMove DEF NeedsMine, Deletes
    <3>3. CASE Return(c)
      BY <1>1, <3>3, ReturnMove
    <3>4. QED BY <1>8, <3>1, <3>2, <3>3 DEF Fetch
  <2>3. QED BY <1>1, <1>3, <2>1, <2>2, SameInvoices, QuietStep
<1>9. CASE DropKey(c)
  <2>1. /\ UNCHANGED <<next_id, issued, invoices>>
        /\ \A key \in Request : records'[key] \in {records[key], null}
    BY <1>6, <1>9 DEF DropKey
  <2>2. \A z \in issued : z.invoice = call[c].found => Expired(z.expires)
    BY <1>1, <1>9 DEF DropKey, RequestOK, StaleOK, Deletes
  <2>3. \A d \in Client : CallMove(d)
    BY <1>1, <1>9, <2>2, GotoMove DEF DropKey, NeedsMine
  <2>4. QED BY <1>1, <1>3, <2>1, <2>3, SameInvoices, QuietStep
<1>10. CASE DropInvoice(c)
  <2>1. UNCHANGED <<next_id, issued, records>>
    BY <1>10 DEF DropInvoice
  <2>2. /\ \A d \in Client : CallMove(d)
        /\ call'[c].at = "store"
        /\ \A d \in Client \ {c} : call'[d] = call[d]
    BY <1>1, <1>10, GotoMove DEF DropInvoice, NeedsMine, Deletes
  <2>3. call[c].found \in Id /\ Dispensable(call[c].found)
    BY <1>10, <2>2, FoundDispensable DEF DropInvoice
  <2>4. \A id \in Id : InvoiceMove(id)
    BY <1>1, <1>10, <2>3, OneDeleted DEF DropInvoice
  <2>5. QED BY <1>1, <1>3, <2>1, <2>2, <2>4, QuietStep
<1>11. CASE Store(c)
  BY <1>1, <1>11, StoreStays
<1>12. CASE Publish(c)
  <2>1. CASE Active(call[c].key)
    <3>1. UNCHANGED <<next_id, issued, invoices, records>>
      BY <1>12, <2>1 DEF Publish
    <3>2. IssuedId(records[call[c].key].invoiceId)
      BY <1>4, <1>12, <2>1 DEF Publish, Active, StayInv, RecordsIssued
    <3>3. PICK f : f = records[call[c].key].invoiceId
      OBVIOUS
    <3>4. call' = [call EXCEPT ![c].at = "discard", ![c].found = f] /\ call[c].at = "publish"
      BY <1>12, <2>1, <3>3 DEF Publish
    <3>5. "discard" \notin Deletes /\ IssuedId(f)
      BY <3>2, <3>3 DEF Deletes
    <3>6. \A d \in Client : CallMove(d)
      BY <1>1, <3>4, <3>5, FoundMove
    <3>7. QED BY <1>1, <1>3, <3>1, <3>6, SameInvoices, QuietStep
  <2>2. CASE ~Active(call[c].key)
    BY <1>1, <1>12, <2>2, IssueStays DEF Publish
  <2>3. QED BY <2>1, <2>2
<1>13. CASE Discard(c)
  <2>1. UNCHANGED <<next_id, issued, records>>
    BY <1>13 DEF Discard
  <2>2. /\ \A d \in Client : CallMove(d)
        /\ call'[c].at = "winner"
        /\ \A d \in Client \ {c} : call'[d] = call[d]
    BY <1>1, <1>13, GotoMove DEF Discard, NeedsMine, Deletes
  <2>3. call[c].mine \in Id
    BY <1>1, <1>13 DEF Discard, TypeInv, CallsTyped, CallOK, NeedsMine
  <2>4. \A z \in issued : z.invoice # call[c].mine
    BY <1>1, <1>13 DEF Discard, RequestOK, CandidateOK, IssuedId, NeedsMine
  <2>5. \A d \in Client : call'[d].at = "publish" => call'[d].mine # call[c].mine
    BY <1>13, <2>2 DEF Discard, StayInv, CandidatesDiffer, NeedsMine
  <2>6. Dispensable(call[c].mine)
    BY <2>4, <2>5 DEF Dispensable
  <2>7. \A id \in Id : InvoiceMove(id)
    BY <1>1, <1>13, <2>3, <2>6, OneDeleted DEF Discard
  <2>8. QED BY <1>1, <1>3, <2>1, <2>2, <2>7, QuietStep
<1>14. CASE Winner(c)
  <2>1. UNCHANGED <<next_id, issued, invoices, records>>
    BY <1>14 DEF Winner, stores
  <2>2. \A d \in Client : CallMove(d)
    <3>1. CASE Return(c)
      BY <1>1, <3>1, ReturnMove
    <3>2. CASE ~Return(c)
      <4> DEFINE f == IF Exists(call[c].found) THEN call[c].found ELSE null
      <4>1. /\ call' = [call EXCEPT ![c].at = "unpublish", ![c].found = f]
            /\ Exists(call[c].found) => Expired(invoices[call[c].found].expires_at)
        BY <1>14, <3>2 DEF Winner
      <4>2. f # null => f = call[c].found /\ Exists(f) /\ IssuedId(f)
        BY <1>1 DEF RequestOK, FoundOK
      <4>3. \A z \in issued : z.invoice = f => Expired(z.expires)
        <5>1. \A z \in issued : z.invoice # null
          BY <1>1 DEF TypeInv, StoresTyped, Id
        <5>2. QED BY <4>1, <4>2, <5>1 DEF StayInv, IssuedKept
      <4> HIDE DEF f
      <4>4. QED BY <1>1, <4>1, <4>2, <4>3, FoundMove DEF NeedsMine
    <3>3. QED BY <3>1, <3>2
  <2>3. QED BY <1>1, <1>3, <2>1, <2>2, SameInvoices, QuietStep
<1>15. CASE Unpublish(c)
  <2>1. /\ UNCHANGED <<next_id, issued, invoices>>
        /\ \A key \in Request : records'[key] \in {records[key], null}
    BY <1>6, <1>15 DEF Unpublish
  <2>2. \A z \in issued : z.invoice = call[c].found => Expired(z.expires)
    BY <1>1, <1>15 DEF Unpublish, RequestOK, StaleOK, Deletes
  <2>3. \A d \in Client : CallMove(d)
    <3>1. CASE Restart(c)
      BY <1>1, <3>1, RestartMove
    <3>2. CASE Goto(c, "dropStale")
      BY <1>1, <2>2, <3>2, GotoMove DEF NeedsMine
    <3>3. QED BY <1>15, <3>1, <3>2 DEF Unpublish
  <2>4. QED BY <1>1, <1>3, <2>1, <2>3, SameInvoices, QuietStep
<1>16. CASE DropStale(c)
  <2>1. UNCHANGED <<next_id, issued, records>>
    BY <1>16 DEF DropStale
  <2>2. /\ \A d \in Client : CallMove(d)
        /\ call'[c].at # "publish"
        /\ \A d \in Client \ {c} : call'[d] = call[d]
    BY <1>1, <1>16, RestartMove DEF DropStale
  <2>3. call[c].found \in Id /\ Dispensable(call[c].found)
    BY <1>16, <2>2, FoundDispensable DEF DropStale
  <2>4. \A id \in Id : InvoiceMove(id)
    BY <1>1, <1>16, <2>3, OneDeleted DEF DropStale
  <2>5. QED BY <1>1, <1>3, <2>1, <2>2, <2>4, QuietStep
<1>17. QED
  BY <1>7, <1>8, <1>9, <1>10, <1>11, <1>12, <1>13, <1>14, <1>15, <1>16 DEF CreateStep

(* The compare-and-set deletes nothing and moves no expiry.                *)
LEMMA TransitionMove ==
  ASSUME TypeInv, NEW x \in Id, NEW from, NEW to \in {"settled", "expired"},
         NEW p \in Payment \cup {null}, Transition(x, from, to, p)
  PROVE  \A id \in Id : InvoiceMove(id)
<1> DEFINE s == IF p = null THEN invoices[x].settlement ELSE p
           n == [invoices[x] EXCEPT !.status = to, !.settlement = s]
<1>1. invoices \in [Id -> Invoice \cup {null}] /\ invoices[x] \in Invoice
  BY DEF TypeInv, StoresTyped, Transition, Exists
<1>2. invoices' = [invoices EXCEPT ![x] = n]
  BY DEF Transition
<1>3. s \in Payment \cup {null}
  BY <1>1 DEF Invoice
<1> HIDE DEF s
<1>4. n \in Invoice /\ n.expires_at = invoices[x].expires_at
  BY <1>1, <1>3 DEF Invoice
<1> HIDE DEF n
<1>5. QED BY <1>1, <1>2, <1>4 DEF InvoiceMove, Exists

LEMMA NextStays == StayInv /\ [InvoiceNext]_vars => StayInv'
<1> SUFFICES ASSUME StayInv, [InvoiceNext]_vars PROVE StayInv'
  OBVIOUS
<1>1. TypeInv /\ TypeInv'
  BY NextTypes DEF StayInv
<1>2. clock \in Nat
  BY <1>1 DEF TypeInv, StoresTyped
<1>3. ASSUME UNCHANGED call PROVE \A d \in Client : CallMove(d)
  BY <1>3 DEF CallMove
<1>4. ASSUME NEW c \in Client, Begin(c) PROVE StayInv'
  <2> DEFINE q == Head(arrivals)
             k == [Idle EXCEPT !.at = "lookup", !.request = q, !.key = q]
  <2>1. UNCHANGED <<clock, next_id, issued, invoices, records>>
    BY <1>4 DEF Begin, stores
  <2>2. call'[c] = k /\ \A d \in Client \ {c} : call'[d] = call[d]
    BY <1>1, <1>4, OthersStay DEF Begin
  <2>3. call'[c].at = "lookup" /\ call'[c].found = null
    BY <2>2 DEF Idle
  <2>4. \A d \in Client : CallMove(d)
    BY <2>2, <2>3 DEF CallMove, NeedsMine, Deletes
  <2>5. QED BY <1>1, <1>2, <2>1, <2>4, SameInvoices, QuietStep
<1>5. ASSUME NEW c \in Client, CreateStep(c) PROVE StayInv'
  BY <1>5, CreateStays
<1>6. ASSUME NEW c \in Client, Fail(c) PROVE StayInv'
  <2>1. UNCHANGED <<clock, next_id, issued, invoices, records>>
    BY <1>6 DEF Fail, stores
  <2>2. \A d \in Client : CallMove(d)
    BY <1>1, <1>6, ReturnMove DEF Fail
  <2>3. QED BY <1>1, <1>2, <2>1, <2>2, SameInvoices, QuietStep
<1>7. ASSUME NEW id \in Id, ExpireInvoice(id) PROVE StayInv'
  <2>1. \A x \in Id : InvoiceMove(x)
    BY <1>1, <1>7, TransitionMove DEF ExpireInvoice
  <2>2. UNCHANGED <<clock, next_id, issued, records, call>>
    BY <1>7 DEF ExpireInvoice
  <2>3. QED BY <1>1, <1>2, <1>3, <2>1, <2>2, QuietStep
<1>8. ASSUME NEW id \in Id, RemoveExpired(id) PROVE StayInv'
  <2>1. UNCHANGED <<clock, next_id, issued, records, call>>
    BY <1>8 DEF RemoveExpired
  <2>2. Exists(id) /\ Expired(invoices[id].expires_at)
    <3>1. invoices[id].expires_at \in Nat
      BY <1>1, <1>8 DEF RemoveExpired, Exists, TypeInv, StoresTyped, Invoice
    <3>2. QED BY <1>2, <1>8, <3>1 DEF RemoveExpired, Expired
  <2>3. \A z \in issued : z.invoice = id => Expired(z.expires)
    BY <2>2 DEF StayInv, IssuedKept
  <2>4. \A c \in Client : call'[c].at = "publish" /\ call'[c].mine = id
                            => Expired(call'[c].expires)
    BY <2>1, <2>2 DEF StayInv, RequestsOK, RequestOK, CandidateOK, NeedsMine
  <2>5. \A x \in Id : InvoiceMove(x)
    BY <1>1, <1>8, <2>3, <2>4, OneDeleted DEF RemoveExpired, Dispensable
  <2>6. QED BY <1>1, <1>2, <1>3, <2>1, <2>5, QuietStep
<1>9. ASSUME NEW key \in Request, DeleteDangling(key) PROVE StayInv'
  <2>1. UNCHANGED <<clock, next_id, issued, invoices, call>>
    BY <1>9 DEF DeleteDangling
  <2>2. \A x \in Request : records'[x] \in {records[x], null}
    BY <1>1, <1>9 DEF DeleteDangling, TypeInv, StoresTyped
  <2>3. QED BY <1>1, <1>2, <1>3, <2>1, <2>2, SameInvoices, QuietStep
<1>10. ASSUME NEW p \in settling, RecordSettlement(p) PROVE StayInv'
  <2>1. p \in Payment /\ p.invoice \in Id
    BY <1>1 DEF TypeInv, WorldTyped, Payment
  <2>2. UNCHANGED <<clock, next_id, issued, records, call>>
    BY <1>10 DEF RecordSettlement
  <2>3. \A x \in Id : InvoiceMove(x)
    BY <1>1, <1>10, <2>1, TransitionMove, SameInvoices DEF RecordSettlement
  <2>4. QED BY <1>1, <1>2, <1>3, <2>2, <2>3, QuietStep
<1>11. CASE Tick
  <2>1. clock <= clock' /\ UNCHANGED <<next_id, issued, invoices, records, call>>
    BY <1>2, <1>11 DEF Tick, stores
  <2>2. QED BY <1>1, <1>3, <2>1, SameInvoices, QuietStep
<1>12. CASE UNCHANGED <<clock, stores, call>>
  <2>1. UNCHANGED <<clock, next_id, issued, invoices, records, call>>
    BY <1>12 DEF stores
  <2>2. QED BY <1>1, <1>2, <1>3, <2>1, SameInvoices, QuietStep
<1>13. ASSUME \/ \E key \in Request : FindDangling(key)
              \/ \E z \in issued : Pay(z)
              \/ NewBlock
              \/ \E p \in payments : ScanSettlement(p)
              \/ UNCHANGED vars
       PROVE  UNCHANGED <<clock, stores, call>>
  BY <1>13 DEF FindDangling, Pay, NewBlock, ScanSettlement, vars
<1>14. QED
  BY <1>4, <1>5, <1>6, <1>7, <1>8, <1>9, <1>10, <1>11, <1>12, <1>13 DEF InvoiceNext

LEMMA StayInit == InvoiceInit => StayInv
<1> SUFFICES ASSUME InvoiceInit PROVE StayInv
  OBVIOUS
<1>1. TypeInv
  BY InitTypes
<1>2. IssuedKept /\ RecordsIssued
  BY DEF InvoiceInit, IssuedKept, RecordsIssued
<1>3. RequestsOK /\ CandidatesDiffer
  BY DEF InvoiceInit, Idle, RequestsOK, RequestOK, CandidateOK, FoundOK, StaleOK,
         CandidatesDiffer, NeedsMine, Deletes
<1>4. QED BY <1>1, <1>2, <1>3 DEF StayInv

(* An invoice that was issued to a caller stays in the store until it      *)
(* expires: for any number of callers and requests, whatever lost races,   *)
(* stale records, crashes and cleanups come in between (createInvoice,     *)
(* InvoiceCleanupService).                                                 *)
THEOREM IssuedNeverLost == InvoiceSpec => []IssuedStayStored
<1>1. StayInv => IssuedStayStored
  BY DEF StayInv, IssuedKept, IssuedStayStored
<1>2. QED BY <1>1, StayInit, NextStays, PTL DEF InvoiceSpec

(***************************************************************************)
(* Equal requests converge.  While nothing issued for a key has expired,   *)
(* its record is there, active, and names the one invoice: whoever deletes *)
(* a record has seen the key's invoice expired or gone, and a candidate is *)
(* issued only when no record is active.                                   *)
(***************************************************************************)

HasExpired(key) == \E z \in issued : z.key = key /\ Expired(z.expires)

(* A record, and an id taken from one, belong to an invoice of that key.   *)
RecordsKeyed ==
  \A key \in Request : records[key] # null =>
    \E z \in issued : z.key = key /\ z.invoice = records[key].invoiceId
FoundKeyed(k) ==
  k.found # null => \E z \in issued : z.key = k.key /\ z.invoice = k.found

(* Who is about to delete a record knows of an expired invoice.            *)
DeletesExpired(k) == k.at \in {"dropKey", "unpublish"} => HasExpired(k.key)
SweepsExpired == \A key \in sweeping : HasExpired(key)

LiveRecorded ==
  \A z \in issued :
    \/ HasExpired(z.key)
    \/ /\ records[z.key] # null
       /\ records[z.key].invoiceId = z.invoice
       /\ z.expires <= records[z.key].expiresAt

ConvergeInv ==
  /\ StayInv /\ RecordsKeyed /\ SweepsExpired /\ LiveRecorded
  /\ \A c \in Client : FoundKeyed(call[c]) /\ DeletesExpired(call[c])

(***************************************************************************)
(* Outcomes.  An id is used once, and an event whose scan was successful   *)
(* is a payment deep enough.                                               *)
(***************************************************************************)
FreshIds == \A id \in Id : Exists(id) => id < next_id
Deep(p) == head - p.block >= MIN_CONFIRMATIONS
SettlingDeep == \A p \in settling : Deep(p)
OutcomeInv == TypeInv /\ FreshIds /\ SettlingDeep /\ SettlementIsProven

KeyMove(k) ==
  /\ k.found # null => \E z \in issued : z.key = k.key /\ z.invoice = k.found
  /\ k.at \in {"dropKey", "unpublish"} => HasExpired(k.key)

(* Most steps issue nothing; they delete records that are past their time  *)
(* or whose invoice is, and move one request on.                           *)
LEMMA ConvergeQuiet ==
  ASSUME ConvergeInv, StayInv', UNCHANGED issued, clock <= clock',
         \A key \in Request :
           \/ records'[key] = records[key]
           \/ records'[key] = null /\ (HasExpired(key) \/ ~Active(key)),
         \A key \in sweeping' : key \in sweeping \/ HasExpired(key),
         \A c \in Client : call'[c] = call[c] \/ KeyMove(call'[c])
  PROVE  ConvergeInv'
<1>1. /\ clock \in Nat /\ clock' \in Nat
      /\ issued \subseteq [key : Request, invoice : Id, expires : Nat]
      /\ records \in [Request -> Record \cup {null}]
  BY DEF ConvergeInv, StayInv, TypeInv, StoresTyped
<1>2. \A key : HasExpired(key) => HasExpired(key)'
  BY <1>1 DEF HasExpired, Expired
<1>3. RecordsKeyed' /\ SweepsExpired'
  BY <1>2 DEF ConvergeInv, RecordsKeyed, SweepsExpired
<1>4. LiveRecorded'
  <2> SUFFICES ASSUME NEW z \in issued, ~ HasExpired(z.key)
               PROVE  /\ records'[z.key] # null
                      /\ records'[z.key].invoiceId = z.invoice
                      /\ z.expires <= records'[z.key].expiresAt
    BY <1>2 DEF LiveRecorded
  <2>1. z.key \in Request /\ z.expires \in Nat
    BY <1>1
  <2>2. /\ records[z.key] # null /\ records[z.key].invoiceId = z.invoice
        /\ z.expires <= records[z.key].expiresAt
    BY DEF ConvergeInv, LiveRecorded
  <2>3. Active(z.key)
    <3>1. ~ Expired(z.expires)
      BY DEF HasExpired
    <3>2. records[z.key].expiresAt \in Nat
      BY <1>1, <2>1, <2>2 DEF Record
    <3>3. QED BY <1>1, <2>1, <2>2, <3>1, <3>2 DEF Active, Expired
  <2>4. records'[z.key] = records[z.key]
    BY <2>1, <2>3
  <2>5. QED BY <2>2, <2>4
<1>5. ASSUME NEW c \in Client PROVE FoundKeyed(call[c])' /\ DeletesExpired(call[c])'
  <2>1. FoundKeyed(call[c]) /\ DeletesExpired(call[c])
    BY DEF ConvergeInv
  <2>2. QED BY <1>2, <2>1 DEF FoundKeyed, DeletesExpired, KeyMove
<1>6. QED BY <1>3, <1>4, <1>5 DEF ConvergeInv

(* One request moves on, the others stay.                                  *)
LEMMA OneMoves ==
  ASSUME TypeInv, NEW c \in Client, NEW k, KeyMove(k), call' = [call EXCEPT ![c] = k]
  PROVE  \A d \in Client : call'[d] = call[d] \/ KeyMove(call'[d])
BY OthersStay

LEMMA IdleMoves ==
  ASSUME TypeInv, NEW c \in Client, Return(c)
  PROVE  \A d \in Client : call'[d] = call[d] \/ KeyMove(call'[d])
<1>1. KeyMove(Idle)
  BY DEF KeyMove, Idle
<1>2. QED BY <1>1, OneMoves DEF Return

LEMMA RestartMoves ==
  ASSUME TypeInv, NEW c \in Client, Restart(c)
  PROVE  \A d \in Client : call'[d] = call[d] \/ KeyMove(call'[d])
<1> DEFINE q == call[c].request
           k == [Idle EXCEPT !.at = "lookup", !.request = q, !.key = q]
<1>1. KeyMove(k) /\ KeyMove(Idle)
  BY DEF KeyMove, Idle
<1>2. call' = [call EXCEPT ![c] = IF ExpiryValid(q) THEN k ELSE Idle]
  BY DEF Restart
<1>3. KeyMove(IF ExpiryValid(q) THEN k ELSE Idle)
  BY <1>1
<1>4. QED BY <1>2, <1>3, OneMoves

LEMMA GotoMoves ==
  ASSUME TypeInv, NEW c \in Client, FoundKeyed(call[c]), NEW s,
         s \in {"dropKey", "unpublish"} => HasExpired(call[c].key), Goto(c, s)
  PROVE  \A d \in Client : call'[d] = call[d] \/ KeyMove(call'[d])
<1>1. call[c] \in Call
  BY DEF TypeInv, CallsTyped
<1>2. PICK k : k = [call[c] EXCEPT !.at = s]
  OBVIOUS
<1>3. k.at = s /\ k.found = call[c].found /\ k.key = call[c].key
  BY <1>1, <1>2 DEF Call
<1>4. KeyMove(k)
  BY <1>3 DEF KeyMove, FoundKeyed
<1>5. call' = [call EXCEPT ![c] = k]
  BY <1>2 DEF Goto
<1>6. QED BY <1>4, <1>5, OneMoves

LEMMA FoundMoves ==
  ASSUME TypeInv, NEW c \in Client, NEW s, NEW f,
         f # null => \E z \in issued : z.key = call[c].key /\ z.invoice = f,
         s \in {"dropKey", "unpublish"} => HasExpired(call[c].key),
         call' = [call EXCEPT ![c].at = s, ![c].found = f]
  PROVE  \A d \in Client : call'[d] = call[d] \/ KeyMove(call'[d])
<1>1. call[c] \in Call
  BY DEF TypeInv, CallsTyped
<1>2. PICK k : k = [call[c] EXCEPT !.at = s, !.found = f]
  OBVIOUS
<1>3. k.at = s /\ k.found = f /\ k.key = call[c].key
  BY <1>1, <1>2 DEF Call
<1>4. KeyMove(k)
  BY <1>3 DEF KeyMove
<1>5. call' = [call EXCEPT ![c] = k]
  BY <1>2
<1>6. QED BY <1>4, <1>5, OneMoves

(* A found invoice that is gone, or past its time, tells of its key.       *)
LEMMA GoneIsExpired ==
  ASSUME StayInv, NEW z \in issued,
         ~ Exists(z.invoice) \/ Expired(invoices[z.invoice].expires_at)
  PROVE  HasExpired(z.key)
BY DEF StayInv, IssuedKept, HasExpired

(* The candidate becomes the answer: there was no active record, so what   *)
(* was issued for the key before has expired.                              *)
LEMMA IssueConverges ==
  ASSUME ConvergeInv, StayInv', NEW c \in Client, call[c].at = "publish",
         ~ Active(call[c].key), Issue(c), UNCHANGED <<clock, sweeping>>
  PROVE  ConvergeInv'
<1> DEFINE key == call[c].key
           z == [key |-> key, invoice |-> call[c].mine, expires |-> call[c].expires]
           t == Later(call[c].expires, clock + IDEMPOTENCY_TTL)
           r == [invoiceId |-> call[c].mine, expiresAt |-> t]
<1>1. /\ TypeInv /\ clock \in Nat /\ key \in Request /\ call[c].expires \in Nat
      /\ issued \subseteq [key : Request, invoice : Id, expires : Nat]
      /\ records \in [Request -> Record \cup {null}]
      /\ records' \in [Request -> Record \cup {null}]
  BY CallFields DEF ConvergeInv, StayInv, TypeInv, StoresTyped
<1>2. /\ issued' = issued \cup {z} /\ records' = [records EXCEPT ![key] = r]
      /\ z.key = key /\ z.invoice = call[c].mine /\ z.expires = call[c].expires
      /\ r.invoiceId = call[c].mine /\ r.expiresAt = t
  BY DEF Issue
<1>3. t \in Nat /\ call[c].expires <= t
  BY <1>1 DEF Later
<1>4. call'[c] = Idle /\ \A d \in Client \ {c} : call'[d] = call[d]
  BY <1>1, OthersStay DEF Issue, Return
<1>5. records'[key] = r /\ \A k \in Request \ {key} : records'[k] = records[k]
  BY <1>1, <1>2
<1>6. r # null
  <2>1. call[c].mine \in Id
    BY <1>1, CallFields DEF ConvergeInv, StayInv, TypeInv, NeedsMine
  <2>2. r \in Record
    BY <1>3, <2>1 DEF Record
  <2>3. QED BY <2>2
<1> HIDE DEF z, r, t, key
<1>7. \A k : HasExpired(k) => HasExpired(k)'
  BY <1>2 DEF HasExpired, Expired
<1>8. RecordsKeyed'
  <2> SUFFICES ASSUME NEW k \in Request, records'[k] # null
               PROVE  \E y \in issued' : y.key = k /\ y.invoice = records'[k].invoiceId
    BY DEF RecordsKeyed
  <2>1. CASE k = key
    BY <1>2, <1>5, <2>1
  <2>2. CASE k # key
    BY <1>2, <1>5, <2>2 DEF ConvergeInv, RecordsKeyed
  <2>3. QED BY <2>1, <2>2
<1>9. LiveRecorded'
  <2> SUFFICES ASSUME NEW y \in issued', ~ HasExpired(y.key)'
               PROVE  /\ records'[y.key] # null
                      /\ records'[y.key].invoiceId = y.invoice
                      /\ y.expires <= records'[y.key].expiresAt
    BY DEF LiveRecorded
  <2>1. CASE y = z
    BY <1>2, <1>3, <1>5, <1>6, <2>1
  <2>2. CASE y \in issued
    <3>1. y.key \in Request /\ y.expires \in Nat
      BY <1>1, <2>2
    <3>2. /\ records[y.key] # null /\ records[y.key].invoiceId = y.invoice
          /\ y.expires <= records[y.key].expiresAt /\ ~ Expired(y.expires)
      BY <1>7, <2>2 DEF ConvergeInv, LiveRecorded, HasExpired
    <3>3. records[y.key].expiresAt \in Nat
      BY <1>1, <3>1, <3>2 DEF Record
    <3>4. Active(y.key)
      BY <1>1, <3>1, <3>2, <3>3 DEF Active, Expired
    <3>5. y.key # key
      BY <3>4 DEF key
    <3>6. QED BY <1>5, <3>1, <3>2, <3>5
  <2>3. QED BY <1>2, <2>1, <2>2
<1>10. SweepsExpired'
  BY <1>7 DEF ConvergeInv, SweepsExpired
<1>11. ASSUME NEW d \in Client PROVE FoundKeyed(call[d])' /\ DeletesExpired(call[d])'
  <2>1. CASE d = c
    BY <1>4, <2>1 DEF Idle, FoundKeyed, DeletesExpired
  <2>2. CASE d # c
    BY <1>2, <1>4, <1>7, <2>2 DEF ConvergeInv, FoundKeyed, DeletesExpired
  <2>3. QED BY <2>1, <2>2
<1>12. QED BY <1>8, <1>9, <1>10, <1>11 DEF ConvergeInv

LEMMA CreateConverges ==
  ASSUME ConvergeInv, StayInv', NEW c \in Client, CreateStep(c)
  PROVE  ConvergeInv'
<1> USE DEF Await
<1>1. StayInv /\ TypeInv /\ FoundKeyed(call[c]) /\ DeletesExpired(call[c])
  BY DEF ConvergeInv, StayInv
<1>2. /\ clock \in Nat /\ records \in [Request -> Record \cup {null}]
  BY <1>1 DEF TypeInv, StoresTyped
<1>3. clock' = clock /\ clock <= clock' /\ sweeping' = sweeping
  BY <1>2 DEF CreateStep, Lookup, Fetch, DropKey, DropInvoice, Store, Publish, Discard,
     Winner, Unpublish, DropStale
<1>4. call[c].at # "idle"
  BY DEF CreateStep, Lookup, Fetch, DropKey, DropInvoice, Store, Publish,
         Discard, Winner, Unpublish, DropStale
<1>5. call[c].key \in Request /\ (call[c].at \in NeedsFound => call[c].found \in Id)
  BY <1>1, <1>4, CallFields DEF TypeInv
<1>6. call[c].at \in NeedsFound =>
        \E z \in issued : z.key = call[c].key /\ z.invoice = call[c].found
  <2>1. \A id \in Id : id # null
    BY DEF Id
  <2>2. QED BY <1>1, <1>5, <2>1 DEF FoundKeyed
<1>7. ASSUME NEW key \in Request, HasExpired(key) \/ ~ Active(key),
             records' = [records EXCEPT ![key] = null]
      PROVE  \A k \in Request : \/ records'[k] = records[k]
                                \/ records'[k] = null /\ (HasExpired(k) \/ ~ Active(k))
  BY <1>2, <1>7
<1>8. Active(call[c].key) =>
        \E z \in issued : /\ z.key = call[c].key
                          /\ z.invoice = records[call[c].key].invoiceId
  BY <1>5 DEF Active, ConvergeInv, RecordsKeyed
<1>9. CASE Lookup(c)
  <2>1. CASE Active(call[c].key)
    <3>1. PICK f : f = records[call[c].key].invoiceId
      OBVIOUS
    <3>2. call' = [call EXCEPT ![c].at = "fetch", ![c].found = f] /\ UNCHANGED <<issued, records>>
      BY <1>9, <2>1, <3>1 DEF Lookup
    <3>3. \E z \in issued : z.key = call[c].key /\ z.invoice = f
      BY <1>8, <2>1, <3>1
    <3>4. "fetch" \notin {"dropKey", "unpublish"}
      OBVIOUS
    <3>5. \A d \in Client : call'[d] = call[d] \/ KeyMove(call'[d])
      BY <1>1, <3>2, <3>3, <3>4, FoundMoves
    <3>6. QED BY <1>3, <3>2, <3>5, ConvergeQuiet
  <2>2. CASE ~ Active(call[c].key)
    <3>1. /\ records' = [records EXCEPT ![call[c].key] = null]
          /\ Goto(c, "store") /\ UNCHANGED issued
      BY <1>9, <2>2 DEF Lookup
    <3>2. \A d \in Client : call'[d] = call[d] \/ KeyMove(call'[d])
      BY <1>1, <3>1, GotoMoves
    <3>3. QED BY <1>3, <1>5, <1>7, <2>2, <3>1, <3>2, ConvergeQuiet
  <2>3. QED BY <2>1, <2>2
<1>10. CASE Fetch(c)
  <2>1. UNCHANGED <<issued, records>>
    BY <1>10 DEF Fetch, stores
  <2>2. PICK z \in issued : z.key = call[c].key /\ z.invoice = call[c].found
    BY <1>6, <1>10 DEF Fetch, NeedsFound
  <2>3. \A d \in Client : call'[d] = call[d] \/ KeyMove(call'[d])
    <3>1. CASE Goto(c, "dropKey") /\ Expired(invoices[call[c].found].expires_at)
      <4>1. HasExpired(call[c].key)
        BY <1>1, <2>2, <3>1, GoneIsExpired
      <4>2. QED BY <1>1, <3>1, <4>1, GotoMoves
    <3>2. CASE Goto(c, "store")
      BY <1>1, <3>2, GotoMoves
    <3>3. CASE Return(c)
      BY <1>1, <3>3, IdleMoves
    <3>4. QED BY <1>10, <3>1, <3>2, <3>3 DEF Fetch
  <2>4. QED BY <1>3, <2>1, <2>3, ConvergeQuiet
<1>11. CASE DropKey(c)
  <2>1. /\ records' = [records EXCEPT ![call[c].key] = null]
        /\ Goto(c, "dropInvoice") /\ UNCHANGED issued
    BY <1>11 DEF DropKey
  <2>2. HasExpired(call[c].key)
    BY <1>1, <1>11 DEF DropKey, DeletesExpired
  <2>3. \A d \in Client : call'[d] = call[d] \/ KeyMove(call'[d])
    BY <1>1, <2>1, GotoMoves
  <2>4. QED BY <1>3, <1>5, <1>7, <2>1, <2>2, <2>3, ConvergeQuiet
<1>12. CASE DropInvoice(c) \/ Discard(c)
  <2>1. (Goto(c, "store") \/ Goto(c, "winner")) /\ UNCHANGED <<issued, records>>
    BY <1>12 DEF DropInvoice, Discard
  <2>2. \A d \in Client : call'[d] = call[d] \/ KeyMove(call'[d])
    BY <1>1, <2>1, GotoMoves
  <2>3. QED BY <1>3, <2>1, <2>2, ConvergeQuiet
<1>13. CASE Store(c)
  <2> DEFINE default == clock + DEFAULT_EXPIRY
             expires == IF call[c].request[2] = null THEN default ELSE call[c].request[2]
             moved == IF Expired(expires) THEN <<call[c].request[1], default>>
                      ELSE call[c].request
  <2>1. PICK k : k = [call[c] EXCEPT !.at = "publish", !.mine = next_id,
                                     !.expires = expires, !.request = moved]
    OBVIOUS
  <2>2. call' = [call EXCEPT ![c] = k] /\ UNCHANGED <<issued, records>>
    BY <1>13, <2>1 DEF Store
  <2>3. k.at = "publish" /\ k.found = call[c].found /\ k.key = call[c].key
    <3> HIDE DEF expires, moved
    <3>1. call[c] \in Call
      BY <1>1 DEF TypeInv, CallsTyped
    <3>2. QED BY <2>1, <3>1 DEF Call
  <2>4. KeyMove(k)
    BY <1>1, <2>3 DEF KeyMove, FoundKeyed
  <2>5. \A d \in Client : call'[d] = call[d] \/ KeyMove(call'[d])
    BY <1>1, <2>2, <2>4, OneMoves
  <2>6. QED BY <1>3, <2>2, <2>5, ConvergeQuiet
<1>14. CASE Publish(c)
  <2>1. CASE Active(call[c].key)
    <3>1. PICK f : f = records[call[c].key].invoiceId
      OBVIOUS
    <3>2. call' = [call EXCEPT ![c].at = "discard", ![c].found = f] /\ UNCHANGED <<issued, records>>
      BY <1>14, <2>1, <3>1 DEF Publish
    <3>3. \E z \in issued : z.key = call[c].key /\ z.invoice = f
      BY <1>8, <2>1, <3>1
    <3>4. "discard" \notin {"dropKey", "unpublish"}
      OBVIOUS
    <3>5. \A d \in Client : call'[d] = call[d] \/ KeyMove(call'[d])
      BY <1>1, <3>2, <3>3, <3>4, FoundMoves
    <3>6. QED BY <1>3, <3>2, <3>5, ConvergeQuiet
  <2>2. CASE ~ Active(call[c].key)
    BY <1>3, <1>14, <2>2, IssueConverges DEF Publish
  <2>3. QED BY <2>1, <2>2
<1>15. CASE Winner(c)
  <2>1. UNCHANGED <<issued, records>>
    BY <1>15 DEF Winner, stores
  <2>2. PICK z \in issued : z.key = call[c].key /\ z.invoice = call[c].found
    BY <1>6, <1>15 DEF Winner, NeedsFound
  <2>3. \A d \in Client : call'[d] = call[d] \/ KeyMove(call'[d])
    <3>1. CASE Exists(call[c].found) /\ ~Expired(invoices[call[c].found].expires_at)
      BY <1>1, <1>15, <3>1, IdleMoves DEF Winner
    <3>2. CASE ~ (Exists(call[c].found) /\ ~Expired(invoices[call[c].found].expires_at))
      <4>1. PICK f : f = IF Exists(call[c].found) THEN call[c].found ELSE null
        OBVIOUS
      <4>2. call' = [call EXCEPT ![c].at = "unpublish", ![c].found = f]
        BY <1>15, <3>2, <4>1 DEF Winner
      <4>3. HasExpired(call[c].key)
        BY <1>1, <2>2, <3>2, GoneIsExpired
      <4>4. f # null => \E y \in issued : y.key = call[c].key /\ y.invoice = f
        BY <2>2, <4>1
      <4>5. QED BY <1>1, <4>2, <4>3, <4>4, FoundMoves
    <3>3. QED BY <3>1, <3>2
  <2>4. QED BY <1>3, <2>1, <2>3, ConvergeQuiet
<1>16. CASE Unpublish(c)
  <2>1. /\ records' = [records EXCEPT ![call[c].key] = null]
        /\ Restart(c) \/ Goto(c, "dropStale")
        /\ UNCHANGED issued
    BY <1>16 DEF Unpublish
  <2>2. HasExpired(call[c].key)
    BY <1>1, <1>16 DEF Unpublish, DeletesExpired
  <2>3. \A d \in Client : call'[d] = call[d] \/ KeyMove(call'[d])
    BY <1>1, <2>1, GotoMoves, RestartMoves
  <2>4. QED BY <1>3, <1>5, <1>7, <2>1, <2>2, <2>3, ConvergeQuiet
<1>17. CASE DropStale(c)
  <2>1. Restart(c) /\ UNCHANGED <<issued, records>>
    BY <1>17 DEF DropStale
  <2>2. \A d \in Client : call'[d] = call[d] \/ KeyMove(call'[d])
    BY <1>1, <2>1, RestartMoves
  <2>3. QED BY <1>3, <2>1, <2>2, ConvergeQuiet
<1>18. QED BY <1>9, <1>10, <1>11, <1>12, <1>13, <1>14, <1>15, <1>16, <1>17 DEF CreateStep

LEMMA NextConverges == ConvergeInv /\ [InvoiceNext]_vars => ConvergeInv'
<1> SUFFICES ASSUME ConvergeInv, [InvoiceNext]_vars PROVE ConvergeInv'
  OBVIOUS
<1>1. StayInv /\ TypeInv /\ StayInv'
  BY NextStays DEF ConvergeInv, StayInv
<1>2. clock \in Nat /\ records \in [Request -> Record \cup {null}]
  BY <1>1 DEF TypeInv, StoresTyped
<1>3. ASSUME NEW c \in Client, CreateStep(c) PROVE ConvergeInv'
  BY <1>1, <1>3, CreateConverges
<1>4. ASSUME NEW c \in Client, Begin(c) PROVE ConvergeInv'
  <2> DEFINE q == Head(arrivals)
  <2>1. PICK k : k = [Idle EXCEPT !.at = "lookup", !.request = q, !.key = q]
    OBVIOUS
  <2>2. /\ call' = [call EXCEPT ![c] = k]
        /\ UNCHANGED <<clock, issued, records, sweeping>>
    BY <1>4, <2>1 DEF Begin, stores
  <2>3. KeyMove(k)
    BY <2>1 DEF KeyMove, Idle
  <2>4. \A d \in Client : call'[d] = call[d] \/ KeyMove(call'[d])
    BY <1>1, <2>2, <2>3, OneMoves
  <2>5. QED BY <1>1, <1>2, <2>2, <2>4, ConvergeQuiet
<1>5. ASSUME NEW c \in Client, Fail(c) PROVE ConvergeInv'
  <2>1. Return(c) /\ UNCHANGED <<clock, issued, records, sweeping>>
    BY <1>5 DEF Fail, stores
  <2>2. \A d \in Client : call'[d] = call[d] \/ KeyMove(call'[d])
    BY <1>1, <2>1, IdleMoves
  <2>3. QED BY <1>1, <1>2, <2>1, <2>2, ConvergeQuiet
<1>6. ASSUME NEW key \in Request, FindDangling(key) PROVE ConvergeInv'
  <2>1. /\ records[key] # null /\ ~ Exists(records[key].invoiceId)
        /\ sweeping' = sweeping \cup {key} /\ UNCHANGED <<clock, issued, records, call>>
    BY <1>6 DEF FindDangling, stores
  <2>2. PICK z \in issued : z.key = key /\ z.invoice = records[key].invoiceId
    BY <2>1 DEF ConvergeInv, RecordsKeyed
  <2>3. HasExpired(key)
    BY <1>1, <2>1, <2>2, GoneIsExpired
  <2>4. QED BY <1>1, <1>2, <2>1, <2>3, ConvergeQuiet
<1>7. ASSUME NEW key \in Request, DeleteDangling(key) PROVE ConvergeInv'
  <2>1. /\ records' = [records EXCEPT ![key] = null] /\ sweeping' = sweeping \ {key}
        /\ UNCHANGED <<clock, issued, call>> /\ key \in sweeping
    BY <1>7 DEF DeleteDangling
  <2>2. HasExpired(key)
    BY <2>1 DEF ConvergeInv, SweepsExpired
  <2>3. \A k \in Request : \/ records'[k] = records[k]
                           \/ records'[k] = null /\ (HasExpired(k) \/ ~ Active(k))
    BY <1>2, <2>1, <2>2
  <2>4. QED BY <1>1, <1>2, <2>1, <2>3, ConvergeQuiet
<1>8. CASE Tick
  <2>1. clock <= clock' /\ UNCHANGED <<issued, records, call, sweeping>>
    BY <1>2, <1>8 DEF Tick, stores
  <2>2. QED BY <1>1, <2>1, ConvergeQuiet
<1>9. CASE UNCHANGED <<clock, issued, records, call, sweeping>>
  BY <1>1, <1>2, <1>9, ConvergeQuiet
<1>10. ASSUME \/ \E id \in Id : ExpireInvoice(id) \/ RemoveExpired(id)
              \/ \E z \in issued : Pay(z)
              \/ NewBlock
              \/ \E p \in payments : ScanSettlement(p)
              \/ \E p \in settling : RecordSettlement(p)
              \/ UNCHANGED vars
       PROVE  UNCHANGED <<clock, issued, records, call, sweeping>>
  BY <1>10 DEF ExpireInvoice, RemoveExpired, Pay, NewBlock, ScanSettlement, RecordSettlement,
     vars, stores
<1>11. QED BY <1>3, <1>4, <1>5, <1>6, <1>7, <1>8, <1>9, <1>10 DEF InvoiceNext

(* Equal requests share one invoice until it expires, through concurrent   *)
(* creates, crashes and the cleanup (createInvoice, setIfAbsent).          *)
THEOREM EqualRequestsConverge == InvoiceSpec => []ConvergesWhileLive
<1>1. InvoiceInit => ConvergeInv
  <2> SUFFICES ASSUME InvoiceInit PROVE ConvergeInv
    OBVIOUS
  <2>1. StayInv
    BY StayInit
  <2>2. QED BY <2>1 DEF InvoiceInit, ConvergeInv, Idle, RecordsKeyed, SweepsExpired, LiveRecorded,
         FoundKeyed, DeletesExpired
<1>2. ConvergeInv => ConvergesWhileLive
  <2> SUFFICES ASSUME ConvergeInv, NEW a \in issued, NEW b \in issued,
                      a.key = b.key, a.invoice # b.invoice
               PROVE  HasExpired(a.key)
    BY DEF ConvergesWhileLive, HasExpired
  <2>1. QED BY DEF ConvergeInv, LiveRecorded
<1>3. QED BY <1>1, <1>2, NextConverges, PTL DEF InvoiceSpec

-----------------------------------------------------------------------------
(* What a step may do to an invoice.                                       *)
InvoiceFate(id) ==
  \/ invoices'[id] = invoices[id]
  \/ invoices'[id] = null
  \/ id = next_id /\ next_id' = next_id + 1 /\ invoices'[id].status = "pending"
  \/ Exists(id) /\ invoices[id].status = "pending" /\ invoices'[id].status = "expired"
  \/ /\ Exists(id) /\ invoices[id].status = "pending"
     /\ invoices'[id].settlement \in settling /\ invoices'[id].settlement.invoice = id

LEMMA TransitionFate ==
  ASSUME TypeInv, NEW x \in Id, NEW to \in {"settled", "expired"},
         NEW p \in Payment \cup {null}, Transition(x, "pending", to, p)
  PROVE  /\ \A id \in Id \ {x} : invoices'[id] = invoices[id]
         /\ Exists(x) /\ invoices[x].status = "pending"
         /\ invoices'[x].status = to
         /\ p # null => invoices'[x].settlement = p
<1> DEFINE s == IF p = null THEN invoices[x].settlement ELSE p
           n == [invoices[x] EXCEPT !.status = to, !.settlement = s]
<1>1. invoices \in [Id -> Invoice \cup {null}] /\ invoices[x] \in Invoice
  BY DEF TypeInv, StoresTyped, Transition, Exists
<1>2. invoices' = [invoices EXCEPT ![x] = n]
  BY DEF Transition
<1>3. n.status = to /\ n.settlement = s
  <2> HIDE DEF s
  <2>1. QED BY <1>1 DEF Invoice
<1>4. p # null => s = p
  OBVIOUS
<1> HIDE DEF s, n
<1>5. QED BY <1>1, <1>2, <1>3, <1>4 DEF Transition

LEMMA Fates ==
  ASSUME TypeInv, [InvoiceNext]_vars
  PROVE  next_id' \in {next_id, next_id + 1} /\ \A id \in Id : InvoiceFate(id)
<1>0. /\ invoices \in [Id -> Invoice \cup {null}] /\ next_id \in 1 .. (MaxInvoices + 1)
      /\ settling \subseteq Payment
  BY DEF TypeInv, StoresTyped, WorldTyped
<1>1. ASSUME NEW c \in Client, CreateStep(c)
      PROVE  next_id' \in {next_id, next_id + 1} /\ \A id \in Id : InvoiceFate(id)
  <2>1. CASE Store(c)
    <3> DEFINE expires == IF call[c].request[2] = null THEN clock + DEFAULT_EXPIRY
                          ELSE call[c].request[2]
               n == [key |-> call[c].key, status |-> "pending",
                     expires_at |-> expires, settlement |-> null]
    <3>1. invoices' = [invoices EXCEPT ![next_id] = n] /\ next_id' = next_id + 1
      BY <2>1 DEF Store
    <3>2. n.status = "pending"
      OBVIOUS
    <3>3. next_id \in Id
      BY <1>0, <2>1 DEF Store, Id
    <3> HIDE DEF n
    <3>4. QED BY <1>0, <3>1, <3>2, <3>3 DEF InvoiceFate
  <2>2. CASE ~ Store(c)
    <3>1. /\ next_id' = next_id
          /\ \/ UNCHANGED invoices
             \/ invoices' = [invoices EXCEPT ![call[c].found] = null]
             \/ invoices' = [invoices EXCEPT ![call[c].mine] = null]
      BY <1>1, <2>2 DEF CreateStep, Lookup, Fetch, DropKey, DropInvoice, Publish, Issue,
         Discard, Winner, Unpublish, DropStale, stores
    <3>2. QED BY <1>0, <3>1 DEF InvoiceFate
  <2>3. QED BY <2>1, <2>2
<1>2. ASSUME NEW x \in Id, ExpireInvoice(x) PROVE next_id' = next_id /\ \A id \in Id : InvoiceFate(id)
  <2>1. Transition(x, "pending", "expired", null) /\ next_id' = next_id
    BY <1>2 DEF ExpireInvoice
  <2>2. QED BY <2>1, TransitionFate DEF InvoiceFate
<1>3. ASSUME NEW x \in Id, RemoveExpired(x) PROVE next_id' = next_id /\ \A id \in Id : InvoiceFate(id)
  BY <1>0, <1>3 DEF RemoveExpired, InvoiceFate
<1>4. ASSUME NEW p \in settling, RecordSettlement(p)
      PROVE  next_id' = next_id /\ \A id \in Id : InvoiceFate(id)
  <2>1. p \in Payment /\ p.invoice \in Id /\ p # null
    BY <1>0 DEF Payment
  <2>2. next_id' = next_id
    BY <1>4 DEF RecordSettlement
  <2>3. CASE Transition(p.invoice, "pending", "settled", p)
    BY <2>1, <2>2, <2>3, TransitionFate DEF InvoiceFate
  <2>4. CASE UNCHANGED invoices
    BY <2>2, <2>4 DEF InvoiceFate
  <2>5. QED BY <1>4, <2>3, <2>4 DEF RecordSettlement
<1>5. CASE UNCHANGED <<invoices, next_id>>
  BY <1>5 DEF InvoiceFate
<1>6. ASSUME \/ \E c \in Client : Begin(c) \/ Fail(c)
             \/ \E key \in Request : FindDangling(key) \/ DeleteDangling(key)
             \/ \E z \in issued : Pay(z)
             \/ NewBlock \/ Tick
             \/ \E p \in payments : ScanSettlement(p)
             \/ UNCHANGED vars
      PROVE  UNCHANGED <<invoices, next_id>>
  BY <1>6 DEF Begin, Fail, FindDangling, DeleteDangling, Pay, NewBlock, Tick, ScanSettlement,
     vars, stores
<1>7. QED BY <1>1, <1>2, <1>3, <1>4, <1>5, <1>6 DEF InvoiceNext

(* The chain grows, and a settlement event is scanned when it is final.    *)
LEMMA ChainGrows ==
  ASSUME TypeInv, SettlingDeep, [InvoiceNext]_vars
  PROVE  payments \subseteq payments' /\ head <= head' /\ SettlingDeep'
<1>0. head \in 0 .. MaxHead /\ settling \subseteq payments /\ payments \subseteq Payment
  BY DEF TypeInv, WorldTyped
<1>1. CASE UNCHANGED <<payments, head>> /\ settling' \subseteq settling
  BY <1>0, <1>1 DEF SettlingDeep, Deep
<1>2. ASSUME NEW z \in issued, Pay(z) PROVE payments \subseteq payments' /\ head <= head' /\ SettlingDeep'
  BY <1>0, <1>2 DEF Pay, SettlingDeep, Deep
<1>3. CASE NewBlock
  <2>1. head' = head + 1 /\ UNCHANGED <<payments, settling>>
    BY <1>3 DEF NewBlock
  <2>2. ASSUME NEW p \in settling PROVE head' - p.block >= MIN_CONFIRMATIONS
    <3>1. p.block \in 0 .. MaxHead /\ head - p.block >= MIN_CONFIRMATIONS
      BY <1>0 DEF Payment, SettlingDeep, Deep
    <3>2. QED BY <1>0, <2>1, <3>1
  <2>3. QED BY <1>0, <2>1, <2>2 DEF SettlingDeep, Deep
<1>4. ASSUME NEW p \in payments, ScanSettlement(p)
      PROVE  payments \subseteq payments' /\ head <= head' /\ SettlingDeep'
  <2>1. PICK current \in p.block .. head : current - p.block >= MIN_CONFIRMATIONS
    BY <1>4 DEF ScanSettlement, Final
  <2>2. head - p.block >= MIN_CONFIRMATIONS
    <3>1. p.block \in 0 .. MaxHead
      BY <1>0 DEF Payment
    <3>2. QED BY <1>0, <2>1, <3>1
  <2>3. settling' = settling \cup {p} /\ UNCHANGED <<payments, head>>
    BY <1>4 DEF ScanSettlement
  <2>4. QED BY <1>0, <2>2, <2>3 DEF SettlingDeep, Deep
<1>5. ASSUME \/ \E c \in Client : Begin(c) \/ CreateStep(c) \/ Fail(c)
             \/ \E id \in Id : ExpireInvoice(id) \/ RemoveExpired(id)
             \/ \E key \in Request : FindDangling(key) \/ DeleteDangling(key)
             \/ \E p \in settling : RecordSettlement(p)
             \/ Tick \/ UNCHANGED vars
      PROVE  UNCHANGED <<payments, head>> /\ settling' \subseteq settling
  BY <1>5 DEF Begin, CreateStep, Lookup, Fetch, DropKey, DropInvoice, Store, Publish,
     Discard, Winner, Unpublish, DropStale, Fail, ExpireInvoice, RemoveExpired, FindDangling,
     DeleteDangling, RecordSettlement, Tick, vars, chain
<1>6. QED BY <1>1, <1>2, <1>3, <1>4, <1>5 DEF InvoiceNext

LEMMA OutcomeStep == OutcomeInv /\ [InvoiceNext]_vars => OutcomeInv'
<1> SUFFICES ASSUME OutcomeInv, [InvoiceNext]_vars PROVE OutcomeInv'
  OBVIOUS
<1>1. /\ TypeInv /\ TypeInv' /\ SettlingDeep' /\ payments \subseteq payments' /\ head <= head'
      /\ next_id' \in {next_id, next_id + 1} /\ \A id \in Id : InvoiceFate(id)
  BY NextTypes, Fates, ChainGrows DEF OutcomeInv
<1>2. /\ next_id \in Nat /\ head \in Nat /\ head' \in Nat /\ settling \subseteq payments
      /\ payments \subseteq Payment
  BY <1>1 DEF TypeInv, StoresTyped, WorldTyped
<1>3. FreshIds'
  <2>1. \A id \in Id : Exists(id)' => Exists(id) \/ (id = next_id /\ next_id' = next_id + 1)
    BY <1>1 DEF InvoiceFate, Exists
  <2>2. QED BY <1>1, <1>2, <2>1 DEF OutcomeInv, FreshIds, Id
<1>4. SettlementIsProven'
  <2> SUFFICES ASSUME NEW id \in Id, invoices'[id] # null, invoices'[id].status = "settled"
               PROVE  /\ invoices'[id].settlement \in payments'
                      /\ invoices'[id].settlement.invoice = id
                      /\ head' - invoices'[id].settlement.block >= MIN_CONFIRMATIONS
    BY DEF SettlementIsProven, Exists
  <2>1. PICK p : p = invoices'[id].settlement
    OBVIOUS
  <2>2. p \in payments /\ p.invoice = id /\ head - p.block >= MIN_CONFIRMATIONS
    <3>1. CASE invoices'[id] = invoices[id]
      BY <2>1, <3>1 DEF OutcomeInv, SettlementIsProven, Exists
    <3>2. CASE p \in settling /\ p.invoice = id
      BY <1>2, <3>2 DEF OutcomeInv, SettlingDeep, Deep
    <3>3. QED BY <1>1, <2>1, <3>1, <3>2 DEF InvoiceFate
  <2>3. p.block \in Nat
    BY <1>2, <2>2 DEF Payment
  <2>4. QED BY <1>1, <1>2, <2>1, <2>2, <2>3
<1>5. QED BY <1>1, <1>3, <1>4 DEF OutcomeInv

LEMMA OutcomeInvariant == InvoiceSpec => []OutcomeInv
<1>1. InvoiceInit => OutcomeInv
  <2> SUFFICES ASSUME InvoiceInit PROVE OutcomeInv
    OBVIOUS
  <2>1. \A id \in Id : ~ Exists(id)
    BY DEF InvoiceInit, Exists
  <2>2. SettlingDeep
    BY DEF InvoiceInit, SettlingDeep
  <2>3. QED BY <2>1, <2>2, InitTypes DEF OutcomeInv, FreshIds, SettlementIsProven
<1>2. QED BY <1>1, OutcomeStep, PTL DEF InvoiceSpec

(* A settled invoice carries a payment on chain that names it and is deep  *)
(* enough, however late or often events come (processSettlementEvent).     *)
THEOREM SettlementsAreProven == InvoiceSpec => []SettlementIsProven
<1>1. OutcomeInv => SettlementIsProven
  BY DEF OutcomeInv
<1>2. QED BY <1>1, OutcomeInvariant, PTL

(* Settlement, expiry and cleanup race; the first decides (transition).    *)
THEOREM OutcomesAreFinal == InvoiceSpec => OutcomeNeverChanges
<1>1. OutcomeInv /\ [InvoiceNext]_vars =>
        [\A id \in Id :
           /\ Exists(id)
           /\ invoices[id].status # "pending"
           /\ invoices'[id] # null
           => invoices'[id] = invoices[id]]_vars
  <2> SUFFICES ASSUME OutcomeInv, [InvoiceNext]_vars, NEW id \in Id, Exists(id),
                      invoices[id].status # "pending", invoices'[id] # null
               PROVE  invoices'[id] = invoices[id]
    OBVIOUS
  <2>1. InvoiceFate(id) /\ id < next_id /\ next_id \in Nat
    BY Fates DEF OutcomeInv, FreshIds, TypeInv, StoresTyped
  <2>2. id # next_id
    BY <2>1 DEF Id
  <2>3. QED BY <2>1, <2>2 DEF InvoiceFate
<1>2. QED BY <1>1, OutcomeInvariant, PTL DEF InvoiceSpec, OutcomeNeverChanges
===============================================================================
