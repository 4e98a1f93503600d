--------------------------- MODULE Services_proofs ---------------------------
(***************************************************************************)
(* What runs beside the chain, for every set of keys, merchants, secrets,  *)
(* owners and signers and every limit: who is served by the API's gateway, *)
(* what a merchant's SDK accepts, what the lending adapter verifies, what  *)
(* backs the records of the other adapters, what a readiness gate's pass   *)
(* means. The services share no state; each has its own specification and  *)
(* its own inductive invariant.                                            *)
(***************************************************************************)
EXTENDS ApiGateway, WebhookService, LendingAdapter, AdapterRecords, ReadinessGates,
        FiniteSetTheorems, TLAPS

-----------------------------------------------------------------------------
(* The API gateway. First the types of what it keeps.                      *)
KeyRecord ==
  [id : Nat, merchant : Merchant, permissions : SUBSET Permission,
   expires : Nat \cup {nil}, active : BOOLEAN]
Asked ==
  [pc : {"find", "touch", "handle", "scope"}, ip : Ip, key : Key, route : Route,
   m : Merchant \cup {nil}, record : KeyRecord \cup {nil}]
Answered == [pc : {"done"}, status : Nat, key : Key \cup {nil}]

GatewayTypes ==
  /\ registry \in [Key -> KeyRecord \cup {nil}]
  /\ store \in [Key -> KeyRecord \cup {nil}]
  /\ authCache \in [Key \X Merchant -> [authorized : BOOLEAN, expiresAt : Nat] \cup {nil}]
  /\ issuing \in [key : Key, record : KeyRecord] \cup {nil}
  /\ req \in [Caller -> Asked \cup Answered \cup {Idle}]
  /\ keyIds \in Nat /\ clock \in Nat

(* Boot happens once, and nothing happens before it.                       *)
BootedOnce ==
  /\ server.up => env = nil
  /\ ~ server.up =>
       /\ \A p \in Key : registry[p] = nil /\ store[p] = nil
       /\ \A p \in Key, m \in Merchant : authCache[<<p, m>>] = nil
       /\ \A c \in Caller : req[c] = Idle
       /\ issuing = nil /\ keyIds = 0 /\ revoked = {}

(* What the cache grants is what memory says of the key: registration and  *)
(* revocation flush it, expiry alone does not.                             *)
Grants(p, m) == authCache[<<p, m>>] # nil /\ authCache[<<p, m>>].authorized
CacheFollowsKeys ==
  \A p \in Key, m \in Merchant : Grants(p, m) =>
    ~ server.persistent /\ registry[p].merchant = m

(* A request that has passed authentication and would be let through by    *)
(* the cache was entitled: at authentication its key was valid, so when    *)
(* the entry is older it was bound to the merchant, and when the entry is  *)
(* younger it was made of a key that was good then.                        *)
Authenticated(c) == req[c].pc \in {"touch", "handle", "scope"}
EntitledWhenGood == \A c \in Caller : Good(c) => c \in entitled
EntitledWhenCached ==
  \A c \in Caller : Authenticated(c) /\ req[c].m # nil /\ Grants(req[c].key, req[c].m) => c \in entitled
EntitledWhenScoped == \A c \in Caller : req[c].pc = "scope" => c \in entitled

OwnerInv ==
  /\ GatewayTypes /\ BootedOnce /\ CacheFollowsKeys
  /\ EntitledWhenGood /\ EntitledWhenCached /\ EntitledWhenScoped
  /\ ServedOnlyToOwner

(* Ids are given out once, so neither a record on its way to the store nor *)
(* one still to be made can carry a revoked id.                            *)
IdsInOrder ==
  /\ \A id \in revoked : id \in Nat /\ id <= keyIds
  /\ \A p \in Key : store[p] # nil => store[p].id <= keyIds
  /\ \A p \in Key : registry[p] # nil => registry[p].id <= keyIds
IssuedIsNew ==
  issuing # nil =>
    /\ server.persistent
    /\ issuing.record.id <= keyIds /\ issuing.record.id \notin revoked
    /\ \A p \in Key : store[p] # nil => store[p].id # issuing.record.id

RevokedInv ==
  GatewayTypes /\ BootedOnce /\ IdsInOrder /\ IssuedIsNew /\ RevokedStaysRevoked

LEMMA NewRecordType ==
  ASSUME GatewayTypes, NEW m \in Merchant, NEW ps \in SUBSET Permission, NEW e \in Nat \cup {nil}
  PROVE  /\ NewRecord(m, ps, e) \in KeyRecord
         /\ NewRecord(m, ps, e).id = keyIds + 1
         /\ NewRecord(m, ps, e).merchant = m
BY DEF GatewayTypes, NewRecord, KeyRecord

LEMMA FlushedType ==
  ASSUME GatewayTypes, NEW p \in Key
  PROVE  /\ Flushed(p) \in [Key \X Merchant -> [authorized : BOOLEAN, expiresAt : Nat] \cup {nil}]
         /\ \A q \in Key, m \in Merchant :
              Flushed(p)[<<q, m>>] = IF q = p THEN nil ELSE authCache[<<q, m>>]
<1>1. \A pm \in Key \X Merchant : (IF pm[1] = p THEN nil ELSE authCache[pm])
         \in [authorized : BOOLEAN, expiresAt : Nat] \cup {nil}
  BY DEF GatewayTypes
<1>2. QED BY <1>1 DEF Flushed

LEMMA DeactivatedType ==
  ASSUME NEW keys \in [Key -> KeyRecord \cup {nil}], NEW id
  PROVE  /\ Deactivated(keys, id) \in [Key -> KeyRecord \cup {nil}]
         /\ \A p \in Named(keys, id) :
              /\ ~ Deactivated(keys, id)[p].active
              /\ Deactivated(keys, id)[p].id = id
              /\ Deactivated(keys, id)[p].merchant = keys[p].merchant
         /\ \A p \in Key \ Named(keys, id) : Deactivated(keys, id)[p] = keys[p]
<1>1. ASSUME NEW p \in Named(keys, id)
      PROVE  /\ p \in Key /\ keys[p] \in KeyRecord /\ keys[p].id = id
             /\ [keys[p] EXCEPT !.active = FALSE] \in KeyRecord
             /\ [keys[p] EXCEPT !.active = FALSE].active = FALSE
             /\ [keys[p] EXCEPT !.active = FALSE].id = id
             /\ [keys[p] EXCEPT !.active = FALSE].merchant = keys[p].merchant
  <2>1. p \in Key /\ keys[p] \in KeyRecord /\ keys[p].id = id
    BY <1>1 DEF Named
  <2>2. QED BY <2>1 DEF KeyRecord
<1>2. QED BY <1>1 DEF Deactivated

(* A caller's request after an answer.                                     *)
LEMMA RespondType ==
  ASSUME GatewayTypes, NEW c \in Caller, req[c] \in Asked, NEW status \in Nat, Respond(c, status)
  PROVE  \E r \in Answered : r.status = status /\ r.pc = "done" /\ req' = [req EXCEPT ![c] = r]
<1> DEFINE r == Done(status, req[c].key)
<1>1. req' = [req EXCEPT ![c] = r]
  BY DEF Respond
<1>2. req[c].key \in Key
  BY DEF Asked
<1>3. r \in Answered /\ r.status = status /\ r.pc = "done"
  BY <1>2 DEF Done, Answered
<1>4. QED BY <1>1, <1>3

LEMMA Codes ==
  /\ HttpStatus.INVALID_API_KEY = 401 /\ HttpStatus.UNAUTHORIZED_MERCHANT = 403
  /\ HttpStatus.INVOICE_NOT_FOUND = 404 /\ HttpStatus.RATE_LIMIT_EXCEEDED = 429
BY DEF HttpStatus

LEMMA InProgressType ==
  ASSUME GatewayTypes, NEW c \in Caller, req[c].pc \notin {"idle", "done"}
  PROVE  req[c] \in Asked
<1>1. req[c] \in Asked \cup Answered \cup {Idle}
  BY DEF GatewayTypes
<1>2. Idle.pc = "idle" /\ \A r \in Answered : r.pc = "done"
  BY DEF Idle, Answered
<1>3. QED BY <1>1, <1>2

(* What the steps of a request do to it: each answers, or moves it on.     *)
LEMMA ArriveEffect ==
  ASSUME GatewayTypes, NEW c \in Caller, NEW ip \in Ip, NEW h \in Key \cup {nil}, NEW route \in Route,
         NEW m \in Merchant \cup {nil}, Arrive(c, ip, h, route, m)
  PROVE  /\ \/ \E r \in Answered : r.status >= 400 /\ req' = [req EXCEPT ![c] = r]
            \/ \E r \in Asked : r.pc = "find" /\ req' = [req EXCEPT ![c] = r]
         /\ server.up
         /\ UNCHANGED <<env, server, registry, store, authCache, issuing, keyIds, clock, revoked>>
<1> DEFINE p == IF h = nil /\ server.sandbox THEN SandboxKey ELSE h
           r == [pc |-> "find", ip |-> ip, key |-> p, route |-> route, m |-> m, record |-> nil]
<1>1. p \in Key \cup {nil}
  BY GatewayAssumption
<1>2. \/ req' = [req EXCEPT ![c] = Done(429, p)]
      \/ req' = [req EXCEPT ![c] = Done(401, p)]
      \/ p # nil /\ req' = [req EXCEPT ![c] = r]
  <2> DEFINE over == [hits EXCEPT !.limit[ip] = @ + 1].limit[ip] > AuthFailLimit
  <2>1. req' = [req EXCEPT ![c] = IF over THEN Done(HttpStatus.RATE_LIMIT_EXCEEDED, p)
                                  ELSE IF p = nil THEN Done(HttpStatus.INVALID_API_KEY, p) ELSE r]
    BY Zenon DEF Arrive
  <2> HIDE DEF over, p, r
  <2>2. CASE over
    BY <2>1, <2>2, Codes
  <2>3. CASE ~ over /\ p = nil
    BY <2>1, <2>3, Codes
  <2>4. CASE ~ over /\ p # nil
    BY <2>1, <2>4
  <2>5. QED BY <2>2, <2>3, <2>4
<1>3. Done(429, p) \in Answered /\ Done(429, p).status = 429
      /\ Done(401, p) \in Answered /\ Done(401, p).status = 401
  BY <1>1 DEF Done, Answered
<1>4. p # nil => r \in Asked /\ r.pc = "find"
  BY <1>1 DEF Asked
<1> HIDE DEF r, p
<1>5. server.up /\ UNCHANGED <<env, server, registry, store, authCache, issuing, keyIds, clock, revoked>>
  BY DEF Arrive
<1>6. 429 >= 400 /\ 401 >= 400
  OBVIOUS
<1>7. QED BY <1>2, <1>3, <1>4, <1>5, <1>6

LEMMA AuthenticateEffect ==
  ASSUME GatewayTypes, NEW c \in Caller, authenticateWithPermission(c)
  PROVE  /\ \/ \E r \in Answered : r.status >= 400 /\ req' = [req EXCEPT ![c] = r]
            \/ /\ ValidKey(req[c].key)
               /\ \E r \in Asked : /\ r.pc = "touch" /\ r.key = req[c].key /\ r.m = req[c].m
                                   /\ req' = [req EXCEPT ![c] = r]
         /\ req[c] \in Asked /\ req[c].pc = "find"
         /\ UNCHANGED <<env, server, registry, store, authCache, issuing, keyIds, clock, revoked>>
<1> DEFINE r == [req[c] EXCEPT !.pc = "touch", !.record = KeyOf(req[c].key)]
<1>1. req[c] \in Asked /\ req[c].pc = "find"
  BY InProgressType DEF authenticateWithPermission
<1>2. \/ Respond(c, 401)
      \/ Respond(c, 403)
      \/ ValidKey(req[c].key) /\ req' = [req EXCEPT ![c] = r]
  <2>1. req' = [req EXCEPT ![c].pc = "touch", ![c].record = KeyOf(req[c].key)]
          => req' = [req EXCEPT ![c] = r]
    BY DEF GatewayTypes
  <2> HIDE DEF r
  <2>2. QED BY <2>1, Codes DEF authenticateWithPermission
<1>3. ASSUME NEW s \in {401, 403}, Respond(c, s)
      PROVE  \E x \in Answered : x.status >= 400 /\ req' = [req EXCEPT ![c] = x]
  BY <1>1, <1>3, RespondType
<1>4. KeyOf(req[c].key) \in KeyRecord \cup {nil}
  <2>1. req[c].key \in Key
    BY <1>1 DEF Asked
  <2>2. QED BY <2>1 DEF KeyOf, GatewayTypes
<1>5. r \in Asked /\ r.pc = "touch" /\ r.key = req[c].key /\ r.m = req[c].m
  BY <1>1, <1>4 DEF Asked
<1> HIDE DEF r
<1>6. UNCHANGED <<env, server, registry, store, authCache, issuing, keyIds, clock, revoked>>
  BY DEF authenticateWithPermission
<1>7. QED BY <1>1, <1>2, <1>3, <1>5, <1>6

LEMMA TouchEffect ==
  ASSUME GatewayTypes, NEW c \in Caller, touchKeyAsync(c)
  PROVE  /\ \/ \E r \in Answered : r.status >= 400 /\ req' = [req EXCEPT ![c] = r]
            \/ \E r \in Asked : /\ r.pc = "handle" /\ r.key = req[c].key /\ r.m = req[c].m
                                /\ req' = [req EXCEPT ![c] = r]
         /\ req[c] \in Asked /\ req[c].pc = "touch"
         /\ UNCHANGED <<env, server, registry, store, authCache, issuing, keyIds, clock, revoked>>
<1> DEFINE r == [req[c] EXCEPT !.pc = "handle"]
<1>1. req[c] \in Asked /\ req[c].pc = "touch"
  BY InProgressType DEF touchKeyAsync
<1>2. Respond(c, 429) \/ req' = [req EXCEPT ![c] = r]
  BY Codes DEF touchKeyAsync, LimitKey
<1>3. Respond(c, 429) => \E x \in Answered : x.status >= 400 /\ req' = [req EXCEPT ![c] = x]
  BY <1>1, RespondType
<1>5. r \in Asked /\ r.pc = "handle" /\ r.key = req[c].key /\ r.m = req[c].m
  BY <1>1 DEF Asked
<1> HIDE DEF r
<1>6. UNCHANGED <<env, server, registry, store, authCache, issuing, keyIds, clock, revoked>>
  BY DEF touchKeyAsync
<1>7. QED BY <1>1, <1>2, <1>3, <1>5, <1>6

LEMMA ScopeEffect ==
  ASSUME GatewayTypes, NEW c \in Caller, getKeyIdAsync(c)
  PROVE  /\ \E r \in Answered : req' = [req EXCEPT ![c] = r]
         /\ req[c] \in Asked /\ req[c].pc = "scope"
         /\ UNCHANGED <<env, server, registry, store, authCache, issuing, keyIds, clock, revoked>>
<1>1. req[c] \in Asked /\ req[c].pc = "scope"
  BY InProgressType DEF getKeyIdAsync
<1>2. Respond(c, 401) \/ Respond(c, 201)
  BY Codes DEF getKeyIdAsync
<1>3. \E r \in Answered : req' = [req EXCEPT ![c] = r]
  BY <1>1, <1>2, RespondType
<1>4. QED BY <1>1, <1>3 DEF getKeyIdAsync

LEMMA HandleEffect ==
  ASSUME GatewayTypes, NEW c \in Caller, Handle(c)
  PROVE  /\ \/ \E r \in Answered : r.status >= 400 /\ req' = [req EXCEPT ![c] = r]
            \/ /\ req[c].m # nil /\ isAuthorizedMerchant(req[c].key, req[c].m)
               /\ \/ \E r \in Answered : req' = [req EXCEPT ![c] = r]
                  \/ \E r \in Asked : r.pc = "scope" /\ req' = [req EXCEPT ![c] = r]
         /\ \/ authCache' = authCache
            \/ /\ req[c].m # nil /\ ~ server.persistent
               /\ \E entry \in [authorized : BOOLEAN, expiresAt : Nat] :
                    /\ authCache' = [authCache EXCEPT ![<<req[c].key, req[c].m>>] = entry]
                    /\ entry.authorized => BoundTo(req[c].key, req[c].m)
         /\ req[c] \in Asked /\ req[c].pc = "handle"
         /\ UNCHANGED <<env, server, registry, store, issuing, keyIds, clock, revoked>>
<1> DEFINE r == [req[c] EXCEPT !.pc = "scope"]
           authorized == isAuthorizedMerchant(req[c].key, req[c].m)
           entry == [authorized |-> authorized, expiresAt |-> clock + AUTH_CACHE_TTL]
<1>1. req[c] \in Asked /\ req[c].pc = "handle"
  BY InProgressType DEF Handle
<1>2. \/ Respond(c, 404) \/ Respond(c, 403)
      \/ /\ req[c].m # nil /\ authorized
         /\ Respond(c, 200) \/ req' = [req EXCEPT ![c] = r]
  BY Codes DEF Handle
<1>3. ASSUME NEW s \in {404, 403}, Respond(c, s)
      PROVE  \E x \in Answered : x.status >= 400 /\ req' = [req EXCEPT ![c] = x]
  BY <1>1, <1>3, RespondType
<1>4. Respond(c, 200) => \E x \in Answered : req' = [req EXCEPT ![c] = x]
  BY <1>1, RespondType
<1>5. r \in Asked /\ r.pc = "scope"
  BY <1>1 DEF Asked
<1>6. \/ authCache' = authCache
      \/ /\ req[c].m # nil /\ ~ server.persistent /\ ~ Cached(req[c].key, req[c].m)
         /\ authCache' = [authCache EXCEPT ![<<req[c].key, req[c].m>>] = entry]
  BY DEF Handle
<1>7. ~ Cached(req[c].key, req[c].m) => authorized = BoundTo(req[c].key, req[c].m)
  BY DEF isAuthorizedMerchant
<1>8. ~ Cached(req[c].key, req[c].m) =>
        /\ entry \in [authorized : BOOLEAN, expiresAt : Nat]
        /\ entry.authorized => BoundTo(req[c].key, req[c].m)
  <2>1. BoundTo(req[c].key, req[c].m) \in BOOLEAN
    BY DEF BoundTo
  <2>2. clock + AUTH_CACHE_TTL \in Nat
    BY GatewayAssumption DEF GatewayTypes
  <2>3. QED BY <1>7, <2>1, <2>2
<1>9. UNCHANGED <<env, server, registry, store, issuing, keyIds, clock, revoked>>
  BY DEF Handle
<1> HIDE DEF r, authorized, entry
<1>10. \/ \E x \in Answered : x.status >= 400 /\ req' = [req EXCEPT ![c] = x]
       \/ /\ req[c].m # nil /\ authorized
          /\ \/ \E x \in Answered : req' = [req EXCEPT ![c] = x]
             \/ \E x \in Asked : x.pc = "scope" /\ req' = [req EXCEPT ![c] = x]
  BY <1>2, <1>3, <1>4, <1>5
<1>11. QED BY <1>1, <1>6, <1>8, <1>9, <1>10 DEF authorized

(* What the operations on keys do to memory, store and cache.              *)
LEMMA StartEffect ==
  ASSUME GatewayTypes, BootedOnce, startServer
  PROVE  /\ ~ server.up /\ env' = nil
         /\ \A p \in Key : store'[p] = nil /\ registry'[p] # nil => registry'[p].id <= keyIds'
         /\ registry' \in [Key -> KeyRecord \cup {nil}] /\ keyIds' \in Nat
         /\ server' = server => registry' = registry /\ keyIds' = keyIds
         /\ server'.up \/ server' = server
         /\ UNCHANGED <<store, authCache, issuing, req, clock, revoked>>
<1>1. ~ server.up /\ env' = nil /\ UNCHANGED <<store, authCache, issuing, req, clock, revoked>>
  BY DEF startServer, BootedOnce
<1>2. keyIds = 0 /\ \A p \in Key : registry[p] = nil /\ store[p] = nil
  BY <1>1 DEF BootedOnce
<1> DEFINE new == NewRecord(SandboxMerchant, Permission, nil)
<1>3. new \in KeyRecord /\ new.id = 1
  <2>1. SandboxMerchant \in Merchant /\ Permission \in SUBSET Permission /\ nil \in Nat \cup {nil}
    BY GatewayAssumption
  <2>2. new \in KeyRecord /\ new.id = keyIds + 1
    BY <2>1, NewRecordType
  <2> HIDE DEF new
  <2>3. QED BY <1>2, <2>2
<1> HIDE DEF new
<1>4. \/ server' = server /\ registry' = registry /\ keyIds' = keyIds
      \/ /\ server'.up
         /\ \/ registry' = registry /\ keyIds' = keyIds
            \/ registry' = [registry EXCEPT ![SandboxKey] = new] /\ keyIds' = keyIds + 1
  BY DEF startServer, new
<1>5. server'.up => server' # server
  BY <1>1
<1>6. registry' = registry /\ keyIds' = keyIds =>
        /\ registry' \in [Key -> KeyRecord \cup {nil}] /\ keyIds' \in Nat
        /\ \A p \in Key : store'[p] = nil /\ registry'[p] # nil => registry'[p].id <= keyIds'
  BY <1>2 DEF GatewayTypes
<1>7. registry' = [registry EXCEPT ![SandboxKey] = new] /\ keyIds' = keyIds + 1 =>
        /\ registry' \in [Key -> KeyRecord \cup {nil}] /\ keyIds' \in Nat
        /\ \A p \in Key : store'[p] = nil /\ registry'[p] # nil => registry'[p].id <= keyIds'
  BY <1>2, <1>3, GatewayAssumption DEF GatewayTypes
<1>8. QED BY <1>1, <1>4, <1>5, <1>6, <1>7

(* Both ways to issue a key.                                               *)
Issues(p, m, permissions, expires) ==
  /\ server.up /\ issuing = nil
  /\ registerApiKey(p, m, permissions, expires)
  /\ issuing' = IF server.persistent
                  THEN [key |-> p, record |-> NewRecord(m, permissions, expires)] ELSE nil
  /\ UNCHANGED <<env, server, store, req, clock, revoked>>

LEMMA IssueEffect ==
  ASSUME GatewayTypes, NEW p \in Key, NEW m \in Merchant, NEW g \in Grant,
         Issues(p, m, g.permissions, g.expires)
  PROVE  \E new \in KeyRecord :
           /\ new.id = keyIds + 1 /\ keyIds' = keyIds + 1
           /\ registry' = [registry EXCEPT ![p] = new]
           /\ authCache' = Flushed(p)
           /\ issuing' = (IF server.persistent THEN [key |-> p, record |-> new] ELSE nil)
<1> DEFINE new == NewRecord(m, g.permissions, g.expires)
<1>1. g.permissions \in SUBSET Permission /\ g.expires \in Nat \cup {nil}
  BY GatewayAssumption DEF Permission
<1>2. new \in KeyRecord /\ new.id = keyIds + 1
  BY <1>1, NewRecordType
<1>3. /\ keyIds' = keyIds + 1 /\ registry' = [registry EXCEPT ![p] = new] /\ authCache' = Flushed(p)
      /\ issuing' = IF server.persistent THEN [key |-> p, record |-> new] ELSE nil
  BY DEF Issues, registerApiKey
<1> HIDE DEF new
<1>4. QED BY <1>2, <1>3

LEMMA RegisterIssues ==
  ASSUME NEW p, NEW m, NEW ps, NEW e,
         registerApiKeyAsync(p, m, ps, e) \/ \E ip \in Ip : createApiKey(ip, p, m, ps, e)
  PROVE  Issues(p, m, ps, e)
BY Zenon DEF registerApiKeyAsync, createApiKey, Issues

(* Steps that leave keys, cache and requests alone.                        *)
LEMMA RestEffect ==
  ASSUME GatewayTypes,
         WindowEnds \/ \E ip \in Ip : getPublicInvoice(ip)
  PROVE  UNCHANGED <<env, server, registry, store, authCache, issuing, req, keyIds, clock, revoked>>
BY DEF WindowEnds, getPublicInvoice

LEMMA TickEffect ==
  ASSUME GatewayTypes, ClockTick
  PROVE  /\ clock' \in Nat
         /\ authCache' \in [Key \X Merchant -> [authorized : BOOLEAN, expiresAt : Nat] \cup {nil}]
         /\ \A p \in Key, m \in Merchant :
              authCache'[<<p, m>>] = nil \/ authCache'[<<p, m>>] = authCache[<<p, m>>]
         /\ server.up /\ UNCHANGED <<env, server, registry, store, issuing, req, keyIds, revoked>>
<1>1. clock' \in Nat
  BY DEF ClockTick, GatewayTypes
<1>2. \A pm \in Key \X Merchant :
        (IF authCache[pm] # nil /\ authCache[pm].expiresAt <= clock + 1 THEN nil ELSE authCache[pm])
          \in {nil, authCache[pm]}
  OBVIOUS
<1>3. QED BY <1>1, <1>2 DEF ClockTick, GatewayTypes

LEMMA PersistEffect ==
  ASSUME GatewayTypes, NEW done \in BOOLEAN, persistKey(done)
  PROVE  /\ issuing # nil /\ issuing.key \in Key /\ issuing.record \in KeyRecord
         /\ store' = store \/ store' = [store EXCEPT ![issuing.key] = issuing.record]
         /\ registry' = [registry EXCEPT ![issuing.key] = nil] /\ issuing' = nil
         /\ UNCHANGED <<env, server, authCache, req, keyIds, clock, revoked>>
BY DEF persistKey, GatewayTypes

LEMMA RevokeEffect ==
  ASSUME GatewayTypes, NEW ip \in Ip, NEW id \in KeyId, revokeApiKey(ip, id)
  PROVE  /\ \/ /\ server.persistent /\ Named(store, id) # {}
               /\ store' = Deactivated(store, id) /\ registry' = registry /\ authCache' = authCache
            \/ /\ ~ server.persistent /\ store' = store /\ Named(registry, id) # {}
               /\ registry' = Deactivated(registry, id)
               /\ \E p \in Key : authCache' = Flushed(p)
         /\ server.up /\ revoked' = revoked \cup {id}
         /\ UNCHANGED <<env, server, issuing, req, keyIds, clock>>
<1>1. Named(registry, id) \subseteq Key
  BY DEF Named
<1>2. QED BY <1>1 DEF revokeApiKey

LEMMA GatewayTypesStep ==
  ASSUME GatewayTypes, BootedOnce, GatewayStep
  PROVE  GatewayTypes'
<1> DEFINE RestTyped == UNCHANGED <<registry, store, authCache, issuing, keyIds, clock>>
<1>1. ASSUME RestTyped, NEW c \in Caller, NEW r \in Asked \cup Answered, req' = [req EXCEPT ![c] = r]
      PROVE  GatewayTypes'
  BY <1>1 DEF GatewayTypes
<1>2. CASE startServer
  BY <1>2, StartEffect DEF GatewayTypes
<1>3. ASSUME NEW p \in Key, NEW m \in Merchant, NEW g \in Grant, Issues(p, m, g.permissions, g.expires)
      PROVE  GatewayTypes'
  <2>1. PICK new \in KeyRecord :
           /\ new.id = keyIds + 1 /\ keyIds' = keyIds + 1
           /\ registry' = [registry EXCEPT ![p] = new]
           /\ authCache' = Flushed(p)
           /\ issuing' = (IF server.persistent THEN [key |-> p, record |-> new] ELSE nil)
    BY <1>3, IssueEffect
  <2>2. issuing' \in [key : Key, record : KeyRecord] \cup {nil}
    BY <2>1
  <2>3. authCache' \in [Key \X Merchant -> [authorized : BOOLEAN, expiresAt : Nat] \cup {nil}]
    BY <2>1, FlushedType
  <2>4. registry' \in [Key -> KeyRecord \cup {nil}] /\ keyIds' \in Nat
    BY <2>1 DEF GatewayTypes
  <2>5. UNCHANGED <<store, req, clock>>
    BY <1>3 DEF Issues
  <2>6. QED BY <2>2, <2>3, <2>4, <2>5 DEF GatewayTypes
<1>4. ASSUME NEW done \in BOOLEAN, persistKey(done) PROVE GatewayTypes'
  BY <1>4, PersistEffect DEF GatewayTypes
<1>5. ASSUME NEW ip \in Ip, NEW id \in KeyId, revokeApiKey(ip, id) PROVE GatewayTypes'
  <2>1. /\ registry \in [Key -> KeyRecord \cup {nil}] /\ store \in [Key -> KeyRecord \cup {nil}]
    BY DEF GatewayTypes
  <2>2. /\ Deactivated(registry, id) \in [Key -> KeyRecord \cup {nil}]
        /\ Deactivated(store, id) \in [Key -> KeyRecord \cup {nil}]
    BY <2>1, DeactivatedType
  <2>3. registry' \in [Key -> KeyRecord \cup {nil}] /\ store' \in [Key -> KeyRecord \cup {nil}]
    BY <1>5, <2>1, <2>2, RevokeEffect
  <2>4. authCache' \in [Key \X Merchant -> [authorized : BOOLEAN, expiresAt : Nat] \cup {nil}]
    <3>1. authCache' = authCache \/ \E p \in Key : authCache' = Flushed(p)
      BY <1>5, RevokeEffect
    <3>2. QED BY <3>1, FlushedType DEF GatewayTypes
  <2>5. UNCHANGED <<issuing, req, keyIds, clock>>
    BY <1>5, RevokeEffect
  <2>6. QED BY <2>3, <2>4, <2>5 DEF GatewayTypes
<1>6. ASSUME NEW c \in Caller, NEW ip \in Ip, NEW h \in Key \cup {nil}, NEW route \in Route,
             NEW m \in Merchant \cup {nil}, Arrive(c, ip, h, route, m)
      PROVE  GatewayTypes'
  BY <1>1, <1>6, ArriveEffect
<1>7. ASSUME NEW c \in Caller, authenticateWithPermission(c) PROVE GatewayTypes'
  BY <1>1, <1>7, AuthenticateEffect
<1>8. ASSUME NEW c \in Caller, touchKeyAsync(c) PROVE GatewayTypes'
  BY <1>1, <1>8, TouchEffect
<1>9. ASSUME NEW c \in Caller, Handle(c) PROVE GatewayTypes'
  <2>1. PICK r \in Asked \cup Answered : req' = [req EXCEPT ![c] = r]
    BY <1>9, HandleEffect
  <2>2. req' \in [Caller -> Asked \cup Answered \cup {Idle}]
    BY <2>1 DEF GatewayTypes
  <2>3. authCache' \in [Key \X Merchant -> [authorized : BOOLEAN, expiresAt : Nat] \cup {nil}]
    <3>1. \/ authCache' = authCache
          \/ \E entry \in [authorized : BOOLEAN, expiresAt : Nat] :
               authCache' = [authCache EXCEPT ![<<req[c].key, req[c].m>>] = entry]
      BY <1>9, HandleEffect
    <3>2. QED BY <3>1 DEF GatewayTypes
  <2>4. UNCHANGED <<registry, store, issuing, keyIds, clock>>
    BY <1>9, HandleEffect
  <2>5. QED BY <2>2, <2>3, <2>4 DEF GatewayTypes
<1>10. ASSUME NEW c \in Caller, getKeyIdAsync(c) PROVE GatewayTypes'
  BY <1>1, <1>10, ScopeEffect
<1>11. CASE WindowEnds \/ \E ip \in Ip : getPublicInvoice(ip)
  BY <1>11, RestEffect DEF GatewayTypes
<1>12. CASE ClockTick
  BY <1>12, TickEffect DEF GatewayTypes
<1>13. QED
  BY <1>2, <1>3, <1>4, <1>5, <1>6, <1>7, <1>8, <1>9, <1>10, <1>11, <1>12, RegisterIssues
     DEF GatewayStep

(* The steps of requests: keys, store and ids stay as they are.            *)
RequestStep(c) ==
  \/ \E ip \in Ip, h \in Key \cup {nil}, route \in Route, m \in Merchant \cup {nil} :
       Arrive(c, ip, h, route, m)
  \/ authenticateWithPermission(c) \/ touchKeyAsync(c) \/ Handle(c) \/ getKeyIdAsync(c)

LEMMA RequestStepEffect ==
  ASSUME GatewayTypes, BootedOnce, NEW c \in Caller, RequestStep(c)
  PROVE  /\ server.up
         /\ UNCHANGED <<env, server, registry, store, issuing, keyIds, clock, revoked>>
<1>1. CASE \E ip \in Ip, h \in Key \cup {nil}, route \in Route, m \in Merchant \cup {nil} :
             Arrive(c, ip, h, route, m)
  BY <1>1, ArriveEffect
<1>2. CASE authenticateWithPermission(c) \/ touchKeyAsync(c) \/ Handle(c) \/ getKeyIdAsync(c)
  <2>1. UNCHANGED <<env, server, registry, store, issuing, keyIds, clock, revoked>>
    BY <1>2, AuthenticateEffect, TouchEffect, HandleEffect, ScopeEffect
  <2>2. req[c].pc \in {"find", "touch", "handle", "scope"}
    BY <1>2, AuthenticateEffect, TouchEffect, HandleEffect, ScopeEffect
  <2>3. Idle.pc = "idle"
    BY DEF Idle
  <2>4. server.up
    BY <2>2, <2>3 DEF BootedOnce
  <2>5. QED BY <2>1, <2>4
<1>3. QED BY <1>1, <1>2 DEF RequestStep

LEMMA GatewayStepCases ==
  ASSUME GatewayStep
  PROVE  \/ startServer
         \/ \E p \in Key, m \in Merchant, g \in Grant : Issues(p, m, g.permissions, g.expires)
         \/ \E done \in BOOLEAN : persistKey(done)
         \/ \E ip \in Ip, id \in KeyId : revokeApiKey(ip, id)
         \/ \E c \in Caller : RequestStep(c)
         \/ WindowEnds \/ \E ip \in Ip : getPublicInvoice(ip)
         \/ ClockTick
BY RegisterIssues, Zenon DEF GatewayStep, RequestStep

LEMMA BootedOnceStep ==
  ASSUME GatewayTypes, BootedOnce, IssuedIsNew, GatewayStep
  PROVE  BootedOnce'
<1>1. CASE startServer
  <2>1. server' # server => server'.up
    BY <1>1, StartEffect
  <2>2. env' = nil /\ UNCHANGED <<store, authCache, issuing, req, revoked>>
    BY <1>1, StartEffect
  <2>3. server' = server => UNCHANGED <<registry, keyIds>>
    BY <1>1, StartEffect
  <2>4. QED BY <2>1, <2>2, <2>3 DEF BootedOnce
<1>2. ASSUME server.up, UNCHANGED <<env, server>> PROVE BootedOnce'
  BY <1>2 DEF BootedOnce
<1>3. ASSUME NEW p \in Key, NEW m \in Merchant, NEW g \in Grant, Issues(p, m, g.permissions, g.expires)
      PROVE  BootedOnce'
  BY <1>2, <1>3 DEF Issues
<1>4. ASSUME NEW done \in BOOLEAN, persistKey(done) PROVE BootedOnce'
  <2>1. issuing # nil /\ UNCHANGED <<env, server>>
    BY <1>4, PersistEffect
  <2>2. server.up
    BY <2>1 DEF BootedOnce
  <2>3. QED BY <1>2, <2>1, <2>2
<1>5. ASSUME NEW ip \in Ip, NEW id \in KeyId, revokeApiKey(ip, id) PROVE BootedOnce'
  BY <1>2, <1>5, RevokeEffect
<1>6. ASSUME NEW c \in Caller, RequestStep(c) PROVE BootedOnce'
  BY <1>2, <1>6, RequestStepEffect
<1>7. CASE WindowEnds \/ \E ip \in Ip : getPublicInvoice(ip)
  BY <1>7, RestEffect DEF BootedOnce
<1>8. CASE ClockTick
  BY <1>2, <1>8, TickEffect
<1>9. QED BY <1>1, <1>3, <1>4, <1>5, <1>6, <1>7, <1>8, GatewayStepCases

LEMMA RevokedInvStep ==
  ASSUME RevokedInv, GatewayStep
  PROVE  RevokedInv'
<1> USE DEF RevokedInv
<1>1. GatewayTypes' /\ BootedOnce'
  BY GatewayTypesStep, BootedOnceStep
<1>2. ASSUME UNCHANGED <<server, registry, store, issuing, keyIds, revoked>>
      PROVE  (IdsInOrder /\ IssuedIsNew /\ RevokedStaysRevoked)'
  BY <1>2 DEF IdsInOrder, IssuedIsNew, RevokedStaysRevoked, KeyOf
<1>3. CASE startServer
  <2>1. keyIds' \in Nat /\ keyIds = 0 /\ revoked' = {} /\ issuing' = nil
    BY <1>3, StartEffect DEF BootedOnce
  <2>2. \A p \in Key : store'[p] = nil /\ registry'[p] # nil => registry'[p].id <= keyIds'
    BY <1>3, StartEffect
  <2>3. \A p \in Key : store'[p] = nil
    <3>1. ~ server.up /\ store' = store
      BY <1>3, StartEffect
    <3>2. QED BY <3>1 DEF BootedOnce
  <2>4. QED BY <1>1, <2>1, <2>2, <2>3 DEF IdsInOrder, IssuedIsNew, RevokedStaysRevoked
<1>4. ASSUME NEW p \in Key, NEW m \in Merchant, NEW g \in Grant, Issues(p, m, g.permissions, g.expires)
      PROVE  (IdsInOrder /\ IssuedIsNew /\ RevokedStaysRevoked)'
  <2>1. PICK new \in KeyRecord :
           /\ new.id = keyIds + 1 /\ keyIds' = keyIds + 1
           /\ registry' = [registry EXCEPT ![p] = new]
           /\ authCache' = Flushed(p)
           /\ issuing' = (IF server.persistent THEN [key |-> p, record |-> new] ELSE nil)
    BY <1>4, IssueEffect
  <2>2. UNCHANGED <<server, store, revoked>>
    BY <1>4 DEF Issues
  <2>3. keyIds \in Nat /\ registry \in [Key -> KeyRecord \cup {nil}]
        /\ \A q \in Key : store[q] # nil => store[q].id \in Nat
    BY DEF GatewayTypes, KeyRecord
  <2>4. \A q \in Key : registry'[q] = (IF q = p THEN new ELSE registry[q])
    BY <2>1, <2>3
  <2>5. \A q \in Key : registry[q] # nil => registry[q].id \in Nat
    BY DEF GatewayTypes, KeyRecord
  <2>6. IdsInOrder'
    BY <2>1, <2>2, <2>3, <2>4, <2>5 DEF IdsInOrder
  <2>7. IssuedIsNew'
    <3>1. CASE ~ server.persistent
      BY <2>1, <2>2, <3>1 DEF IssuedIsNew
    <3>2. CASE server.persistent
      <4>1. issuing'.record = new
        BY <2>1, <3>2
      <4>2. new.id \notin revoked
        BY <2>1, <2>3 DEF IdsInOrder
      <4>3. \A q \in Key : store[q] # nil => store[q].id # new.id
        BY <2>1, <2>3 DEF IdsInOrder
      <4>4. QED BY <2>1, <2>2, <2>3, <3>2, <4>1, <4>2, <4>3 DEF IssuedIsNew
    <3>3. QED BY <3>1, <3>2
  <2>8. RevokedStaysRevoked'
    <3>1. new.id \notin revoked
      BY <2>1, <2>3 DEF IdsInOrder
    <3>2. QED BY <2>2, <2>4, <3>1 DEF RevokedStaysRevoked, KeyOf
  <2>9. QED BY <2>6, <2>7, <2>8
<1>5. ASSUME NEW done \in BOOLEAN, persistKey(done)
      PROVE  (IdsInOrder /\ IssuedIsNew /\ RevokedStaysRevoked)'
  <2>1. PICK k \in Key : k = issuing.key
    BY <1>5, PersistEffect
  <2>2. PICK rec \in KeyRecord : rec = issuing.record
    BY <1>5, PersistEffect
  <2>3. /\ issuing # nil /\ issuing' = nil
        /\ store' = store \/ store' = [store EXCEPT ![k] = rec]
        /\ registry' = [registry EXCEPT ![k] = nil]
        /\ UNCHANGED <<server, keyIds, revoked>>
    BY <1>5, <2>1, <2>2, PersistEffect
  <2>4. server.persistent /\ rec.id <= keyIds /\ rec.id \notin revoked
    BY <2>2, <2>3 DEF IssuedIsNew
  <2>5. \A q \in Key : store'[q] = store[q] \/ store'[q] = rec
    BY <2>3 DEF GatewayTypes
  <2>6. \A q \in Key : registry'[q] = nil \/ registry'[q] = registry[q]
    BY <2>3 DEF GatewayTypes
  <2>7. IdsInOrder'
    BY <2>3, <2>4, <2>5, <2>6 DEF IdsInOrder
  <2>8. RevokedStaysRevoked'
    BY <2>3, <2>4, <2>5 DEF RevokedStaysRevoked, KeyOf
  <2>9. QED BY <2>3, <2>7, <2>8 DEF IssuedIsNew
<1>6. ASSUME NEW ip \in Ip, NEW id \in KeyId, revokeApiKey(ip, id)
      PROVE  (IdsInOrder /\ IssuedIsNew /\ RevokedStaysRevoked)'
  <2>1. revoked' = revoked \cup {id} /\ UNCHANGED <<server, issuing, keyIds>> /\ id \in Nat
    BY <1>6, RevokeEffect DEF KeyId
  <2>2. ASSUME NEW keys \in [Key -> KeyRecord \cup {nil}],
               \A p \in Key : keys[p] # nil => keys[p].id <= keyIds
        PROVE  /\ \A p \in Key : Deactivated(keys, id)[p] # nil =>
                    /\ keys[p] # nil /\ Deactivated(keys, id)[p].id = keys[p].id
                    /\ keys[p].id = id => ~ Deactivated(keys, id)[p].active
                    /\ keys[p].id # id => Deactivated(keys, id)[p] = keys[p]
               /\ Named(keys, id) # {} => id <= keyIds
    BY <2>2, DeactivatedType DEF Named
  <2>3. store \in [Key -> KeyRecord \cup {nil}] /\ registry \in [Key -> KeyRecord \cup {nil}]
    BY DEF GatewayTypes
  <2>4. CASE server.persistent
    <3>1. /\ store' = Deactivated(store, id) /\ registry' = registry /\ Named(store, id) # {}
      BY <1>6, <2>4, RevokeEffect
    <3>2. /\ \A p \in Key : store'[p] # nil =>
                    /\ store[p] # nil /\ store'[p].id = store[p].id
                    /\ store[p].id = id => ~ store'[p].active
                    /\ store[p].id # id => store'[p] = store[p]
          /\ id <= keyIds
      BY <2>2, <2>3, <3>1 DEF IdsInOrder
    <3>3. issuing # nil => issuing.record.id # id
      <4>1. PICK p \in Key : store[p] # nil /\ store[p].id = id
        BY <3>1 DEF Named
      <4>2. QED BY <4>1 DEF IssuedIsNew
    <3>4. IssuedIsNew'
      BY <2>1, <3>2, <3>3 DEF IssuedIsNew
    <3>5. IdsInOrder'
      BY <2>1, <3>1, <3>2 DEF IdsInOrder
    <3>6. RevokedStaysRevoked'
      BY <2>1, <2>4, <3>2 DEF RevokedStaysRevoked, KeyOf
    <3>7. QED BY <3>4, <3>5, <3>6
  <2>5. CASE ~ server.persistent
    <3>1. /\ registry' = Deactivated(registry, id) /\ store' = store /\ Named(registry, id) # {}
      BY <1>6, <2>5, RevokeEffect
    <3>2. /\ \A p \in Key : registry'[p] # nil =>
                    /\ registry[p] # nil /\ registry'[p].id = registry[p].id
                    /\ registry[p].id = id => ~ registry'[p].active
                    /\ registry[p].id # id => registry'[p] = registry[p]
          /\ id <= keyIds
      BY <2>2, <2>3, <3>1 DEF IdsInOrder
    <3>4. IssuedIsNew'
      BY <2>1, <2>5 DEF IssuedIsNew
    <3>5. IdsInOrder'
      BY <2>1, <3>1, <3>2 DEF IdsInOrder
    <3>6. RevokedStaysRevoked'
      BY <2>1, <2>5, <3>2 DEF RevokedStaysRevoked, KeyOf
    <3>7. QED BY <3>4, <3>5, <3>6
  <2>6. QED BY <2>4, <2>5
<1>7. ASSUME NEW c \in Caller, RequestStep(c)
      PROVE  (IdsInOrder /\ IssuedIsNew /\ RevokedStaysRevoked)'
  BY <1>2, <1>7, RequestStepEffect
<1>8. CASE WindowEnds \/ \E ip \in Ip : getPublicInvoice(ip)
  BY <1>1, <1>2, <1>8, RestEffect
<1>9. CASE ClockTick
  BY <1>1, <1>2, <1>9, TickEffect
<1>10. QED BY <1>1, <1>3, <1>4, <1>5, <1>6, <1>7, <1>8, <1>9, GatewayStepCases

LEMMA RevokedInvariant == GatewaySpec => []RevokedInv
<1>1. GatewayInit => RevokedInv
  <2> SUFFICES ASSUME GatewayInit PROVE RevokedInv
    OBVIOUS
  <2>1. GatewayTypes
    BY DEF GatewayInit, GatewayTypes
  <2>2. BootedOnce
    BY DEF GatewayInit, BootedOnce
  <2>3. QED BY <2>1, <2>2 DEF GatewayInit, RevokedInv, IdsInOrder, IssuedIsNew, RevokedStaysRevoked, KeyOf
<1>2. RevokedInv /\ [GatewayNext]_gatewayVars => RevokedInv'
  <2> SUFFICES ASSUME RevokedInv, [GatewayNext]_gatewayVars PROVE RevokedInv'
    OBVIOUS
  <2>1. CASE GatewayNext
    BY <2>1, RevokedInvStep DEF GatewayNext
  <2>2. CASE UNCHANGED gatewayVars
    BY <2>2 DEF gatewayVars, RevokedInv, GatewayTypes, BootedOnce, IdsInOrder, IssuedIsNew,
                RevokedStaysRevoked, KeyOf
  <2>3. QED BY <2>1, <2>2
<1>3. QED BY <1>1, <1>2, PTL DEF GatewaySpec

(* A revoked key id never works again, for every set of keys, callers and  *)
(* limits: neither a request that had read the record before nor an issue  *)
(* on its way to the store brings it back (revokeByKeyIdAsync,             *)
(* touchKeyAsync, registerApiKeyAsync).                                    *)
THEOREM RevocationIsFinal == GatewaySpec => []RevokedStaysRevoked
<1>1. RevokedInv => RevokedStaysRevoked
  BY DEF RevokedInv
<1>2. QED BY <1>1, RevokedInvariant, PTL

(* Nobody else loses what entitled him.                                    *)
LEMMA Entitlement ==
  ASSUME Witnessed, NEW c \in Caller
  PROVE  /\ Good(c)' => c \in entitled'
         /\ c \in entitled /\ (InProgress(c) \/ req'[c] = req[c]) => c \in entitled'
BY DEF Witnessed

EntitledInv ==
  EntitledWhenGood /\ EntitledWhenCached /\ EntitledWhenScoped /\ ServedOnlyToOwner

LEMMA QuietEntitled ==
  ASSUME OwnerInv, Witnessed, req' = req,
         \A p \in Key, m \in Merchant : Grants(p, m)' => Grants(p, m)
  PROVE  EntitledInv'
<1>1. EntitledWhenGood'
  BY Entitlement DEF EntitledWhenGood
<1>2. \A c \in Caller : c \in entitled => c \in entitled'
  BY Entitlement
<1>3. ASSUME NEW c \in Caller, Authenticated(c)', req'[c].m # nil, Grants(req[c].key, req[c].m)'
      PROVE  c \in entitled'
  <2>1. Authenticated(c) /\ req[c].m # nil
    BY <1>3 DEF Authenticated
  <2>2. req[c] \in Asked
    BY <2>1, InProgressType DEF OwnerInv, Authenticated
  <2>3. req[c].key \in Key /\ req[c].m \in Merchant
    BY <2>1, <2>2 DEF Asked
  <2>4. Grants(req[c].key, req[c].m)
    BY <1>3, <2>3
  <2>5. QED BY <1>2, <2>1, <2>4 DEF OwnerInv, EntitledWhenCached
<1>4. EntitledWhenCached'
  BY <1>3 DEF EntitledWhenCached
<1>5. EntitledWhenScoped' /\ ServedOnlyToOwner'
  BY <1>2 DEF OwnerInv, EntitledWhenScoped, ServedOnlyToOwner
<1>6. QED BY <1>1, <1>4, <1>5 DEF EntitledInv

LEMMA MovedEntitled ==
  ASSUME OwnerInv, Witnessed, NEW c \in Caller, NEW r, req' = [req EXCEPT ![c] = r],
         \A p \in Key, m \in Merchant : Grants(p, m)' => Grants(p, m) \/ BoundTo(p, m),
         r.pc \in {"touch", "handle", "scope"} /\ r.m # nil /\ Grants(r.key, r.m)' => c \in entitled',
         r.pc = "scope" => c \in entitled',
         r.pc = "done" /\ r.status < 400 => c \in entitled'
  PROVE  EntitledInv'
<1>1. EntitledWhenGood'
  BY Entitlement DEF EntitledWhenGood
<1>2. req'[c] = r /\ \A d \in Caller \ {c} : req'[d] = req[d]
  BY DEF OwnerInv, GatewayTypes
<1>3. \A d \in Caller \ {c} : d \in entitled => d \in entitled'
  BY <1>2, Entitlement
<1>4. ASSUME NEW d \in Caller \ {c}, Authenticated(d)', req'[d].m # nil, Grants(req[d].key, req[d].m)'
      PROVE  d \in entitled'
  <2>1. Authenticated(d) /\ req[d].m # nil
    BY <1>2, <1>4 DEF Authenticated
  <2>2. req[d] \in Asked
    BY <2>1, InProgressType DEF OwnerInv, Authenticated
  <2>3. req[d].key \in Key /\ req[d].m \in Merchant
    BY <2>1, <2>2 DEF Asked
  <2>4. CASE Grants(req[d].key, req[d].m)
    BY <1>3, <2>1, <2>4 DEF OwnerInv, EntitledWhenCached
  <2>5. CASE BoundTo(req[d].key, req[d].m)
    <3>1. Good(d)
      BY <2>1, <2>5 DEF Good, InProgress, Authenticated
    <3>2. QED BY <1>3, <3>1 DEF OwnerInv, EntitledWhenGood
  <2>6. QED BY <1>4, <2>3, <2>4, <2>5
<1>5. EntitledWhenCached'
  <2>1. SUFFICES ASSUME NEW d \in Caller, Authenticated(d)', req'[d].m # nil,
                        Grants(req[d].key, req[d].m)' PROVE d \in entitled'
    BY DEF EntitledWhenCached
  <2>2. CASE d = c
    BY <1>2, <2>1, <2>2 DEF Authenticated, Grants
  <2>3. CASE d # c
    BY <1>4, <2>1, <2>3
  <2>4. QED BY <2>2, <2>3
<1>6. EntitledWhenScoped'
  BY <1>2, <1>3 DEF OwnerInv, EntitledWhenScoped
<1>7. ServedOnlyToOwner'
  BY <1>2, <1>3 DEF OwnerInv, ServedOnlyToOwner
<1>8. QED BY <1>1, <1>5, <1>6, <1>7 DEF EntitledInv

LEMMA CacheStep ==
  ASSUME OwnerInv, IssuedIsNew, GatewayStep
  PROVE  /\ CacheFollowsKeys'
         /\ \/ \E c \in Caller : RequestStep(c)
            \/ req' = req /\ \A p \in Key, m \in Merchant : Grants(p, m)' => Grants(p, m)
<1> USE DEF OwnerInv
<1>1. ASSUME UNCHANGED <<server, registry, authCache>>
      PROVE  CacheFollowsKeys' /\ \A p \in Key, m \in Merchant : Grants(p, m)' => Grants(p, m)
  BY <1>1 DEF CacheFollowsKeys, Grants
<1>2. CASE startServer
  <2>1. ~ server.up /\ authCache' = authCache /\ req' = req
    BY <1>2, StartEffect
  <2>2. \A p \in Key, m \in Merchant : ~ Grants(p, m)'
    BY <2>1 DEF BootedOnce, Grants
  <2>3. QED BY <2>1, <2>2 DEF CacheFollowsKeys
<1>3. ASSUME NEW p \in Key, NEW m \in Merchant, NEW g \in Grant, Issues(p, m, g.permissions, g.expires)
      PROVE  /\ CacheFollowsKeys' /\ req' = req
             /\ \A q \in Key, x \in Merchant : Grants(q, x)' => Grants(q, x)
  <2>1. PICK new \in KeyRecord : registry' = [registry EXCEPT ![p] = new] /\ authCache' = Flushed(p)
    BY <1>3, IssueEffect
  <2>2. UNCHANGED <<server, req>>
    BY <1>3 DEF Issues
  <2>3. \A q \in Key, x \in Merchant : Grants(q, x)' => q # p /\ Grants(q, x)
    BY <2>1, FlushedType DEF Grants
  <2>4. \A q \in Key \ {p} : registry'[q] = registry[q]
    BY <2>1 DEF GatewayTypes
  <2>5. QED BY <2>2, <2>3, <2>4 DEF CacheFollowsKeys
<1>4. ASSUME NEW done \in BOOLEAN, persistKey(done)
      PROVE  /\ CacheFollowsKeys' /\ req' = req
             /\ \A q \in Key, x \in Merchant : Grants(q, x)' => Grants(q, x)
  <2>1. issuing # nil /\ UNCHANGED <<server, authCache, req>>
    BY <1>4, PersistEffect
  <2>2. server.persistent
    BY <2>1 DEF IssuedIsNew
  <2>3. QED BY <2>1, <2>2 DEF CacheFollowsKeys, Grants
<1>5. ASSUME NEW ip \in Ip, NEW id \in KeyId, revokeApiKey(ip, id)
      PROVE  /\ CacheFollowsKeys' /\ req' = req
             /\ \A q \in Key, x \in Merchant : Grants(q, x)' => Grants(q, x)
  <2>1. UNCHANGED <<server, req>>
    BY <1>5, RevokeEffect
  <2>2. authCache' = authCache \/ \E p \in Key : authCache' = Flushed(p)
    BY <1>5, RevokeEffect
  <2>3. \A q \in Key, x \in Merchant : Grants(q, x)' => Grants(q, x)
    BY <2>2, FlushedType DEF Grants
  <2>4. registry \in [Key -> KeyRecord \cup {nil}]
    BY DEF GatewayTypes
  <2>5. \A q \in Key : registry'[q].merchant = registry[q].merchant
    BY <1>5, <2>4, RevokeEffect, DeactivatedType
  <2>6. QED BY <2>1, <2>3, <2>5 DEF CacheFollowsKeys
<1>6. ASSUME NEW c \in Caller, RequestStep(c) PROVE CacheFollowsKeys'
  <2>1. UNCHANGED <<server, registry>>
    BY <1>6, RequestStepEffect
  <2>2. CASE authCache' = authCache
    BY <1>1, <2>1, <2>2
  <2>3. CASE Handle(c) /\ authCache' # authCache
    <3>1. PICK entry \in [authorized : BOOLEAN, expiresAt : Nat] :
                    /\ authCache' = [authCache EXCEPT ![<<req[c].key, req[c].m>>] = entry]
                    /\ entry.authorized => BoundTo(req[c].key, req[c].m)
      BY <2>3, HandleEffect
    <3>2. req[c] \in Asked /\ req[c].m # nil /\ ~ server.persistent
      BY <2>3, HandleEffect
    <3>3. req[c].key \in Key /\ req[c].m \in Merchant
      BY <3>2 DEF Asked
    <3>4. \A p \in Key, m \in Merchant : Grants(p, m)' =>
            Grants(p, m) \/ (p = req[c].key /\ m = req[c].m /\ entry.authorized)
      BY <3>1, <3>3 DEF Grants, GatewayTypes
    <3>5. entry.authorized => registry[req[c].key].merchant = req[c].m
      BY <3>1, <3>2 DEF BoundTo, KeyOf
    <3>6. QED BY <2>1, <3>2, <3>4, <3>5 DEF CacheFollowsKeys
  <2>4. QED
    BY <1>6, <2>2, <2>3, ArriveEffect, AuthenticateEffect, TouchEffect, ScopeEffect DEF RequestStep
<1>7. CASE WindowEnds \/ \E ip \in Ip : getPublicInvoice(ip)
  BY <1>1, <1>7, RestEffect
<1>8. CASE ClockTick
  <2>1. \A p \in Key, m \in Merchant : Grants(p, m)' => Grants(p, m)
    BY <1>8, TickEffect DEF Grants
  <2>2. UNCHANGED <<server, registry, req>>
    BY <1>8, TickEffect
  <2>3. QED BY <2>1, <2>2 DEF CacheFollowsKeys
<1>9. QED BY <1>2, <1>3, <1>4, <1>5, <1>6, <1>7, <1>8, GatewayStepCases

LEMMA RequestEntitled ==
  ASSUME OwnerInv, Witnessed, NEW c \in Caller, RequestStep(c)
  PROVE  EntitledInv'
<1> USE DEF OwnerInv
<1>1. ASSUME authCache' = authCache
      PROVE  \A p \in Key, m \in Merchant : Grants(p, m)' => Grants(p, m) \/ BoundTo(p, m)
  BY <1>1 DEF Grants
<1>2. ASSUME NEW r \in Answered, r.status >= 400, req' = [req EXCEPT ![c] = r],
             \A p \in Key, m \in Merchant : Grants(p, m)' => Grants(p, m) \/ BoundTo(p, m)
      PROVE  EntitledInv'
  <2>1. r.pc = "done" /\ ~ (r.status < 400)
    BY <1>2 DEF Answered
  <2>2. QED BY <1>2, <2>1, MovedEntitled
<1>3. ASSUME NEW r \in Asked \cup Answered, c \in entitled, InProgress(c), req' = [req EXCEPT ![c] = r],
             \A p \in Key, m \in Merchant : Grants(p, m)' => Grants(p, m) \/ BoundTo(p, m)
      PROVE  EntitledInv'
  <2>1. c \in entitled'
    BY <1>3, Entitlement
  <2>2. QED BY <1>3, <2>1, MovedEntitled
<1>4. ASSUME NEW ip \in Ip, NEW h \in Key \cup {nil}, NEW route \in Route, NEW m \in Merchant \cup {nil},
             Arrive(c, ip, h, route, m)
      PROVE  EntitledInv'
  <2>1. authCache' = authCache
    BY <1>4, ArriveEffect
  <2>2. ASSUME NEW r \in Asked, r.pc = "find", req' = [req EXCEPT ![c] = r]
        PROVE  EntitledInv'
    BY <1>1, <2>1, <2>2, MovedEntitled
  <2>3. QED BY <1>1, <1>2, <1>4, <2>1, <2>2, ArriveEffect
<1>5. CASE authenticateWithPermission(c)
  <2>1. authCache' = authCache /\ req[c] \in Asked /\ req[c].pc = "find"
    BY <1>5, AuthenticateEffect
  <2>2. ASSUME ValidKey(req[c].key), NEW r \in Asked, r.pc = "touch", r.key = req[c].key,
               r.m = req[c].m, req' = [req EXCEPT ![c] = r]
        PROVE  EntitledInv'
    <3>1. ASSUME r.m # nil, Grants(r.key, r.m)' PROVE c \in entitled'
      <4>1. req[c].key \in Key /\ req[c].m \in Merchant
        BY <2>1, <2>2, <3>1 DEF Asked
      <4>2. Grants(req[c].key, req[c].m)
        BY <2>1, <2>2, <3>1 DEF Grants
      <4>3. BoundTo(req[c].key, req[c].m)
        BY <2>2, <4>1, <4>2 DEF CacheFollowsKeys, BoundTo, KeyOf
      <4>4. Good(c) /\ InProgress(c)
        BY <2>1, <2>2, <3>1, <4>3 DEF Good, InProgress
      <4>5. QED BY <4>4, Entitlement DEF EntitledWhenGood
    <3>2. QED BY <1>1, <2>1, <2>2, <3>1, MovedEntitled
  <2>3. QED BY <1>1, <1>2, <1>5, <2>1, <2>2, AuthenticateEffect
<1>6. CASE touchKeyAsync(c)
  <2>1. authCache' = authCache /\ req[c] \in Asked /\ req[c].pc = "touch"
    BY <1>6, TouchEffect
  <2>2. ASSUME NEW r \in Asked, r.pc = "handle", r.key = req[c].key,
               r.m = req[c].m, req' = [req EXCEPT ![c] = r]
        PROVE  EntitledInv'
    <3>1. ASSUME r.m # nil, Grants(r.key, r.m)' PROVE c \in entitled'
      <4>1. Authenticated(c) /\ InProgress(c) /\ req[c].m # nil /\ Grants(req[c].key, req[c].m)
        BY <2>1, <2>2, <3>1 DEF Authenticated, InProgress, Grants
      <4>2. QED BY <4>1, Entitlement DEF EntitledWhenCached
    <3>2. QED BY <1>1, <2>1, <2>2, <3>1, MovedEntitled
  <2>3. QED BY <1>1, <1>2, <1>6, <2>1, <2>2, TouchEffect
<1>7. CASE Handle(c)
  <2>1. req[c] \in Asked /\ req[c].pc = "handle"
    BY <1>7, HandleEffect
  <2>2. InProgress(c) /\ Authenticated(c)
    BY <2>1 DEF InProgress, Authenticated
  <2>3. ASSUME req[c].m # nil, isAuthorizedMerchant(req[c].key, req[c].m)
        PROVE  c \in entitled
    <3>1. CASE BoundTo(req[c].key, req[c].m)
      BY <2>2, <2>3, <3>1 DEF Good, EntitledWhenGood
    <3>2. CASE Cached(req[c].key, req[c].m) /\ authCache[<<req[c].key, req[c].m>>].authorized
      BY <2>2, <2>3, <3>2 DEF Cached, Grants, EntitledWhenCached
    <3>3. QED BY <2>3, <3>1, <3>2 DEF isAuthorizedMerchant
  <2>4. \A p \in Key, m \in Merchant : Grants(p, m)' => Grants(p, m) \/ BoundTo(p, m)
    <3>1. CASE authCache' = authCache
      BY <1>1, <3>1
    <3>2. CASE authCache' # authCache
      <4>1. PICK entry \in [authorized : BOOLEAN, expiresAt : Nat] :
                    /\ authCache' = [authCache EXCEPT ![<<req[c].key, req[c].m>>] = entry]
                    /\ entry.authorized => BoundTo(req[c].key, req[c].m)
        BY <1>7, <3>2, HandleEffect
      <4>2. req[c].key \in Key /\ req[c].m \in Merchant
        BY <1>7, <2>1, <3>2, HandleEffect DEF Asked
      <4>3. \A p \in Key, m \in Merchant : Grants(p, m)' =>
            Grants(p, m) \/ (p = req[c].key /\ m = req[c].m /\ entry.authorized)
        BY <4>1, <4>2 DEF Grants, GatewayTypes
      <4>4. QED BY <4>1, <4>3
    <3>3. QED BY <3>1, <3>2
  <2>5. QED BY <1>2, <1>3, <1>7, <2>2, <2>3, <2>4, HandleEffect
<1>8. CASE getKeyIdAsync(c)
  <2>1. authCache' = authCache /\ req[c].pc = "scope"
    BY <1>8, ScopeEffect
  <2>2. c \in entitled /\ InProgress(c)
    BY <2>1 DEF EntitledWhenScoped, InProgress
  <2>3. PICK r \in Answered : req' = [req EXCEPT ![c] = r]
    BY <1>8, ScopeEffect
  <2>4. QED BY <1>1, <1>3, <2>1, <2>2, <2>3
<1>9. QED BY <1>4, <1>5, <1>6, <1>7, <1>8 DEF RequestStep

(* The data of an invoice goes only to a request whose key was valid and   *)
(* bound to its merchant at some moment of that request, for every set of  *)
(* keys, merchants and callers, every limit and lifetime of the cache      *)
(* (isAuthorizedMerchantAsync, _invalidateCacheForKey).                    *)
THEOREM OnlyOwnersServed == GatewaySpec => []ServedOnlyToOwner
<1>1. GatewayInit => OwnerInv
  <2> SUFFICES ASSUME GatewayInit PROVE OwnerInv
    OBVIOUS
  <2>1. GatewayTypes
    BY DEF GatewayInit, GatewayTypes
  <2>2. BootedOnce
    BY DEF GatewayInit, BootedOnce
  <2>3. \A c \in Caller : req[c].pc = "idle"
    BY DEF GatewayInit, Idle
  <2>4. \A p \in Key, m \in Merchant : ~ Grants(p, m)
    BY DEF GatewayInit, Grants
  <2>5. QED BY <2>1, <2>2, <2>3, <2>4 DEF OwnerInv, CacheFollowsKeys, EntitledWhenGood, Good, InProgress,
               EntitledWhenCached, EntitledWhenScoped, ServedOnlyToOwner, Authenticated
<1>2. OwnerInv /\ RevokedInv /\ [GatewayNext]_gatewayVars => OwnerInv'
  <2> SUFFICES ASSUME OwnerInv, RevokedInv, [GatewayNext]_gatewayVars PROVE OwnerInv'
    OBVIOUS
  <2>1. CASE GatewayNext
    <3>1. GatewayStep /\ Witnessed /\ IssuedIsNew
      BY <2>1 DEF GatewayNext, RevokedInv
    <3>2. GatewayTypes' /\ BootedOnce'
      BY <3>1, GatewayTypesStep, BootedOnceStep DEF OwnerInv
    <3>3. CacheFollowsKeys' /\ EntitledInv'
      BY <3>1, CacheStep, QuietEntitled, RequestEntitled
    <3>4. QED BY <3>2, <3>3 DEF OwnerInv, EntitledInv
  <2>2. CASE UNCHANGED gatewayVars
    BY <2>2 DEF gatewayVars, OwnerInv, GatewayTypes, BootedOnce, CacheFollowsKeys, Grants,
       EntitledWhenGood, Good, InProgress, BoundTo, ValidKey, KeyOf, Unexpired,
       EntitledWhenCached, EntitledWhenScoped, ServedOnlyToOwner, Authenticated
  <2>3. QED BY <2>1, <2>2
<1>3. OwnerInv => ServedOnlyToOwner
  BY DEF OwnerInv
<1>4. QED BY <1>1, <1>2, <1>3, RevokedInvariant, PTL DEF GatewaySpec

-----------------------------------------------------------------------------
(* Webhooks. A request on the wire carries the digest of its own time and body. The  *)
(* property alone is not inductive: that a digest fits a header says when  *)
(* it was computed only because of this.                                   *)
SignedByService(m) ==
  /\ m.header.t \in Nat
  /\ \E s : m.header.v1 = <<s, m.header.t, m.body>>

WireInv ==
  /\ time \in Nat
  /\ \A m \in wire : SignedByService(m)
  /\ AcceptedIsGenuine

LEMMA WireInitInv == WebhookInit => WireInv
BY DEF WebhookInit, WireInv, AcceptedIsGenuine

(* Each of the three verifications asks for a fresh header whose digest    *)
(* fits the secret, its time and the body.                                 *)
LEMMA VerifiedHeader ==
  ASSUME NEW s, NEW b, NEW t, NEW v1,
         \/ verifyWebhook(s, b, [t |-> t, v1 |-> v1])
         \/ verifyWebhookSignature(s, b, [t |-> t, v1 |-> v1])
         \/ verify_webhook(s, b, [t |-> t, v1 |-> v1])
  PROVE  v1 # none /\ v1 = <<s, t, b>> /\ Distance(time, t) <= Tolerance
<1> DEFINE header == [t |-> t, v1 |-> v1]
           parsed == parseSignatureHeader(header)
<1>1. /\ parsed # none /\ Distance(time, parsed.t) <= Tolerance
      /\ parsed.v1 = <<s, parsed.t, b>>
  BY DEF verifyWebhook, verifyWebhookSignature, verify_webhook, Fresh,
         computeSignature, computeWebhookSignature, compute_signature
<1>2. header.t = t /\ header.v1 = v1
  OBVIOUS
<1>3. parsed = header /\ header.v1 # none
  BY <1>1 DEF parseSignatureHeader
<1>4. QED BY <1>1, <1>2, <1>3

LEMMA ReceiveInv ==
  ASSUME WireInv, NEW s, NEW b, NEW t \in 0 .. MaxTime,
         NEW v1 \in {m.header.v1 : m \in wire} \cup {none},
         Receive(s, b, [t |-> t, v1 |-> v1])
  PROVE  WireInv'
<1>1. v1 # none /\ v1 = <<s, t, b>> /\ Distance(time, t) <= Tolerance
  BY VerifiedHeader DEF Receive
<1>2. PICK m \in wire : m.header.v1 = v1
  BY <1>1
<1>3. m.header.t \in Nat /\ m.header.v1 = <<s, t, b>>
      /\ \E x : m.header.v1 = <<x, m.header.t, m.body>>
  BY <1>1, <1>2 DEF WireInv, SignedByService
<1>4. m.header.t = t /\ m.body = b /\ m.header.v1[1] = s
  BY <1>3
<1>5. time <= t + Tolerance
  BY <1>1, WebhookAssumption DEF WireInv, Distance
<1>6. /\ accepted' = [secret |-> s, body |-> b, at |-> time]
      /\ wire' = wire /\ time' = time
  BY DEF Receive
<1>7. accepted'.secret = s /\ accepted'.body = b /\ accepted'.at = time
  BY <1>6
<1>8. AcceptedIsGenuine'
  BY <1>4, <1>5, <1>6, <1>7 DEF AcceptedIsGenuine
<1>9. QED BY <1>6, <1>8 DEF WireInv, SignedByService

LEMMA SendInv ==
  ASSUME WireInv, NEW d \in Delivery, Send(d)
  PROVE  WireInv'
<1> DEFINE c == call[d]
           plain == endpoints[c.e].secret_encrypted.plain
           m == [e |-> c.e, body |-> c.body, header |-> signWebhook(plain, c.body, time)]
<1>1. /\ time' = time /\ accepted' = accepted
      /\ wire' = wire \/ wire' = wire \cup {m}
  BY DEF Send
<1>2. /\ m.body = c.body /\ m.header.t = time
      /\ m.header.v1 = <<plain, time, c.body>>
  BY DEF signWebhook, computeSignature
<1>3. SignedByService(m)
  BY <1>2 DEF SignedByService, WireInv
<1> HIDE DEF m
<1>4. \A x \in wire' : SignedByService(x)
  BY <1>1, <1>3 DEF WireInv
<1>5. AcceptedIsGenuine'
  BY <1>1 DEF WireInv, AcceptedIsGenuine
<1>6. QED BY <1>1, <1>4, <1>5 DEF WireInv, SignedByService

LEMMA WireStepInv == WireInv /\ [WebhookNext]_webhookVars => WireInv'
<1> SUFFICES ASSUME WireInv, [WebhookNext]_webhookVars PROVE WireInv'
  OBVIOUS
<1>1. ASSUME UNCHANGED <<wire, accepted>>, time' \in Nat
      PROVE  WireInv'
  BY <1>1 DEF WireInv, SignedByService, AcceptedIsGenuine
<1>2. time \in Nat
  BY DEF WireInv
<1>3. ASSUME NEW d \in Delivery, NEW e \in Endpoint, NEW url, NEW s, register(d, e, url, s)
      PROVE  WireInv'
  BY <1>1, <1>2, <1>3 DEF register
<1>4. ASSUME NEW d \in Delivery, NEW e \in Endpoint, NEW b, deliver(d, e, b)
      PROVE  WireInv'
  BY <1>1, <1>2, <1>4 DEF deliver
<1>5. ASSUME NEW d \in Delivery, Registered(d) \/ Send(d) \/ Settle(d)
      PROVE  WireInv'
  <2>1. CASE Registered(d)
    BY <1>1, <1>2, <2>1 DEF Registered
  <2>2. CASE Send(d)
    BY <2>2, SendInv
  <2>3. CASE Settle(d)
    BY <1>1, <1>2, <2>3 DEF Settle
  <2>4. QED BY <1>5, <2>1, <2>2, <2>3
<1>6. ASSUME NEW e \in Endpoint, deactivate(e) PROVE WireInv'
  BY <1>1, <1>2, <1>6 DEF deactivate
<1>7. ASSUME NEW k \in CipherKey, RestartService(k) PROVE WireInv'
  BY <1>1, <1>2, <1>7 DEF RestartService
<1>8. ASSUME NEW h \in Host, NEW ips, Resolve(h, ips) PROVE WireInv'
  BY <1>1, <1>2, <1>8 DEF Resolve
<1>9. CASE SecondPasses
  BY <1>1, <1>2, <1>9 DEF SecondPasses
<1>10. CASE UNCHANGED webhookVars
  BY <1>1, <1>2, <1>10 DEF webhookVars
<1>11. QED BY <1>3, <1>4, <1>5, <1>6, <1>7, <1>8, <1>9, <1>10, ReceiveInv DEF WebhookNext

(* Through restarts, other encryption keys, late copies and headers put    *)
(* together anew, an SDK only accepts a body the service has signed with   *)
(* that secret no longer than the tolerance ago (signWebhook,              *)
(* verifyWebhookSignature and the verification of both SDKs).              *)
THEOREM OnlyGenuineAccepted == WebhookSpec => []AcceptedIsGenuine
<1>1. WireInv => AcceptedIsGenuine
  BY DEF WireInv
<1>2. QED BY WireInitInv, WireStepInv, <1>1, PTL DEF WebhookSpec

-----------------------------------------------------------------------------
(* The lending adapter. The chain only grows, and a call holds blocks that *)
(* were fresh when it took them and that prove what it has found so far.   *)
ChainTyped ==
  /\ chain \in Seq(ChainState) /\ observed \in Seq(Nat) /\ Len(observed) = Len(chain)
  /\ Len(chain) > 0 /\ instant \in Nat

FreshFor(b, t) == b \in 1 .. Len(chain) /\ observed[b] + MaxSnapshotAge >= t
IdentityShown(b, owner) == isValidIdentity(chain[b], owner)

Underway ==
  [pc : {"malformed", "snapshot", "account", "signal"}, kind : Inquiry,
   leg : {"identity", "collateral"}, owner : Owner \cup {Nobody}, signalId : BOOLEAN,
   identityBlock : Nat, block : Nat, nftAddress : Item, askedAt : Nat]

InquiryInv ==
  At("idle") \/
    /\ inquiry \in Underway
    /\ inquiry.askedAt <= instant
    /\ inquiry.kind # "identity" => inquiry.owner = Nobody
    /\ inquiry.kind = "collateral" => inquiry.leg = "collateral"
    /\ inquiry.kind \in {"identity", "metadata"} => inquiry.leg = "identity"
    /\ inquiry.identityBlock # 0 =>
         FreshFor(inquiry.identityBlock, inquiry.askedAt) /\ IdentityShown(inquiry.identityBlock, Nobody)
    /\ inquiry.pc \in {"account", "signal"} => FreshFor(inquiry.block, inquiry.askedAt)
    /\ inquiry.pc = "signal" =>
         /\ inquiry.leg = "collateral" /\ IdentityShown(inquiry.block, Nobody)
         /\ inquiry.nftAddress = chain[inquiry.block].nftAddress

(* An answer names blocks of the chain.                                    *)
SignalShown(b) ==
  /\ isValidIdentity(chain[b], Nobody)
  /\ chain[b].signal.isActive /\ chain[b].signal.nftAddress = chain[b].nftAddress
AnswerInv ==
  /\ answer.identityBlock # 0 =>
       FreshFor(answer.identityBlock, answer.askedAt) /\ IdentityShown(answer.identityBlock, answer.owner)
  /\ answer.collateralBlock # 0 =>
       FreshFor(answer.collateralBlock, answer.askedAt) /\ SignalShown(answer.collateralBlock)

LendingInv == ChainTyped /\ InquiryInv /\ AnswerInv

(* What a call shows stays shown: blocks never change.                     *)
LEMMA ChainGrows ==
  ASSUME LendingInv, NewBlock
  PROVE  /\ ChainTyped'
         /\ Len(chain') = Len(chain) + 1
         /\ \A b \in 1 .. Len(chain) : chain'[b] = chain[b] /\ observed'[b] = observed[b]
<1>1. PICK s \in ChainState : chain' = Append(chain, s)
  BY DEF NewBlock
<1>2. observed' = Append(observed, instant) /\ instant' = instant
  BY DEF NewBlock
<1>3. QED BY <1>1, <1>2 DEF LendingInv, ChainTyped

LEMMA StillShown ==
  ASSUME ChainTyped, Len(chain') >= Len(chain), Len(chain') \in Nat,
         \A b \in 1 .. Len(chain) : chain'[b] = chain[b] /\ observed'[b] = observed[b],
         NEW b, NEW t, FreshFor(b, t)
  PROVE  /\ FreshFor(b, t)' /\ chain'[b] = chain[b]
         /\ \A o : IdentityShown(b, o) => IdentityShown(b, o)'
         /\ SignalShown(b) => SignalShown(b)'
<1>1. b \in 1 .. Len(chain) /\ b \in 1 .. Len(chain') /\ chain'[b] = chain[b] /\ observed'[b] = observed[b]
  BY DEF FreshFor, ChainTyped
<1>2. QED BY <1>1 DEF FreshFor, IdentityShown, SignalShown, isValidIdentity

LEMMA ChainStepInv ==
  ASSUME LendingInv, NewBlock \/ PassClock
  PROVE  LendingInv'
<1>1. UNCHANGED <<inquiry, answer>>
  BY DEF NewBlock, PassClock
<1>2. /\ ChainTyped' /\ Len(chain') >= Len(chain) /\ Len(chain') \in Nat /\ instant' >= instant
      /\ \A b \in 1 .. Len(chain) : chain'[b] = chain[b] /\ observed'[b] = observed[b]
  <2>1. CASE NewBlock
    BY <2>1, ChainGrows DEF LendingInv, ChainTyped, NewBlock
  <2>2. CASE PassClock
    BY <2>2 DEF PassClock, LendingInv, ChainTyped
  <2>3. QED BY <2>1, <2>2
<1>3. ASSUME NEW b, NEW t, FreshFor(b, t)
      PROVE  /\ FreshFor(b, t)' /\ chain'[b] = chain[b]
             /\ \A o : IdentityShown(b, o) => IdentityShown(b, o)'
             /\ SignalShown(b) => SignalShown(b)'
  BY <1>2, <1>3, StillShown DEF LendingInv
<1>4. InquiryInv'
  <2>1. CASE At("idle")
    BY <1>1, <2>1 DEF InquiryInv, At
  <2>2. CASE ~ At("idle")
    <3>1. inquiry \in Underway /\ inquiry.askedAt \in Nat /\ inquiry.askedAt <= instant
      BY <2>2 DEF LendingInv, InquiryInv, Underway
    <3>2. inquiry.askedAt <= instant'
      BY <1>2, <3>1 DEF LendingInv, ChainTyped
    <3>3. inquiry.identityBlock # 0 =>
            /\ FreshFor(inquiry.identityBlock, inquiry.askedAt)'
            /\ IdentityShown(inquiry.identityBlock, Nobody)'
      BY <1>1, <1>3, <2>2 DEF LendingInv, InquiryInv
    <3>4. inquiry.pc \in {"account", "signal"} => FreshFor(inquiry.block, inquiry.askedAt)'
      BY <1>1, <1>3, <2>2 DEF LendingInv, InquiryInv
    <3>5. inquiry.pc = "signal" =>
            /\ IdentityShown(inquiry.block, Nobody)'
            /\ inquiry.nftAddress = chain'[inquiry.block].nftAddress
      <4> SUFFICES ASSUME inquiry.pc = "signal"
                   PROVE  /\ IdentityShown(inquiry.block, Nobody)'
                          /\ inquiry.nftAddress = chain'[inquiry.block].nftAddress
        OBVIOUS
      <4>1. FreshFor(inquiry.block, inquiry.askedAt) /\ IdentityShown(inquiry.block, Nobody)
            /\ inquiry.nftAddress = chain[inquiry.block].nftAddress
        BY <2>2 DEF LendingInv, InquiryInv
      <4>2. QED BY <1>1, <1>3, <4>1
    <3>6. QED BY <1>1, <2>2, <3>1, <3>2, <3>3, <3>4, <3>5 DEF LendingInv, InquiryInv
  <2>3. QED BY <2>1, <2>2
<1>5. AnswerInv'
  <2>1. answer.identityBlock # 0 =>
         FreshFor(answer.identityBlock, answer.askedAt)' /\ IdentityShown(answer.identityBlock, answer.owner)'
    BY <1>1, <1>3 DEF LendingInv, AnswerInv
  <2>2. answer.collateralBlock # 0 =>
         FreshFor(answer.collateralBlock, answer.askedAt)' /\ SignalShown(answer.collateralBlock)'
    BY <1>1, <1>3 DEF LendingInv, AnswerInv
  <2>3. QED BY <1>1, <2>1, <2>2 DEF AnswerInv
<1>6. QED BY <1>2, <1>4, <1>5 DEF LendingInv

(* A call that ends answers with blocks that show what it says.            *)
LEMMA FinishInv ==
  ASSUME LendingInv, ~ At("idle"), NEW status, NEW i, NEW c, Finish(status, i, c),
         i # 0 => FreshFor(i, inquiry.askedAt) /\ IdentityShown(i, inquiry.owner),
         c # 0 => FreshFor(c, inquiry.askedAt) /\ SignalShown(c)
  PROVE  LendingInv'
<1>1. /\ UNCHANGED <<chain, observed, instant>> /\ inquiry'.pc = "idle"
      /\ answer'.identityBlock = i /\ answer'.collateralBlock = c
      /\ answer'.owner = inquiry.owner /\ answer'.askedAt = inquiry.askedAt
  BY DEF Finish, NoInquiry
<1>2. ChainTyped' /\ InquiryInv'
  BY <1>1 DEF LendingInv, ChainTyped, InquiryInv, At
<1>3. \A b, t : FreshFor(b, t) => FreshFor(b, t)'
  BY <1>1 DEF FreshFor
<1>4. \A b, o : IdentityShown(b, o) => IdentityShown(b, o)'
  BY <1>1 DEF IdentityShown, isValidIdentity
<1>5. \A b : SignalShown(b) => SignalShown(b)'
  BY <1>1 DEF SignalShown, isValidIdentity
<1>6. AnswerInv'
  BY <1>1, <1>3, <1>4, <1>5 DEF AnswerInv
<1>7. QED BY <1>2, <1>6 DEF LendingInv

LEMMA ContinueInv ==
  ASSUME LendingInv, NEW next, Continue(next), InquiryInv'
  PROVE  LendingInv'
<1>1. UNCHANGED <<chain, observed, instant, answer>>
  BY DEF Continue
<1>2. ChainTyped'
  BY <1>1 DEF LendingInv, ChainTyped
<1>3. AnswerInv'
  BY <1>1 DEF LendingInv, AnswerInv, FreshFor, IdentityShown, SignalShown, isValidIdentity
<1>4. QED BY <1>2, <1>3 DEF LendingInv

(* The identity leg ends: verified only at a block that shows it.          *)
LEMMA EndIdentityInv ==
  ASSUME LendingInv, inquiry \in Underway, inquiry.leg = "identity",
         NEW status, NEW block \in Nat, EndIdentity(status, block),
         status = "verified" =>
           FreshFor(block, inquiry.askedAt) /\ IdentityShown(block, inquiry.owner)
  PROVE  LendingInv'
<1>1. ~ At("idle") /\ InquiryInv
  BY DEF Underway, At, LendingInv
<1>2. CASE inquiry.kind = "intent" /\ status = "verified" /\ inquiry.signalId
  <2>1. PICK next : next = [inquiry EXCEPT !.pc = "snapshot", !.leg = "collateral", !.identityBlock = block]
    OBVIOUS
  <2>2. Continue(next)
    BY <1>2, <2>1 DEF EndIdentity
  <2>3. /\ next \in Underway /\ next.pc = "snapshot" /\ next.leg = "collateral" /\ next.identityBlock = block
        /\ next.kind = inquiry.kind /\ next.owner = inquiry.owner /\ next.askedAt = inquiry.askedAt
    BY <2>1 DEF Underway
  <2>4. /\ inquiry' = next /\ UNCHANGED <<chain, observed, instant>>
    BY <2>2 DEF Continue
  <2>5. FreshFor(block, inquiry.askedAt)' /\ IdentityShown(block, Nobody)'
    <3>1. inquiry.owner = Nobody
      BY <1>1, <1>2 DEF InquiryInv
    <3>2. FreshFor(block, inquiry.askedAt) /\ IdentityShown(block, Nobody)
      BY <1>2, <3>1
    <3>3. QED BY <2>3, <2>4, <3>2 DEF FreshFor, IdentityShown, isValidIdentity
  <2>6. next.askedAt <= instant' /\ next.owner = Nobody
    BY <1>1, <1>2, <2>3, <2>4 DEF InquiryInv
  <2>7. InquiryInv'
    BY <1>2, <2>3, <2>4, <2>5, <2>6 DEF InquiryInv
  <2>8. QED BY <2>2, <2>7, ContinueInv
<1>3. CASE ~ (inquiry.kind = "intent" /\ status = "verified" /\ inquiry.signalId)
  <2>1. PICK s, i : /\ Finish(s, i, 0)
                    /\ i = (IF status = "verified" /\ inquiry.kind # "metadata" THEN block ELSE 0)
    BY <1>3 DEF EndIdentity
  <2>2. i # 0 => FreshFor(i, inquiry.askedAt) /\ IdentityShown(i, inquiry.owner)
    BY <2>1
  <2>3. QED BY <1>1, <2>1, <2>2, FinishInv
<1>4. QED BY <1>2, <1>3

LEMMA EndCollateralInv ==
  ASSUME LendingInv, inquiry \in Underway, inquiry.leg = "collateral",
         NEW status, NEW block, EndCollateral(status, block),
         status = "verified" => FreshFor(block, inquiry.askedAt) /\ SignalShown(block)
  PROVE  LendingInv'
<1>1. ~ At("idle") /\ InquiryInv
  BY DEF Underway, At, LendingInv
<1>2. PICK s, i, c :
        /\ Finish(s, i, c)
        /\ i = (IF inquiry.kind = "intent" THEN inquiry.identityBlock
                ELSE IF status = "verified" THEN block ELSE 0)
        /\ c = (IF status = "verified" THEN block ELSE 0)
  BY DEF EndCollateral
<1>3. c # 0 => FreshFor(c, inquiry.askedAt) /\ SignalShown(c)
  BY <1>2
<1>4. inquiry.owner = Nobody
  <2>1. inquiry.kind \notin {"identity", "metadata"} /\ inquiry.kind \in Inquiry
    BY <1>1 DEF InquiryInv, Underway
  <2>2. QED BY <1>1, <2>1 DEF InquiryInv
<1>5. i # 0 => FreshFor(i, inquiry.askedAt) /\ IdentityShown(i, inquiry.owner)
  <2>1. CASE inquiry.kind = "intent"
    BY <1>1, <1>2, <1>4, <2>1 DEF InquiryInv
  <2>2. CASE inquiry.kind # "intent"
    BY <1>2, <1>4, <2>2 DEF SignalShown, IdentityShown
  <2>3. QED BY <2>1, <2>2
<1>6. QED BY <1>1, <1>2, <1>3, <1>5, FinishInv

LEMMA StartInv ==
  ASSUME LendingInv, NEW kind \in Inquiry, NEW wellFormed \in BOOLEAN, NEW signalId \in BOOLEAN,
         NEW owner \in Owner \cup {Nobody}, Start(kind, wellFormed, owner, signalId)
  PROVE  LendingInv'
<1>1. PICK next : next =
        [pc |-> IF wellFormed THEN "snapshot" ELSE "malformed", kind |-> kind,
         leg |-> IF kind = "collateral" THEN "collateral" ELSE "identity",
         owner |-> owner, signalId |-> signalId, identityBlock |-> 0,
         block |-> 0, nftAddress |-> "item", askedAt |-> instant]
  OBVIOUS
<1>2. /\ inquiry' = next /\ answer' = NoAnswer /\ UNCHANGED <<chain, observed, instant>>
      /\ kind # "identity" => owner = Nobody
  BY <1>1 DEF Start
<1>3. instant \in Nat
  BY DEF LendingInv, ChainTyped
<1>4. /\ next \in Underway /\ next.kind = kind /\ next.owner = owner /\ next.identityBlock = 0
      /\ next.askedAt = instant /\ next.pc \in {"snapshot", "malformed"}
      /\ next.leg = (IF kind = "collateral" THEN "collateral" ELSE "identity")
  BY <1>1, <1>3 DEF Underway, Item
<1>5. InquiryInv'
  BY <1>2, <1>3, <1>4 DEF InquiryInv
<1>6. AnswerInv'
  BY <1>2 DEF AnswerInv, NoAnswer
<1>7. ChainTyped'
  BY <1>2 DEF LendingInv, ChainTyped
<1>8. QED BY <1>5, <1>6, <1>7 DEF LendingInv

(* Every step of a call.                                                   *)
LEMMA ReadInv ==
  ASSUME LendingInv, inquiry \in Underway,
         \/ isValidNFTAccountId \/ getUsableSnapshot
         \/ resolveBorrowerIdentity \/ resolveBorrowerIdentityAtSnapshot \/ verifyCollateralSignal
  PROVE  LendingInv'
<1>1. InquiryInv /\ ChainTyped /\ ~ At("idle")
  BY DEF LendingInv, Underway, At
<1>2. inquiry.leg \in {"identity", "collateral"} /\ inquiry.askedAt \in Nat /\ inquiry.block \in Nat
  BY DEF Underway
<1>3. CASE isValidNFTAccountId
  <2>1. PICK s : Finish(s, 0, 0)
    BY <1>3 DEF isValidNFTAccountId
  <2>2. QED BY <1>1, <2>1, FinishInv
<1>4. CASE getUsableSnapshot
  <2>1. ASSUME EndLeg("unavailable", 0) PROVE LendingInv'
    BY <1>2, <2>1, EndIdentityInv, EndCollateralInv DEF EndLeg
  <2>2. ASSUME NEW b \in DOMAIN chain, usableSnapshot(b),
               Continue([inquiry EXCEPT !.pc = "account", !.block = b])
        PROVE  LendingInv'
    <3>1. PICK next : next = [inquiry EXCEPT !.pc = "account", !.block = b]
      OBVIOUS
    <3>2. inquiry' = next /\ UNCHANGED <<chain, observed, instant, answer>>
      BY <2>2, <3>1 DEF Continue
    <3>3. b \in 1 .. Len(chain) /\ b \in Nat
      BY <1>1, <2>2 DEF ChainTyped
    <3>4. /\ next \in Underway /\ next.pc = "account" /\ next.block = b
          /\ next.identityBlock = inquiry.identityBlock /\ next.kind = inquiry.kind
          /\ next.owner = inquiry.owner /\ next.askedAt = inquiry.askedAt /\ next.leg = inquiry.leg
      BY <3>1, <3>3 DEF Underway
    <3>5. observed[b] \in Nat /\ instant \in Nat
      BY <1>1, <3>3 DEF ChainTyped
    <3>6. FreshFor(b, inquiry.askedAt)
      <4>1. inquiry.askedAt <= instant
        BY <1>1 DEF InquiryInv
      <4>2. QED BY <1>2, <2>2, <3>3, <3>5, <4>1, LendingAssumption DEF usableSnapshot, FreshFor
    <3>7. (\A x, t : FreshFor(x, t)' <=> FreshFor(x, t))
          /\ \A x, o : IdentityShown(x, o)' <=> IdentityShown(x, o)
      BY <3>2 DEF FreshFor, IdentityShown, isValidIdentity
    <3>8. FreshFor(next.block, next.askedAt)'
      BY <3>2, <3>4, <3>6, <3>7 DEF FreshFor
    <3>9. InquiryInv'
      BY <1>1, <3>2, <3>4, <3>6, <3>7 DEF InquiryInv
    <3>10. QED BY <2>2, <3>9, ContinueInv
  <2>3. QED BY <1>4, <2>1, <2>2 DEF getUsableSnapshot
<1>5. CASE resolveBorrowerIdentity
  <2>1. inquiry.leg = "identity" /\ FreshFor(inquiry.block, inquiry.askedAt)
    BY <1>1, <1>5 DEF resolveBorrowerIdentity, InquiryInv, At
  <2>2. PICK status, b :
          /\ b \in Nat /\ EndIdentity(status, b)
          /\ status = "verified" => b = inquiry.block /\ IdentityShown(b, inquiry.owner)
    <3>1. CASE EndIdentity("unavailable", 0)
      BY <3>1
    <3>2. CASE EndIdentity(IF isValidIdentity(chain[inquiry.block], inquiry.owner) THEN "verified"
                           ELSE "unverified", inquiry.block)
      <4>1. CASE isValidIdentity(chain[inquiry.block], inquiry.owner)
        BY <1>2, <3>2, <4>1 DEF IdentityShown
      <4>2. CASE ~ isValidIdentity(chain[inquiry.block], inquiry.owner)
        <5>1. EndIdentity("unverified", inquiry.block)
          BY <3>2, <4>2
        <5>2. QED BY <1>2, <5>1
      <4>3. QED BY <4>1, <4>2
    <3>3. QED BY <1>5, <3>1, <3>2 DEF resolveBorrowerIdentity
  <2>3. QED BY <2>1, <2>2, EndIdentityInv
<1>6. CASE resolveBorrowerIdentityAtSnapshot
  <2>1. inquiry.leg = "collateral" /\ FreshFor(inquiry.block, inquiry.askedAt)
    BY <1>1, <1>6 DEF resolveBorrowerIdentityAtSnapshot, InquiryInv, At
  <2>2. ASSUME EndCollateral("unverified", inquiry.block) \/ EndCollateral("unavailable", inquiry.block)
        PROVE  LendingInv'
    BY <2>1, <2>2, EndCollateralInv
  <2>3. ASSUME isValidIdentity(chain[inquiry.block], Nobody),
               Continue([inquiry EXCEPT !.pc = "signal", !.nftAddress = chain[inquiry.block].nftAddress])
        PROVE  LendingInv'
    <3>1. PICK next : next = [inquiry EXCEPT !.pc = "signal", !.nftAddress = chain[inquiry.block].nftAddress]
      OBVIOUS
    <3>2. inquiry' = next /\ UNCHANGED <<chain, observed, instant, answer>>
      BY <2>3, <3>1 DEF Continue
    <3>3. chain[inquiry.block].nftAddress \in Item
      <4>1. chain[inquiry.block] \in ChainState
        BY <1>1, <2>1 DEF ChainTyped, FreshFor
      <4>2. QED BY <4>1 DEF ChainState
    <3>4. /\ next \in Underway /\ next.pc = "signal" /\ next.block = inquiry.block
          /\ next.nftAddress = chain[inquiry.block].nftAddress
          /\ next.identityBlock = inquiry.identityBlock /\ next.kind = inquiry.kind
          /\ next.owner = inquiry.owner /\ next.askedAt = inquiry.askedAt /\ next.leg = inquiry.leg
      BY <3>1, <3>3 DEF Underway
    <3>7. (\A x, t : FreshFor(x, t)' <=> FreshFor(x, t))
          /\ \A x, o : IdentityShown(x, o)' <=> IdentityShown(x, o)
      BY <3>2 DEF FreshFor, IdentityShown, isValidIdentity
    <3>8. IdentityShown(inquiry.block, Nobody)
      BY <2>3 DEF IdentityShown
    <3>9. InquiryInv'
      BY <1>1, <2>1, <3>2, <3>4, <3>7, <3>8 DEF InquiryInv
    <3>10. QED BY <2>3, <3>9, ContinueInv
  <2>4. QED BY <1>6, <2>2, <2>3 DEF resolveBorrowerIdentityAtSnapshot
<1>7. CASE verifyCollateralSignal
  <2>1. /\ inquiry.leg = "collateral" /\ FreshFor(inquiry.block, inquiry.askedAt)
        /\ IdentityShown(inquiry.block, Nobody) /\ inquiry.nftAddress = chain[inquiry.block].nftAddress
    BY <1>1, <1>7 DEF verifyCollateralSignal, InquiryInv, At
  <2>2. PICK status :
          /\ EndCollateral(status, inquiry.block)
          /\ status = "verified" => isValidSignal(chain[inquiry.block].signal, inquiry.nftAddress)
    BY <1>7 DEF verifyCollateralSignal
  <2>3. status = "verified" => SignalShown(inquiry.block)
    BY <2>1, <2>2 DEF isValidSignal, SignalShown, IdentityShown
  <2>4. QED BY <2>1, <2>2, <2>3, EndCollateralInv
<1>8. QED BY <1>3, <1>4, <1>5, <1>6, <1>7

(* What an answer verifies was true of the chain at one block that was not *)
(* too old when it was asked for: for every set of owners, any chain and   *)
(* any age (verifyCollateralSignal, getUsableSnapshot).                    *)
THEOREM AnswersHoldAtBlock == LendingSpec => []VerifiedAtBlock
<1>1. LendingInit => LendingInv
  <2> SUFFICES ASSUME LendingInit PROVE LendingInv
    OBVIOUS
  <2>1. PICK s \in ChainState : chain = <<s>>
    BY DEF LendingInit
  <2>2. ChainTyped
    BY <2>1 DEF LendingInit, ChainTyped
  <2>3. InquiryInv /\ AnswerInv
    BY DEF LendingInit, InquiryInv, AnswerInv, NoInquiry, NoAnswer, At
  <2>4. QED BY <2>2, <2>3 DEF LendingInv
<1>2. LendingInv /\ [LendingNext]_lendingVars => LendingInv'
  <2> SUFFICES ASSUME LendingInv, [LendingNext]_lendingVars PROVE LendingInv'
    OBVIOUS
  <2>1. ASSUME \/ isValidNFTAccountId \/ getUsableSnapshot
               \/ resolveBorrowerIdentity \/ resolveBorrowerIdentityAtSnapshot \/ verifyCollateralSignal
        PROVE  LendingInv'
    <3>1. inquiry.pc \in {"malformed", "snapshot", "account", "signal"}
      BY <2>1 DEF isValidNFTAccountId, getUsableSnapshot, resolveBorrowerIdentity,
                  resolveBorrowerIdentityAtSnapshot, verifyCollateralSignal, At
    <3>2. inquiry \in Underway
      BY <3>1 DEF LendingInv, InquiryInv, At
    <3>3. QED BY <2>1, <3>2, ReadInv
  <2>2. CASE UNCHANGED lendingVars
    BY <2>2 DEF lendingVars, LendingInv, ChainTyped, InquiryInv, AnswerInv, FreshFor, IdentityShown,
                SignalShown, isValidIdentity, At
  <2>3. QED BY <2>1, <2>2, StartInv, ChainStepInv DEF LendingNext
<1>3. LendingInv => VerifiedAtBlock
  BY DEF LendingInv, AnswerInv, VerifiedAtBlock, IdentityShown, SignalShown, FreshFor
<1>4. QED BY <1>1, <1>2, <1>3, PTL DEF LendingSpec

-----------------------------------------------------------------------------
(* The records of the adapters, kind by kind.                              *)
Proposal ==
  [kind : {"proposal"}, status : {"pending", "approved", "rejected", "executed"},
   approvers : Seq(Signer), approvalCount : Nat, requiredApprovals : Nat]
Mandate ==
  [kind : {"mandate"}, status : {"active", "cancelled", "completed"}, periodSeconds : Nat,
   maxExecutions : Nat, executionCount : Nat, lastExecutedAt : 0 .. Never]
BridgeIntent == [kind : {"bridge"}, status : {"pending", "confirmed", "cancelled"}, linked : BOOLEAN]
LoanReference == [kind : {"loan"}, status : LoanReferenceStatus]

(* The count of a proposal is that of different approvers; a mandate is    *)
(* complete when its executions are used up and never before.              *)
ProposalOK(r) ==
  /\ r \in Proposal
  /\ IsFiniteSet(Range(r.approvers)) /\ r.approvalCount = Cardinality(Range(r.approvers))
  /\ r.status \in {"approved", "executed"} => r.approvalCount >= r.requiredApprovals
MandateOK(r) ==
  /\ r \in Mandate
  /\ r.status = "completed" <=> Exhausted(r)
  /\ r.maxExecutions > 0 => r.executionCount <= r.maxExecutions
RecordOK(r) ==
  /\ r.kind = "proposal" => ProposalOK(r)
  /\ r.kind = "mandate" => MandateOK(r)
  /\ r.kind = "bridge" => r \in BridgeIntent
  /\ r.kind = "loan" => r \in LoanReference

(* Only the provider makes signatures with its secret, each of a status it *)
(* has had; others can only repeat them.                                   *)
ProviderStatus == Range(SwapPath) \cup Range(PaymentPath) \cup Dropped
CallbackBody == [content : ProviderStatus \cup {"none"}, keys : {"sorted", "unsorted"}]
SignatureRecord == [body : CallbackBody, secret : {"ipn secret", "guess", "none"}]
CallbackRecord == [body : CallbackBody, signature : SignatureRecord]
SignedByProvider(cb) ==
  /\ cb \in CallbackRecord
  /\ cb.signature.secret = "ipn secret" => cb.signature.body.content \in Range(provider)
ExternalInv ==
  /\ provider \in Seq(ProviderStatus)
  /\ record.kind \notin {"swap", "payment"} => underway = {}
  /\ record.kind = "swap" \/ (record.kind = "payment" /\ record.vetted)
       => record.from \in Range(provider)
  /\ record.kind = "swap" => underway \subseteq Range(provider)
  /\ record.kind = "payment" => \A cb \in underway : SignedByProvider(cb)

RecordsInv ==
  /\ date \in 0 .. MaxDate
  /\ config \in [requiredSignatures : Nat, signers : Lists \cup {<<>>}, isActive : BOOLEAN]
  /\ RecordOK(record) /\ ExternalInv

LEMMA RangeOfAppend ==
  ASSUME NEW S, NEW s \in Seq(S), NEW x \in S
  PROVE  Range(Append(s, x)) = Range(s) \cup {x}
<1>1. /\ DOMAIN Append(s, x) = 1 .. (Len(s) + 1) /\ DOMAIN s = 1 .. Len(s) /\ Len(s) \in Nat
      /\ Append(s, x)[Len(s) + 1] = x
      /\ \A i \in 1 .. Len(s) : Append(s, x)[i] = s[i]
  OBVIOUS
<1>2. \A i \in 1 .. (Len(s) + 1) : i \in 1 .. Len(s) \/ i = Len(s) + 1
  BY <1>1
<1>3. \A i \in 1 .. Len(s) : i \in 1 .. (Len(s) + 1)
  BY <1>1
<1>4. Len(s) + 1 \in 1 .. (Len(s) + 1)
  BY <1>1
<1>5. QED BY <1>1, <1>2, <1>3, <1>4 DEF Range

(* A step that only replaces a record of this house.                       *)
LEMMA ReturnInv ==
  ASSUME RecordsInv, NEW r, Return(r), RecordOK(r),
         r.kind \notin {"swap", "payment"}, record.kind \notin {"swap", "payment"}
  PROVE  RecordsInv'
<1>1. record' = r /\ UNCHANGED <<config, date, provider, underway>>
  BY DEF Return
<1>2. ExternalInv'
  BY <1>1 DEF RecordsInv, ExternalInv
<1>3. RecordOK(record')
  BY <1>1
<1>4. QED BY <1>1, <1>2, <1>3 DEF RecordsInv

LEMMA ProposalStep ==
  ASSUME RecordsInv,
         \/ \E amount \in Amount, given \in BOOLEAN : createProposal(amount, given)
         \/ \E signer \in Signer : recordApproval(signer)
         \/ rejectProposal \/ markExecuted
  PROVE  RecordsInv'
<1>1. ASSUME NEW r, Return(r), ProposalOK(r), record.kind \in {"none", "proposal"}
      PROVE  RecordsInv'
  <2>1. r.kind = "proposal"
    BY <1>1 DEF ProposalOK, Proposal
  <2>2. QED BY <1>1, <2>1, ReturnInv DEF RecordOK
<1>2. ASSUME NEW amount \in Amount, NEW given \in BOOLEAN, createProposal(amount, given)
      PROVE  RecordsInv'
  <2>1. PICK r : r = [kind |-> "proposal", status |-> "pending", approvers |-> <<>>, approvalCount |-> 0,
                      requiredApprovals |-> config.requiredSignatures]
    OBVIOUS
  <2>2. Return(r) /\ record.kind = "none"
    BY <1>2, <2>1 DEF createProposal, Kind
  <2>3. config.requiredSignatures \in Nat
    BY DEF RecordsInv
  <2>4. r \in Proposal /\ r.approvers = <<>> /\ r.approvalCount = 0 /\ r.status = "pending"
    BY <2>1, <2>3 DEF Proposal
  <2>5. Range(r.approvers) = {}
    BY <2>4 DEF Range
  <2>6. ProposalOK(r)
    BY <2>4, <2>5, FS_EmptySet DEF ProposalOK
  <2>7. QED BY <1>1, <2>2, <2>6
<1>3. ASSUME NEW signer \in Signer, recordApproval(signer) PROVE RecordsInv'
  <2>1. record.kind = "proposal" /\ ProposalOK(record) /\ signer \notin Range(record.approvers)
    BY <1>3 DEF recordApproval, Kind, RecordsInv, RecordOK
  <2>2. PICK count, status, names :
          /\ count = record.approvalCount + 1
          /\ status = (IF count >= record.requiredApprovals THEN "approved" ELSE "pending")
          /\ names = Append(record.approvers, signer)
    OBVIOUS
  <2>3. PICK r : r = [record EXCEPT !.approvers = names, !.approvalCount = count, !.status = status]
    OBVIOUS
  <2>4. Return(r)
    BY <1>3, <2>2, <2>3 DEF recordApproval, Approved
  <2> record \in Proposal
    BY <2>1 DEF ProposalOK
  <2>5. /\ r \in Proposal /\ r.approvers = Append(record.approvers, signer)
        /\ r.approvalCount = record.approvalCount + 1 /\ r.requiredApprovals = record.requiredApprovals
        /\ r.status = (IF record.approvalCount + 1 >= record.requiredApprovals THEN "approved" ELSE "pending")
    <3>1. count \in Nat /\ names \in Seq(Signer) /\ status \in {"pending", "approved"}
      BY <2>2 DEF Proposal
    <3>2. /\ r \in Proposal /\ r.approvers = names /\ r.approvalCount = count
          /\ r.requiredApprovals = record.requiredApprovals /\ r.status = status
      BY <2>3, <3>1 DEF Proposal
    <3>3. QED BY <2>2, <3>2
  <2>6. record.approvers \in Seq(Signer) /\ record.approvalCount \in Nat /\ record.requiredApprovals \in Nat
    BY DEF Proposal
  <2>7. Range(r.approvers) = Range(record.approvers) \cup {signer}
    BY <2>5, <2>6, RangeOfAppend
  <2>8. /\ IsFiniteSet(Range(r.approvers))
        /\ Cardinality(Range(r.approvers)) = Cardinality(Range(record.approvers)) + 1
    BY <2>1, <2>7, FS_AddElement DEF ProposalOK
  <2>9. r.status \in {"approved", "executed"} => r.approvalCount >= r.requiredApprovals
    BY <2>5, <2>6
  <2>10. ProposalOK(r)
    BY <2>1, <2>5, <2>8, <2>9 DEF ProposalOK
  <2>11. QED BY <1>1, <2>1, <2>4, <2>10
<1>4. ASSUME NEW status \in {"rejected", "executed"}, Kind("proposal"),
             status = "executed" => record.status = "approved",
             Return([record EXCEPT !.status = status])
      PROVE  RecordsInv'
  <2>1. record.kind = "proposal" /\ ProposalOK(record)
    BY <1>4 DEF Kind, RecordsInv, RecordOK
  <2>2. PICK r : r = [record EXCEPT !.status = status]
    OBVIOUS
  <2>3. /\ r \in Proposal /\ r.approvers = record.approvers /\ r.approvalCount = record.approvalCount
        /\ r.requiredApprovals = record.requiredApprovals /\ r.status = status
    BY <2>1, <2>2 DEF ProposalOK, Proposal
  <2>4. ProposalOK(r)
    BY <1>4, <2>1, <2>3 DEF ProposalOK
  <2>5. QED BY <1>1, <1>4, <2>1, <2>2, <2>4
<1>5. QED BY <1>2, <1>3, <1>4 DEF rejectProposal, markExecuted

LEMMA MandateStep ==
  ASSUME RecordsInv,
         \/ \E amount \in Amount, period \in 0 .. (MaxPeriod + 1), max \in 0 .. MaxRuns :
              createMandate(amount, period, max)
         \/ cancelMandate \/ recordExecution
  PROVE  RecordsInv'
<1>1. ASSUME NEW r, Return(r), MandateOK(r), record.kind \in {"none", "mandate"}
      PROVE  RecordsInv'
  <2>1. r.kind = "mandate"
    BY <1>1 DEF MandateOK, Mandate
  <2>2. QED BY <1>1, <2>1, ReturnInv DEF RecordOK
<1>2. MaxDate \in Nat /\ MaxPeriod \in Nat /\ MaxRuns \in Nat /\ date \in 0 .. MaxDate
  BY RecordsAssumption DEF RecordsInv
<1>3. ASSUME NEW amount \in Amount, NEW period \in 0 .. (MaxPeriod + 1), NEW max \in 0 .. MaxRuns,
             createMandate(amount, period, max)
      PROVE  RecordsInv'
  <2>1. PICK r : r = [kind |-> "mandate", status |-> "active", periodSeconds |-> period,
                      maxExecutions |-> max, executionCount |-> 0, lastExecutedAt |-> Never]
    OBVIOUS
  <2>2. Return(r) /\ record.kind = "none"
    BY <1>3, <2>1 DEF createMandate, Kind
  <2>3. period \in Nat /\ max \in Nat /\ Never \in 0 .. Never
    BY <1>2, <1>3 DEF Never
  <2>4. r \in Mandate /\ r.status = "active" /\ r.maxExecutions = max /\ r.executionCount = 0
    BY <2>1, <2>3 DEF Mandate
  <2>5. MandateOK(r)
    BY <2>3, <2>4 DEF MandateOK, Exhausted
  <2>6. QED BY <1>1, <2>2, <2>5
<1>4. CASE cancelMandate
  <2>1. record.kind = "mandate" /\ MandateOK(record) /\ record.status = "active"
    BY <1>4 DEF cancelMandate, Kind, RecordsInv, RecordOK
  <2>2. PICK r : r = [record EXCEPT !.status = "cancelled"]
    OBVIOUS
  <2>3. /\ r \in Mandate /\ r.status = "cancelled" /\ r.maxExecutions = record.maxExecutions
        /\ r.executionCount = record.executionCount
    BY <2>1, <2>2 DEF MandateOK, Mandate
  <2>4. MandateOK(r)
    BY <2>1, <2>3 DEF MandateOK, Exhausted
  <2>5. QED BY <1>1, <1>4, <2>1, <2>2, <2>4 DEF cancelMandate
<1>5. CASE recordExecution
  <2>1. record.kind = "mandate" /\ MandateOK(record) /\ record.status = "active"
    BY <1>5 DEF recordExecution, Kind, RecordsInv, RecordOK
  <2>2. PICK count, status :
          /\ count = record.executionCount + 1
          /\ status = (IF record.maxExecutions > 0 /\ count >= record.maxExecutions
                       THEN "completed" ELSE "active")
    OBVIOUS
  <2>3. PICK r : r = [record EXCEPT !.executionCount = count, !.lastExecutedAt = date, !.status = status]
    OBVIOUS
  <2>4. Return(r)
    BY <1>5, <2>2, <2>3 DEF recordExecution
  <2>5. record \in Mandate /\ record.executionCount \in Nat /\ record.maxExecutions \in Nat
    BY <2>1 DEF MandateOK, Mandate
  <2>6. count \in Nat /\ date \in 0 .. Never /\ status \in {"active", "cancelled", "completed"}
    BY <1>2, <2>2, <2>5 DEF Never
  <2>7. /\ r \in Mandate /\ r.status = status /\ r.maxExecutions = record.maxExecutions
        /\ r.executionCount = count
    BY <2>3, <2>5, <2>6 DEF Mandate
  <2>8. MandateOK(r)
    BY <2>1, <2>2, <2>5, <2>7 DEF MandateOK, Exhausted
  <2>9. QED BY <1>1, <2>1, <2>4, <2>8
<1>6. QED BY <1>3, <1>4, <1>5

LEMMA IntentStep ==
  ASSUME RecordsInv,
         \/ \E chn \in Chain, amount \in Amount, given \in BOOLEAN : createBridgeIntent(chn, amount, given)
         \/ linkProviderTransaction \/ confirmBridgeIntent \/ cancelBridgeIntent
         \/ createLoanReference
         \/ \E status \in LoanReferenceStatus : updateLoanReferenceStatus(status)
  PROVE  RecordsInv'
<1>1. ASSUME NEW r, Return(r), r \in BridgeIntent \cup LoanReference,
             record.kind \in {"none", "bridge", "loan"}
      PROVE  RecordsInv'
  <2>1. (r \in BridgeIntent => r.kind = "bridge") /\ (r \in LoanReference => r.kind = "loan")
    BY DEF BridgeIntent, LoanReference
  <2>2. QED BY <1>1, <2>1, ReturnInv DEF RecordOK
<1>2. record.kind = "bridge" => record \in BridgeIntent
  BY DEF RecordsInv, RecordOK
<1>3. record.kind = "loan" => record \in LoanReference
  BY DEF RecordsInv, RecordOK
<1>4. ASSUME NEW chn \in Chain, NEW amount \in Amount, NEW given \in BOOLEAN,
             createBridgeIntent(chn, amount, given)
      PROVE  RecordsInv'
  <2>1. [kind |-> "bridge", status |-> "pending", linked |-> FALSE] \in BridgeIntent
    BY DEF BridgeIntent
  <2>2. QED BY <1>1, <1>4, <2>1 DEF createBridgeIntent, Kind
<1>5. CASE linkProviderTransaction
  <2>1. [record EXCEPT !.linked = TRUE, !.status = "pending"] \in BridgeIntent
    BY <1>2, <1>5 DEF linkProviderTransaction, Kind, BridgeIntent
  <2>2. QED BY <1>1, <1>5, <2>1 DEF linkProviderTransaction, Kind
<1>6. ASSUME NEW status \in {"confirmed", "cancelled"}, Kind("bridge"),
             Return([record EXCEPT !.status = status])
      PROVE  RecordsInv'
  <2>1. [record EXCEPT !.status = status] \in BridgeIntent
    BY <1>2, <1>6 DEF Kind, BridgeIntent
  <2>2. QED BY <1>1, <1>6, <2>1 DEF Kind
<1>7. CASE createLoanReference
  <2>1. [kind |-> "loan", status |-> "pending"] \in LoanReference
    BY DEF LoanReference, LoanReferenceStatus
  <2>2. QED BY <1>1, <1>7, <2>1 DEF createLoanReference, Kind
<1>8. ASSUME NEW status \in LoanReferenceStatus, updateLoanReferenceStatus(status)
      PROVE  RecordsInv'
  <2>1. [record EXCEPT !.status = status] \in LoanReference
    BY <1>3, <1>8 DEF updateLoanReferenceStatus, Kind, LoanReference
  <2>2. QED BY <1>1, <1>8, <2>1 DEF updateLoanReferenceStatus, Kind
<1>9. QED BY <1>4, <1>5, <1>6, <1>7, <1>8 DEF confirmBridgeIntent, cancelBridgeIntent

(* Swaps and payments: what is under way comes from the provider.          *)
LEMMA FirstStatus ==
  ASSUME NEW s \in ProviderStatus
  PROVE  <<s>> \in Seq(ProviderStatus) /\ s \in Range(<<s>>)
<1>1. DOMAIN <<s>> = {1} /\ <<s>>[1] = s
  OBVIOUS
<1>2. QED BY <1>1 DEF Range

LEMMA PathStatuses == Range(SwapPath) \cup Range(PaymentPath) \cup Dropped = ProviderStatus
BY DEF ProviderStatus

LEMMA CreateExternal ==
  ASSUME RecordsInv, createSwap \/ createInvoice
  PROVE  RecordsInv'
<1>1. PICK s, k : /\ s \in {"new", "waiting"} /\ k \in {"swap", "payment"}
                  /\ provider' = <<s>> /\ record'.kind = k /\ record'.from = s
                  /\ record.kind = "none" /\ UNCHANGED <<config, date, underway>>
  BY DEF createSwap, createInvoice, External, Kind
<1>2. s \in ProviderStatus
  <2>1. SwapPath[1] = "new" /\ 1 \in DOMAIN SwapPath /\ PaymentPath[1] = "waiting" /\ 1 \in DOMAIN PaymentPath
    BY DEF SwapPath, PaymentPath
  <2>2. "new" \in Range(SwapPath) /\ "waiting" \in Range(PaymentPath)
    BY <2>1 DEF Range
  <2>3. QED BY <1>1, <2>2 DEF ProviderStatus
<1>3. underway' = {}
  BY <1>1 DEF RecordsInv, ExternalInv
<1>4. provider' \in Seq(ProviderStatus) /\ s \in Range(provider')
  BY <1>1, <1>2, FirstStatus
<1>5. ExternalInv'
  BY <1>1, <1>3, <1>4 DEF ExternalInv
<1>6. RecordOK(record')
  BY <1>1 DEF RecordOK
<1>7. QED BY <1>1, <1>5, <1>6 DEF RecordsInv

(* Answers under way change, the record and the provider do not.           *)
LEMMA UnderwayStep ==
  ASSUME RecordsInv, UNCHANGED <<record, config, date, provider>>,
         record.kind \notin {"swap", "payment"} => underway' = {},
         record.kind = "swap" => underway' \subseteq Range(provider),
         record.kind = "payment" => \A cb \in underway' : SignedByProvider(cb)
  PROVE  RecordsInv'
<1>1. ExternalInv'
  BY DEF RecordsInv, ExternalInv, SignedByProvider
<1>2. QED BY <1>1 DEF RecordsInv

LEMMA TrackStep ==
  ASSUME RecordsInv, trackSwapStatus
  PROVE  RecordsInv'
<1>1. /\ record.kind = "swap" /\ UNCHANGED <<record, config, date, provider>>
      /\ underway' = underway \cup {Last(provider)}
  BY DEF trackSwapStatus, Kind
<1>2. provider \in Seq(ProviderStatus) /\ record.from \in Range(provider)
      /\ underway \subseteq Range(provider)
  BY <1>1 DEF RecordsInv, ExternalInv
<1>3. Len(provider) \in DOMAIN provider
  <2>1. PICK i \in DOMAIN provider : TRUE
    BY <1>2 DEF Range
  <2>2. QED BY <1>2, <2>1
<1>4. Last(provider) \in Range(provider)
  BY <1>3 DEF Last, Range
<1>5. QED BY <1>1, <1>2, <1>4, UnderwayStep

LEMMA LoseStep ==
  ASSUME RecordsInv, NEW r \in underway, LoseAnswer(r)
  PROVE  RecordsInv'
<1>1. underway' = underway \ {r} /\ UNCHANGED <<record, config, date, provider>>
  BY DEF LoseAnswer
<1>2. QED BY <1>1, UnderwayStep DEF RecordsInv, ExternalInv

LEMMA SwapAnswerStep ==
  ASSUME RecordsInv, NEW s \in underway, mapSwapToNFTAccount(s)
  PROVE  RecordsInv'
<1>1. /\ record.kind = "swap" /\ record'.kind = "swap" /\ record'.from = s
      /\ underway' = underway \ {s} /\ UNCHANGED <<config, date, provider>>
  BY DEF mapSwapToNFTAccount, Kind, External
<1>2. underway \subseteq Range(provider) /\ s \in Range(provider)
  BY <1>1 DEF RecordsInv, ExternalInv
<1>3. ExternalInv'
  BY <1>1, <1>2 DEF RecordsInv, ExternalInv
<1>4. RecordOK(record')
  BY <1>1 DEF RecordOK
<1>5. QED BY <1>1, <1>3, <1>4 DEF RecordsInv

(* A callback whose signature fits carries a status of the provider.       *)
LEMMA VerifiedCallback ==
  ASSUME NEW cb, SignedByProvider(cb), verifyCallback(cb)
  PROVE  cb.body.content \in Range(provider)
<1>1. cb.body \in CallbackBody /\ cb.signature.secret = "ipn secret"
      /\ cb.signature.body = [cb.body EXCEPT !.keys = "sorted"]
  <2>1. cb.body \in CallbackBody
    BY DEF SignedByProvider, CallbackRecord
  <2>2. PICK b : b = canonicalizePayload(cb.body)
    OBVIOUS
  <2>3. \A x, y : calculateHMAC(x, y).body = x /\ calculateHMAC(x, y).secret = y
    BY DEF calculateHMAC
  <2>4. cb.signature.body = b /\ cb.signature.secret = "ipn secret"
    <3>1. cb.signature = calculateHMAC(b, "ipn secret")
      BY <2>2 DEF verifyCallback
    <3>2. calculateHMAC(b, "ipn secret").body = b
      BY <2>3
    <3>3. calculateHMAC(b, "ipn secret").secret = "ipn secret"
      BY <2>3
    <3>4. QED BY <3>1, <3>2, <3>3
  <2>5. b = [cb.body EXCEPT !.keys = "sorted"]
    BY <2>2 DEF canonicalizePayload
  <2>6. QED BY <2>1, <2>4, <2>5
<1>2. cb.signature.body.content = cb.body.content
  BY <1>1 DEF CallbackBody
<1>3. QED BY <1>1, <1>2 DEF SignedByProvider

LEMMA CallbackStep ==
  ASSUME RecordsInv, NEW cb \in underway, emitPaymentSettledEvent(cb)
  PROVE  RecordsInv'
<1>1. PICK b : b = verifyCallback(cb)
  OBVIOUS
<1>2. /\ record.kind = "payment" /\ record'.kind = "payment" /\ record'.from = cb.body.content
      /\ record'.vetted = b /\ UNCHANGED <<config, date, provider, underway>>
  BY <1>1 DEF emitPaymentSettledEvent, Kind, External, Return
<1>3. SignedByProvider(cb)
  BY <1>2 DEF RecordsInv, ExternalInv
<1>4. record'.vetted => record'.from \in Range(provider)
  BY <1>1, <1>2, <1>3, VerifiedCallback
<1>5. ExternalInv'
  BY <1>2, <1>4 DEF RecordsInv, ExternalInv, SignedByProvider
<1>6. RecordOK(record')
  BY <1>2 DEF RecordOK
<1>7. QED BY <1>2, <1>5, <1>6 DEF RecordsInv

LEMMA CallbackShape ==
  ASSUME NEW s \in ProviderStatus
  PROVE  /\ Callback(s) \in CallbackRecord /\ Callback(s).signature.body.content = s
<1> DEFINE body == [content |-> s, keys |-> "unsorted"]
           signed == [body EXCEPT !.keys = "sorted"]
<1>1. body \in CallbackBody /\ signed \in CallbackBody /\ signed.content = s
  BY DEF CallbackBody
<1> HIDE DEF signed
<1>2. PICK sig : sig = calculateHMAC(signed, "ipn secret")
  OBVIOUS
<1>3. sig \in SignatureRecord /\ sig.body = signed
  BY <1>1, <1>2 DEF calculateHMAC, SignatureRecord
<1>4. Callback(s) = [body |-> body, signature |-> sig]
  BY <1>2 DEF Callback, signed
<1> HIDE DEF body
<1>5. QED BY <1>1, <1>3, <1>4 DEF CallbackRecord

LEMMA AdvanceStep ==
  ASSUME RecordsInv, NEW s \in Range(Path) \cup Dropped, Advance(s)
  PROVE  RecordsInv'
<1>1. s \in ProviderStatus
  BY DEF Path, ProviderStatus
<1>2. /\ record.kind \in {"swap", "payment"} /\ provider' = Append(provider, s)
      /\ underway' = (IF Kind("swap") THEN underway ELSE underway \cup {Callback(s)})
      /\ UNCHANGED <<record, config, date>>
  BY DEF Advance
<1>3. provider \in Seq(ProviderStatus)
  BY DEF RecordsInv, ExternalInv
<1>4. Range(provider') = Range(provider) \cup {s} /\ provider' \in Seq(ProviderStatus)
  BY <1>1, <1>2, <1>3, RangeOfAppend
<1>5. record.kind = "swap" => underway' \subseteq Range(provider')
  BY <1>2, <1>4 DEF RecordsInv, ExternalInv, Kind
<1>6. record.kind = "payment" => \A cb \in underway' : SignedByProvider(cb)'
  <2> SUFFICES ASSUME record.kind = "payment", NEW cb \in underway' PROVE SignedByProvider(cb)'
    OBVIOUS
  <2>1. CASE cb \in underway
    BY <1>4, <2>1 DEF RecordsInv, ExternalInv, SignedByProvider
  <2>2. CASE cb = Callback(s)
    BY <1>1, <1>4, <2>2, CallbackShape DEF SignedByProvider
  <2>3. QED BY <1>2, <2>1, <2>2 DEF Kind
<1>7. ExternalInv'
  BY <1>2, <1>4, <1>5, <1>6 DEF RecordsInv, ExternalInv
<1>8. QED BY <1>2, <1>7 DEF RecordsInv

LEMMA ForgedStep ==
  ASSUME RecordsInv,
         NEW sig \in {NoSignature, calculateHMAC([content |-> "finished", keys |-> "sorted"], "guess")}
                        \cup {Callback(s).signature : s \in Range(PaymentPath)},
         SendForged(sig)
  PROVE  RecordsInv'
<1>1. PICK forged : forged = [body |-> [content |-> "finished", keys |-> "sorted"], signature |-> sig]
  OBVIOUS
<1>2. /\ record.kind = "payment" /\ underway' = underway \cup {forged}
      /\ UNCHANGED <<record, config, date, provider>>
      /\ sig.secret = "ipn secret" => \E cb \in underway : sig = cb.signature
  BY <1>1 DEF SendForged, Kind
<1>3. "finished" \in ProviderStatus
  <2>1. SwapPath[6] = "finished" /\ 6 \in DOMAIN SwapPath
    BY DEF SwapPath
  <2>2. "finished" \in Range(SwapPath)
    BY <2>1 DEF Range
  <2>3. QED BY <2>2 DEF ProviderStatus
<1>4. sig \in SignatureRecord
  <2>1. NoSignature \in SignatureRecord
    BY DEF NoSignature, CallbackBody, SignatureRecord
  <2>2. calculateHMAC([content |-> "finished", keys |-> "sorted"], "guess") \in SignatureRecord
    BY <1>3 DEF calculateHMAC, CallbackBody, SignatureRecord
  <2>3. \A s \in Range(PaymentPath) : Callback(s).signature \in SignatureRecord
    <3>1. \A s \in Range(PaymentPath) : Callback(s) \in CallbackRecord
      BY CallbackShape DEF ProviderStatus
    <3>2. QED BY <3>1 DEF CallbackRecord
  <2>4. QED BY <2>1, <2>2, <2>3
<1>5. forged \in CallbackRecord /\ forged.signature = sig
  BY <1>1, <1>3, <1>4 DEF CallbackRecord, CallbackBody
<1>6. \A cb \in underway : SignedByProvider(cb)
  BY <1>2 DEF RecordsInv, ExternalInv
<1>7. SignedByProvider(forged)
  BY <1>2, <1>5, <1>6 DEF SignedByProvider
<1>8. QED BY <1>2, <1>6, <1>7, UnderwayStep

LEMMA ConfigStep ==
  ASSUME RecordsInv,
         \/ \E required \in 0 .. (MaxSigners + 1), signers \in Lists : createConfig(required, signers)
         \/ deactivateConfig
  PROVE  RecordsInv'
<1>1. UNCHANGED <<record, date, provider, underway>>
  BY DEF createConfig, deactivateConfig
<1>2. config' \in [requiredSignatures : Nat, signers : Lists \cup {<<>>}, isActive : BOOLEAN]
  <2>1. ASSUME NEW required \in 0 .. (MaxSigners + 1), NEW signers \in Lists, createConfig(required, signers)
        PROVE  config' \in [requiredSignatures : Nat, signers : Lists \cup {<<>>}, isActive : BOOLEAN]
    BY <2>1 DEF createConfig
  <2>2. ASSUME deactivateConfig
        PROVE  config' \in [requiredSignatures : Nat, signers : Lists \cup {<<>>}, isActive : BOOLEAN]
    BY <2>2 DEF deactivateConfig, RecordsInv
  <2>3. QED BY <2>1, <2>2
<1>3. ExternalInv'
  BY <1>1 DEF RecordsInv, ExternalInv, SignedByProvider
<1>4. QED BY <1>1, <1>2, <1>3 DEF RecordsInv

LEMMA DateStep ==
  ASSUME RecordsInv, PassDate
  PROVE  RecordsInv'
<1>1. date' \in 0 .. MaxDate /\ UNCHANGED <<record, config, provider, underway>>
  BY RecordsAssumption DEF PassDate, RecordsInv
<1>2. ExternalInv'
  BY <1>1 DEF RecordsInv, ExternalInv, SignedByProvider
<1>3. QED BY <1>1, <1>2 DEF RecordsInv

(* After every sequence of operations, callbacks and late answers, for any *)
(* signers, limits and periods: a proposal that is approved has as many    *)
(* different signers as it asked for, a mandate is complete exactly when   *)
(* its executions are used up, and a swap, or a payment whose callbacks    *)
(* the application has verified, shows a status its provider has had       *)
(* (recordApproval, recordExecution, verifyCallback).                      *)
THEOREM AdapterRecordsBacked == RecordsSpec => []RecordsAreBacked
<1>1. RecordsInit => RecordsInv
  <2> SUFFICES ASSUME RecordsInit PROVE RecordsInv
    OBVIOUS
  <2>1. record.kind = "none" /\ provider = <<>> /\ underway = {}
    BY DEF RecordsInit, NoRecord
  <2>2. ExternalInv /\ RecordOK(record)
    BY <2>1 DEF ExternalInv, RecordOK
  <2>3. config \in [requiredSignatures : Nat, signers : Lists \cup {<<>>}, isActive : BOOLEAN]
    BY DEF RecordsInit, NoConfig
  <2>4. QED BY <2>2, <2>3, RecordsAssumption DEF RecordsInit, RecordsInv
<1>2. RecordsInv /\ [RecordsNext]_recordVars => RecordsInv'
  <2> SUFFICES ASSUME RecordsInv, [RecordsNext]_recordVars PROVE RecordsInv'
    OBVIOUS
  <2>1. CASE UNCHANGED recordVars
    BY <2>1 DEF recordVars, RecordsInv, ExternalInv, SignedByProvider
  <2>2. QED
    BY <2>1, ConfigStep, ProposalStep, MandateStep, IntentStep, CreateExternal, TrackStep, LoseStep,
       SwapAnswerStep, CallbackStep, AdvanceStep, ForgedStep, DateStep DEF RecordsNext
<1>3. RecordsInv => RecordsAreBacked
  <2> SUFFICES ASSUME RecordsInv PROVE RecordsAreBacked
    OBVIOUS
  <2>1. ApprovedIsBacked
    BY DEF RecordsInv, RecordOK, ProposalOK, ApprovedIsBacked, Kind
  <2>2. ExternalIsBacked
    BY DEF RecordsInv, ExternalInv, ExternalIsBacked, Kind
  <2>3. ASSUME Kind("mandate") PROVE canExecute(record) <=> getNextExecutionTime(record) <= date
    <3>1. record \in Mandate /\ MaxDate \in Nat /\ date \in 0 .. MaxDate
      BY <2>3, RecordsAssumption DEF RecordsInv, RecordOK, MandateOK, Kind
    <3>2. /\ record.lastExecutedAt \in 0 .. Never /\ record.periodSeconds \in Nat /\ Never = MaxDate + 1
      BY <3>1 DEF Mandate, Never
    <3>3. CASE record.status # "active" \/ Exhausted(record)
      BY <3>1, <3>2, <3>3 DEF canExecute, getNextExecutionTime
    <3>4. CASE record.status = "active" /\ ~ Exhausted(record)
      BY <3>1, <3>2, <3>4 DEF canExecute, getNextExecutionTime
    <3>5. QED BY <3>3, <3>4
  <2>4. MandateIsBacked
    BY <2>3 DEF RecordsInv, RecordOK, MandateOK, MandateIsBacked, Kind
  <2>5. QED BY <2>1, <2>2, <2>4 DEF RecordsAreBacked
<1>4. QED BY <1>1, <1>2, <1>3, PTL DEF RecordsSpec

-----------------------------------------------------------------------------
(* The readiness gates. Every rule across documents is about documents of  *)
(* the feature, so none is skipped once all of them are there.             *)
Closed(g) ==
  /\ \A c \in Citations[g] : c.from \in Docs(g) /\ c.to \in Docs(g)
  /\ \A p \in Parity[g] : p.docs \subseteq Docs(g)
  /\ \A n \in Needs[g] : n.if \in Docs(g) /\ n.in \in Docs(g)

LEMMA Gates == Gate = {"analytics", "dex", "multisig", "recurring", "bridge"}
BY DEF Gate, Required

LEMMA DocsOfGates ==
  /\ Docs("analytics") = {"SP", "MA", "PA", "PD", "PR", "MO", "EH", "TI", "BB"}
  /\ Docs("dex") = {"SP", "PA", "SL", "LM", "NF", "WX", "AH", "TI", "BB"}
  /\ Docs("multisig") = {"SP", "WX", "GR", "NF", "MN", "CH", "TN", "BB", "CT"}
  /\ Docs("recurring") = {"SP", "DI", "WX", "NF", "MN", "CH", "TN", "BB", "CT"}
  /\ Docs("bridge") = {"SC", "VA", "RP", "CB", "CH", "MN", "BB", "CT"}
<1>1. Docs("analytics") = {"SP", "MA", "PA", "PD", "PR", "MO", "EH", "TI", "BB"}
  BY DEF Docs, Required
<1>2. Docs("dex") = {"SP", "PA", "SL", "LM", "NF", "WX", "AH", "TI", "BB"}
  BY DEF Docs, Required
<1>3. Docs("multisig") = {"SP", "WX", "GR", "NF", "MN", "CH", "TN", "BB", "CT"}
  BY DEF Docs, Required
<1>4. Docs("recurring") = {"SP", "DI", "WX", "NF", "MN", "CH", "TN", "BB", "CT"}
  BY DEF Docs, Required
<1>5. Docs("bridge") = {"SC", "VA", "RP", "CB", "CH", "MN", "BB", "CT"}
  BY DEF Docs, Required
<1>6. QED BY <1>1, <1>2, <1>3, <1>4, <1>5

Cited(C, D) == \A c \in C : c.from \in D /\ c.to \in D
Shared(P, D) == \A p \in P : p.docs \subseteq D

LEMMA CitesWithin ==
  ASSUME NEW docs, NEW mark, NEW to, NEW target, NEW D, docs \subseteq D, to \in D
  PROVE  Cited(Cites(docs, mark, to, target), D)
BY DEF Cites, Cited

LEMMA SharesWithin ==
  ASSUME NEW docs, NEW mark, NEW D, docs \subseteq D
  PROVE  Shared(Shares(docs, mark), D)
BY DEF Shares, Shared

Each(docs, mark) == UNION {Shares({d}, mark) : d \in docs}

LEMMA SharesEach ==
  ASSUME NEW docs, NEW mark, NEW D, docs \subseteq D
  PROVE  Shared(Each(docs, mark), D)
BY DEF Shares, Shared, Each

LEMMA SharedUnion ==
  ASSUME NEW P, NEW Q, NEW D, Shared(P, D), Shared(Q, D)
  PROVE  Shared(P \cup Q, D)
BY DEF Shared

LEMMA AnalyticsClosed == Closed("analytics")
<1>1. /\ Citations["analytics"] = AnalyticsCitations /\ Parity["analytics"] = AnalyticsParity
      /\ Needs["analytics"] = {}
  BY DEF Citations, Parity, Needs
<1>2. Cited(AnalyticsCitations, Docs("analytics"))
  <2>1. Cited(Cites(AnalyticsOthers \ {"EH"}, "cited item", "EH", "heading"), Docs("analytics"))
    BY CitesWithin, DocsOfGates DEF AnalyticsOthers
  <2>2. Cited(Cites(AnalyticsOthers, "cited threat", "SP", "threat"), Docs("analytics"))
    BY CitesWithin, DocsOfGates DEF AnalyticsOthers
  <2>3. Cited(Cites(AnalyticsOthers \ {"MO"}, "cited alert", "MO", "alert"), Docs("analytics"))
    BY CitesWithin, DocsOfGates DEF AnalyticsOthers
  <2>4. QED BY <2>1, <2>2, <2>3 DEF AnalyticsCitations, Cited
<1>3. Shared(AnalyticsParity, Docs("analytics"))
  <2>1. Shared(Each(AnalyticsOthers, "specification"), Docs("analytics"))
    BY SharesEach, DocsOfGates DEF AnalyticsOthers
  <2>2. Shared(Each({"SP", "PR", "MA", "PA"}, "floor"), Docs("analytics"))
    BY SharesEach, DocsOfGates
  <2>3. Shared(Shares({"BB"}, "brief"), Docs("analytics"))
    BY SharesWithin, DocsOfGates
  <2>4. Shared(Floor, Docs("analytics"))
    <3>1. Floor = Each({"SP", "PR", "MA", "PA"}, "floor")
      BY DEF Floor, Each
    <3>2. QED BY <2>2, <3>1
  <2>5. \A p \in AnalyticsParity :
          p \in Each(AnalyticsOthers, "specification") \/ p \in Floor \/ p \in Shares({"BB"}, "brief")
    BY DEF AnalyticsParity, Brief, Each
  <2>6. QED BY <2>1, <2>3, <2>4, <2>5 DEF Shared
<1>4. QED BY <1>1, <1>2, <1>3 DEF Closed, Cited, Shared

LEMMA DexClosed == Closed("dex")
<1>1. /\ Citations["dex"] = DexCitations /\ Parity["dex"] = DexParity \cup DexCodes \cup DexLinks
      /\ Needs["dex"] = DexNeeds
  BY DEF Citations, Parity, Needs
<1>2. Cited(DexCitations, Docs("dex"))
  <2>1. Cited(Cites({"BB"}, "cited item", "AH", "heading"), Docs("dex"))
    BY CitesWithin, DocsOfGates
  <2>2. QED BY <2>1 DEF DexCitations, Cited
<1>3. Shared(DexParity \cup DexCodes \cup DexLinks, Docs("dex"))
  <2>1. Shared(Each({"PA", "SL", "LM", "NF", "WX", "AH", "TI", "BB"}, "specification"), Docs("dex"))
    BY SharesEach, DocsOfGates
  <2>2. Shared(Shares({"AH"}, "heading"), Docs("dex"))
    BY SharesWithin, DocsOfGates
  <2>3. Shared(Shares({"SP", "BB", "AH"}, "threat name"), Docs("dex"))
    BY SharesWithin, DocsOfGates
  <2>4. Shared(Shares({"LM"}, "alert in both tables"), Docs("dex"))
    BY SharesWithin, DocsOfGates
  <2>5. Shared(Shares({"SP", "WX", "TI"}, "error name"), Docs("dex"))
    BY SharesWithin, DocsOfGates
  <2>6. Shared(Shares({"SL", "LM"}, "M07"), Docs("dex"))
    BY SharesWithin, DocsOfGates
  <2>7. Shared(Shares({"AH", "NF"}, "N08"), Docs("dex"))
    BY SharesWithin, DocsOfGates
  <2>8. Shared(Shares({"BB"}, "brief"), Docs("dex"))
    BY SharesWithin, DocsOfGates
  <2>9. Shared(DexParity, Docs("dex")) /\ Shared(DexCodes, Docs("dex"))
    BY <2>2, <2>3, <2>4, <2>5, SharedUnion DEF DexParity, DexCodes
  <2>10. \A p \in DexLinks :
           \/ p \in Each({"PA", "SL", "LM", "NF", "WX", "AH", "TI", "BB"}, "specification")
           \/ p \in Shares({"SL", "LM"}, "M07") \/ p \in Shares({"AH", "NF"}, "N08")
           \/ p \in Shares({"BB"}, "brief")
    BY DEF DexLinks, Brief, Each
  <2>11. Shared(DexLinks, Docs("dex"))
    BY <2>1, <2>6, <2>7, <2>8, <2>10 DEF Shared
  <2>12. QED BY <2>9, <2>11, SharedUnion
<1>4. \A n \in DexNeeds : n.if \in Docs("dex") /\ n.in \in Docs("dex")
  BY DocsOfGates DEF DexNeeds
<1>5. QED BY <1>1, <1>2, <1>3, <1>4 DEF Closed, Cited, Shared

LEMMA MultiSigClosed == Closed("multisig")
<1>1. /\ Citations["multisig"] = MultiSigCitations /\ Parity["multisig"] = MultiSigParity \cup MultiSigLinks
      /\ Needs["multisig"] = MultiSigNeeds
  BY DEF Citations, Parity, Needs
<1>2. Cited(MultiSigCitations, Docs("multisig"))
  <2>1. Cited(Cites(MultiSigDocs \ {"CH"}, "cited item", "CH", "heading"), Docs("multisig"))
    BY CitesWithin, DocsOfGates DEF MultiSigDocs
  <2>2. Cited(Cites({"MN"}, "cited note", "NF", "note"), Docs("multisig"))
    BY CitesWithin, DocsOfGates
  <2>3. Cited(Cites(MultiSigDocs \ {"CH"}, "stray item", "CH", "stray heading"), Docs("multisig"))
    BY CitesWithin, DocsOfGates DEF MultiSigDocs
  <2>4. QED BY <2>1, <2>2, <2>3 DEF MultiSigCitations, Cited
<1>3. Shared(MultiSigParity \cup MultiSigLinks, Docs("multisig"))
  <2>1. Shared(Shares({"SP", "BB"}, "threat name"), Docs("multisig"))
    BY SharesWithin, DocsOfGates
  <2>2. Shared(Shares({"MN"}, "matrix"), Docs("multisig"))
    BY SharesWithin, DocsOfGates
  <2>3. Shared(Shares({"SP", "TN"}, "error name"), Docs("multisig"))
    BY SharesWithin, DocsOfGates
  <2>4. Shared(Shares({"SP", "WX"}, "preset name"), Docs("multisig"))
    BY SharesWithin, DocsOfGates
  <2>5. QED BY <2>1, <2>2, <2>3, <2>4 DEF MultiSigParity, MultiSigLinks, Shared
<1>4. \A n \in MultiSigNeeds : n.if \in Docs("multisig") /\ n.in \in Docs("multisig")
  BY DocsOfGates DEF MultiSigNeeds
<1>5. QED BY <1>1, <1>2, <1>3, <1>4 DEF Closed, Cited, Shared

LEMMA RecurringClosed == Closed("recurring")
<1>1. /\ Citations["recurring"] = RecurringCitations /\ Parity["recurring"] = RecurringParity
      /\ Needs["recurring"] = RecurringNeeds
  BY DEF Citations, Parity, Needs
<1>2. Cited(RecurringCitations, Docs("recurring"))
  <2>1. Cited(Cites(RecurringDocs \ {"CH"}, "cited item", "CH", "heading"), Docs("recurring"))
    BY CitesWithin, DocsOfGates DEF RecurringDocs
  <2>2. Cited(Cites({"MN"}, "cited note", "NF", "note"), Docs("recurring"))
    BY CitesWithin, DocsOfGates
  <2>3. Cited(Cites(RecurringDocs \ {"CH"}, "stray item", "CH", "stray heading"), Docs("recurring"))
    BY CitesWithin, DocsOfGates DEF RecurringDocs
  <2>4. QED BY <2>1, <2>2, <2>3 DEF RecurringCitations, Cited
<1>3. Shared(RecurringParity, Docs("recurring"))
  <2>1. Shared(Shares({"SP", "BB"}, "threat name"), Docs("recurring"))
    BY SharesWithin, DocsOfGates
  <2>2. Shared(Shares({"MN"}, "matrix"), Docs("recurring"))
    BY SharesWithin, DocsOfGates
  <2>3. Shared(Shares({"SP", "TN"}, "error name"), Docs("recurring"))
    BY SharesWithin, DocsOfGates
  <2>4. Shared(Shares({"SP", "DI"}, "period name"), Docs("recurring"))
    BY SharesWithin, DocsOfGates
  <2>5. QED BY <2>1, <2>2, <2>3, <2>4 DEF RecurringParity, Shared
<1>4. \A n \in RecurringNeeds : n.if \in Docs("recurring") /\ n.in \in Docs("recurring")
  BY DocsOfGates DEF RecurringNeeds
<1>5. QED BY <1>1, <1>2, <1>3, <1>4 DEF Closed, Cited, Shared

LEMMA BridgeClosed == Closed("bridge")
<1>1. /\ Citations["bridge"] = BridgeCitations /\ Parity["bridge"] = BridgeParity
      /\ Needs["bridge"] = BridgeNeeds
  BY DEF Citations, Parity, Needs
<1>2. Cited(BridgeCitations, Docs("bridge"))
  <2>1. Cited(Cites(BridgeDocs \ {"CH"}, "cited item", "CH", "heading"), Docs("bridge"))
    BY CitesWithin, DocsOfGates DEF BridgeDocs
  <2>2. Cited(Cites(BridgeDocs \ {"CH"}, "stray item", "CH", "stray heading"), Docs("bridge"))
    BY CitesWithin, DocsOfGates DEF BridgeDocs
  <2>3. QED BY <2>1, <2>2 DEF BridgeCitations, Cited
<1>3. Shared(BridgeParity, Docs("bridge"))
  <2>1. Shared(Shares({"RP", "VA"}, "canonical field"), Docs("bridge"))
    BY SharesWithin, DocsOfGates
  <2>2. Shared(Shares({"SC", "RP"}, "chain row"), Docs("bridge"))
    BY SharesWithin, DocsOfGates
  <2>3. Shared(Shares({"CB"}, "parameter"), Docs("bridge"))
    BY SharesWithin, DocsOfGates
  <2>4. Shared(Shares({"BB"}, "ccb"), Docs("bridge"))
    BY SharesWithin, DocsOfGates
  <2>5. QED BY <2>1, <2>2, <2>3, <2>4 DEF BridgeParity, ThreatMap, Shared
<1>4. \A n \in BridgeNeeds : n.if \in Docs("bridge") /\ n.in \in Docs("bridge")
  BY DocsOfGates DEF BridgeNeeds
<1>5. QED BY <1>1, <1>2, <1>3, <1>4 DEF Closed, Cited, Shared

(* What no failure means.                                                  *)
Complete ==
  /\ \A d \in Docs(gate) : There(d) /\ Required[gate][d] \subseteq text[d]
  /\ \A c \in Citations[gate] : Holds(c.from, c.mark) => Holds(c.to, c.target)
  /\ \A p \in Parity[gate], d \in Docs(gate) : d \in p.docs => Holds(d, p.mark)
  /\ \A n \in Needs[gate] : Holds(n.in, n.mark)
  /\ \A f \in Registry[gate] : Holds(f, "listed")

LEMMA NoFailureIsComplete ==
  ASSUME gate \in Gate, failures = {}
  PROVE  Complete
<1>1. Closed(gate)
  BY Gates, AnalyticsClosed, DexClosed, MultiSigClosed, RecurringClosed, BridgeClosed
<1>2. /\ \A d \in Docs(gate) : checkDoc(d) = {}
      /\ checkCrossDocReferences = {} /\ checkRegistries = {}
  <2>1. checkCrossDocReferences \subseteq failures /\ checkRegistries \subseteq failures
    <3>1. \A x \in checkCrossDocReferences : x \in failures
      BY DEF failures
    <3>2. \A x \in checkRegistries : x \in failures
      BY DEF failures
    <3>3. QED BY <3>1, <3>2
  <2>2. \A d \in Docs(gate) : checkDoc(d) \subseteq failures
    BY Zenon DEF failures
  <2>3. QED BY <2>1, <2>2
<1>3. \A d \in Docs(gate) : There(d) /\ Required[gate][d] \subseteq text[d]
  <2> SUFFICES ASSUME NEW d \in Docs(gate) PROVE There(d) /\ Required[gate][d] \subseteq text[d]
    OBVIOUS
  <2>1. checkDoc(d) = {}
    BY <1>2
  <2>2. There(d)
    BY <2>1 DEF checkDoc
  <2>3. ASSUME NEW x \in Required[gate][d], x \notin text[d] PROVE FALSE
    <3>1. <<d, x>> \in checkDoc(d)
      BY <2>2, <2>3 DEF checkDoc
    <3>2. QED BY <2>1, <3>1
  <2>4. QED BY <2>2, <2>3
<1>4. ASSUME NEW c \in Citations[gate], Holds(c.from, c.mark) PROVE Holds(c.to, c.target)
  <2>1. There(c.to)
    BY <1>1, <1>3, <1>4 DEF Closed
  <2>2. ASSUME ~ Holds(c.to, c.target) PROVE FALSE
    <3>1. <<c.from, c.mark>> \in checkCrossDocReferences
      BY <1>4, <2>1, <2>2 DEF checkCrossDocReferences
    <3>2. QED BY <1>2, <3>1
  <2>3. QED BY <2>2
<1>5. ASSUME NEW p \in Parity[gate], NEW d \in p.docs PROVE Holds(d, p.mark)
  <2>1. \A x \in p.docs : There(x)
    BY <1>1, <1>3, <1>5 DEF Closed
  <2>2. ASSUME ~ Holds(d, p.mark) PROVE FALSE
    <3>1. <<"parity", p.mark>> \in checkCrossDocReferences
      BY <1>5, <2>1, <2>2 DEF checkCrossDocReferences
    <3>2. QED BY <1>2, <3>1
  <2>3. QED BY <2>2
<1>6. ASSUME NEW n \in Needs[gate] PROVE Holds(n.in, n.mark)
  <2>1. There(n.if) /\ There(n.in)
    BY <1>1, <1>3, <1>6 DEF Closed
  <2>2. ASSUME ~ Holds(n.in, n.mark) PROVE FALSE
    <3>1. <<n.in, n.mark>> \in checkCrossDocReferences
      BY <1>6, <2>1, <2>2 DEF checkCrossDocReferences
    <3>2. QED BY <1>2, <3>1
  <2>3. QED BY <2>2
<1>7. ASSUME NEW f \in Registry[gate] PROVE Holds(f, "listed")
  <2>1. ASSUME ~ Holds(f, "listed") PROVE FALSE
    <3>1. <<f, "listed">> \in checkRegistries
      BY <1>7, <2>1 DEF checkRegistries
    <3>2. QED BY <1>2, <3>1
  <2>2. QED BY <2>1
<1>8. QED BY <1>3, <1>4, <1>5, <1>6, <1>7 DEF Complete

PassInv ==
  gate \in Gate /\ (exit.mode \in {"run", "strict"} /\ exit.code = 0 => failures = {})

(* A gate that passes means what its rules promise: all documents of the   *)
(* feature exist and are complete, cited items are defined, shared marks   *)
(* are in every document that must have them, whatever was edited and      *)
(* removed before (runAllChecks, checkCrossDocReferences).                 *)
THEOREM GatePassesMeanComplete == GateSpec => []PassMeansComplete
<1>1. GateInit => PassInv
  <2>1. NotRun.mode = "none"
    BY DEF NotRun
  <2>2. QED BY <2>1 DEF GateInit, PassInv
<1>2. PassInv /\ [GateNext]_gateVars => PassInv'
  <2> SUFFICES ASSUME PassInv, [GateNext]_gateVars PROVE PassInv'
    OBVIOUS
  <2>1. ASSUME UNCHANGED <<gate, text, gone, audit>> PROVE failures' = failures
    BY <2>1 DEF failures, checkDoc, checkCrossDocReferences, checkRegistries, checkVerdict,
                verdictReady, Holds, There
  <2>2. ASSUME NEW mode, cli(mode) PROVE PassInv'
    <3>1. UNCHANGED <<gate, text, gone, audit>> /\ exit'.mode = mode
          /\ (mode \in {"run", "strict"} => exit'.code = runAllChecks)
      BY <2>2 DEF cli
    <3>2. runAllChecks = 0 => failures = {}
      BY DEF runAllChecks
    <3>3. QED BY <2>1, <3>1, <3>2 DEF PassInv
  <2>3. ASSUME NEW d \in Files(gate), DropMark(d) \/ CiteStray(d) \/ RemoveFile(d) PROVE PassInv'
    <3>1. gate' = gate /\ exit' = NotRun
      BY <2>3 DEF DropMark, CiteStray, RemoveFile, Edited
    <3>2. QED BY <3>1 DEF PassInv, NotRun
  <2>4. CASE UNCHANGED gateVars
    BY <2>1, <2>4 DEF gateVars, PassInv
  <2>5. QED BY <2>2, <2>3, <2>4 DEF GateNext
<1>3. PassInv => PassMeansComplete
  BY NoFailureIsComplete DEF PassInv, PassMeansComplete, Complete
<1>4. QED BY <1>1, <1>2, <1>3, PTL DEF GateSpec
=============================================================================
