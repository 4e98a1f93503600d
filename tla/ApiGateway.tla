----------------------------- MODULE ApiGateway -----------------------------
(***************************************************************************)
(* api: the way of a request from the network to an invoice handler. Boot, *)
(* API keys (issue, rebind, revoke), the per-address and per-key limiters, *)
(* authentication and object-level authorisation with its cache. A request *)
(* is followed from await to await, so that keys change under it.          *)
(*                                                                         *)
(* A key's plaintext and its hash are one value, a record carries a fresh  *)
(* public id. An invoice is the merchant it belongs to. Limiters are the   *)
(* counters of express-rate-limit. `revoked` and `entitled` are history.   *)
(***************************************************************************)
EXTENDS Naturals, FiniteSets

CONSTANTS Key, Merchant, Ip, Caller,
          Route,                         \* the permissions that are asked for
          Grant,                         \* permissions and expiry keys are issued with
          SandboxKey, SandboxMerchant,   \* the published sandbox credential
          AuthFailLimit, PublicLimit, KeyLimit,
          AUTH_CACHE_TTL,
          MaxKeyId, MaxHits, MaxNow,     \* bounds
          nil

ASSUME GatewayAssumption ==
  /\ Route \subseteq {"create", "status", "read"}
  /\ SandboxKey \in Key /\ SandboxMerchant \in Merchant
  /\ {AuthFailLimit, PublicLimit, KeyLimit, AUTH_CACHE_TTL} \subseteq Nat
  /\ {MaxKeyId, MaxHits, MaxNow} \subseteq Nat
  /\ nil \notin Key \cup Merchant \cup Ip \cup Nat
  /\ Grant \subseteq [permissions : SUBSET {"create", "status", "read"}, expires : Nat \cup {nil}]

VARIABLES env,          \* the environment until boot reads it
          server,       \* [up, persistent, sandbox]
          registry,     \* apiKeyRegistry: the keys in memory
          store,        \* api_keys: the keys in PostgreSQL
          authCache,    \* authorisations remembered, by key and merchant
          issuing,      \* a record between memory and store, or nil
          hits,         \* the limiters' counters
          req,          \* the requests in progress
          keyIds,       \* key ids given out so far
          clock,
          revoked, entitled

gatewayVars == <<env, server, registry, store, authCache, issuing, hits, req,
                 keyIds, clock, revoked, entitled>>

-----------------------------------------------------------------------------
(* A route needs a permission; creating an invoice also asks for the key id. *)
Permission == {"create", "status", "read"}
KeyId == 1..MaxKeyId

Unexpired(k) == k.expires = nil \/ clock <= k.expires

(* findAndValidateKey, findAndValidateKeyAsync: never from the cache.      *)
KeyOf(p) == IF server.persistent THEN store[p] ELSE registry[p]
ValidKey(p) == KeyOf(p) # nil /\ KeyOf(p).active /\ Unexpired(KeyOf(p))

(* What isAuthorizedMerchant means to answer.                              *)
BoundTo(p, m) == ValidKey(p) /\ KeyOf(p).merchant = m

(* findByKeyId *)
Named(keys, id) == {p \in Key : keys[p] # nil /\ keys[p].id = id}

(* ERROR_CODE_HTTP_STATUS, the codes a request can end with here.          *)
HttpStatus ==
  [INVALID_API_KEY |-> 401, UNAUTHORIZED_MERCHANT |-> 403,
   INVOICE_NOT_FOUND |-> 404, RATE_LIMIT_EXCEEDED |-> 429]

Idle == [pc |-> "idle"]
Done(status, p) ==
  [pc |-> "done", status |-> status, key |-> IF status = HttpStatus.RATE_LIMIT_EXCEEDED THEN p ELSE nil]

-----------------------------------------------------------------------------
(* resolveStrongSecret: outside of tests, which this module is not about,  *)
(* only a secret that is set, not a known one and long enough.             *)
resolveStrongSecret(secret) == secret = "strong"

configureProductionStorage(e) == ~ e.production \/ (e.urls /\ e.reachable)

isSandboxMode(e) == e.sandbox

GatewayInit ==
  /\ env \in [production : BOOLEAN, secret : {"unset", "weak", "strong"},
              urls : BOOLEAN, reachable : BOOLEAN, sandbox : BOOLEAN]
  /\ server = [up |-> FALSE, persistent |-> FALSE, sandbox |-> FALSE]
  /\ registry = [p \in Key |-> nil] /\ store = [p \in Key |-> nil]
  /\ authCache = [pm \in Key \X Merchant |-> nil]
  /\ issuing = nil
  /\ hits = [limit |-> [ip \in Ip |-> 0], public |-> [ip \in Ip |-> 0],
             key |-> [id \in KeyId |-> [r \in Route |-> 0]]]
  /\ req = [c \in Caller |-> Idle]
  /\ keyIds = 0 /\ clock = 0
  /\ revoked = {} /\ entitled = {}

NewRecord(m, permissions, expires) ==
  [id |-> keyIds + 1, merchant |-> m, permissions |-> permissions,
   expires |-> expires, active |-> TRUE]

(* _invalidateCacheForKey *)
Flushed(p) == [pm \in Key \X Merchant |-> IF pm[1] = p THEN nil ELSE authCache[pm]]

(* startServer, createApp: secrets and stores are checked before a port is *)
(* bound. The sandbox key goes into memory whatever the store.             *)
startServer ==
  /\ env # nil
  /\ env' = nil
  /\ IF resolveStrongSecret(env.secret) /\ configureProductionStorage(env)
       THEN /\ server' = [up |-> TRUE, persistent |-> env.production,
                          sandbox |-> isSandboxMode(env)]
            /\ registry' = IF isSandboxMode(env)
                 THEN [registry EXCEPT ![SandboxKey] =
                         NewRecord(SandboxMerchant, Permission, nil)]
                 ELSE registry
            /\ keyIds' = IF isSandboxMode(env) THEN keyIds + 1 ELSE keyIds
       ELSE UNCHANGED <<server, registry, keyIds>>
  /\ UNCHANGED <<store, authCache, issuing, hits, req, clock, revoked>>

-----------------------------------------------------------------------------
(* registerApiKey: a new record under the key's hash, also when the key is *)
(* bound to another merchant already.                                      *)
RegisterKeepsCache(p, m, permissions, expires) ==
  /\ registry' = [registry EXCEPT ![p] = NewRecord(m, permissions, expires)]
  /\ keyIds' = keyIds + 1
  /\ UNCHANGED authCache

registerApiKey(p, m, permissions, expires) ==
  /\ registry' = [registry EXCEPT ![p] = NewRecord(m, permissions, expires)]
  /\ keyIds' = keyIds + 1
  /\ authCache' = Flushed(p)

(* registerApiKeyAsync; with a store, the record waits in memory for it.   *)
registerApiKeyAsync(p, m, permissions, expires) ==
  /\ server.up
  /\ issuing = nil
  /\ keyIds < MaxKeyId
  /\ p # SandboxKey
  /\ registerApiKey(p, m, permissions, expires)
  /\ issuing' = IF server.persistent
                  THEN [key |-> p, record |-> NewRecord(m, permissions, expires)]
                  ELSE nil
  /\ UNCHANGED <<env, server, store, hits, req, clock, revoked>>

(* Its await: the store takes the record or fails; memory gives it up.     *)
persistKey(done) ==
  /\ issuing # nil
  /\ store' = IF done THEN [store EXCEPT ![issuing.key] = issuing.record] ELSE store
  /\ registry' = [registry EXCEPT ![issuing.key] = nil]
  /\ issuing' = nil
  /\ UNCHANGED <<env, server, authCache, hits, req, keyIds, clock, revoked>>

(* POST /v1/keys: behind the limiter of the address, for the admin token.  *)
createApiKey(ip, p, m, permissions, expires) ==
  /\ hits.public[ip] < PublicLimit
  /\ hits' = [hits EXCEPT !.public[ip] = @ + 1]
  /\ server.up /\ issuing = nil /\ keyIds < MaxKeyId
  /\ p # SandboxKey /\ registry[p] = nil /\ store[p] = nil
  /\ registerApiKey(p, m, permissions, expires)
  /\ issuing' = IF server.persistent
                  THEN [key |-> p, record |-> NewRecord(m, permissions, expires)]
                  ELSE nil
  /\ UNCHANGED <<env, server, store, req, clock, revoked>>

(* DELETE /v1/keys/:key_id, revokeByKeyIdAsync, deactivateKey: by the id,  *)
(* in the store or in memory; then the cache forgets the key.              *)
Deactivated(keys, id) ==
  [p \in Key |-> IF p \in Named(keys, id) THEN [keys[p] EXCEPT !.active = FALSE]
                 ELSE keys[p]]

revokeApiKey(ip, id) ==
  /\ server.up
  /\ hits.public[ip] < PublicLimit
  /\ hits' = [hits EXCEPT !.public[ip] = @ + 1]
  /\ IF server.persistent
       THEN /\ Named(store, id) # {}
            /\ store' = Deactivated(store, id)
            /\ UNCHANGED <<registry, authCache>>
       ELSE \E p \in Named(registry, id) :
              /\ registry' = Deactivated(registry, id)
              /\ authCache' = Flushed(p)
              /\ UNCHANGED store
  /\ revoked' = revoked \cup {id}
  /\ UNCHANGED <<env, server, issuing, req, keyIds, clock>>

-----------------------------------------------------------------------------
(* The end of a request. authFailureRateLimiter takes back what it counted *)
(* when the response is no error; an error stays counted.                  *)
Respond(c, status) ==
  /\ req' = [req EXCEPT ![c] = Done(status, @.key)]
  /\ hits' = IF status < 400 /\ hits.limit[req[c].ip] > 0
               THEN [hits EXCEPT !.limit[req[c].ip] = @ - 1] ELSE hits

(* A protected request: sandboxAnonymousAuthMiddleware, then the limiter   *)
(* of the address, which counts it before anything is known of it.         *)
Arrive(c, ip, header, route, m) ==
  LET p == IF header = nil /\ server.sandbox THEN SandboxKey ELSE header
      counted == [hits EXCEPT !.limit[ip] = @ + 1]
  IN /\ server.up
     /\ req[c].pc \in {"idle", "done"}
     /\ hits.limit[ip] < MaxHits
     /\ hits' = counted
     /\ req' = [req EXCEPT ![c] =
          IF counted.limit[ip] > AuthFailLimit
            THEN Done(HttpStatus.RATE_LIMIT_EXCEEDED, p)
          ELSE IF p = nil
            THEN Done(HttpStatus.INVALID_API_KEY, p)
          ELSE [pc |-> "find", ip |-> ip, key |-> p, route |-> route, m |-> m,
                record |-> nil]]
     /\ UNCHANGED <<env, server, registry, store, authCache, issuing, keyIds, clock, revoked>>

(* authenticateWithPermission, up to the await of touchKeyAsync.           *)
authenticateWithPermission(c) ==
  LET r == req[c] IN
  /\ r.pc = "find"
  /\ IF ~ ValidKey(r.key) THEN Respond(c, HttpStatus.INVALID_API_KEY)
     ELSE IF r.route \notin KeyOf(r.key).permissions THEN Respond(c, HttpStatus.UNAUTHORIZED_MERCHANT)
     ELSE /\ req' = [req EXCEPT ![c].pc = "touch", ![c].record = KeyOf(r.key)]
          /\ UNCHANGED hits
  /\ UNCHANGED <<env, server, registry, store, authCache, issuing, keyIds, clock, revoked>>

(* touchKeyAsync stamps the record that is stored by now, then the limiter *)
(* of the key counts the request.                                          *)
LimitKey(c) ==
  LET r == req[c]
      over == hits.key[r.record.id][r.route] >= KeyLimit
      counted == IF over THEN hits
                 ELSE [hits EXCEPT !.key[r.record.id][r.route] = @ + 1]
  IN IF over THEN Respond(c, HttpStatus.RATE_LIMIT_EXCEEDED)
     ELSE /\ hits' = counted
          /\ req' = [req EXCEPT ![c].pc = "handle"]

TouchWritesBack(c) ==
  /\ req[c].pc = "touch"
  /\ LimitKey(c)
  /\ IF server.persistent
       THEN store' = [store EXCEPT ![req[c].key] = req[c].record] /\ UNCHANGED registry
       ELSE registry' = [registry EXCEPT ![req[c].key] = req[c].record] /\ UNCHANGED store
  /\ UNCHANGED <<env, server, authCache, issuing, keyIds, clock, revoked>>

touchKeyAsync(c) ==
  /\ req[c].pc = "touch"
  /\ LimitKey(c)
  /\ UNCHANGED <<env, server, registry, store, authCache, issuing, keyIds, clock, revoked>>

(* isAuthorizedMerchantAsync: without a store, from the cache while its    *)
(* entry lasts. The handlers read the invoice first: an unknown one is m = nil. *)
Cached(p, m) == authCache[<<p, m>>] # nil /\ authCache[<<p, m>>].expiresAt > clock

isAuthorizedMerchant(p, m) ==
  IF ~ server.persistent /\ Cached(p, m) THEN authCache[<<p, m>>].authorized
  ELSE BoundTo(p, m)

Handle(c) ==
  LET r == req[c]
      authorized == isAuthorizedMerchant(r.key, r.m)
  IN
  /\ r.pc = "handle"
  /\ \/ /\ r.m = nil
        /\ Respond(c, HttpStatus.INVOICE_NOT_FOUND)
        /\ UNCHANGED authCache
     \/ /\ r.m # nil
        /\ authCache' = IF server.persistent \/ Cached(r.key, r.m) THEN authCache
             ELSE [authCache EXCEPT ![<<r.key, r.m>>] =
                     [authorized |-> authorized, expiresAt |-> clock + AUTH_CACHE_TTL]]
        /\ IF ~ authorized THEN Respond(c, HttpStatus.UNAUTHORIZED_MERCHANT)
           ELSE IF r.route = "create"
             THEN req' = [req EXCEPT ![c].pc = "scope"] /\ UNCHANGED hits
           ELSE Respond(c, 200)
  /\ UNCHANGED <<env, server, registry, store, issuing, keyIds, clock, revoked>>

(* createInvoice: getKeyIdAsync scopes the idempotency key; the rest is    *)
(* InvoiceService.                                                         *)
getKeyIdAsync(c) ==
  /\ req[c].pc = "scope"
  /\ Respond(c, IF server.persistent /\ ~ ValidKey(req[c].key) 
                THEN HttpStatus.INVALID_API_KEY ELSE 201)
  /\ UNCHANGED <<env, server, registry, store, authCache, issuing, keyIds, clock, revoked>>

(* GET /v1/invoice/:invoice_id: public, per address.                       *)
getPublicInvoice(ip) ==
  /\ server.up
  /\ hits.public[ip] < PublicLimit
  /\ hits' = [hits EXCEPT !.public[ip] = @ + 1]
  /\ UNCHANGED <<env, server, registry, store, authCache, issuing, req, keyIds, clock, revoked>>

(* The limiters' windows end, time passes. A lapsed entry of the cache is  *)
(* as good as none.                                                        *)
WindowEnds ==
  /\ hits' = [limit |-> [ip \in Ip |-> 0], public |-> [ip \in Ip |-> 0],
              key |-> [id \in KeyId |-> [r \in Route |-> 0]]]
  /\ hits' # hits
  /\ UNCHANGED <<env, server, registry, store, authCache, issuing, req, keyIds, clock, revoked>>

ClockTick ==
  /\ server.up
  /\ clock < MaxNow
  /\ clock' = clock + 1
  /\ authCache' = [pm \in Key \X Merchant |->
       IF authCache[pm] # nil /\ authCache[pm].expiresAt <= clock + 1
         THEN nil ELSE authCache[pm]]
  /\ UNCHANGED <<env, server, registry, store, issuing, hits, req, keyIds, revoked>>

-----------------------------------------------------------------------------
GatewayStep ==
  \/ startServer
  \/ \E p \in Key, m \in Merchant, g \in Grant :
       \/ registerApiKeyAsync(p, m, g.permissions, g.expires)
       \/ \E ip \in Ip : createApiKey(ip, p, m, g.permissions, g.expires)
  \/ \E done \in BOOLEAN : persistKey(done)
  \/ \E ip \in Ip, id \in KeyId : revokeApiKey(ip, id)
  \/ \E c \in Caller, ip \in Ip, h \in Key \cup {nil}, r \in Route,
        m \in Merchant \cup {nil} : Arrive(c, ip, h, r, m)
  \/ \E c \in Caller :
       authenticateWithPermission(c) \/ touchKeyAsync(c) \/ Handle(c) \/ getKeyIdAsync(c)
  \/ \E ip \in Ip : getPublicInvoice(ip)
  \/ WindowEnds
  \/ ClockTick

(* The callers whose key has been good for the invoice's merchant at some  *)
(* moment since their request arrived.                                     *)
InProgress(c) == req[c].pc \notin {"idle", "done"}
Good(c) == InProgress(c) /\ req[c].m # nil /\ BoundTo(req[c].key, req[c].m)
Witnessed ==
  entitled' = {c \in Caller :
    Good(c)' \/ (c \in entitled /\ (InProgress(c) \/ req'[c] = req[c]))}

GatewayNext == GatewayStep /\ Witnessed

GatewaySpec == GatewayInit /\ [][GatewayNext]_gatewayVars

-----------------------------------------------------------------------------
(* "every register/revoke operation flushes all authorization-cache        *)
(* entries for that key hash so revocation and rebinding take effect on    *)
(* the next check" (ApiKeyService): a response with an invoice's data goes *)
(* only to a request whose key was valid and bound to the invoice's        *)
(* merchant at some moment of that request, however the key was rebound,   *)
(* revoked or let expire between its awaits and whatever the cache holds.  *)
ServedOnlyToOwner ==
  \A c \in Caller : req[c].pc = "done" /\ req[c].status < 400 => c \in entitled

(* A revoked key id never works again: no request that had read the record *)
(* before the revocation, and no issue still on its way to the store,      *)
(* brings the record back to life.                                         *)
RevokedStaysRevoked ==
  \A p \in Key : KeyOf(p) # nil /\ KeyOf(p).id \in revoked => ~ KeyOf(p).active

(* "Merchants behind a shared NAT must not be throttled by their           *)
(* neighbours" (rateLimiter): a caller whose key is within its own limit   *)
(* is not turned away. Errors of one merchant, its own 429s included, and  *)
(* successes not yet answered count against every key of the address.      *)
NeighboursDoNotThrottle ==
  \A c \in Caller : req[c].pc = "done" /\ req[c].status = 429 /\ req[c].key # nil
    /\ ValidKey(req[c].key)
      => \E r \in Route : hits.key[KeyOf(req[c].key).id][r] >= KeyLimit
=============================================================================
