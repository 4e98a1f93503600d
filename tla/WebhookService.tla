--------------------------- MODULE WebhookService ---------------------------
(***************************************************************************)
(* api: registration and delivery of webhooks, from the check of the URL   *)
(* to the verification by the merchant's SDK. A call is followed from      *)
(* await to await. The name service and the network are external: a host   *)
(* resolves to other addresses at any time; what was sent reaches the      *)
(* merchant late, several times, with another header, or not at all.       *)
(*                                                                         *)
(* An address is a number of AddressBits bits, a digest the tuple of what  *)
(* it is computed from, a ciphertext its key and its plaintext.            *)
(***************************************************************************)
EXTENDS Naturals, FiniteSets

CONSTANTS Endpoint, Host, Secret, Body, Delivery, CipherKey,
          AddressBits, BlockedCidrs,   \* blocked ranges: [base, prefix]
          AllowHosts,                  \* WEBHOOK_HOST_ALLOWLIST, {} when unset
          JsonBody,                    \* the bodies that parse as an event
          Tolerance,                   \* DEFAULT_TOLERANCE_SECONDS
          MaxTime, MaxSent,            \* bounds
          none

ASSUME WebhookAssumption ==
  /\ {AddressBits, Tolerance, MaxTime, MaxSent} \subseteq Nat
  /\ \A c \in BlockedCidrs : c.base < 2^AddressBits /\ c.prefix <= AddressBits
  /\ JsonBody \subseteq Body
  /\ none \notin Endpoint \cup Host \cup Secret \cup Body

VARIABLES endpoints,     \* WebhookService.endpoints
          cipherKey,     \* WEBHOOK_SECRET_ENCRYPTION_KEY of this process
          addresses,     \* what the name service answers for a host
          call,          \* the calls of register and deliver in progress
          wire,          \* requests sent to the merchant
          time,
          accepted       \* history: the last request the merchant's SDK let pass

webhookVars == <<endpoints, cipherKey, addresses, call, wire, time, accepted>>

-----------------------------------------------------------------------------
Address == 0..(2^AddressBits - 1)

(* parseCidr and the comparison under its mask: the leading bits agree.    *)
InCidr(a, c) ==
  LET hostBits == AddressBits - c.prefix
  IN a \div 2^hostBits = c.base \div 2^hostBits

isBlockedAddress(a) == \E c \in BlockedCidrs : InCidr(a, c)

(* assertSafeWebhookUrl before its await, and what the answer must be.     *)
UrlAllowed(url) ==
  /\ url.scheme = "https"
  /\ AllowHosts = {} \/ url.host \in AllowHosts
AllSafe(answer) == answer # {} /\ \A a \in answer : ~ isBlockedAddress(a)

encrypt(secret) == [key |-> cipherKey, plain |-> secret]
decrypts(cipher) == cipher.key = cipherKey

computeSignature(secret, t, body) == <<secret, t, body>>

signWebhook(secret, body, t) ==
  [t |-> t, v1 |-> computeSignature(secret, t, body)]

(* The digest as the TypeScript and the Python SDK compute it.             *)
computeWebhookSignature(secret, t, body) == <<secret, t, body>>
compute_signature(secret, t, body) == <<secret, t, body>>

(* A header without a positive time or without a versioned digest.         *)
parseSignatureHeader(header) ==
  IF header.t > 0 /\ header.v1 # none THEN header ELSE none

Distance(a, b) == IF a > b THEN a - b ELSE b - a
Fresh(parsed) == Distance(time, parsed.t) <= Tolerance

verifyWebhookSignature(secret, body, header) ==
  LET parsed == parseSignatureHeader(header) IN
  /\ parsed # none /\ Fresh(parsed)
  /\ parsed.v1 = computeSignature(secret, parsed.t, body)

VerifyWithoutWindow(secret, body, header) ==
  LET parsed == parseSignatureHeader(header) IN
  parsed # none /\ parsed.v1 = computeWebhookSignature(secret, parsed.t, body)

verifyWebhook(secret, body, header) ==
  LET parsed == parseSignatureHeader(header) IN
  /\ secret # none
  /\ parsed # none /\ Fresh(parsed)
  /\ parsed.v1 = computeWebhookSignature(secret, parsed.t, body)

(* The Python SDK also parses the body.                                    *)
verify_webhook(secret, body, header) ==
  LET parsed == parseSignatureHeader(header) IN
  /\ secret # none
  /\ parsed # none /\ Fresh(parsed)
  /\ parsed.v1 = compute_signature(secret, parsed.t, body)
  /\ body \in JsonBody

-----------------------------------------------------------------------------
NoCall == [pc |-> "none"]

WebhookInit ==
  /\ endpoints = [e \in Endpoint |-> none]
  /\ cipherKey \in CipherKey
  /\ addresses \in [Host -> {{0}, {2^AddressBits - 1}}]
  /\ call = [d \in Delivery |-> NoCall]
  /\ wire = {}
  /\ time = 1
  /\ accepted = none

(* register, its check first. *)
register(d, e, url, secret) ==
  /\ call[d] = NoCall
  /\ endpoints[e] = none
  /\ UrlAllowed(url)
  /\ call' = [call EXCEPT ![d] = [pc |-> "register", e |-> e, url |-> url, secret |-> secret]]
  /\ UNCHANGED <<endpoints, cipherKey, addresses, wire, time, accepted>>

Registered(d) ==
  LET c == call[d] IN
  /\ c.pc = "register"
  /\ endpoints' = IF AllSafe(addresses[c.url.host]) /\ endpoints[c.e] = none
       THEN [endpoints EXCEPT ![c.e] = [url |-> c.url, active |-> TRUE,
                                        secret_encrypted |-> encrypt(c.secret)]]
       ELSE endpoints
  /\ call' = [call EXCEPT ![d] = NoCall]
  /\ UNCHANGED <<cipherKey, addresses, wire, time, accepted>>

deactivate(e) ==
  /\ endpoints[e] # none
  /\ endpoints' = [endpoints EXCEPT ![e].active = FALSE]
  /\ UNCHANGED <<cipherKey, addresses, call, wire, time, accepted>>

(* deliver looks the endpoint up once and keeps the object.                *)
deliver(d, e, body) ==
  /\ call[d] = NoCall
  /\ Cardinality(wire) < MaxSent
  /\ endpoints[e] # none
  /\ endpoints[e].active
  /\ UrlAllowed(endpoints[e].url)
  /\ call' = [call EXCEPT ![d] = [pc |-> "check", e |-> e, body |-> body]]
  /\ UNCHANGED <<endpoints, cipherKey, addresses, wire, time, accepted>>

(* The name has been looked up again: sign and send, or report why not.    *)
Send(d) ==
  LET c == call[d]
      endpoint == endpoints[c.e]
  IN /\ c.pc = "check"
     /\ IF AllSafe(addresses[endpoint.url.host]) /\ decrypts(endpoint.secret_encrypted)
          THEN /\ wire' = wire \cup
                    {[e |-> c.e, body |-> c.body,
                      header |-> signWebhook(endpoint.secret_encrypted.plain, c.body, time)]}
               /\ call' = [call EXCEPT ![d].pc = "fetch"]
          ELSE /\ call' = [call EXCEPT ![d] = NoCall]
               /\ UNCHANGED wire
     /\ UNCHANGED <<endpoints, cipherKey, addresses, time, accepted>>

(* The merchant's answer, a redirect, a transport error or the timeout.    *)
Settle(d) ==
  /\ call[d].pc = "fetch"
  /\ call' = [call EXCEPT ![d] = NoCall]
  /\ UNCHANGED <<endpoints, cipherKey, addresses, wire, time, accepted>>

(* The process starts again, perhaps with another encryption key; its      *)
(* registry was in memory.                                                 *)
RestartService(k) ==
  /\ cipherKey' = k
  /\ endpoints' = [e \in Endpoint |-> none]
  /\ call' = [d \in Delivery |-> NoCall]
  /\ UNCHANGED <<addresses, wire, time, accepted>>

Resolve(h, answer) ==
  /\ addresses[h] # answer
  /\ addresses' = [addresses EXCEPT ![h] = answer]
  /\ UNCHANGED <<endpoints, cipherKey, call, wire, time, accepted>>

(* A merchant who shares the secret gets a request: a body, and a header   *)
(* made of a digest once sent, or of none, and of any time.                *)
Receive(secret, body, header) ==
  /\ \/ verifyWebhook(secret, body, header)
     \/ verifyWebhookSignature(secret, body, header)
     \/ verify_webhook(secret, body, header)
  /\ accepted' = [secret |-> secret, body |-> body, at |-> time]
  /\ UNCHANGED <<endpoints, cipherKey, addresses, call, wire, time>>

SecondPasses ==
  /\ time < MaxTime
  /\ time' = time + 1
  /\ UNCHANGED <<endpoints, cipherKey, addresses, call, wire, accepted>>

WebhookNext ==
  \/ \E d \in Delivery, e \in Endpoint :
       \/ \E h \in Host, s \in Secret, scheme \in {"http", "https"} :
            register(d, e, [scheme |-> scheme, host |-> h], s)
       \/ \E b \in Body : deliver(d, e, b)
  \/ \E d \in Delivery : Registered(d) \/ Send(d) \/ Settle(d)
  \/ \E e \in Endpoint : deactivate(e)
  \/ \E k \in CipherKey : RestartService(k)
  \/ \E h \in Host, answer \in {{}, {0}, {2^AddressBits - 1}, {0, 2^AddressBits - 1}} :
       Resolve(h, answer)
  \/ \E s \in Secret, b \in Body, v1 \in {m.header.v1 : m \in wire} \cup {none}, t \in 0..MaxTime :
       Receive(s, b, [t |-> t, v1 |-> v1])
  \/ SecondPasses

WebhookSpec == WebhookInit /\ [][WebhookNext]_webhookVars

-----------------------------------------------------------------------------
(* "Timestamp is part of the signed payload, so a captured signature       *)
(* cannot be replayed after the configurable freshness window expires"     *)
(* (webhookSignature): whatever an SDK accepts, the service has sent with  *)
(* the secret registered for it, with this very body and no longer than    *)
(* the tolerance before, through restarts, other encryption keys, another  *)
(* header around an old digest and copies that come late.                  *)
AcceptedIsGenuine ==
  accepted # none => \E m \in wire :
    /\ m.body = accepted.body
    /\ m.header.v1[1] = accepted.secret
    /\ accepted.at <= m.header.t + Tolerance
=============================================================================
