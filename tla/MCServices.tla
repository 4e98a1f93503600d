----------------------------- MODULE MCServices -----------------------------
(***************************************************************************)
(* What runs beside the chain: the API's gateway and its webhooks, the     *)
(* lending adapter and the records of the other adapters, the readiness    *)
(* gates of the release. They share no state, so one behaviour is one of   *)
(* them while the others rest.                                             *)
(***************************************************************************)
EXTENDS ApiGateway, WebhookService, LendingAdapter, AdapterRecords, ReadinessGates

VARIABLE part           \* the service at work

MCGrant == {[permissions |-> {"create", "read"}, expires |-> nil], [permissions |-> {"read"}, expires |-> 0]}
MCBlockedCidrs == {[base |-> 2, prefix |-> 1]}

Parts == {"gateway", "webhooks", "lending", "records", "gates"}
Rest(p) == part # p
GatewayRests == env = [production |-> FALSE, secret |-> "unset", urls |-> FALSE, reachable |-> FALSE, sandbox |-> FALSE]
WebhooksRest == cipherKey = (CHOOSE k \in CipherKey : TRUE) /\ addresses = [h \in Host |-> {0}]
LendingRests == chain[1].ownerAddress = Nobody /\ chain[1].signal = (CHOOSE g \in Signal : TRUE)
GatesRest == gate = "bridge" /\ audit = "none"

ServicesInit ==
  /\ part \in Parts
  /\ GatewayInit /\ (Rest("gateway") => GatewayRests)
  /\ WebhookInit /\ (Rest("webhooks") => WebhooksRest)
  /\ LendingInit /\ (Rest("lending") => LendingRests)
  /\ GateInit /\ (Rest("gates") => GatesRest)
  /\ RecordsInit

ServicesNext ==
  \/ /\ part = "gateway" /\ GatewayNext
     /\ UNCHANGED <<part, webhookVars, lendingVars, recordVars, gateVars>>
  \/ /\ part = "webhooks" /\ WebhookNext
     /\ UNCHANGED <<part, gatewayVars, lendingVars, recordVars, gateVars>>
  \/ /\ part = "lending" /\ LendingNext
     /\ UNCHANGED <<part, gatewayVars, webhookVars, recordVars, gateVars>>
  \/ /\ part = "records" /\ RecordsNext
     /\ UNCHANGED <<part, gatewayVars, webhookVars, lendingVars, gateVars>>
  \/ /\ part = "gates" /\ GateNext
     /\ UNCHANGED <<part, gatewayVars, webhookVars, lendingVars, recordVars>>

servicesVars == <<part, gatewayVars, webhookVars, lendingVars, recordVars, gateVars>>
ServicesSpec == ServicesInit /\ [][ServicesNext]_servicesVars
=============================================================================
