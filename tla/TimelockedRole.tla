--------------------------- MODULE TimelockedRole ---------------------------
(***************************************************************************)
(* The promise of every role of the protocol (the hub's admin, the risk    *)
(* authority and the lending adapter of the lock contract): a role only    *)
(* changes hands through a proposal, goes to the proposed address and to   *)
(* no other, and only once Delay has passed since that proposal was made   *)
(* without its having been withdrawn or replaced. `handover` is the one    *)
(* open proposal, with the instant it was made.                            *)
(***************************************************************************)
EXTENDS ChainTime

CONSTANT Delay

VARIABLES holder, handover

roleVars == <<holder, handover>>

RoleInit == holder \in Address /\ handover = null

Propose ==
  \E a \in Address :
    /\ handover' = [to |-> a, since |-> now]
    /\ UNCHANGED <<holder, now>>

Withdraw ==
  /\ handover # null
  /\ handover' = null
  /\ UNCHANGED <<holder, now>>

Accept ==
  /\ handover # null
  /\ now >= handover.since + Delay
  /\ holder' = handover.to
  /\ handover' = null
  /\ UNCHANGED now

RoleNext == Propose \/ Withdraw \/ Accept \/ (PassTime /\ UNCHANGED roleVars)

RoleSpec == RoleInit /\ [][RoleNext]_<<roleVars, now>>
=============================================================================
