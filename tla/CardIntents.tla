---------------------------- MODULE CardIntents ----------------------------
(***************************************************************************)
(* What the owner of a card declares to the outside: bridge intents        *)
(* (contracts/CrossChainBridge.tact), lending intents                      *)
(* (contracts/LendingProtocolCoordinator.tact) and collateral signals      *)
(* (contracts/CollateralSignal.tact). No contract acts on them; services   *)
(* beside the chain read them. Timestamps and the hash of an external      *)
(* transaction, which no handler reads, are left out.                      *)
(*                                                                         *)
(* History, which no guard reads: `round`, how often an intent was         *)
(* registered, and `outcomes`, what ended each of those rounds.            *)
(***************************************************************************)
EXTENDS CardOwners, FiniteSets

CONSTANTS IntentId,
          Relayers,             \* addresses the deployer may authorise
          MAX_SUPPORTED_CHAIN,
          Lenders,
          Values,               \* amounts asked for, 0 among them
          MaxRounds             \* bound: registrations of one intent

ASSUME IntentsAssumption ==
  /\ Relayers \subseteq Address
  /\ MAX_SUPPORTED_CHAIN \in Nat
  /\ Values \subseteq Nat
  /\ MaxRounds \in Nat

VARIABLES bridge_intents, authorized_relayers, lending_intents, collateral_signals,
          round, outcomes

intentHistory == <<round, outcomes>>
bridgeVars == <<bridge_intents, authorized_relayers>>
intentVars == <<bridgeVars, lending_intents, collateral_signals, intentHistory>>

intentKey == NFT \X IntentId
Intent == intentKey \cup NFT        \* of the bridge, of the lending coordinator

BridgeIntentInfo == [status : {"PENDING", "CONFIRMED", "CANCELLED"},
                     target_chain : Nat, amount : Nat]
LendingIntentInfo == [intent_state : {"ACTIVE", "CANCELLED"}, target_lender : Lenders,
                      collateral_signal_amount : Nat]
SignalState == {"NONE", "ACTIVE", "WARNING", "RELEASED"}
CollateralSignalInfo == [signal_state : SignalState, collateral_amount_ton : Nat]

(* An item is no pair, and null no record. *)
ASSUME IntentKeysAssumption ==
  /\ NFT \cap intentKey = {}
  /\ null \notin BridgeIntentInfo /\ null \notin LendingIntentInfo

defaultCollateralSignalInfo == [signal_state |-> "NONE", collateral_amount_ton |-> 0]

IntentsTypeOK ==
  /\ bridge_intents \in [intentKey -> BridgeIntentInfo \cup {null}]
  /\ authorized_relayers \subseteq Address
  /\ lending_intents \in [NFT -> LendingIntentInfo \cup {null}]
  /\ collateral_signals \in [NFT -> CollateralSignalInfo]
  /\ round \in [Intent -> Nat]
  /\ outcomes \subseteq Intent \X Nat \X {"CONFIRMED", "CANCELLED"}

IntentsInit ==
  /\ bridge_intents = [k \in intentKey |-> null]
  /\ authorized_relayers = {}
  /\ lending_intents = [n \in NFT |-> null]
  /\ collateral_signals = [n \in NFT |-> defaultCollateralSignalInfo]
  /\ round = [i \in Intent |-> 0]
  /\ outcomes = {}

NextRound(i) ==
  /\ round[i] < MaxRounds
  /\ round' = [round EXCEPT ![i] = @ + 1]
  /\ UNCHANGED outcomes
Ends(i, outcome) ==
  /\ outcomes' = outcomes \cup {<<i, round[i], outcome>>}
  /\ UNCHANGED round

-----------------------------------------------------------------------------
(* Bridge. RegisterRelayer is the harness's. *)
RegisterRelayer(relayer) ==
  /\ authorized_relayers' = authorized_relayers \cup {relayer}
  /\ UNCHANGED <<bridge_intents, lending_intents, collateral_signals, intentHistory,
                 nft_owners>>

(* Replaces whatever is stored under the id, a confirmed intent too. *)
RegisterBridgeIntent(sender, k, chain, amount) ==
  /\ validateOwnership(sender, k[1])
  /\ amount > 0
  /\ chain >= 1 /\ chain <= MAX_SUPPORTED_CHAIN
  /\ bridge_intents' = [bridge_intents EXCEPT ![k] =
       [status |-> "PENDING", target_chain |-> chain, amount |-> amount]]
  /\ NextRound(k)
  /\ UNCHANGED <<authorized_relayers, lending_intents, collateral_signals, nft_owners>>

CloseBridgeIntent(k, status) ==
  /\ bridge_intents[k] # null
  /\ bridge_intents[k].status = "PENDING"
  /\ bridge_intents' = [bridge_intents EXCEPT ![k].status = status]
  /\ Ends(k, status)
  /\ UNCHANGED <<authorized_relayers, lending_intents, collateral_signals, nft_owners>>

ConfirmBridgeExecution(sender, k) ==
  /\ validateOwnership(sender, k[1]) \/ sender \in authorized_relayers
  /\ CloseBridgeIntent(k, "CONFIRMED")

(* Without the check of the status. *)
CancelAnyway(sender, k) ==
  /\ validateOwnership(sender, k[1])
  /\ bridge_intents[k] # null
  /\ bridge_intents' = [bridge_intents EXCEPT ![k].status = "CANCELLED"]
  /\ Ends(k, "CANCELLED")
  /\ UNCHANGED <<authorized_relayers, lending_intents, collateral_signals, nft_owners>>

CancelBridgeIntent(sender, k) ==
  /\ validateOwnership(sender, k[1])
  /\ CloseBridgeIntent(k, "CANCELLED")

-----------------------------------------------------------------------------
(* Lending. An amount is of type coins, so never negative.                 *)
RegisterLendingIntent(sender, n, lender, amount) ==
  /\ validateOwnership(sender, n)
  /\ lending_intents' = [lending_intents EXCEPT ![n] =
       [intent_state |-> "ACTIVE", target_lender |-> lender,
        collateral_signal_amount |-> amount]]
  /\ NextRound(n)
  /\ UNCHANGED <<bridgeVars, collateral_signals, nft_owners>>

HasActiveIntent(n) ==
  lending_intents[n] # null /\ lending_intents[n].intent_state = "ACTIVE"

CancelLendingIntent(sender, n) ==
  /\ validateOwnership(sender, n)
  /\ HasActiveIntent(n)
  /\ lending_intents' = [lending_intents EXCEPT ![n].intent_state = "CANCELLED"]
  /\ Ends(n, "CANCELLED")
  /\ UNCHANGED <<bridgeVars, collateral_signals, nft_owners>>

UpdateLendingIntent(sender, n, lender, amount) ==
  /\ validateOwnership(sender, n)
  /\ HasActiveIntent(n)
  /\ lending_intents' = [lending_intents EXCEPT ![n] =
       [intent_state |-> "ACTIVE", target_lender |-> lender,
        collateral_signal_amount |-> amount]]
  /\ UNCHANGED <<bridgeVars, collateral_signals, intentHistory, nft_owners>>

-----------------------------------------------------------------------------
(* Collateral. The resolver, here any owner it finds, replaces the owner   *)
(* and leaves the signal as it is.                                         *)
ResolveSignalOwner(n, owner) ==
  /\ nft_owners' = [nft_owners EXCEPT ![n] = owner]
  /\ UNCHANGED intentVars

StoreSignal(n, state, amount) ==
  /\ collateral_signals' = [collateral_signals EXCEPT ![n] =
       [signal_state |-> state, collateral_amount_ton |-> amount]]
  /\ UNCHANGED <<bridgeVars, lending_intents, intentHistory, nft_owners>>

SignalCollateral(sender, n, amount) ==
  validateOwnership(sender, n) /\ StoreSignal(n, "ACTIVE", amount)

(* From any state to any state. *)
UpdateCollateralSignal(sender, n, state, amount) ==
  validateOwnership(sender, n) /\ StoreSignal(n, state, amount)

(* Also without a signal to release. *)
ReleaseCollateralSignal(sender, n) ==
  validateOwnership(sender, n) /\ StoreSignal(n, "RELEASED", 0)

-----------------------------------------------------------------------------
BridgeNext ==
  \/ \E relayer \in Relayers : RegisterRelayer(relayer)
  \/ \E sender \in Address, k \in intentKey :
       \/ \E chain \in 0 .. MAX_SUPPORTED_CHAIN + 1, amount \in Values :
            RegisterBridgeIntent(sender, k, chain, amount)
       \/ ConfirmBridgeExecution(sender, k)
       \/ CancelBridgeIntent(sender, k)

LendingNext ==
  \E sender \in Address, n \in NFT :
    \/ \E lender \in Lenders, amount \in Values :
         \/ RegisterLendingIntent(sender, n, lender, amount)
         \/ UpdateLendingIntent(sender, n, lender, amount)
    \/ CancelLendingIntent(sender, n)

SignalNext ==
  \E sender \in Address, n \in NFT :
    \/ ResolveSignalOwner(n, sender)
    \/ \E amount \in Values :
         \/ SignalCollateral(sender, n, amount)
         \/ \E state \in SignalState : UpdateCollateralSignal(sender, n, state, amount)
    \/ ReleaseCollateralSignal(sender, n)

HarnessRegisters ==
  \E n \in NFT, owner \in Address : RegisterNFTOwner(n, owner) /\ UNCHANGED intentVars

IntentsNext == HarnessRegisters \/ BridgeNext \/ LendingNext \/ SignalNext

IntentsSpec ==
  OwnersInit /\ IntentsInit /\ [][IntentsNext]_<<intentVars, nft_owners>>

-----------------------------------------------------------------------------
(* A relayer's confirmation, the owner's cancellation and an update may    *)
(* cross on their way to the contract. Between two registrations of an     *)
(* intent at most one of confirmation and cancellation takes effect, and   *)
(* from then on the stored state is that outcome: no update, late          *)
(* confirmation or second cancellation revives or rewrites it.             *)
OneOutcomePerIntent ==
  \A i \in Intent :
    LET ended == {o \in outcomes : o[1] = i /\ o[2] = round[i]}
        stored == IF i \in NFT THEN lending_intents[i] ELSE bridge_intents[i]
        state == IF i \in NFT THEN stored.intent_state ELSE stored.status IN
    /\ Cardinality(ended) <= 1
    /\ round[i] = 0 <=> stored = null
    /\ \A o \in ended : state = o[3]
    /\ round[i] > 0 /\ ended = {} => state \in {"PENDING", "ACTIVE"}
=============================================================================
