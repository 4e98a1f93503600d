----------------------------- MODULE CardOwners -----------------------------
(***************************************************************************)
(* What the contracts beside the payment hub share: each keeps a map from  *)
(* a card to its owner and serves that owner. The deployable contracts     *)
(* (MultiSigCard, RecurringPayments, CrossChainBridge,                     *)
(* LendingProtocolCoordinator) register no owners; as in their tests, they *)
(* come from the harness of phase4/test, once per card. A composite key is *)
(* the hash of the packed card and id: it is modelled as the pair it       *)
(* binds. A request that fails a check is answered with an error code and  *)
(* changes nothing.                                                        *)
(***************************************************************************)
EXTENDS Integers

CONSTANTS Address,          \* owners, co-signers, merchants, relayers
          NFT,
          null

ASSUME OwnersAssumption == null \notin Address

VARIABLE nft_owners

OwnersTypeOK == nft_owners \in [NFT -> Address \cup {null}]

OwnersInit == nft_owners = [n \in NFT |-> null]

validateOwnership(sender, n) == nft_owners[n] # null /\ nft_owners[n] = sender

(* The harnesses' registration. *)
RegisterNFTOwner(n, owner) ==
  /\ nft_owners[n] = null
  /\ nft_owners' = [nft_owners EXCEPT ![n] = owner]
=============================================================================
