------------------------- MODULE DiamondGovernance -------------------------
(***************************************************************************)
(* Advisory governance by the holders of Diamonds: the proposal registry,  *)
(* the owner resolver and the snapshot verifier with the messages between  *)
(* them, and Diamonds changing hands all the while.                        *)
(*                                                                         *)
(*   wallets --> registry --requests--> resolver, verifier                 *)
(*                        <--replies---                                    *)
(*                                                                         *)
(* The resolver is not part of the repository; like the TestOwnership-     *)
(* Resolver of the tests it answers with the owner at that instant, or     *)
(* rejects the message, which then bounces, or does not answer.            *)
(***************************************************************************)
EXTENDS ProposalRegistry, SnapshotVerifier, Sequences

CONSTANTS FirstOwner,    \* who owns each Diamond when the protocol starts
          MaxOwners      \* bound: owners a Diamond has in a behaviour

ASSUME GovernanceAssumption ==
  /\ FirstOwner \in [NFT -> Voters]
  /\ SnapshotIds = ProposalId
  /\ MaxOwners \in Nat

VARIABLE owners    \* the owners of each Diamond so far and since when

governanceVars == <<configVars, registryVars, verifierVars, owners, now>>

OwnerOf(n) == owners[n][Len(owners[n])].owner

GovernanceTypeOK ==
  /\ RegistryTypeOK
  /\ VerifierTypeOK
  /\ owners \in [NFT -> Seq([owner : Voters, since : Nat])]

(* Newly deployed, or at the end of the deployment runbook: the signers    *)
(* have installed resolver and verifier and the verifier knows its indexer *)
(* (a state that the first one leads to).                                  *)
Deployed == RegistryInit /\ VerifierInit

Activated ==
  /\ ProposalsInit
  /\ \E signers \in SignerSets : governance_signers = signers
  /\ governance_threshold = MIN_GOV_THRESHOLD
  /\ config = null
  /\ owner_resolver \in Resolvers
  /\ snapshot_verifier \in Verifiers
  /\ changes = MaxChanges
  /\ approved_at = [a \in Address |-> null]
  /\ trusted_indexer \in Indexers
  /\ proposal_registry = Registry
  /\ snapshots = [p \in SnapshotIds |-> null]

GovernanceInit ==
  /\ Deployed \/ Activated
  /\ owners = [n \in NFT |-> <<[owner |-> FirstOwner[n], since |-> 0]>>]

-----------------------------------------------------------------------------
Replied(r, m) ==
  /\ requests' = requests \ {r}
  /\ replies' = replies \cup {m}
  /\ UNCHANGED <<proposals, proposal_count, votes_cast, next_query_id,
                 pendingVars, ballots, configVars, verifierVars, owners, now>>

(* The resolver (external). *)
ResolveOwnership(r) ==
  /\ r.op = "ResolveOwnership"
  /\ Replied(r, [op |-> "OwnershipResolved", from |-> r.to,
                 query_id |-> r.query_id, nft_id |-> r.nft_id,
                 owner |-> OwnerOf(r.nft_id)])

EligibilityCheckRequest(r) ==
  /\ r.op = "EligibilityCheckRequest"
  /\ Replied(r, [op |-> "EligibilityCheckResponse", from |-> r.to,
                 query_id |-> r.query_id, proposal_id |-> r.proposal_id,
                 nft_id |-> r.nft_id,
                 eligible |-> isEligible(r.proposal_id, r.nft_id)])

BounceRequest(r) ==
  Replied(r, [op |-> "bounced", query_id |-> r.query_id])

TransferDiamond(n, to) ==
  /\ Len(owners[n]) < MaxOwners
  /\ to # OwnerOf(n)
  /\ owners' = [owners EXCEPT ![n] = Append(@, [owner |-> to, since |-> now])]
  /\ UNCHANGED <<configVars, registryVars, verifierVars, now>>

-----------------------------------------------------------------------------
ConfigStep ==
  ConfigNext /\ UNCHANGED <<registryVars, verifierVars, owners, now>>

RegistryStep ==
  RegistryUserNext /\ UNCHANGED <<configVars, verifierVars, owners, now>>

DeliverReply(m) ==
  ReplyDelivered(m) /\ UNCHANGED <<configVars, verifierVars, owners, now>>

VerifierStep ==
  VerifierNext /\ UNCHANGED <<configVars, registryVars, owners, now>>

NewBlock ==
  PassTime /\ UNCHANGED <<configVars, registryVars, verifierVars, owners>>

GovernanceNext ==
  \/ ConfigStep
  \/ RegistryStep
  \/ VerifierStep
  \/ \E r \in requests :
       ResolveOwnership(r) \/ EligibilityCheckRequest(r) \/ BounceRequest(r)
  \/ \E m \in replies : DeliverReply(m)
  \/ \E n \in NFT, to \in Voters : TransferDiamond(n, to)
  \/ NewBlock

GovernanceSpec == GovernanceInit /\ [][GovernanceNext]_governanceVars

-----------------------------------------------------------------------------
(* The owner of the Diamond at some moment of the proposal's voting.       *)
HeldDuring(voter, n, p) ==
  \E i \in DOMAIN owners[n] :
    /\ owners[n][i].owner = voter
    /\ owners[n][i].since <= p.voting_end
    /\ i < Len(owners[n]) => owners[n][i + 1].since >= p.voting_start

(* A vote is only counted for a wallet that owned the Diamond during the   *)
(* voting, and for a Diamond of the proposal's snapshot, although both     *)
(* look-ups are answered later than they are asked and Diamonds change     *)
(* hands, requests expire and contracts are replaced in between.           *)
VotersHeldEligibleDiamonds ==
  \A b \in ballots :
    /\ snapshots[b.proposal_id] # null
    /\ b.nft_id \in snapshots[b.proposal_id]
    /\ HeldDuring(b.voter, b.nft_id, proposals[b.proposal_id])
=============================================================================
