-------------------------- MODULE SnapshotVerifier --------------------------
(***************************************************************************)
(* contracts/governance/SnapshotVerifier.tact: the Diamonds that may vote  *)
(* on each proposal, registered once per proposal by the trusted indexer.  *)
(* A snapshot is the set of its eligible Diamonds: the map `eligibility`   *)
(* holds exactly the pairs of a proposal and a member of its snapshot.     *)
(***************************************************************************)
EXTENDS ChainTime

CONSTANTS SnapshotIds,       \* proposal ids that snapshots are made for
          VerifierDeployer,  \* the sender that deployed the verifier
          Indexers,          \* candidates for trusted indexer
          Registry           \* the address of the proposal registry

ASSUME SnapshotVerifierAssumption ==
  VerifierDeployer \in Address /\ Indexers \subseteq Address /\ Registry \in Address

VARIABLES trusted_indexer, proposal_registry, snapshots

verifierVars == <<trusted_indexer, proposal_registry, snapshots>>

VerifierTypeOK ==
  /\ trusted_indexer \in Opt(Indexers)
  /\ proposal_registry \in Opt({Registry})
  /\ snapshots \in [SnapshotIds -> Opt(SUBSET NFT)]

VerifierInit ==
  /\ trusted_indexer = null
  /\ proposal_registry = null
  /\ snapshots = [p \in SnapshotIds |-> null]

SetTrustedIndexer(sender, indexer) ==
  /\ sender = VerifierDeployer
  /\ trusted_indexer' = indexer
  /\ UNCHANGED <<proposal_registry, snapshots>>

SetProposalRegistry(sender) ==
  /\ sender = VerifierDeployer
  /\ proposal_registry = null
  /\ proposal_registry' = Registry
  /\ UNCHANGED <<trusted_indexer, snapshots>>

RegisterSnapshot(sender, p, eligible_nfts) ==
  /\ trusted_indexer # null /\ sender = trusted_indexer
  /\ snapshots[p] = null
  /\ snapshots' = [snapshots EXCEPT ![p] = eligible_nfts]
  /\ UNCHANGED <<trusted_indexer, proposal_registry>>

EligibleUnlessListed(p, nft) == snapshots[p] = null \/ nft \in snapshots[p]

isEligible(p, nft) == snapshots[p] # null /\ nft \in snapshots[p]

VerifierNext ==
  \E sender \in Address :
    \/ \E i \in Indexers : SetTrustedIndexer(sender, i)
    \/ SetProposalRegistry(sender)
    \/ \E p \in SnapshotIds, S \in SUBSET NFT : RegisterSnapshot(sender, p, S)
=============================================================================
