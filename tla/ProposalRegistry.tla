-------------------------- MODULE ProposalRegistry --------------------------
(***************************************************************************)
(* contracts/governance/ProposalRegistry.tact, proposals and votes. A      *)
(* proposal or a vote is only a request at first: the registry asks the    *)
(* resolver who owns the Diamond, for a vote then asks the verifier        *)
(* whether the Diamond is in the proposal's snapshot, and acts when the    *)
(* answers are in. In between it keeps the request under a query id, with  *)
(* an expiry, a place in the total and a place of the claimant's.          *)
(*                                                                         *)
(* `pending` holds pending_expiry, pending_claimants, claimant_pending and *)
(* pending_count; an absent claimant_pending entry is 0. The key           *)
(* proposal_id * 1000 + nft_id is the pair (ids of Diamonds end at 222).   *)
(* The quorum a message may ask for must be the default one, so it is not  *)
(* stored. `ballots` is history: who cast the votes that were counted.     *)
(*                                                                         *)
(* requests: the messages to resolver and verifier. replies: what comes    *)
(* back, bounces included.                                                 *)
(***************************************************************************)
EXTENDS RegistryConfig

CONSTANTS Durations,                \* voting durations asked for
          Quorum,                   \* DEFAULT_QUORUM_THRESHOLD
          PENDING_TTL,              \* 3600 seconds, in ticks
          MAX_PENDING_TOTAL,        \* 64
          MAX_PENDING_PER_CLAIMANT, \* 4
          Voters,                   \* wallets that submit and vote
          VotesUsed,                \* the votes that wallets cast
          MaxProposals,             \* bound: proposals made in a behaviour
          MaxSubmissions,           \* bound: the first queries, which may submit
          MaxQuery                  \* bound: queries made in a behaviour

VARIABLES proposals, proposal_count, votes_cast, next_query_id,
          pending, pending_votes, pending_proposals, pending_eligibility_votes,
          requests, replies, ballots

pendingVars == <<pending, pending_votes, pending_proposals,
                 pending_eligibility_votes>>
registryVars == <<proposals, proposal_count, votes_cast, next_query_id,
                  pendingVars, requests, replies, ballots>>

ProposalId == 1 .. MaxProposals
QueryId == 0 .. MaxQuery - 1
Vote == {"for", "against", "abstain"}
Status == {"active", "accepted", "rejected", "no_quorum"}

Proposal == [author_nft_id : NFT, voting_start : Nat, voting_end : Nat,
             status : Status, votes : [Vote -> Nat]]
PendingVote == [proposal_id : ProposalId, nft_id : NFT, vote : Vote,
                claimant : Address]
PendingProposal == [author_nft_id : NFT, voting_duration : Nat,
                    claimant : Address]

ASSUME ProposalRegistryAssumption ==
  /\ Durations \subseteq Nat
  /\ Quorum \in Nat
  /\ PENDING_TTL \in Nat
  /\ MAX_PENDING_TOTAL \in Nat /\ MAX_PENDING_PER_CLAIMANT \in Nat
  /\ Voters \subseteq Address
  /\ VotesUsed \subseteq {"for", "against", "abstain"}
  /\ MaxProposals \in Nat /\ MaxSubmissions \in Nat /\ MaxQuery \in Nat
  /\ null \notin Nat \cup Proposal \cup PendingVote \cup PendingProposal

Ledger == [expiry : [QueryId -> Opt(Nat)], claimants : [QueryId -> Opt(Address)],
           claimant_pending : [Address -> Int], count : Int]
Ballot == [proposal_id : ProposalId, nft_id : NFT, voter : Address,
           vote : Vote, at : Nat]
Request ==
  [op : {"ResolveOwnership"}, to : Address, query_id : QueryId, nft_id : NFT] \cup
  [op : {"EligibilityCheckRequest"}, to : Address, query_id : QueryId,
   proposal_id : ProposalId, nft_id : NFT]
Reply ==
  [op : {"OwnershipResolved"}, from : Address, query_id : QueryId, nft_id : NFT,
   owner : Address] \cup
  [op : {"EligibilityCheckResponse"}, from : Address, query_id : QueryId,
   proposal_id : ProposalId, nft_id : NFT, eligible : BOOLEAN] \cup
  [op : {"bounced"}, query_id : QueryId]

RegistryTypeOK ==
  /\ ConfigTypeOK
  /\ now \in 0 .. MaxTime
  /\ proposals \in [ProposalId -> Opt(Proposal)]
  /\ proposal_count \in 0 .. MaxProposals
  /\ votes_cast \subseteq ProposalId \X NFT
  /\ next_query_id \in 0 .. MaxQuery
  /\ pending \in Ledger
  /\ pending_votes \in [QueryId -> Opt(PendingVote)]
  /\ pending_proposals \in [QueryId -> Opt(PendingProposal)]
  /\ pending_eligibility_votes \in [QueryId -> Opt(PendingVote)]
  /\ requests \subseteq Request
  /\ replies \subseteq Reply
  /\ ballots \subseteq Ballot

ProposalsInit ==
  /\ now = 0
  /\ proposals = [p \in ProposalId |-> null]
  /\ proposal_count = 0
  /\ votes_cast = {}
  /\ next_query_id = 0
  /\ pending = [expiry |-> [q \in QueryId |-> null],
                claimants |-> [q \in QueryId |-> null],
                claimant_pending |-> [a \in Address |-> 0], count |-> 0]
  /\ pending_votes = [q \in QueryId |-> null]
  /\ pending_proposals = [q \in QueryId |-> null]
  /\ pending_eligibility_votes = [q \in QueryId |-> null]
  /\ requests = {}
  /\ replies = {}
  /\ ballots = {}

RegistryInit == ConfigInit /\ ProposalsInit

-----------------------------------------------------------------------------
(* The places of the requests in flight.                                   *)

CanReserve(L, claimant) ==
  /\ L.count < MAX_PENDING_TOTAL
  /\ L.claimant_pending[claimant] < MAX_PENDING_PER_CLAIMANT

reservePending(L, q, claimant) ==
  [expiry |-> [L.expiry EXCEPT ![q] = now + PENDING_TTL],
   claimants |-> [L.claimants EXCEPT ![q] = claimant],
   claimant_pending |-> [L.claimant_pending EXCEPT ![claimant] = @ + 1],
   count |-> L.count + 1]

pendingIsFresh(q) == pending.expiry[q] # null /\ pending.expiry[q] > now

ReleaseTotalOnly(L, q) ==
  IF L.claimants[q] = null THEN L
  ELSE [L EXCEPT !.expiry[q] = null, !.claimants[q] = null, !.count = @ - 1]

releasePending(L, q) ==
  IF L.claimants[q] = null THEN L
  ELSE [expiry |-> [L.expiry EXCEPT ![q] = null],
        claimants |-> [L.claimants EXCEPT ![q] = null],
        claimant_pending |->
          [L.claimant_pending EXCEPT ![L.claimants[q]] = IF @ <= 1 THEN 0 ELSE @ - 1],
        count |-> L.count - 1]

clearPending(q) ==
  /\ pending' = releasePending(pending, q)
  /\ pending_votes' = [pending_votes EXCEPT ![q] = null]
  /\ pending_proposals' = [pending_proposals EXCEPT ![q] = null]
  /\ pending_eligibility_votes' = [pending_eligibility_votes EXCEPT ![q] = null]
  /\ UNCHANGED <<proposals, proposal_count, votes_cast, next_query_id, requests,
                 ballots>>

CleanupPending(q) ==
  /\ ~ pendingIsFresh(q)
  /\ clearPending(q)
  /\ UNCHANGED replies

-----------------------------------------------------------------------------
(* Requests.                                                               *)

Ask(q, r) ==
  /\ next_query_id < MaxQuery
  /\ q = next_query_id
  /\ next_query_id' = next_query_id + 1
  /\ requests' = requests \cup {r}

SubmitProposal(sender, nft, duration) ==
  /\ next_query_id < MaxSubmissions
  /\ owner_resolver # null
  /\ CanReserve(pending, sender)
  /\ \E q \in QueryId :
       /\ Ask(q, [op |-> "ResolveOwnership", to |-> owner_resolver,
                  query_id |-> q, nft_id |-> nft])
       /\ pending' = reservePending(pending, q, sender)
       /\ pending_proposals' = [pending_proposals EXCEPT ![q] =
            [author_nft_id |-> nft, voting_duration |-> duration,
             claimant |-> sender]]
  /\ UNCHANGED <<proposals, proposal_count, votes_cast, pending_votes,
                 pending_eligibility_votes, replies, ballots>>

(* The checks that every stage of a vote repeats: the proposal is open and *)
(* the Diamond has not voted on it.                                        *)
Votable(p, nft) ==
  /\ proposals[p] # null
  /\ proposals[p].status = "active"
  /\ proposals[p].voting_start <= now /\ now <= proposals[p].voting_end
  /\ <<p, nft>> \notin votes_cast

CastVote(sender, p, nft, vote) ==
  /\ Votable(p, nft)
  /\ snapshot_verifier # null
  /\ owner_resolver # null
  /\ CanReserve(pending, sender)
  /\ \E q \in QueryId :
       /\ Ask(q, [op |-> "ResolveOwnership", to |-> owner_resolver,
                  query_id |-> q, nft_id |-> nft])
       /\ pending' = reservePending(pending, q, sender)
       /\ pending_votes' = [pending_votes EXCEPT ![q] =
            [proposal_id |-> p, nft_id |-> nft, vote |-> vote,
             claimant |-> sender]]
  /\ UNCHANGED <<proposals, proposal_count, votes_cast, pending_proposals,
                 pending_eligibility_votes, replies, ballots>>

-----------------------------------------------------------------------------
(* Answers.                                                                *)

EligibilityAsked(v, nft, owner) ==
  /\ nft = v.nft_id
  /\ owner = v.claimant
  /\ Votable(v.proposal_id, v.nft_id)

(* The query is closed and, if the claimant owns the Diamond and the       *)
(* proposal is still open, the next one is opened in the place it frees.   *)
requestVoteEligibility(q, nft, owner) ==
  LET v == pending_votes[q]
      released == releasePending(pending, q)
  IN  /\ pending_votes' = [pending_votes EXCEPT ![q] = null]
      /\ \/ /\ ~ EligibilityAsked(v, nft, owner)
            /\ pending' = released
            /\ UNCHANGED <<next_query_id, requests, pending_eligibility_votes>>
         \/ /\ EligibilityAsked(v, nft, owner)
            /\ snapshot_verifier # null
            /\ CanReserve(released, v.claimant)
            /\ \E r \in QueryId :
                 /\ Ask(r, [op |-> "EligibilityCheckRequest",
                            to |-> snapshot_verifier, query_id |-> r,
                            proposal_id |-> v.proposal_id, nft_id |-> v.nft_id])
                 /\ pending' = reservePending(released, r, v.claimant)
                 /\ pending_eligibility_votes' =
                      [pending_eligibility_votes EXCEPT ![r] = v]
      /\ UNCHANGED <<proposals, proposal_count, votes_cast, pending_proposals,
                     ballots>>

finalizeProposal(q, nft, owner) ==
  LET pr == pending_proposals[q] IN
    /\ pending' = releasePending(pending, q)
    /\ pending_proposals' = [pending_proposals EXCEPT ![q] = null]
    /\ \/ /\ nft # pr.author_nft_id \/ owner # pr.claimant
          /\ UNCHANGED <<proposals, proposal_count>>
       \/ /\ nft = pr.author_nft_id /\ owner = pr.claimant
          /\ proposal_count < MaxProposals
          /\ proposal_count' = proposal_count + 1
          /\ proposals' = [proposals EXCEPT ![proposal_count + 1] =
               [author_nft_id |-> nft, voting_start |-> now,
                voting_end |-> now + pr.voting_duration, status |-> "active",
                votes |-> [v \in Vote |-> 0]]]
    /\ UNCHANGED <<votes_cast, next_query_id, pending_votes,
                   pending_eligibility_votes, requests, ballots>>

OwnershipResolved(sender, q, nft, owner) ==
  /\ owner_resolver # null
  /\ sender = owner_resolver
  /\ \/ ~ pendingIsFresh(q) /\ clearPending(q)
     \/ /\ pendingIsFresh(q)
        /\ pending_votes[q] # null
        /\ requestVoteEligibility(q, nft, owner)
     \/ /\ pendingIsFresh(q)
        /\ pending_votes[q] = null
        /\ pending_proposals[q] # null
        /\ finalizeProposal(q, nft, owner)
     \/ /\ pendingIsFresh(q)
        /\ pending_votes[q] = null
        /\ pending_proposals[q] = null
        /\ UNCHANGED <<proposals, proposal_count, votes_cast, next_query_id,
                       pendingVars, requests, ballots>>

Record(v) ==
  /\ votes_cast' = votes_cast \cup {<<v.proposal_id, v.nft_id>>}
  /\ proposals' = [proposals EXCEPT ![v.proposal_id].votes[v.vote] = @ + 1]
  /\ ballots' = ballots \cup
       {[proposal_id |-> v.proposal_id, nft_id |-> v.nft_id,
         voter |-> v.claimant, vote |-> v.vote, at |-> now]}

RecordUnchecked(v) == Record(v)

RecordOnceAnytime(v) ==
  \/ <<v.proposal_id, v.nft_id>> \in votes_cast /\ UNCHANGED <<proposals, votes_cast, ballots>>
  \/ <<v.proposal_id, v.nft_id>> \notin votes_cast /\ Record(v)

(* All checks are made again: time and votes may have passed meanwhile.    *)
recordEligibleVote(v) ==
  \/ /\ ~ Votable(v.proposal_id, v.nft_id)
     /\ UNCHANGED <<proposals, votes_cast, ballots>>
  \/ Votable(v.proposal_id, v.nft_id) /\ Record(v)

EligibilityCheckResponse(sender, q, p, nft, eligible) ==
  /\ snapshot_verifier # null
  /\ sender = snapshot_verifier
  /\ \/ ~ pendingIsFresh(q) /\ clearPending(q)
     \/ /\ pendingIsFresh(q)
        /\ pending_eligibility_votes[q] = null
        /\ UNCHANGED <<proposals, proposal_count, votes_cast, next_query_id,
                       pendingVars, requests, ballots>>
     \/ /\ pendingIsFresh(q)
        /\ pending_eligibility_votes[q] # null
        /\ LET v == pending_eligibility_votes[q]
               used == p = v.proposal_id /\ nft = v.nft_id /\ eligible
           IN  \/ used /\ recordEligibleVote(v)
               \/ ~ used /\ UNCHANGED <<proposals, votes_cast, ballots>>
        /\ pending' = releasePending(pending, q)
        /\ pending_eligibility_votes' =
             [pending_eligibility_votes EXCEPT ![q] = null]
        /\ UNCHANGED <<proposal_count, next_query_id, pending_votes,
                       pending_proposals, requests>>

-----------------------------------------------------------------------------
Total(p) == p.votes["for"] + p.votes["against"] + p.votes["abstain"]

Outcome(p) ==
  IF Total(p) < Quorum THEN "no_quorum"
  ELSE IF p.votes["for"] > p.votes["against"] THEN "accepted" ELSE "rejected"

FinalizeProposal(p) ==
  /\ proposals[p] # null
  /\ proposals[p].status = "active"
  /\ now > proposals[p].voting_end
  /\ proposals' = [proposals EXCEPT ![p].status = Outcome(proposals[p])]
  /\ UNCHANGED <<proposal_count, votes_cast, next_query_id, pendingVars,
                 requests, replies, ballots>>

(* What wallets send to the registry. *)
RegistryUserNext ==
  \/ \E sender \in Voters, nft \in NFT :
       \/ \E d \in Durations : SubmitProposal(sender, nft, d)
       \/ \E p \in ProposalId, vote \in VotesUsed : CastVote(sender, p, nft, vote)
  \/ \E p \in ProposalId : FinalizeProposal(p)
  \/ \E q \in QueryId : CleanupPending(q)

(* A message of resolver or verifier, or a bounced request, arrives.       *)
ReplyDelivered(m) ==
  /\ replies' = replies \ {m}
  /\ \/ /\ m.op = "OwnershipResolved"
        /\ OwnershipResolved(m.from, m.query_id, m.nft_id, m.owner)
     \/ /\ m.op = "EligibilityCheckResponse"
        /\ EligibilityCheckResponse(m.from, m.query_id, m.proposal_id, m.nft_id,
                                    m.eligible)
     \/ m.op = "bounced" /\ clearPending(m.query_id)

-----------------------------------------------------------------------------
BallotsOf(p) == {b \in ballots : b.proposal_id = p}

(* The queries in flight, and those of one claimant.                       *)
Held(L) == {q \in QueryId : L.claimants[q] # null}
HeldBy(L, a) == {q \in QueryId : L.claimants[q] = a}

LedgerExact(L) ==
  /\ L.count = Cardinality(Held(L))
  /\ \A a \in Address : L.claimant_pending[a] = Cardinality(HeldBy(L, a))

LedgerWithinLimits(L) ==
  /\ L.count <= MAX_PENDING_TOTAL
  /\ \A a \in Address : L.claimant_pending[a] <= MAX_PENDING_PER_CLAIMANT

(* The query is held exactly when one of the three maps has its request,   *)
(* which is its claimant's.                                                *)
OneRequest(q) ==
  /\ pending.claimants[q] = null <=>
       /\ pending_votes[q] = null
       /\ pending_proposals[q] = null
       /\ pending_eligibility_votes[q] = null
  /\ pending_votes[q] # null =>
       /\ pending_votes[q].claimant = pending.claimants[q]
       /\ pending_proposals[q] = null /\ pending_eligibility_votes[q] = null
  /\ pending_proposals[q] # null =>
       /\ pending_proposals[q].claimant = pending.claimants[q]
       /\ pending_eligibility_votes[q] = null
  /\ pending_eligibility_votes[q] # null =>
       pending_eligibility_votes[q].claimant = pending.claimants[q]

(* Capacity is neither leaked nor given twice: the total and every         *)
(* claimant's count are the numbers of requests in flight, each of them in *)
(* exactly one of the three maps and under its own claimant, through       *)
(* answers, bounces, expiries and cleanups in any order.                   *)
PendingExact ==
  /\ LedgerExact(pending)
  /\ LedgerWithinLimits(pending)
  /\ \A q \in QueryId : OneRequest(q)

(* One Diamond, one vote, and the tallies say so: however many requests of *)
(* one Diamond are in flight at once, it is counted once per proposal, in  *)
(* the tally of the vote that was counted.                                 *)
TallyIsBallots ==
  /\ \A b, c \in ballots :
       (b.proposal_id = c.proposal_id /\ b.nft_id = c.nft_id) => b = c
  /\ \A p \in ProposalId, v \in Vote :
       proposals[p] # null =>
         proposals[p].votes[v] = Cardinality({b \in BallotsOf(p) : b.vote = v})

(* The outcome is the one of all the votes ever counted, each of them cast *)
(* within the voting window: no vote is counted after the window or after  *)
(* finalisation, and no outcome is revised.                                *)
OutcomeIsFinal ==
  \A p \in ProposalId :
    LET Number(v) == Cardinality({b \in BallotsOf(p) : b.vote = v}) IN
      /\ \A b \in BallotsOf(p) :
           proposals[p].voting_start <= b.at /\ b.at <= proposals[p].voting_end
      /\ (proposals[p] # null /\ proposals[p].status # "active") =>
           /\ now > proposals[p].voting_end
           /\ proposals[p].status = "no_quorum" <=> Cardinality(BallotsOf(p)) < Quorum
           /\ proposals[p].status = "accepted" =>
                Number("for") > Number("against")
           /\ proposals[p].status = "rejected" =>
                Number("for") <= Number("against")
=============================================================================
