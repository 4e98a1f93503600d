----------------------- MODULE DiamondGovernance_proofs -----------------------
(***************************************************************************)
(* The registry's bookkeeping of requests in flight is exact, a Diamond    *)
(* counts once per proposal, outcomes are final, those who vote held an    *)
(* eligible Diamond, and contracts are replaced by a quorum only: for any  *)
(* number of wallets, Diamonds, proposals, queries and signers, and any    *)
(* limits.                                                                 *)
(***************************************************************************)
EXTENDS DiamondGovernance, FiniteSetTheorems, TLAPS

(* Sets of query ids are finite, so their sizes can be counted.            *)
LEMMA QueriesFinite ==
  ASSUME NEW S \in SUBSET QueryId
  PROVE  IsFiniteSet(S) /\ Cardinality(S) \in Nat
<1>1. IsFiniteSet(QueryId)
  BY FS_Interval, ProposalRegistryAssumption DEF QueryId
<1>2. QED BY <1>1, FS_Subset, FS_CardinalityType

(* One element more, one element less.                                     *)
LEMMA OneMore ==
  ASSUME NEW S \in SUBSET QueryId, NEW q \in QueryId, q \notin S
  PROVE  Cardinality(S \cup {q}) = Cardinality(S) + 1
BY QueriesFinite, FS_AddElement

LEMMA OneLess ==
  ASSUME NEW S \in SUBSET QueryId, NEW q \in S
  PROVE  Cardinality(S \ {q}) = Cardinality(S) - 1 /\ Cardinality(S) >= 1
<1>1. IsFiniteSet(S) /\ Cardinality(S) \in Nat /\ IsFiniteSet(S \ {q})
  BY QueriesFinite
<1>2. Cardinality(S \ {q}) = Cardinality(S) - 1
  BY <1>1, FS_RemoveElement
<1>3. Cardinality(S \ {q}) \in Nat
  BY <1>1, FS_CardinalityType
<1>4. QED BY <1>1, <1>2, <1>3

-----------------------------------------------------------------------------
GoodLedger(L) == L \in Ledger /\ LedgerExact(L) /\ LedgerWithinLimits(L)

(* Releasing a query keeps every count exact and frees only that query.    *)
LEMMA ReleaseKeepsLedger ==
  ASSUME NEW L, GoodLedger(L), NEW q \in QueryId
  PROVE  /\ GoodLedger(releasePending(L, q))
         /\ releasePending(L, q).claimants = [L.claimants EXCEPT ![q] = null]
<1> DEFINE R == releasePending(L, q)
           c == L.claimants[q]
<1>0. /\ L.claimants \in [QueryId -> Opt(Address)]
      /\ L.claimant_pending \in [Address -> Int]
      /\ L.expiry \in [QueryId -> Opt(Nat)]
      /\ L.count \in Int
  BY DEF GoodLedger, Ledger
<1>1. CASE c = null
  <2>1. R = L
    BY <1>1 DEF releasePending
  <2>2. [L.claimants EXCEPT ![q] = null] = L.claimants
    BY <1>0, <1>1
  <2>3. QED BY <2>1, <2>2
<1>2. CASE c # null
  <2>1. c \in Address
    BY <1>0, <1>2 DEF Opt
  <2> DEFINE k == L.claimant_pending[c]
             k2 == IF k <= 1 THEN 0 ELSE k - 1
  <2>2. R = [expiry |-> [L.expiry EXCEPT ![q] = null],
             claimants |-> [L.claimants EXCEPT ![q] = null],
             claimant_pending |-> [L.claimant_pending EXCEPT ![c] = k2],
             count |-> L.count - 1]
    BY <1>2 DEF releasePending
  <2> HIDE DEF R
  <2>3. Held(R) = Held(L) \ {q} /\ q \in Held(L)
    BY <1>0, <1>2, <2>2 DEF Held
  <2>4. Held(L) \in SUBSET QueryId
    BY DEF Held
  <2>5. R.count = Cardinality(Held(R))
    BY <2>2, <2>3, <2>4, OneLess DEF GoodLedger, LedgerExact
  <2>6. ASSUME NEW a \in Address
        PROVE  /\ R.claimant_pending[a] = Cardinality(HeldBy(R, a))
               /\ R.claimant_pending[a] <= L.claimant_pending[a]
    <3>0. HeldBy(L, a) \in SUBSET QueryId
      BY DEF HeldBy
    <3>1. CASE a = c
      <4>1. HeldBy(R, a) = HeldBy(L, a) \ {q} /\ q \in HeldBy(L, a)
        BY <1>0, <2>1, <2>2, <3>1, NullAssumption DEF HeldBy
      <4>2. k = Cardinality(HeldBy(L, a))
        BY <3>1 DEF GoodLedger, LedgerExact
      <4>3. /\ Cardinality(HeldBy(R, a)) = k - 1
            /\ k >= 1 /\ k \in Nat
        BY <3>0, <4>1, <4>2, OneLess, QueriesFinite
      <4>4. R.claimant_pending[a] = k2
        BY <1>0, <2>1, <2>2, <3>1
      <4>5. k2 = k - 1
        BY <4>3
      <4>6. QED BY <3>1, <4>3, <4>4, <4>5
    <3>2. CASE a # c
      <4>1. HeldBy(R, a) = HeldBy(L, a)
        BY <1>0, <2>2, <3>2, NullAssumption DEF HeldBy
      <4>2. R.claimant_pending[a] = L.claimant_pending[a]
        BY <1>0, <2>1, <2>2, <3>2
      <4>3. L.claimant_pending[a] \in Int
        BY <1>0
      <4>4. QED BY <4>1, <4>2, <4>3 DEF GoodLedger, LedgerExact
    <3>3. QED BY <3>1, <3>2
  <2>7. R \in Ledger
    <3>1. k2 \in Int
      BY <1>0, <2>1
    <3> HIDE DEF k2
    <3>2. /\ [L.expiry EXCEPT ![q] = null] \in [QueryId -> Opt(Nat)]
          /\ [L.claimants EXCEPT ![q] = null] \in [QueryId -> Opt(Address)]
      BY <1>0 DEF Opt
    <3>3. [L.claimant_pending EXCEPT ![c] = k2] \in [Address -> Int]
      BY <1>0, <3>1
    <3>4. L.count - 1 \in Int
      BY <1>0
    <3>5. QED BY <2>2, <3>2, <3>3, <3>4 DEF Ledger
  <2>8. LedgerWithinLimits(R)
    <3>1. \A a \in Address : R.claimant_pending[a] \in Int
      BY <2>7 DEF Ledger
    <3>2. R.count <= MAX_PENDING_TOTAL
      BY <1>0, <2>2, ProposalRegistryAssumption DEF GoodLedger, LedgerWithinLimits
    <3>3. QED
      BY <1>0, <2>6, <3>1, <3>2, ProposalRegistryAssumption
      DEF GoodLedger, LedgerWithinLimits
  <2>9. R.claimants = [L.claimants EXCEPT ![q] = null]
    BY <2>2
  <2>10. QED BY <2>5, <2>6, <2>7, <2>8, <2>9 DEF GoodLedger, LedgerExact, R
<1>3. QED BY <1>1, <1>2

(* Reserving a free query counts it once, for its claimant.                *)
LEMMA ReserveKeepsLedger ==
  ASSUME NEW L, GoodLedger(L), NEW q \in QueryId, L.claimants[q] = null,
         NEW c \in Address, CanReserve(L, c), now \in Nat
  PROVE  /\ GoodLedger(reservePending(L, q, c))
         /\ reservePending(L, q, c).claimants = [L.claimants EXCEPT ![q] = c]
<1> DEFINE R == reservePending(L, q, c)
<1>0. /\ L.claimants \in [QueryId -> Opt(Address)]
      /\ L.claimant_pending \in [Address -> Int]
      /\ L.expiry \in [QueryId -> Opt(Nat)]
      /\ L.count \in Int
  BY DEF GoodLedger, Ledger
<1>1. /\ R.expiry = [L.expiry EXCEPT ![q] = now + PENDING_TTL]
      /\ R.claimants = [L.claimants EXCEPT ![q] = c]
      /\ R.claimant_pending =
           [L.claimant_pending EXCEPT ![c] = L.claimant_pending[c] + 1]
      /\ R.count = L.count + 1
  BY DEF reservePending
<1>2. R \in Ledger
  <2>1. now + PENDING_TTL \in Nat
    BY ProposalRegistryAssumption
  <2>2. L.claimant_pending[c] + 1 \in Int
    BY <1>0
  <2>3. QED BY <1>0, <2>1, <2>2 DEF reservePending, Ledger, Opt
<1> HIDE DEF R
<1>3. c # null
  BY NullAssumption
<1>4. R.count = Cardinality(Held(R))
  <2>1. Held(R) = Held(L) \cup {q} /\ q \notin Held(L)
    BY <1>0, <1>1, <1>3 DEF Held
  <2>2. Held(L) \in SUBSET QueryId
    BY DEF Held
  <2>3. QED BY <1>1, <2>1, <2>2, OneMore DEF GoodLedger, LedgerExact
<1>5. ASSUME NEW a \in Address
      PROVE  /\ R.claimant_pending[a] = Cardinality(HeldBy(R, a))
             /\ R.claimant_pending[a] <= MAX_PENDING_PER_CLAIMANT
  <2>0. HeldBy(L, a) \in SUBSET QueryId /\ a # null
    BY NullAssumption DEF HeldBy
  <2>1. CASE a = c
    <3>1. HeldBy(R, a) = HeldBy(L, a) \cup {q} /\ q \notin HeldBy(L, a)
      BY <1>0, <1>1, <2>0, <2>1 DEF HeldBy
    <3>2. R.claimant_pending[a] = L.claimant_pending[a] + 1
      BY <1>0, <1>1, <2>1
    <3>3. L.claimant_pending[a] < MAX_PENDING_PER_CLAIMANT
      BY <2>1 DEF CanReserve
    <3>4. L.claimant_pending[a] \in Int
      BY <1>0
    <3>5. QED
      BY <2>0, <3>1, <3>2, <3>3, <3>4, OneMore, ProposalRegistryAssumption
      DEF GoodLedger, LedgerExact
  <2>2. CASE a # c
    <3>1. HeldBy(R, a) = HeldBy(L, a)
      BY <1>0, <1>1, <2>0, <2>2 DEF HeldBy
    <3>2. R.claimant_pending[a] = L.claimant_pending[a]
      BY <1>0, <1>1, <2>2
    <3>3. QED BY <3>1, <3>2 DEF GoodLedger, LedgerExact, LedgerWithinLimits
  <2>3. QED BY <2>1, <2>2
<1>6. R.count <= MAX_PENDING_TOTAL
  BY <1>0, <1>1, ProposalRegistryAssumption DEF CanReserve
<1>7. QED
  BY <1>1, <1>2, <1>4, <1>5, <1>6 DEF GoodLedger, LedgerExact, LedgerWithinLimits, R

-----------------------------------------------------------------------------
(* The bookkeeping as a whole: ledger, the three maps and the next id.     *)
OneOf(L, pv, pp, pe, q) ==
  /\ L.claimants[q] = null <=> pv[q] = null /\ pp[q] = null /\ pe[q] = null
  /\ pv[q] # null =>
       pv[q].claimant = L.claimants[q] /\ pp[q] = null /\ pe[q] = null
  /\ pp[q] # null => pp[q].claimant = L.claimants[q] /\ pe[q] = null
  /\ pe[q] # null => pe[q].claimant = L.claimants[q]

(* Query ids that were not given out yet must be known to be free: a new   *)
(* request would otherwise replace one in flight and be counted twice.     *)
Books(L, pv, pp, pe, n) ==
  /\ n \in Nat
  /\ GoodLedger(L)
  /\ pv \in [QueryId -> Opt(PendingVote)]
  /\ pp \in [QueryId -> Opt(PendingProposal)]
  /\ pe \in [QueryId -> Opt(PendingVote)]
  /\ \A q \in QueryId : q >= n => L.claimants[q] = null
  /\ \A q \in QueryId : OneOf(L, pv, pp, pe, q)

Bookkeeping ==
  Books(pending, pending_votes, pending_proposals, pending_eligibility_votes,
        next_query_id)

MessagesNameQueries ==
  /\ \A r \in requests : r.query_id \in QueryId
  /\ \A m \in replies : m.query_id \in QueryId

PendingInv == now \in Nat /\ Bookkeeping /\ MessagesNameQueries

(* Releasing a query and dropping its request keeps the books.             *)
LEMMA ReleaseKeepsBooks ==
  ASSUME NEW L, NEW pv, NEW pp, NEW pe, NEW n, Books(L, pv, pp, pe, n),
         NEW q \in QueryId
  PROVE  Books(releasePending(L, q), [pv EXCEPT ![q] = null],
               [pp EXCEPT ![q] = null], [pe EXCEPT ![q] = null], n)
<1> DEFINE R == releasePending(L, q)
           v == [pv EXCEPT ![q] = null]
           p == [pp EXCEPT ![q] = null]
           e == [pe EXCEPT ![q] = null]
<1>1. GoodLedger(R) /\ R.claimants = [L.claimants EXCEPT ![q] = null]
  BY ReleaseKeepsLedger DEF Books
<1>2. L.claimants \in [QueryId -> Opt(Address)]
  BY DEF Books, GoodLedger, Ledger
<1>3. /\ v \in [QueryId -> Opt(PendingVote)]
      /\ p \in [QueryId -> Opt(PendingProposal)]
      /\ e \in [QueryId -> Opt(PendingVote)]
  BY DEF Books, Opt
<1> HIDE DEF R
<1>4. \A j \in QueryId : j >= n => R.claimants[j] = null
  BY <1>1, <1>2 DEF Books
<1>5. ASSUME NEW j \in QueryId PROVE OneOf(R, v, p, e, j)
  <2>1. CASE j = q
    <3>1. R.claimants[j] = null /\ v[j] = null /\ p[j] = null /\ e[j] = null
      BY <1>1, <1>2, <2>1 DEF Books
    <3>2. QED BY <3>1 DEF OneOf
  <2>2. CASE j # q
    <3>1. /\ R.claimants[j] = L.claimants[j]
          /\ v[j] = pv[j] /\ p[j] = pp[j] /\ e[j] = pe[j]
      BY <1>1, <1>2, <2>2 DEF Books
    <3>2. OneOf(L, pv, pp, pe, j)
      BY DEF Books
    <3>3. QED BY <3>1, <3>2 DEF OneOf
  <2>3. QED BY <2>1, <2>2
<1>6. QED BY <1>1, <1>3, <1>4, <1>5 DEF Books, R

(* Opening a request under the next id keeps the books; `pv`, `pp` and     *)
(* `pe` differ from the maps before it in that id alone, and one of them   *)
(* holds the request there.                                                *)
LEMMA ReserveKeepsBooks ==
  ASSUME NEW L, NEW pv, NEW pp, NEW pe, NEW n, Books(L, pv, pp, pe, n),
         NEW c \in Address, CanReserve(L, c), now \in Nat, n \in QueryId,
         NEW v \in [QueryId -> Opt(PendingVote)],
         NEW p \in [QueryId -> Opt(PendingProposal)],
         NEW e \in [QueryId -> Opt(PendingVote)],
         \A j \in QueryId : j # n => v[j] = pv[j] /\ p[j] = pp[j] /\ e[j] = pe[j],
         \/ v[n] # null /\ v[n].claimant = c /\ p[n] = null /\ e[n] = null
         \/ v[n] = null /\ p[n] # null /\ p[n].claimant = c /\ e[n] = null
         \/ v[n] = null /\ p[n] = null /\ e[n] # null /\ e[n].claimant = c
  PROVE  Books(reservePending(L, n, c), v, p, e, n + 1)
<1> DEFINE R == reservePending(L, n, c)
<1>0. n \in Nat /\ L.claimants[n] = null /\ \A j \in QueryId : j \in Int
  BY DEF Books, QueryId
<1>1. GoodLedger(R) /\ R.claimants = [L.claimants EXCEPT ![n] = c]
  BY <1>0, ReserveKeepsLedger DEF Books
<1>2. L.claimants \in [QueryId -> Opt(Address)] /\ c # null
  BY NullAssumption DEF Books, GoodLedger, Ledger
<1> HIDE DEF R
<1>3. ASSUME NEW j \in QueryId, j >= n + 1 PROVE R.claimants[j] = null
  <2>1. j # n /\ j >= n
    BY <1>0, <1>3
  <2>2. L.claimants[j] = null
    BY <2>1 DEF Books
  <2>3. QED BY <1>1, <1>2, <2>1, <2>2
<1>4. ASSUME NEW j \in QueryId PROVE OneOf(R, v, p, e, j)
  <2>1. CASE j = n
    <3>1. R.claimants[j] = c
      BY <1>1, <1>2, <2>1
    <3>2. QED BY <1>2, <2>1, <3>1 DEF OneOf
  <2>2. CASE j # n
    <3>1. /\ R.claimants[j] = L.claimants[j]
          /\ v[j] = pv[j] /\ p[j] = pp[j] /\ e[j] = pe[j]
      BY <1>1, <1>2, <2>2
    <3>2. OneOf(L, pv, pp, pe, j)
      BY DEF Books
    <3>3. QED BY <3>1, <3>2 DEF OneOf
  <2>3. QED BY <2>1, <2>2
<1>5. n + 1 \in Nat
  BY <1>0
<1>6. QED BY <1>1, <1>3, <1>4, <1>5 DEF Books, R

-----------------------------------------------------------------------------
(* The empty registry, newly deployed or activated.                        *)
LEMMA PendingInit == GovernanceInit => PendingInv
<1> SUFFICES ASSUME ProposalsInit PROVE PendingInv
  BY DEF GovernanceInit, Deployed, Activated, RegistryInit
<1>1. pending \in Ledger
  BY DEF ProposalsInit, Ledger, Opt
<1>2. Held(pending) = {}
  BY DEF ProposalsInit, Held
<1>3. \A a \in Address : HeldBy(pending, a) = {} /\ pending.claimant_pending[a] = 0
  BY NullAssumption DEF ProposalsInit, HeldBy
<1>4. pending.count = 0
  BY DEF ProposalsInit
<1>5. GoodLedger(pending)
  BY <1>1, <1>2, <1>3, <1>4, FS_EmptySet, ProposalRegistryAssumption
  DEF GoodLedger, LedgerExact, LedgerWithinLimits
<1>6. Bookkeeping
  BY <1>5 DEF Bookkeeping, Books, OneOf, ProposalsInit, Opt
<1>7. QED BY <1>6 DEF PendingInv, MessagesNameQueries, ProposalsInit

(* An expired, bounced or cleaned-up request.                              *)
LEMMA ClearKeepsBooks ==
  ASSUME Bookkeeping, NEW q \in QueryId, clearPending(q)
  PROVE  Bookkeeping'
<1>1. Books(releasePending(pending, q), [pending_votes EXCEPT ![q] = null],
            [pending_proposals EXCEPT ![q] = null],
            [pending_eligibility_votes EXCEPT ![q] = null], next_query_id)
  BY ReleaseKeepsBooks DEF Bookkeeping
<1>2. QED BY <1>1 DEF clearPending, Bookkeeping

(* A submission opens a query of its claimant.                             *)
LEMMA SubmitKeepsBooks ==
  ASSUME PendingInv, NEW sender \in Voters, NEW nft \in NFT,
         NEW d \in Durations, SubmitProposal(sender, nft, d)
  PROVE  Bookkeeping'
<1> DEFINE rec == [author_nft_id |-> nft, voting_duration |-> d,
                   claimant |-> sender]
<1>1. rec \in PendingProposal /\ rec # null /\ sender \in Address
  BY ProposalRegistryAssumption DEF PendingProposal
<1>2. /\ next_query_id \in QueryId
      /\ next_query_id' = next_query_id + 1
      /\ pending' = reservePending(pending, next_query_id, sender)
      /\ pending_proposals' = [pending_proposals EXCEPT ![next_query_id] = rec]
      /\ pending_votes' = pending_votes
      /\ pending_eligibility_votes' = pending_eligibility_votes
      /\ CanReserve(pending, sender)
  BY DEF SubmitProposal, Ask
<1> HIDE DEF rec
<1>3. Books(pending, pending_votes, pending_proposals,
            pending_eligibility_votes, next_query_id)
  BY DEF PendingInv, Bookkeeping
<1>4. /\ pending_votes[next_query_id] = null
      /\ pending_eligibility_votes[next_query_id] = null
  BY <1>2, <1>3 DEF Books, OneOf
<1>5. /\ pending_proposals' \in [QueryId -> Opt(PendingProposal)]
      /\ pending_proposals'[next_query_id] = rec
      /\ \A j \in QueryId :
           j # next_query_id => pending_proposals'[j] = pending_proposals[j]
  BY <1>1, <1>2, <1>3 DEF Books, Opt
<1>6. rec.claimant = sender
  BY DEF rec
<1>7. Books(reservePending(pending, next_query_id, sender), pending_votes,
            pending_proposals', pending_eligibility_votes, next_query_id + 1)
  <2>1. /\ pending_votes \in [QueryId -> Opt(PendingVote)]
        /\ pending_eligibility_votes \in [QueryId -> Opt(PendingVote)]
        /\ now \in Nat
    BY <1>3 DEF Books, PendingInv
  <2>2. QED
    BY <1>1, <1>2, <1>3, <1>4, <1>5, <1>6, <2>1, ReserveKeepsBooks
<1>8. QED BY <1>2, <1>7 DEF Bookkeeping

(* So does a vote.                                                         *)
LEMMA CastKeepsBooks ==
  ASSUME PendingInv, NEW sender \in Voters, NEW nft \in NFT,
         NEW p \in ProposalId, NEW vote \in VotesUsed,
         CastVote(sender, p, nft, vote)
  PROVE  Bookkeeping'
<1> DEFINE rec == [proposal_id |-> p, nft_id |-> nft, vote |-> vote,
                   claimant |-> sender]
<1>1. rec \in PendingVote /\ rec # null /\ sender \in Address
  BY ProposalRegistryAssumption DEF PendingVote, Vote
<1>2. /\ next_query_id \in QueryId
      /\ next_query_id' = next_query_id + 1
      /\ pending' = reservePending(pending, next_query_id, sender)
      /\ pending_votes' = [pending_votes EXCEPT ![next_query_id] = rec]
      /\ pending_proposals' = pending_proposals
      /\ pending_eligibility_votes' = pending_eligibility_votes
      /\ CanReserve(pending, sender)
  BY DEF CastVote, Ask
<1> HIDE DEF rec
<1>3. Books(pending, pending_votes, pending_proposals,
            pending_eligibility_votes, next_query_id)
  BY DEF PendingInv, Bookkeeping
<1>4. /\ pending_proposals[next_query_id] = null
      /\ pending_eligibility_votes[next_query_id] = null
  BY <1>2, <1>3 DEF Books, OneOf
<1>5. /\ pending_votes' \in [QueryId -> Opt(PendingVote)]
      /\ pending_votes'[next_query_id] = rec
      /\ \A j \in QueryId :
           j # next_query_id => pending_votes'[j] = pending_votes[j]
  BY <1>1, <1>2, <1>3 DEF Books, Opt
<1>6. rec.claimant = sender
  BY DEF rec
<1>7. Books(reservePending(pending, next_query_id, sender), pending_votes',
            pending_proposals, pending_eligibility_votes, next_query_id + 1)
  <2>1. /\ pending_proposals \in [QueryId -> Opt(PendingProposal)]
        /\ pending_eligibility_votes \in [QueryId -> Opt(PendingVote)]
        /\ now \in Nat
    BY <1>3 DEF Books, PendingInv
  <2>2. QED
    BY <1>1, <1>2, <1>3, <1>4, <1>5, <1>6, <2>1, ReserveKeepsBooks
<1>8. QED BY <1>2, <1>7 DEF Bookkeeping

(* A map that has nothing under q is not changed by dropping q.            *)
LEMMA DropNothing ==
  ASSUME NEW S, NEW f \in [QueryId -> S], NEW q \in QueryId, f[q] = null
  PROVE  [f EXCEPT ![q] = null] = f
OBVIOUS

(* The owner's answer to a vote: the query is closed, and the eligibility  *)
(* query takes the place it frees.                                         *)
LEMMA EligibilityKeepsBooks ==
  ASSUME PendingInv, NEW q \in QueryId, NEW nft, NEW owner,
         pending_votes[q] # null, requestVoteEligibility(q, nft, owner)
  PROVE  Bookkeeping'
<1> DEFINE v == pending_votes[q]
           L == releasePending(pending, q)
           pv == [pending_votes EXCEPT ![q] = null]
<1>1. Books(pending, pending_votes, pending_proposals,
            pending_eligibility_votes, next_query_id) /\ now \in Nat
  BY DEF PendingInv, Bookkeeping
<1>2. v \in PendingVote /\ v.claimant \in Address
  BY <1>1 DEF Books, Opt, PendingVote
<1>3. pending_proposals[q] = null /\ pending_eligibility_votes[q] = null
  BY <1>1 DEF Books, OneOf
<1>4. /\ [pending_proposals EXCEPT ![q] = null] = pending_proposals
      /\ [pending_eligibility_votes EXCEPT ![q] = null] = pending_eligibility_votes
  BY <1>1, <1>3, DropNothing DEF Books
<1>5. Books(L, pv, pending_proposals, pending_eligibility_votes, next_query_id)
  BY <1>1, <1>4, ReleaseKeepsBooks
<1>6. pending_votes' = pv /\ pending_proposals' = pending_proposals
  BY DEF requestVoteEligibility
<1>7. CASE ~ EligibilityAsked(v, nft, owner)
  <2>1. /\ pending' = L
        /\ next_query_id' = next_query_id
        /\ pending_eligibility_votes' = pending_eligibility_votes
    BY <1>7 DEF requestVoteEligibility
  <2>2. QED BY <1>5, <1>6, <2>1 DEF Bookkeeping
<1>8. CASE EligibilityAsked(v, nft, owner)
  <2>1. /\ next_query_id \in QueryId
        /\ next_query_id' = next_query_id + 1
        /\ pending' = reservePending(L, next_query_id, v.claimant)
        /\ pending_eligibility_votes' =
             [pending_eligibility_votes EXCEPT ![next_query_id] = v]
        /\ CanReserve(L, v.claimant)
    BY <1>8 DEF requestVoteEligibility, Ask
  <2> HIDE DEF v, L, pv
  <2>2. v # null
    BY <1>2, ProposalRegistryAssumption
  <2>3. /\ pending_eligibility_votes' \in [QueryId -> Opt(PendingVote)]
        /\ pending_eligibility_votes'[next_query_id] = v
        /\ \A j \in QueryId : j # next_query_id =>
             pending_eligibility_votes'[j] = pending_eligibility_votes[j]
    BY <1>1, <1>2, <2>1 DEF Books, Opt
  <2>4. pv[next_query_id] = null /\ pending_proposals[next_query_id] = null
    BY <1>5, <2>1 DEF Books, OneOf
  <2>5. /\ pv \in [QueryId -> Opt(PendingVote)]
        /\ pending_proposals \in [QueryId -> Opt(PendingProposal)]
    BY <1>5 DEF Books
  <2>6. Books(reservePending(L, next_query_id, v.claimant), pv, pending_proposals,
              pending_eligibility_votes', next_query_id + 1)
    BY <1>1, <1>2, <1>5, <2>1, <2>2, <2>3, <2>4, <2>5, ReserveKeepsBooks
  <2>7. QED BY <1>6, <2>1, <2>6 DEF Bookkeeping
<1>9. QED BY <1>7, <1>8

(* The owner's answer to a submission closes its query.                    *)
LEMMA FinalizeKeepsBooks ==
  ASSUME PendingInv, NEW q \in QueryId, NEW nft, NEW owner,
         pending_votes[q] = null, pending_proposals[q] # null,
         finalizeProposal(q, nft, owner)
  PROVE  Bookkeeping'
<1>1. Books(pending, pending_votes, pending_proposals,
            pending_eligibility_votes, next_query_id)
  BY DEF PendingInv, Bookkeeping
<1>2. pending_eligibility_votes[q] = null
  BY <1>1 DEF Books, OneOf
<1>3. /\ [pending_votes EXCEPT ![q] = null] = pending_votes
      /\ [pending_eligibility_votes EXCEPT ![q] = null] = pending_eligibility_votes
  BY <1>1, <1>2, DropNothing DEF Books
<1>4. Books(releasePending(pending, q), pending_votes,
            [pending_proposals EXCEPT ![q] = null], pending_eligibility_votes,
            next_query_id)
  BY <1>1, <1>3, ReleaseKeepsBooks
<1>5. QED BY <1>4 DEF finalizeProposal, Bookkeeping

(* The verifier's answer closes its query, whatever becomes of the vote.   *)
LEMMA ResponseKeepsBooks ==
  ASSUME PendingInv, NEW sender, NEW q \in QueryId, NEW p, NEW nft, NEW eligible,
         EligibilityCheckResponse(sender, q, p, nft, eligible)
  PROVE  Bookkeeping'
<1>1. Books(pending, pending_votes, pending_proposals,
            pending_eligibility_votes, next_query_id)
  BY DEF PendingInv, Bookkeeping
<1>2. CASE ~ pendingIsFresh(q)
  BY <1>2, ClearKeepsBooks DEF EligibilityCheckResponse, PendingInv
<1>3. CASE pendingIsFresh(q) /\ pending_eligibility_votes[q] = null
  BY <1>1, <1>3 DEF EligibilityCheckResponse, Bookkeeping, pendingVars
<1>4. CASE pendingIsFresh(q) /\ pending_eligibility_votes[q] # null
  <2>1. pending_votes[q] = null /\ pending_proposals[q] = null
    BY <1>1, <1>4 DEF Books, OneOf
  <2>2. /\ [pending_votes EXCEPT ![q] = null] = pending_votes
        /\ [pending_proposals EXCEPT ![q] = null] = pending_proposals
    BY <1>1, <2>1, DropNothing DEF Books
  <2>3. Books(releasePending(pending, q), pending_votes, pending_proposals,
              [pending_eligibility_votes EXCEPT ![q] = null], next_query_id)
    BY <1>1, <2>2, ReleaseKeepsBooks
  <2>4. /\ pending' = releasePending(pending, q)
        /\ pending_eligibility_votes' =
             [pending_eligibility_votes EXCEPT ![q] = null]
        /\ UNCHANGED <<next_query_id, pending_votes, pending_proposals>>
    BY <1>4 DEF EligibilityCheckResponse
  <2>5. QED BY <2>3, <2>4 DEF Bookkeeping
<1>5. QED BY <1>2, <1>3, <1>4

(* Any message of the resolver, the verifier or a bounce.                  *)
LEMMA ReplyKeepsBooks ==
  ASSUME PendingInv, NEW m \in replies, ReplyDelivered(m)
  PROVE  Bookkeeping'
<1>1. m.query_id \in QueryId
  BY DEF PendingInv, MessagesNameQueries
<1>2. CASE m.op = "bounced" /\ clearPending(m.query_id)
  BY <1>1, <1>2, ClearKeepsBooks DEF PendingInv
<1>3. CASE EligibilityCheckResponse(m.from, m.query_id, m.proposal_id, m.nft_id,
                                    m.eligible)
  BY <1>1, <1>3, ResponseKeepsBooks
<1>4. CASE OwnershipResolved(m.from, m.query_id, m.nft_id, m.owner)
  <2>1. CASE clearPending(m.query_id)
    BY <1>1, <2>1, ClearKeepsBooks DEF PendingInv
  <2>2. CASE /\ pending_votes[m.query_id] # null
             /\ requestVoteEligibility(m.query_id, m.nft_id, m.owner)
    BY <1>1, <2>2, EligibilityKeepsBooks
  <2>3. CASE /\ pending_votes[m.query_id] = null
             /\ pending_proposals[m.query_id] # null
             /\ finalizeProposal(m.query_id, m.nft_id, m.owner)
    BY <1>1, <2>3, FinalizeKeepsBooks
  <2>4. CASE UNCHANGED <<pendingVars, next_query_id>>
    BY <2>4 DEF PendingInv, Bookkeeping, pendingVars
  <2>5. QED BY <1>4, <2>1, <2>2, <2>3, <2>4 DEF OwnershipResolved
<1>5. QED BY <1>2, <1>3, <1>4 DEF ReplyDelivered

(* The messages in flight only ever name query ids that exist.             *)
LEMMA UserMessages ==
  ASSUME PendingInv, RegistryUserNext
  PROVE  MessagesNameQueries'
<1>0. MessagesNameQueries
  BY DEF PendingInv
<1>1. ASSUME NEW sender \in Voters, NEW nft \in NFT, NEW d \in Durations,
             SubmitProposal(sender, nft, d)
      PROVE  MessagesNameQueries'
  BY <1>0, <1>1 DEF SubmitProposal, Ask, MessagesNameQueries
<1>2. ASSUME NEW sender \in Voters, NEW nft \in NFT, NEW p \in ProposalId,
             NEW vote \in VotesUsed, CastVote(sender, p, nft, vote)
      PROVE  MessagesNameQueries'
  BY <1>0, <1>2 DEF CastVote, Ask, MessagesNameQueries
<1>3. ASSUME NEW p \in ProposalId, FinalizeProposal(p) PROVE MessagesNameQueries'
  BY <1>0, <1>3 DEF FinalizeProposal, MessagesNameQueries
<1>4. ASSUME NEW q \in QueryId, CleanupPending(q) PROVE MessagesNameQueries'
  BY <1>0, <1>4 DEF CleanupPending, clearPending, MessagesNameQueries
<1>5. QED BY <1>1, <1>2, <1>3, <1>4 DEF RegistryUserNext

LEMMA DeliveredMessages ==
  ASSUME PendingInv, NEW m \in replies, ReplyDelivered(m)
  PROVE  MessagesNameQueries'
<1>0. MessagesNameQueries
  BY DEF PendingInv
<1>1. replies' \subseteq replies
  BY DEF ReplyDelivered
<1>2. \A r \in requests' : r.query_id \in QueryId
  <2>1. CASE requests' = requests
    BY <1>0, <2>1 DEF MessagesNameQueries
  <2>2. CASE requestVoteEligibility(m.query_id, m.nft_id, m.owner)
    <3>1. CASE requests' = requests
      BY <1>0, <3>1 DEF MessagesNameQueries
    <3>2. CASE requests' # requests
      BY <1>0, <2>2, <3>2 DEF requestVoteEligibility, Ask, MessagesNameQueries
    <3>3. QED BY <3>1, <3>2
  <2>3. QED
    BY <2>1, <2>2 DEF ReplyDelivered, OwnershipResolved, EligibilityCheckResponse,
                      clearPending, finalizeProposal
<1>3. QED BY <1>0, <1>1, <1>2 DEF MessagesNameQueries

(* Every step of the protocol keeps the invariant.                         *)
LEMMA PendingStep == PendingInv /\ [GovernanceNext]_governanceVars => PendingInv'
<1> SUFFICES ASSUME PendingInv, [GovernanceNext]_governanceVars PROVE PendingInv'
  OBVIOUS
<1>1. CASE UNCHANGED registryVars /\ now' \in Nat
  BY <1>1 DEF PendingInv, Bookkeeping, MessagesNameQueries, registryVars, pendingVars
<1>2. CASE RegistryStep
  <2>1. Bookkeeping'
    <3>1. ASSUME NEW sender \in Voters, NEW nft \in NFT, NEW d \in Durations,
                 SubmitProposal(sender, nft, d)
          PROVE  Bookkeeping'
      BY <3>1, SubmitKeepsBooks
    <3>2. ASSUME NEW sender \in Voters, NEW nft \in NFT, NEW p \in ProposalId,
                 NEW vote \in VotesUsed, CastVote(sender, p, nft, vote)
          PROVE  Bookkeeping'
      BY <3>2, CastKeepsBooks
    <3>3. ASSUME NEW p \in ProposalId, FinalizeProposal(p) PROVE Bookkeeping'
      BY <3>3 DEF FinalizeProposal, PendingInv, Bookkeeping, pendingVars
    <3>4. ASSUME NEW q \in QueryId, CleanupPending(q) PROVE Bookkeeping'
      BY <3>4, ClearKeepsBooks DEF CleanupPending, PendingInv
    <3>5. QED BY <1>2, <3>1, <3>2, <3>3, <3>4 DEF RegistryStep, RegistryUserNext
  <2>2. QED BY <1>2, <2>1, UserMessages DEF RegistryStep, PendingInv
<1>3. ASSUME NEW m \in replies, DeliverReply(m) PROVE PendingInv'
  BY <1>3, ReplyKeepsBooks, DeliveredMessages DEF DeliverReply, PendingInv
<1>4. ASSUME NEW r \in requests, NEW m, m.query_id = r.query_id, Replied(r, m)
      PROVE  PendingInv'
  <2>1. MessagesNameQueries'
    BY <1>4 DEF Replied, PendingInv, MessagesNameQueries
  <2>2. QED BY <1>4, <2>1 DEF Replied, PendingInv, Bookkeeping, pendingVars
<1>5. ASSUME NEW r \in requests,
             ResolveOwnership(r) \/ EligibilityCheckRequest(r) \/ BounceRequest(r)
      PROVE  PendingInv'
  BY <1>4, <1>5 DEF ResolveOwnership, EligibilityCheckRequest, BounceRequest
<1>6. now \in Nat
  BY DEF PendingInv
<1>7. CASE ConfigStep
  BY <1>1, <1>6, <1>7 DEF ConfigStep
<1>8. CASE VerifierStep
  BY <1>1, <1>6, <1>8 DEF VerifierStep
<1>9. ASSUME NEW n \in NFT, NEW to \in Voters, TransferDiamond(n, to)
      PROVE  PendingInv'
  BY <1>1, <1>6, <1>9 DEF TransferDiamond
<1>10. CASE NewBlock
  BY <1>1, <1>6, <1>10 DEF NewBlock, PassTime
<1>11. CASE UNCHANGED governanceVars
  BY <1>1, <1>6, <1>11 DEF governanceVars
<1>12. QED
  BY <1>2, <1>3, <1>5, <1>7, <1>8, <1>9, <1>10, <1>11 DEF GovernanceNext

(* The registry never leaks capacity nor gives it out twice, and never     *)
(* holds a request that no query accounts for: PendingExact, about         *)
(* reservePending and releasePending, in every behaviour of the protocol.  *)
THEOREM RegistryPendingExact == GovernanceSpec => []PendingExact
<1>1. PendingInv => PendingExact
  BY DEF PendingInv, Bookkeeping, Books, GoodLedger, PendingExact, OneRequest, OneOf
<1>2. QED BY <1>1, PendingInit, PendingStep, PTL DEF GovernanceSpec

-----------------------------------------------------------------------------
(* One Diamond, one vote. The invariant ties the ballots to votes_cast,    *)
(* which is what the double-vote guard reads, and keeps ids that are not   *)
(* yet given out free of proposals and so of ballots.                      *)
BallotsRecorded ==
  \A b \in ballots :
    /\ b.proposal_id \in ProposalId
    /\ proposals[b.proposal_id] # null
    /\ <<b.proposal_id, b.nft_id>> \in votes_cast

ProposalsTyped ==
  /\ proposals \in [ProposalId -> Opt(Proposal)]
  /\ proposal_count \in Nat
  /\ \A p \in ProposalId : p > proposal_count => proposals[p] = null

With(p, v) == {b \in BallotsOf(p) : b.vote = v}

TallyInv ==
  /\ ProposalsTyped
  /\ IsFiniteSet(ballots)
  /\ BallotsRecorded
  /\ TallyIsBallots

(* Counting a vote: one new ballot, one more in its tally.                 *)
LEMMA RecordKeepsTally ==
  ASSUME TallyInv, now \in Nat, NEW v \in PendingVote,
         Votable(v.proposal_id, v.nft_id), Record(v),
         proposal_count' = proposal_count
  PROVE  TallyInv'
<1> DEFINE P == v.proposal_id
           nb == [proposal_id |-> P, nft_id |-> v.nft_id, voter |-> v.claimant,
                  vote |-> v.vote, at |-> now]
           old == proposals[P]
<1>0. P \in ProposalId /\ v.vote \in Vote
  BY DEF PendingVote
<1>1. old \in Proposal /\ old # null
  BY <1>0 DEF Votable, TallyInv, ProposalsTyped, Opt
<1>2. ballots' = ballots \cup {nb} /\ votes_cast' = votes_cast \cup {<<P, v.nft_id>>}
  BY DEF Record
<1>3. \A b \in ballots : ~ (b.proposal_id = P /\ b.nft_id = v.nft_id)
  BY DEF Votable, TallyInv, BallotsRecorded
<1>4. nb.proposal_id = P /\ nb.nft_id = v.nft_id /\ nb.vote = v.vote
  OBVIOUS
<1> DEFINE votes == [old.votes EXCEPT ![v.vote] = @ + 1]
           new == [old EXCEPT !.votes = votes]
<1>5. proposals' = [proposals EXCEPT ![P] = new]
  <2>1. P \in DOMAIN proposals
    BY <1>0 DEF TallyInv, ProposalsTyped
  <2>2. QED BY <2>1 DEF Record
<1>6. /\ old.votes \in [Vote -> Nat]
      /\ votes \in [Vote -> Nat]
      /\ votes[v.vote] = old.votes[v.vote] + 1
      /\ \A w \in Vote : w # v.vote => votes[w] = old.votes[w]
  BY <1>0, <1>1 DEF Proposal
<1> HIDE DEF nb, votes
<1>7. new \in Proposal /\ new.votes = votes /\ new # null
  BY <1>1, <1>6, ProposalRegistryAssumption DEF Proposal
<1> HIDE DEF new
<1>8. /\ proposals'[P] = new
      /\ \A p \in ProposalId : p # P => proposals'[p] = proposals[p]
      /\ proposals' \in [ProposalId -> Opt(Proposal)]
  BY <1>0, <1>5, <1>7 DEF TallyInv, ProposalsTyped, Opt
<1>9. ProposalsTyped'
  <2>1. ASSUME NEW p \in ProposalId, p > proposal_count PROVE proposals'[p] = null
    BY <1>1, <1>8, <2>1 DEF TallyInv, ProposalsTyped
  <2>2. QED BY <1>8, <2>1 DEF TallyInv, ProposalsTyped
<1>10. IsFiniteSet(ballots')
  BY <1>2, FS_AddElement DEF TallyInv
<1>11. BallotsRecorded'
  <2>1. ASSUME NEW b \in ballots
        PROVE  /\ b.proposal_id \in ProposalId
               /\ proposals'[b.proposal_id] # null
               /\ <<b.proposal_id, b.nft_id>> \in votes_cast'
    BY <1>2, <1>7, <1>8 DEF TallyInv, BallotsRecorded
  <2>2. QED BY <1>0, <1>2, <1>4, <1>7, <1>8, <2>1 DEF BallotsRecorded
<1>12. TallyIsBallots'
  <2>1. \A b, c \in ballots' :
          (b.proposal_id = c.proposal_id /\ b.nft_id = c.nft_id) => b = c
    BY <1>2, <1>3, <1>4 DEF TallyInv, TallyIsBallots
  <2>2. ASSUME NEW p \in ProposalId, NEW w \in Vote, proposals'[p] # null
        PROVE  proposals'[p].votes[w] = Cardinality(With(p, w)')
    <3>0. /\ IsFiniteSet(With(p, w)) /\ nb \notin With(p, w)
          /\ Cardinality(With(p, w)) \in Nat
      <4>1. With(p, w) \in SUBSET ballots
        BY DEF With, BallotsOf
      <4>2. nb \notin ballots
        BY <1>3, <1>4
      <4>3. QED BY <4>1, <4>2, FS_Subset, FS_CardinalityType DEF TallyInv
    <3>1. CASE p = P /\ w = v.vote
      <4>1. With(p, w)' = With(p, w) \cup {nb}
        BY <1>2, <1>4, <3>1 DEF With, BallotsOf
      <4>2. Cardinality(With(p, w)') = Cardinality(With(p, w)) + 1
        BY <3>0, <4>1, FS_AddElement
      <4>3. old.votes[w] = Cardinality(With(p, w))
        BY <1>0, <1>1, <3>1 DEF TallyInv, TallyIsBallots, With
      <4>4. QED BY <1>6, <1>7, <1>8, <3>1, <4>2, <4>3
    <3>2. CASE ~ (p = P /\ w = v.vote)
      <4>1. With(p, w)' = With(p, w)
        BY <1>2, <1>4, <3>2 DEF With, BallotsOf
      <4>2. proposals[p] # null /\ proposals'[p].votes[w] = proposals[p].votes[w]
        BY <1>1, <1>6, <1>7, <1>8, <2>2, <3>2
      <4>3. proposals[p].votes[w] = Cardinality(With(p, w))
        BY <4>2 DEF TallyInv, TallyIsBallots, With
      <4>4. QED BY <4>1, <4>2, <4>3
    <3>3. QED BY <3>1, <3>2
  <2>3. QED BY <2>1, <2>2 DEF TallyIsBallots, With
<1>13. QED BY <1>9, <1>10, <1>11, <1>12 DEF TallyInv

(* A step that leaves ballots alone and changes no tally of an existing    *)
(* proposal; a new one starts with nothing counted.                        *)
LEMMA TalliesUntouched ==
  ASSUME TallyInv, UNCHANGED <<ballots, votes_cast>>, ProposalsTyped',
         \A p \in ProposalId : proposals[p] # null =>
           proposals'[p] # null /\ proposals'[p].votes = proposals[p].votes,
         \A p \in ProposalId : (proposals[p] = null /\ proposals'[p] # null) =>
           proposals'[p].votes = [w \in Vote |-> 0]
  PROVE  TallyInv'
<1>1. BallotsRecorded'
  BY DEF TallyInv, BallotsRecorded
<1>2. ASSUME NEW p \in ProposalId, NEW w \in Vote, proposals'[p] # null
      PROVE  proposals'[p].votes[w] = Cardinality(With(p, w)')
  <2>1. With(p, w)' = With(p, w)
    BY DEF With, BallotsOf
  <2>2. CASE proposals[p] # null
    BY <2>1, <2>2 DEF TallyInv, TallyIsBallots, With
  <2>3. CASE proposals[p] = null
    <3>1. With(p, w) = {}
      BY <2>3 DEF TallyInv, BallotsRecorded, With, BallotsOf
    <3>2. proposals'[p].votes[w] = 0
      BY <1>2, <2>3
    <3>3. QED BY <2>1, <3>1, <3>2, FS_EmptySet
  <2>4. QED BY <2>2, <2>3
<1>3. TallyIsBallots'
  BY <1>2 DEF TallyInv, TallyIsBallots, With
<1>4. QED BY <1>1, <1>3 DEF TallyInv

(* A step that leaves proposals, ballots and votes_cast as they are.       *)
LEMMA TallyStutter ==
  ASSUME TallyInv, UNCHANGED <<proposals, proposal_count, votes_cast, ballots>>
  PROVE  TallyInv'
BY TalliesUntouched DEF TallyInv, ProposalsTyped

(* A confirmed submission takes the next id, which no ballot names.        *)
LEMMA NewProposalKeepsTally ==
  ASSUME PendingInv, TallyInv, NEW q \in QueryId, NEW nft, NEW owner,
         pending_proposals[q] # null, finalizeProposal(q, nft, owner)
  PROVE  TallyInv'
<1> DEFINE pr == pending_proposals[q]
           P == proposal_count + 1
           new == [author_nft_id |-> nft, voting_start |-> now,
                   voting_end |-> now + pr.voting_duration, status |-> "active",
                   votes |-> [v \in Vote |-> 0]]
<1>1. CASE UNCHANGED <<proposals, proposal_count>>
  BY <1>1, TallyStutter DEF finalizeProposal
<1>2. CASE /\ nft = pr.author_nft_id
           /\ proposal_count < MaxProposals
           /\ proposal_count' = P
           /\ proposals' = [proposals EXCEPT ![P] = new]
  <2>1. pr \in PendingProposal /\ now \in Nat
    BY DEF PendingInv, Bookkeeping, Books, Opt
  <2>2. new \in Proposal /\ new # null
    <3>1. nft \in NFT /\ now + pr.voting_duration \in Nat
      BY <1>2, <2>1 DEF PendingProposal
    <3>2. new \in Proposal
      BY <2>1, <3>1 DEF Proposal, Status
    <3>3. QED BY <3>2, ProposalRegistryAssumption
  <2>3. new.votes = [v \in Vote |-> 0]
    OBVIOUS
  <2> HIDE DEF new
  <2>4. proposal_count \in Nat /\ P \in ProposalId /\ proposals[P] = null
    BY <1>2, ProposalRegistryAssumption DEF TallyInv, ProposalsTyped, ProposalId
  <2>5. /\ proposals'[P] = new
        /\ \A p \in ProposalId : p # P => proposals'[p] = proposals[p]
        /\ proposals' \in [ProposalId -> Opt(Proposal)]
    BY <1>2, <2>2, <2>4 DEF TallyInv, ProposalsTyped, Opt
  <2>6. ProposalsTyped'
    <3>1. ASSUME NEW p \in ProposalId, p > P PROVE proposals'[p] = null
      <4>1. p # P /\ p > proposal_count
        BY <2>4, <3>1 DEF ProposalId
      <4>2. QED BY <2>5, <4>1 DEF TallyInv, ProposalsTyped
    <3>2. QED BY <1>2, <2>4, <2>5, <3>1 DEF ProposalsTyped
  <2>7. UNCHANGED <<ballots, votes_cast>>
    BY DEF finalizeProposal
  <2>8. \A p \in ProposalId : proposals[p] # null =>
          proposals'[p] # null /\ proposals'[p].votes = proposals[p].votes
    BY <2>4, <2>5
  <2>9. \A p \in ProposalId : (proposals[p] = null /\ proposals'[p] # null) =>
          proposals'[p].votes = [w \in Vote |-> 0]
    BY <2>3, <2>5
  <2>10. QED BY <2>6, <2>7, <2>8, <2>9, TalliesUntouched
<1>3. QED BY <1>1, <1>2 DEF finalizeProposal

(* Finalising a proposal changes its status and no tally.                  *)
LEMMA OutcomeKeepsTally ==
  ASSUME TallyInv, NEW p \in ProposalId, FinalizeProposal(p)
  PROVE  TallyInv'
<1> DEFINE old == proposals[p]
           st == Outcome(old)
           new == [old EXCEPT !.status = st]
<1>1. old \in Proposal
  BY DEF FinalizeProposal, TallyInv, ProposalsTyped, Opt
<1>2. st \in Status
  BY DEF Outcome, Status
<1>3. proposals' = [proposals EXCEPT ![p] = new]
  BY DEF FinalizeProposal, TallyInv, ProposalsTyped
<1> HIDE DEF st
<1>4. new \in Proposal /\ new # null /\ new.votes = old.votes
  BY <1>1, <1>2, ProposalRegistryAssumption DEF Proposal
<1> HIDE DEF new
<1>5. /\ proposals'[p] = new
      /\ \A j \in ProposalId : j # p => proposals'[j] = proposals[j]
      /\ proposals' \in [ProposalId -> Opt(Proposal)]
  BY <1>3, <1>4 DEF TallyInv, ProposalsTyped, Opt
<1>6. UNCHANGED <<proposal_count, ballots, votes_cast>> /\ old # null
  BY DEF FinalizeProposal
<1>7. ProposalsTyped'
  BY <1>5, <1>6 DEF TallyInv, ProposalsTyped
<1>8. QED BY <1>4, <1>5, <1>6, <1>7, TalliesUntouched

(* The verifier's answer records the vote or drops it.                     *)
LEMMA ResponseKeepsTally ==
  ASSUME PendingInv, TallyInv, NEW sender, NEW q \in QueryId, NEW p, NEW nft,
         NEW eligible, EligibilityCheckResponse(sender, q, p, nft, eligible)
  PROVE  TallyInv'
<1> DEFINE v == pending_eligibility_votes[q]
<1>1. CASE UNCHANGED <<proposals, proposal_count, votes_cast, ballots>>
  BY <1>1, TallyStutter
<1>2. CASE /\ v # null /\ Votable(v.proposal_id, v.nft_id) /\ Record(v)
           /\ proposal_count' = proposal_count
  <2>1. v \in PendingVote /\ now \in Nat
    BY <1>2 DEF PendingInv, Bookkeeping, Books, Opt
  <2>2. QED BY <1>2, <2>1, RecordKeepsTally
<1>3. QED
  BY <1>1, <1>2 DEF EligibilityCheckResponse, recordEligibleVote, clearPending

(* Every step of the protocol keeps the tallies.                           *)
LEMMA TallyStep ==
  PendingInv /\ TallyInv /\ [GovernanceNext]_governanceVars => TallyInv'
<1> SUFFICES ASSUME PendingInv, TallyInv, [GovernanceNext]_governanceVars
             PROVE  TallyInv'
  OBVIOUS
<1>1. CASE UNCHANGED <<proposals, proposal_count, votes_cast, ballots>>
  BY <1>1, TallyStutter
<1>2. CASE RegistryStep
  <2>1. ASSUME NEW p \in ProposalId, FinalizeProposal(p) PROVE TallyInv'
    BY <2>1, OutcomeKeepsTally
  <2>2. QED
    BY <1>1, <1>2, <2>1 DEF RegistryStep, RegistryUserNext, SubmitProposal, CastVote,
                           CleanupPending, clearPending
<1>3. ASSUME NEW m \in replies, DeliverReply(m) PROVE TallyInv'
  <2>1. m.query_id \in QueryId /\ ReplyDelivered(m)
    BY <1>3 DEF PendingInv, MessagesNameQueries, DeliverReply
  <2>2. CASE EligibilityCheckResponse(m.from, m.query_id, m.proposal_id, m.nft_id,
                                      m.eligible)
    BY <2>1, <2>2, ResponseKeepsTally
  <2>3. CASE /\ pending_proposals[m.query_id] # null
             /\ finalizeProposal(m.query_id, m.nft_id, m.owner)
    BY <2>1, <2>3, NewProposalKeepsTally
  <2>4. QED
    BY <1>1, <2>1, <2>2, <2>3
    DEF ReplyDelivered, OwnershipResolved, requestVoteEligibility, clearPending
<1>4. ASSUME NEW r \in requests,
             ResolveOwnership(r) \/ EligibilityCheckRequest(r) \/ BounceRequest(r)
      PROVE  TallyInv'
  BY <1>1, <1>4 DEF ResolveOwnership, EligibilityCheckRequest, BounceRequest, Replied
<1>5. CASE UNCHANGED registryVars
  BY <1>1, <1>5 DEF registryVars
<1>6. QED
  BY <1>2, <1>3, <1>4, <1>5
  DEF GovernanceNext, ConfigStep, VerifierStep, TransferDiamond, NewBlock,
      governanceVars

LEMMA TallyInit == GovernanceInit => TallyInv
<1> SUFFICES ASSUME ProposalsInit PROVE TallyInv
  BY DEF GovernanceInit, Deployed, Activated, RegistryInit
<1>1. ProposalsTyped
  BY DEF ProposalsInit, ProposalsTyped, Opt
<1>2. IsFiniteSet(ballots) /\ BallotsRecorded
  BY FS_EmptySet DEF ProposalsInit, BallotsRecorded
<1>3. TallyIsBallots
  BY DEF ProposalsInit, TallyIsBallots
<1>4. QED BY <1>1, <1>2, <1>3 DEF TallyInv

(* However many requests of one Diamond are in flight through the two      *)
(* look-ups, recordEligibleVote counts it once per proposal, and the       *)
(* tallies are the numbers of the counted ballots.                         *)
THEOREM OneVotePerDiamond == GovernanceSpec => []TallyIsBallots
<1>1. TallyInv => TallyIsBallots
  BY DEF TallyInv
<1>2. QED BY <1>1, PendingInit, PendingStep, TallyInit, TallyStep, PTL DEF GovernanceSpec

-----------------------------------------------------------------------------
(* Configuration changes. The timelock of a pending change started when    *)
(* enough of its approvers had approved, so a group of them as large as    *)
(* the threshold approved a full delay before it ends.                     *)
Waited(s, t) == approved_at[s] # null /\ approved_at[s] + TimelockDelay <= t

Endorsed(c) ==
  /\ c.approvers # {} /\ c.approvers \subseteq governance_signers
  /\ c.approvals = Cardinality(c.approvers)
  /\ \A s \in c.approvers : approved_at[s] \in Nat /\ approved_at[s] <= now
  /\ c.executable_at # 0 =>
       \E S \in SUBSET c.approvers : /\ Cardinality(S) >= governance_threshold
                                     /\ \A s \in S : Waited(s, c.executable_at)

ConfigInv ==
  /\ now \in Nat
  /\ governance_signers \in SUBSET Address /\ IsFiniteSet(governance_signers)
  /\ governance_threshold \in Nat
  /\ approved_at = [a \in Address |-> approved_at[a]]
  /\ config \in Opt(ConfigChange)
  /\ config # null => Endorsed(config)

LEMMA ConfigInitInv == GovernanceInit => ConfigInv
<1> SUFFICES ASSUME GovernanceInit PROVE ConfigInv
  OBVIOUS
<1>1. now = 0 /\ config = null /\ approved_at = [a \in Address |-> null]
  BY DEF GovernanceInit, Deployed, Activated, RegistryInit, ConfigInit, ProposalsInit
<1>2. approved_at = [a \in Address |-> approved_at[a]]
  BY <1>1
<1>3. governance_threshold \in Nat
  BY DEF GovernanceInit, Deployed, Activated, RegistryInit, ConfigInit, MIN_GOV_THRESHOLD
<1>4. governance_signers = {} \/ governance_signers \in SignerSets
  BY DEF GovernanceInit, Deployed, Activated, RegistryInit, ConfigInit
<1>5. governance_signers \in SUBSET Address /\ IsFiniteSet(governance_signers)
  BY <1>4, FS_EmptySet, RegistryConfigAssumption
<1>6. QED BY <1>1, <1>2, <1>3, <1>5 DEF ConfigInv, Opt

(* An approver more: the one approval that is new is that of the sender.   *)
LEMMA ApproveKeepsConfig ==
  ASSUME ConfigInv, now' = now, NEW sender \in Address, NEW kind, NEW target,
         ApproveConfigChange(sender, kind, target)
  PROVE  ConfigInv'
<1>1. /\ config \in ConfigChange /\ Endorsed(config) /\ sender \notin config.approvers
      /\ sender \in governance_signers
      /\ UNCHANGED <<governance_signers, governance_threshold>>
      /\ approved_at' = [approved_at EXCEPT ![sender] = now]
  BY DEF ApproveConfigChange, requireGovernanceSigner, NamesPending, ConfigInv, Opt
<1>2. PICK A : A = config.approvers \cup {sender}
  OBVIOUS
<1>3. PICK n : n = config.approvals + 1
  OBVIOUS
<1>4. PICK x : x = IF n >= governance_threshold /\ config.executable_at = 0
                     THEN now + TimelockDelay ELSE config.executable_at
  OBVIOUS
<1>5. config' = [config EXCEPT !.approvers = A, !.approvals = n, !.executable_at = x]
  BY <1>2, <1>3, <1>4 DEF ApproveConfigChange
<1>6. IsFiniteSet(config.approvers) /\ A \subseteq governance_signers /\ A \in SUBSET Address
  <2>1. config.approvers \subseteq governance_signers /\ governance_signers \in SUBSET Address
    BY <1>1 DEF Endorsed, ConfigInv
  <2>2. QED BY <1>1, <1>2, <2>1, FS_Subset DEF ConfigInv
<1>7. n = Cardinality(A) /\ n \in Nat /\ IsFiniteSet(A)
  <2>1. IsFiniteSet(A) /\ Cardinality(A) = Cardinality(config.approvers) + 1
    BY <1>1, <1>2, <1>6, FS_AddElement
  <2>2. Cardinality(config.approvers) \in Nat
    BY <1>6, FS_CardinalityType
  <2>3. QED BY <1>1, <1>3, <2>1, <2>2 DEF Endorsed
<1>8. x \in Nat
  BY <1>1, <1>4, RegistryConfigAssumption DEF ConfigInv, ConfigChange
<1>9. /\ config' \in ConfigChange /\ config'.approvers = A /\ config'.approvals = n
      /\ config'.executable_at = x
  BY <1>1, <1>5, <1>6, <1>7, <1>8 DEF ConfigChange
<1>10. /\ approved_at' = [a \in Address |-> approved_at'[a]]
       /\ approved_at'[sender] = now
       /\ \A s \in config.approvers : approved_at'[s] = approved_at[s]
  <2>1. config.approvers \subseteq Address
    BY <1>2, <1>6
  <2>2. QED BY <1>1, <2>1 DEF ConfigInv
<1>11. \A s \in A : approved_at'[s] \in Nat /\ approved_at'[s] <= now
  BY <1>1, <1>2, <1>10 DEF Endorsed, ConfigInv
<1>12. ASSUME x # 0
       PROVE  \E S \in SUBSET A : /\ Cardinality(S) >= governance_threshold
                                  /\ \A s \in S : Waited(s, x)'
  <2>1. CASE config.executable_at = 0
    <3>1. x = now + TimelockDelay /\ n >= governance_threshold
      BY <1>4, <1>12, <2>1
    <3>2. \A s \in A : Waited(s, x)'
      <4> SUFFICES ASSUME NEW s \in A PROVE Waited(s, x)'
        OBVIOUS
      <4>1. approved_at'[s] \in Nat /\ approved_at'[s] <= now /\ now \in Nat /\ TimelockDelay \in Nat
        BY <1>11, RegistryConfigAssumption DEF ConfigInv
      <4>2. approved_at'[s] + TimelockDelay <= x
        BY <3>1, <4>1
      <4>3. approved_at'[s] # null
        BY <4>1, ProposalRegistryAssumption
      <4>4. QED BY <1>8, <4>2, <4>3 DEF Waited
    <3>3. QED BY <1>7, <3>1, <3>2
  <2>2. CASE config.executable_at # 0
    <3>1. x = config.executable_at
      BY <1>4, <2>2
    <3>2. PICK S \in SUBSET config.approvers : /\ Cardinality(S) >= governance_threshold
                                               /\ \A s \in S : Waited(s, config.executable_at)
      BY <1>1, <2>2 DEF Endorsed
    <3>3. \A s \in S : approved_at'[s] = approved_at[s]
      BY <1>10
    <3>4. \A s \in S : Waited(s, x)'
      BY <3>1, <3>2, <3>3 DEF Waited
    <3>5. S \in SUBSET A
      BY <1>2
    <3>6. QED BY <3>2, <3>4, <3>5
  <2>3. QED BY <2>1, <2>2
<1>13. Endorsed(config)'
  BY <1>1, <1>2, <1>6, <1>7, <1>9, <1>11, <1>12 DEF Endorsed, ConfigInv
<1>14. QED BY <1>1, <1>9, <1>10, <1>13 DEF ConfigInv, Opt

LEMMA ConfigStepInv == ConfigInv /\ [GovernanceNext]_governanceVars => ConfigInv'
<1> SUFFICES ASSUME ConfigInv, [GovernanceNext]_governanceVars PROVE ConfigInv'
  OBVIOUS
<1>1. ASSUME UNCHANGED configVars, now' \in Nat, now' >= now PROVE ConfigInv'
  <2>1. config # null => \A s \in config.approvers : approved_at[s] <= now'
    BY <1>1 DEF ConfigInv, Endorsed
  <2>2. config # null => Endorsed(config)'
    BY <1>1, <2>1 DEF configVars, ConfigInv, Endorsed, Waited
  <2>3. QED BY <1>1, <2>2 DEF configVars, ConfigInv
<1>2. now \in Nat
  BY DEF ConfigInv
<1>3. CASE ConfigStep
  <2>0. now' = now
    BY <1>3 DEF ConfigStep
  <2>1. ASSUME NEW sender \in Address, NEW signers \in SignerSets, NEW threshold \in 0 .. MAX_GOV_SIGNERS,
               ConfigureGovernance(sender, signers, threshold)
        PROVE  ConfigInv'
    <3>1. config = null
      BY <2>1 DEF ConfigureGovernance, ConfigInv, Endorsed
    <3>2. signers \in SUBSET Address /\ IsFiniteSet(signers) /\ threshold \in Nat
      BY RegistryConfigAssumption DEF MAX_GOV_SIGNERS
    <3>3. QED BY <2>0, <2>1, <3>1, <3>2 DEF ConfigureGovernance, ConfigInv
  <2>2. ASSUME NEW sender \in Address, NEW kind \in {"resolver", "verifier"}, NEW target \in Targets(kind),
               NEW h \in CodeHash, ProposeConfigChange(sender, kind, target, h)
        PROVE  ConfigInv'
    <3>1. /\ config' = [kind |-> kind, target |-> target, code_hash |-> h, approvers |-> {sender},
                        approvals |-> 1, executable_at |-> 0]
          /\ approved_at' = [a \in Address |-> IF a = sender THEN now ELSE null]
          /\ UNCHANGED <<governance_signers, governance_threshold>>
          /\ sender \in governance_signers
      BY <2>2 DEF ProposeConfigChange, requireGovernanceSigner
    <3>2. target \in Resolvers \cup Verifiers
      BY DEF Targets
    <3>3. /\ config' \in ConfigChange /\ config'.approvers = {sender} /\ config'.approvals = 1
          /\ config'.executable_at = 0
      BY <3>1, <3>2 DEF ConfigChange
    <3>4. Cardinality({sender}) = 1
      BY FS_Singleton
    <3>5. approved_at'[sender] = now /\ approved_at' = [a \in Address |-> approved_at'[a]]
      BY <3>1
    <3>6. Endorsed(config)'
      BY <2>0, <3>1, <3>3, <3>4, <3>5 DEF Endorsed, ConfigInv
    <3>7. QED BY <2>0, <3>1, <3>3, <3>5, <3>6 DEF ConfigInv, Opt
  <2>3. ASSUME NEW sender \in Address, NEW kind \in {"resolver", "verifier"}, NEW target \in Targets(kind),
               ExecuteConfigChange(sender, kind, target) \/ CancelConfigChange(sender, kind, target)
        PROVE  ConfigInv'
    BY <2>0, <2>3 DEF ExecuteConfigChange, CancelConfigChange, ConfigInv, Opt
  <2>4. QED BY <1>3, <2>0, <2>1, <2>2, <2>3, ApproveKeepsConfig DEF ConfigStep, ConfigNext
<1>4. CASE UNCHANGED configVars /\ now' \in {now, now + 1}
  BY <1>1, <1>2, <1>4
<1>5. QED
  BY <1>3, <1>4 DEF GovernanceNext, RegistryStep, VerifierStep, ResolveOwnership, EligibilityCheckRequest,
                    BounceRequest, Replied, DeliverReply, TransferDiamond, NewBlock, PassTime, governanceVars

(* Resolver and verifier change only once a quorum of the signers has      *)
(* approved that very change a full timelock before, for any signers, any  *)
(* threshold and delay: approvals of changes that were cancelled or done   *)
(* do not count, and nobody counts twice (ApproveConfigChange,             *)
(* ExecuteConfigChange).                                                   *)
THEOREM ConfigHasQuorum == GovernanceSpec => ConfigNeedsQuorum
<1> DEFINE Ready == {s \in governance_signers : /\ approved_at[s] # null
                                                /\ now - approved_at[s] >= TimelockDelay}
<1>1. ASSUME ConfigInv, [GovernanceNext]_governanceVars,
             owner_resolver' # owner_resolver \/ snapshot_verifier' # snapshot_verifier
      PROVE  Cardinality(Ready) >= governance_threshold
  <2>1. ConfigStep
    BY <1>1 DEF GovernanceNext, RegistryStep, VerifierStep, ResolveOwnership, EligibilityCheckRequest,
                BounceRequest, Replied, DeliverReply, TransferDiamond, NewBlock, governanceVars, configVars
  <2>2. PICK sender \in Address, kind \in {"resolver", "verifier"} :
          \E target \in Targets(kind) : ExecuteConfigChange(sender, kind, target)
    BY <1>1, <2>1 DEF ConfigStep, ConfigNext, ConfigureGovernance, ProposeConfigChange,
                      ApproveConfigChange, CancelConfigChange
  <2>3. /\ config # null /\ Endorsed(config) /\ config \in ConfigChange
        /\ config.executable_at # 0 /\ now >= config.executable_at
    BY <1>1, <2>2 DEF ExecuteConfigChange, NamesPending, ConfigInv, Opt
  <2>4. PICK S \in SUBSET config.approvers : /\ Cardinality(S) >= governance_threshold
                                             /\ \A s \in S : Waited(s, config.executable_at)
    BY <2>3 DEF Endorsed
  <2>5. S \subseteq Ready
    <3> SUFFICES ASSUME NEW s \in S PROVE s \in Ready
      OBVIOUS
    <3>1. /\ s \in governance_signers /\ approved_at[s] \in Nat /\ approved_at[s] # null
          /\ approved_at[s] + TimelockDelay <= config.executable_at
      BY <2>3, <2>4 DEF Endorsed, Waited
    <3>2. now \in Nat /\ TimelockDelay \in Nat /\ config.executable_at \in Nat
      BY <1>1, <2>3, RegistryConfigAssumption DEF ConfigInv, ConfigChange
    <3>3. now - approved_at[s] >= TimelockDelay
      BY <2>3, <3>1, <3>2
    <3>4. QED BY <3>1, <3>3
  <2>6. IsFiniteSet(Ready)
    <3>1. Ready \subseteq governance_signers
      OBVIOUS
    <3>2. QED BY <1>1, <3>1, FS_Subset DEF ConfigInv
  <2> HIDE DEF Ready
  <2>7. Cardinality(S) <= Cardinality(Ready) /\ Cardinality(Ready) \in Nat /\ Cardinality(S) \in Nat
    BY <2>5, <2>6, FS_Subset, FS_CardinalityType
  <2>8. governance_threshold \in Nat
    BY <1>1 DEF ConfigInv
  <2>9. QED BY <2>4, <2>7, <2>8
<1>2. ConfigInv /\ [GovernanceNext]_governanceVars =>
        [(owner_resolver' # owner_resolver \/ snapshot_verifier' # snapshot_verifier)
           => Cardinality(Ready) >= governance_threshold]_<<configVars, now>>
  BY <1>1
<1>3. QED BY <1>2, ConfigInitInv, ConfigStepInv, PTL DEF GovernanceSpec, ConfigNeedsQuorum

-----------------------------------------------------------------------------
(* What a step does to the proposals: nothing, one more vote in one that   *)
(* is open, its outcome when its time is over, or a new one.               *)
BallotOf(v) == [proposal_id |-> v.proposal_id, nft_id |-> v.nft_id,
                voter |-> v.claimant, vote |-> v.vote, at |-> now]

SameWindow(P, Q) == Q.voting_start = P.voting_start /\ Q.voting_end = P.voting_end

VoteRecorded ==
  \E v \in PendingVote, new \in Proposal :
    /\ Votable(v.proposal_id, v.nft_id)
    /\ new.status = "active" /\ SameWindow(proposals[v.proposal_id], new)
    /\ proposals' = [proposals EXCEPT ![v.proposal_id] = new]
    /\ ballots' = ballots \cup {BallotOf(v)} /\ now' = now

ProposalFinalized ==
  /\ \E p \in ProposalId : FinalizeProposal(p)
  /\ ballots' = ballots /\ now' = now

ProposalOpened ==
  /\ \E p \in ProposalId, new \in Proposal :
       /\ proposals[p] = null /\ new.status = "active"
       /\ proposals' = [proposals EXCEPT ![p] = new]
  /\ ballots' = ballots /\ now' = now

LEMMA RecordEffect ==
  ASSUME TallyInv, NEW v \in PendingVote, Votable(v.proposal_id, v.nft_id), Record(v), now' = now
  PROVE  VoteRecorded
<1>1. PICK P : P = v.proposal_id
  OBVIOUS
<1>2. PICK old : old = proposals[P]
  OBVIOUS
<1>3. /\ P \in ProposalId /\ v.vote \in Vote /\ old \in Proposal /\ old # null
      /\ old.status = "active" /\ proposals \in [ProposalId -> Opt(Proposal)]
  BY <1>1, <1>2 DEF PendingVote, Votable, TallyInv, ProposalsTyped, Opt
<1>4. PICK votes : votes = [old.votes EXCEPT ![v.vote] = @ + 1]
  OBVIOUS
<1>5. votes \in [Vote -> Nat]
  BY <1>3, <1>4 DEF Proposal
<1>6. PICK new : new = [old EXCEPT !.votes = votes]
  OBVIOUS
<1>7. new \in Proposal /\ new.status = "active" /\ SameWindow(old, new)
  BY <1>3, <1>5, <1>6 DEF Proposal, SameWindow
<1>8. proposals' = [proposals EXCEPT ![P] = new]
  BY <1>1, <1>2, <1>3, <1>4, <1>6 DEF Record
<1>9. ballots' = ballots \cup {BallotOf(v)}
  BY DEF Record, BallotOf
<1>10. QED BY <1>1, <1>2, <1>7, <1>8, <1>9 DEF VoteRecorded

LEMMA OpenEffect ==
  ASSUME PendingInv, TallyInv, NEW q \in QueryId, NEW nft, NEW owner, now' = now,
         pending_proposals[q] # null, finalizeProposal(q, nft, owner)
  PROVE  UNCHANGED <<proposals, ballots>> \/ ProposalOpened
<1>1. CASE UNCHANGED <<proposals, proposal_count>>
  BY <1>1 DEF finalizeProposal
<1>2. CASE ~ UNCHANGED <<proposals, proposal_count>>
  <2>1. PICK pr : pr = pending_proposals[q]
    OBVIOUS
  <2>2. pr \in PendingProposal /\ now \in Nat
    BY <2>1 DEF PendingInv, Bookkeeping, Books, Opt
  <2>3. PICK p : p = proposal_count + 1
    OBVIOUS
  <2>4. PICK end : end = now + pr.voting_duration
    OBVIOUS
  <2>5. PICK new : new = [author_nft_id |-> nft, voting_start |-> now, voting_end |-> end,
                          status |-> "active", votes |-> [v \in Vote |-> 0]]
    OBVIOUS
  <2>6. /\ nft = pr.author_nft_id /\ proposal_count < MaxProposals
        /\ proposals' = [proposals EXCEPT ![p] = new]
    BY <1>2, <2>1, <2>3, <2>4, <2>5 DEF finalizeProposal
  <2>7. nft \in NFT /\ end \in Nat
    BY <2>2, <2>4, <2>6 DEF PendingProposal
  <2>8. new \in Proposal /\ new.status = "active"
    BY <2>2, <2>5, <2>7 DEF Proposal, Status
  <2>9. p \in ProposalId /\ proposals[p] = null
    BY <2>3, <2>6, ProposalRegistryAssumption DEF TallyInv, ProposalsTyped, ProposalId
  <2>10. ballots' = ballots
    BY DEF finalizeProposal
  <2>11. QED BY <2>6, <2>8, <2>9, <2>10 DEF ProposalOpened
<1>3. QED BY <1>1, <1>2

LEMMA ProposalEffects ==
  ASSUME PendingInv, TallyInv, [GovernanceNext]_governanceVars
  PROVE  \/ UNCHANGED <<proposals, ballots>> /\ now' \in {now, now + 1}
         \/ VoteRecorded \/ ProposalFinalized \/ ProposalOpened
<1>1. CASE RegistryStep
  BY <1>1 DEF RegistryStep, RegistryUserNext, SubmitProposal, CastVote, CleanupPending, clearPending,
              ProposalFinalized, FinalizeProposal
<1>2. ASSUME NEW m \in replies, DeliverReply(m)
      PROVE  UNCHANGED <<proposals, ballots, now>> \/ VoteRecorded \/ ProposalOpened
  <2>1. m.query_id \in QueryId /\ ReplyDelivered(m) /\ now' = now
    BY <1>2 DEF PendingInv, MessagesNameQueries, DeliverReply
  <2>2. CASE EligibilityCheckResponse(m.from, m.query_id, m.proposal_id, m.nft_id, m.eligible)
    <3>1. PICK v : v = pending_eligibility_votes[m.query_id]
      OBVIOUS
    <3>2. CASE v # null /\ Votable(v.proposal_id, v.nft_id) /\ Record(v)
      <4>1. v \in PendingVote
        BY <2>1, <3>1, <3>2 DEF PendingInv, Bookkeeping, Books, Opt
      <4>2. QED BY <2>1, <3>2, <4>1, RecordEffect
    <3>3. QED BY <2>1, <2>2, <3>1, <3>2 DEF EligibilityCheckResponse, recordEligibleVote, clearPending
  <2>3. CASE /\ pending_proposals[m.query_id] # null
             /\ finalizeProposal(m.query_id, m.nft_id, m.owner)
    BY <2>1, <2>3, OpenEffect
  <2>4. QED
    BY <2>1, <2>2, <2>3 DEF ReplyDelivered, OwnershipResolved, requestVoteEligibility, clearPending
<1>3. ASSUME NEW r \in requests,
             ResolveOwnership(r) \/ EligibilityCheckRequest(r) \/ BounceRequest(r)
      PROVE  UNCHANGED <<proposals, ballots, now>>
  BY <1>3 DEF ResolveOwnership, EligibilityCheckRequest, BounceRequest, Replied
<1>4. CASE UNCHANGED registryVars /\ now' \in {now, now + 1}
  BY <1>4 DEF registryVars
<1>5. QED
  BY <1>1, <1>2, <1>3, <1>4 DEF GovernanceNext, ConfigStep, VerifierStep, TransferDiamond, NewBlock,
                                PassTime, governanceVars

-----------------------------------------------------------------------------
(* Votes are counted inside the window, outcomes follow it and are those   *)
(* of the tallies, which do not change any more.                           *)
WindowInv ==
  /\ \A b \in ballots : /\ b.vote \in Vote
                        /\ proposals[b.proposal_id].voting_start <= b.at
                        /\ b.at <= proposals[b.proposal_id].voting_end
  /\ \A p \in ProposalId : (proposals[p] # null /\ proposals[p].status # "active") =>
       now > proposals[p].voting_end /\ proposals[p].status = Outcome(proposals[p])

LEMMA WindowStep ==
  PendingInv /\ TallyInv /\ WindowInv /\ [GovernanceNext]_governanceVars => WindowInv'
<1> SUFFICES ASSUME PendingInv, TallyInv, WindowInv, [GovernanceNext]_governanceVars PROVE WindowInv'
  OBVIOUS
<1>1. /\ now \in Nat /\ proposals \in [ProposalId -> Opt(Proposal)]
      /\ \A b \in ballots : b.proposal_id \in ProposalId /\ proposals[b.proposal_id] # null
  BY DEF PendingInv, TallyInv, ProposalsTyped, BallotsRecorded
<1>2. \A p \in ProposalId : proposals[p] # null => proposals[p] \in Proposal
  BY <1>1 DEF Opt
<1>3. \A P \in Proposal : P.voting_end \in Nat /\ P.voting_start \in Nat
  BY DEF Proposal
<1>4. CASE UNCHANGED <<proposals, ballots>> /\ now' \in {now, now + 1}
  <2>1. ASSUME NEW p \in ProposalId, proposals[p] # null, now > proposals[p].voting_end
        PROVE  now' > proposals[p].voting_end
    BY <1>1, <1>2, <1>3, <1>4, <2>1
  <2>2. QED BY <1>4, <2>1 DEF WindowInv
<1>5. CASE VoteRecorded
  <2>1. PICK v \in PendingVote, new \in Proposal :
          /\ Votable(v.proposal_id, v.nft_id)
          /\ new.status = "active" /\ SameWindow(proposals[v.proposal_id], new)
          /\ proposals' = [proposals EXCEPT ![v.proposal_id] = new]
          /\ ballots' = ballots \cup {BallotOf(v)} /\ now' = now
    BY <1>5 DEF VoteRecorded
  <2>2. PICK nb : nb = BallotOf(v)
    OBVIOUS
  <2>3. /\ nb.proposal_id = v.proposal_id /\ nb.at = now /\ nb.vote \in Vote
        /\ v.proposal_id \in ProposalId
    BY <2>2 DEF BallotOf, PendingVote
  <2>4. /\ proposals'[v.proposal_id] = new
        /\ \A p \in ProposalId : p # v.proposal_id => proposals'[p] = proposals[p]
    BY <1>1, <2>1, <2>3
  <2>5. ASSUME NEW b \in ballots'
        PROVE  /\ b.vote \in Vote
               /\ proposals'[b.proposal_id].voting_start <= b.at
               /\ b.at <= proposals'[b.proposal_id].voting_end
    <3>1. CASE b = nb
      BY <2>1, <2>3, <2>4, <3>1 DEF Votable, SameWindow
    <3>2. CASE b \in ballots
      BY <1>1, <2>1, <2>4, <3>2 DEF WindowInv, SameWindow
    <3>3. QED BY <2>1, <2>2, <3>1, <3>2
  <2>6. ASSUME NEW p \in ProposalId, proposals'[p] # null, proposals'[p].status # "active"
        PROVE  now' > proposals'[p].voting_end /\ proposals'[p].status = Outcome(proposals'[p])
    BY <2>1, <2>4, <2>6 DEF WindowInv
  <2>7. QED BY <2>5, <2>6 DEF WindowInv
<1>6. CASE ProposalFinalized
  <2>1. PICK p \in ProposalId : FinalizeProposal(p)
    BY <1>6 DEF ProposalFinalized
  <2>2. PICK old : old = proposals[p]
    OBVIOUS
  <2>3. PICK st : st = Outcome(old)
    OBVIOUS
  <2>4. PICK new : new = [old EXCEPT !.status = st]
    OBVIOUS
  <2>5. /\ old # null /\ old \in Proposal /\ now > old.voting_end
        /\ proposals' = [proposals EXCEPT ![p] = new] /\ ballots' = ballots /\ now' = now
    BY <1>1, <1>2, <1>6, <2>1, <2>2, <2>3, <2>4 DEF FinalizeProposal, ProposalFinalized
  <2>6. new.status = st /\ new.votes = old.votes /\ SameWindow(old, new)
    BY <2>4, <2>5 DEF Proposal, SameWindow
  <2>7. Outcome(new) = st
    BY <2>3, <2>6 DEF Outcome, Total
  <2>8. proposals'[p] = new /\ \A j \in ProposalId : j # p => proposals'[j] = proposals[j]
    BY <1>1, <2>5
  <2>9. ASSUME NEW b \in ballots'
        PROVE  /\ b.vote \in Vote
               /\ proposals'[b.proposal_id].voting_start <= b.at
               /\ b.at <= proposals'[b.proposal_id].voting_end
    BY <1>1, <2>2, <2>5, <2>6, <2>8 DEF WindowInv, SameWindow
  <2>10. ASSUME NEW j \in ProposalId, proposals'[j] # null, proposals'[j].status # "active"
         PROVE  now' > proposals'[j].voting_end /\ proposals'[j].status = Outcome(proposals'[j])
    BY <2>5, <2>6, <2>7, <2>8, <2>10 DEF WindowInv, SameWindow
  <2>11. QED BY <2>9, <2>10 DEF WindowInv
<1>7. CASE ProposalOpened
  <2>1. PICK p \in ProposalId, new \in Proposal :
          /\ proposals[p] = null /\ new.status = "active"
          /\ proposals' = [proposals EXCEPT ![p] = new]
    BY <1>7 DEF ProposalOpened
  <2>2. /\ proposals'[p] = new /\ \A j \in ProposalId : j # p => proposals'[j] = proposals[j]
        /\ ballots' = ballots /\ now' = now
    BY <1>1, <1>7, <2>1 DEF ProposalOpened
  <2>3. ASSUME NEW b \in ballots PROVE proposals'[b.proposal_id] = proposals[b.proposal_id]
    BY <1>1, <2>1, <2>2
  <2>4. QED BY <2>1, <2>2, <2>3 DEF WindowInv
<1>8. QED BY <1>4, <1>5, <1>6, <1>7, ProposalEffects

(* The ballots of a proposal are those for it, against it and abstaining.  *)
LEMMA BallotsAddUp ==
  ASSUME TallyInv, WindowInv, NEW p \in ProposalId, proposals[p] # null
  PROVE  Total(proposals[p]) = Cardinality(BallotsOf(p))
<1>1. /\ With(p, "for") \cup With(p, "against") \cup With(p, "abstain") = BallotsOf(p)
      /\ With(p, "for") \cap With(p, "against") = {}
      /\ (With(p, "for") \cup With(p, "against")) \cap With(p, "abstain") = {}
  BY DEF With, BallotsOf, WindowInv, Vote
<1>2. ASSUME NEW w \in Vote
      PROVE  IsFiniteSet(With(p, w)) /\ proposals[p].votes[w] = Cardinality(With(p, w))
  <2>1. With(p, w) \in SUBSET ballots
    BY DEF With, BallotsOf
  <2>2. QED BY <2>1, FS_Subset DEF TallyInv, TallyIsBallots, With
<1>3. \A A, B : IsFiniteSet(A) /\ IsFiniteSet(B) /\ A \cap B = {} =>
        IsFiniteSet(A \cup B) /\ Cardinality(A \cup B) = Cardinality(A) + Cardinality(B)
  <2> SUFFICES ASSUME NEW A, NEW B, IsFiniteSet(A), IsFiniteSet(B), A \cap B = {}
               PROVE  /\ IsFiniteSet(A \cup B)
                      /\ Cardinality(A \cup B) = Cardinality(A) + Cardinality(B)
    OBVIOUS
  <2>1. /\ IsFiniteSet(A \cup B)
        /\ Cardinality(A \cup B) = Cardinality(A) + Cardinality(B) - Cardinality(A \cap B)
    BY FS_Union
  <2>2. Cardinality(A \cap B) = 0 /\ Cardinality(A) \in Nat /\ Cardinality(B) \in Nat
    BY FS_EmptySet, FS_CardinalityType
  <2>3. QED BY <2>1, <2>2
<1>4. PICK A, B, C : A = With(p, "for") /\ B = With(p, "against") /\ C = With(p, "abstain")
  OBVIOUS
<1>5. /\ IsFiniteSet(A) /\ IsFiniteSet(B) /\ IsFiniteSet(C)
      /\ proposals[p].votes["for"] = Cardinality(A)
      /\ proposals[p].votes["against"] = Cardinality(B)
      /\ proposals[p].votes["abstain"] = Cardinality(C)
  BY <1>2, <1>4 DEF Vote
<1>6. IsFiniteSet(A \cup B) /\ Cardinality(A \cup B) = Cardinality(A) + Cardinality(B)
  BY <1>1, <1>3, <1>4, <1>5
<1>7. Cardinality(BallotsOf(p)) = Cardinality(A \cup B) + Cardinality(C)
  BY <1>1, <1>3, <1>4, <1>5, <1>6
<1>8. QED BY <1>5, <1>6, <1>7 DEF Total

(* The outcome of a proposal is that of all its ballots, each counted in   *)
(* the voting window, for any number of proposals, wallets and Diamonds    *)
(* and however late the look-ups are answered (recordEligibleVote,         *)
(* FinalizeProposal).                                                      *)
THEOREM OutcomesAreFinal == GovernanceSpec => []OutcomeIsFinal
<1>1. GovernanceInit => WindowInv
  BY DEF GovernanceInit, Deployed, Activated, RegistryInit, ProposalsInit, WindowInv
<1>2. TallyInv /\ WindowInv => OutcomeIsFinal
  <2> SUFFICES ASSUME TallyInv, WindowInv, NEW p \in ProposalId
               PROVE  /\ \A b \in BallotsOf(p) : /\ proposals[p].voting_start <= b.at
                                                 /\ b.at <= proposals[p].voting_end
                      /\ (proposals[p] # null /\ proposals[p].status # "active") =>
                           /\ now > proposals[p].voting_end
                           /\ proposals[p].status = "no_quorum" <=> Cardinality(BallotsOf(p)) < Quorum
                           /\ proposals[p].status = "accepted" =>
                                Cardinality(With(p, "for")) > Cardinality(With(p, "against"))
                           /\ proposals[p].status = "rejected" =>
                                Cardinality(With(p, "for")) <= Cardinality(With(p, "against"))
    BY DEF OutcomeIsFinal, With
  <2>1. \A b \in BallotsOf(p) : proposals[p].voting_start <= b.at /\ b.at <= proposals[p].voting_end
    BY DEF WindowInv, BallotsOf
  <2>2. ASSUME proposals[p] # null, proposals[p].status # "active"
        PROVE  /\ now > proposals[p].voting_end
               /\ proposals[p].status = "no_quorum" <=> Cardinality(BallotsOf(p)) < Quorum
               /\ proposals[p].status = "accepted" =>
                    Cardinality(With(p, "for")) > Cardinality(With(p, "against"))
               /\ proposals[p].status = "rejected" =>
                    Cardinality(With(p, "for")) <= Cardinality(With(p, "against"))
    <3>1. now > proposals[p].voting_end /\ proposals[p].status = Outcome(proposals[p])
      BY <2>2 DEF WindowInv
    <3>2. Total(proposals[p]) = Cardinality(BallotsOf(p))
      BY <2>2, BallotsAddUp
    <3>3. /\ proposals[p].votes["for"] = Cardinality(With(p, "for"))
          /\ proposals[p].votes["against"] = Cardinality(With(p, "against"))
      BY <2>2 DEF TallyInv, TallyIsBallots, With, Vote
    <3>4. proposals[p].votes["for"] \in Nat /\ proposals[p].votes["against"] \in Nat
      BY <2>2 DEF TallyInv, ProposalsTyped, Opt, Proposal, Vote
    <3>5. QED BY <3>1, <3>2, <3>3, <3>4 DEF Outcome
  <2>3. QED BY <2>1, <2>2
<1>3. QED BY <1>1, <1>2, PendingInit, PendingStep, TallyInit, TallyStep, WindowStep, PTL DEF GovernanceSpec

-----------------------------------------------------------------------------
(* Who votes. A query about a vote is asked after the voting began, so an  *)
(* answer to it names an owner who held the Diamond until then or later;   *)
(* an answer used while the voting is open names one who holds it since    *)
(* before the end. Both facts stay true of later owners, and so does a     *)
(* positive answer of the verifier.                                        *)
HeldFrom(a, n, p) ==
  \E i \in DOMAIN owners[n] :
    /\ owners[n][i].owner = a
    /\ i < Len(owners[n]) => owners[n][i + 1].since >= p.voting_start

Begun(v) ==
  /\ v.proposal_id \in ProposalId /\ v.nft_id \in NFT
  /\ proposals[v.proposal_id] # null
  /\ proposals[v.proposal_id].voting_start <= now

OwnersInv ==
  /\ owners \in [NFT -> Seq([owner : Voters, since : Nat])]
  /\ \A n \in NFT : /\ Len(owners[n]) >= 1
                    /\ \A i \in 1 .. Len(owners[n]) : owners[n][i].since <= now

RequestOK(r) ==
  /\ r.query_id < next_query_id
  /\ r.op = "EligibilityCheckRequest" => r.proposal_id \in SnapshotIds

ReplyOK(m) ==
  /\ m.query_id < next_query_id
  /\ m.op = "EligibilityCheckResponse" /\ m.eligible
       => m.proposal_id \in SnapshotIds /\ isEligible(m.proposal_id, m.nft_id)

AnswerOK(m, q) ==
  m.op = "OwnershipResolved" /\ m.query_id = q /\ m.nft_id = pending_votes[q].nft_id
    => HeldFrom(m.owner, m.nft_id, proposals[pending_votes[q].proposal_id])

AskedOK(v) == Begun(v) /\ HeldDuring(v.claimant, v.nft_id, proposals[v.proposal_id])

BallotOK(b) ==
  /\ Begun(b) /\ isEligible(b.proposal_id, b.nft_id)
  /\ HeldDuring(b.voter, b.nft_id, proposals[b.proposal_id])

VoterInv ==
  /\ OwnersInv
  /\ snapshots = [p \in SnapshotIds |-> snapshots[p]]
  /\ \A r \in requests : RequestOK(r)
  /\ \A m \in replies : ReplyOK(m)
  /\ \A q \in QueryId : pending_votes[q] # null =>
       Begun(pending_votes[q]) /\ \A m \in replies : AnswerOK(m, q)
  /\ \A q \in QueryId : pending_eligibility_votes[q] # null => AskedOK(pending_eligibility_votes[q])
  /\ \A b \in ballots : BallotOK(b)

WindowsKept ==
  \A p \in ProposalId : proposals[p] # null =>
    proposals'[p] # null /\ SameWindow(proposals[p], proposals'[p])

LEMMA StepKeepsWindows ==
  ASSUME PendingInv, TallyInv, [GovernanceNext]_governanceVars
  PROVE  WindowsKept
<1>1. /\ proposals \in [ProposalId -> Opt(Proposal)]
      /\ \A p \in ProposalId : proposals[p] # null => proposals[p] \in Proposal
      /\ null \notin Proposal
  BY ProposalRegistryAssumption DEF TallyInv, ProposalsTyped, Opt
<1>2. CASE proposals' = proposals
  BY <1>2 DEF WindowsKept, SameWindow
<1>3. CASE VoteRecorded
  <2>1. PICK v \in PendingVote, new \in Proposal :
          /\ SameWindow(proposals[v.proposal_id], new)
          /\ proposals' = [proposals EXCEPT ![v.proposal_id] = new]
    BY <1>3 DEF VoteRecorded
  <2>2. v.proposal_id \in ProposalId
    BY DEF PendingVote
  <2>3. proposals'[v.proposal_id] = new
        /\ \A p \in ProposalId : p # v.proposal_id => proposals'[p] = proposals[p]
    BY <1>1, <2>1, <2>2
  <2>4. QED BY <1>1, <2>1, <2>3 DEF WindowsKept, SameWindow
<1>4. CASE ProposalFinalized
  <2>1. PICK p \in ProposalId : FinalizeProposal(p)
    BY <1>4 DEF ProposalFinalized
  <2>2. PICK st : st = Outcome(proposals[p])
    OBVIOUS
  <2>3. PICK new : new = [proposals[p] EXCEPT !.status = st]
    OBVIOUS
  <2>4. proposals[p] \in Proposal /\ proposals' = [proposals EXCEPT ![p] = new] /\ st \in Status
    BY <1>1, <2>1, <2>2, <2>3 DEF FinalizeProposal, Outcome, Status
  <2>5. new \in Proposal /\ SameWindow(proposals[p], new)
    BY <2>3, <2>4 DEF Proposal, SameWindow
  <2>6. proposals'[p] = new /\ \A j \in ProposalId : j # p => proposals'[j] = proposals[j]
    BY <1>1, <2>4
  <2>7. QED BY <1>1, <2>5, <2>6 DEF WindowsKept, SameWindow
<1>5. CASE ProposalOpened
  <2>1. PICK p \in ProposalId, new \in Proposal :
          proposals[p] = null /\ proposals' = [proposals EXCEPT ![p] = new]
    BY <1>5 DEF ProposalOpened
  <2>2. \A j \in ProposalId : j # p => proposals'[j] = proposals[j]
    BY <1>1, <2>1
  <2>3. QED BY <2>1, <2>2 DEF WindowsKept, SameWindow
<1>6. QED BY <1>2, <1>3, <1>4, <1>5, ProposalEffects

(* The registry's own steps: what was established about owners and         *)
(* windows still holds, and what is new must be established.               *)
LEMMA RegistryMoves ==
  ASSUME PendingInv, VoterInv, WindowsKept,
         UNCHANGED <<verifierVars, owners, now>>,
         next_query_id' \in Nat, next_query_id' >= next_query_id, replies' \subseteq replies,
         \A r \in requests' : r \in requests \/ RequestOK(r)',
         \A q \in QueryId : pending_votes'[q] # null =>
            \/ pending_votes'[q] = pending_votes[q]
            \/ q >= next_query_id /\ Begun(pending_votes[q])',
         \A q \in QueryId : pending_eligibility_votes'[q] # null =>
            \/ pending_eligibility_votes'[q] = pending_eligibility_votes[q]
            \/ AskedOK(pending_eligibility_votes[q])',
         \A b \in ballots' : b \in ballots \/ BallotOK(b)'
  PROVE  VoterInv'
<1>1. UNCHANGED <<owners, now, snapshots>>
  BY DEF verifierVars
<1>2. ASSUME NEW v, Begun(v) PROVE Begun(v)' /\ SameWindow(proposals[v.proposal_id], proposals'[v.proposal_id])
  BY <1>1, <1>2 DEF Begun, WindowsKept, SameWindow
<1>3. ASSUME NEW a, NEW n, NEW p, SameWindow(proposals[p], proposals'[p])
      PROVE  /\ HeldFrom(a, n, proposals[p]) => HeldFrom(a, n, proposals[p])'
             /\ HeldDuring(a, n, proposals[p]) => HeldDuring(a, n, proposals[p])'
  BY <1>1, <1>3 DEF HeldFrom, HeldDuring, SameWindow
<1>4. OwnersInv' /\ snapshots' = [p \in SnapshotIds |-> snapshots'[p]]
  BY <1>1 DEF VoterInv, OwnersInv
<1>5. /\ next_query_id \in Nat /\ \A q \in QueryId : q \in Nat
      /\ \A r \in requests : r.query_id \in Nat
      /\ \A m \in replies : m.query_id \in Nat /\ m.query_id \in QueryId
  BY DEF PendingInv, Bookkeeping, Books, MessagesNameQueries, QueryId
<1>6. \A r \in requests' : RequestOK(r)'
  BY <1>5 DEF VoterInv, RequestOK
<1>7. \A m \in replies' : ReplyOK(m)'
  BY <1>1, <1>5 DEF VoterInv, ReplyOK, isEligible
<1>8. ASSUME NEW q \in QueryId, pending_votes'[q] # null
      PROVE  Begun(pending_votes[q])' /\ \A m \in replies' : AnswerOK(m, q)'
  <2>1. CASE pending_votes'[q] = pending_votes[q]
    <3>1. PICK v : v = pending_votes[q]
      OBVIOUS
    <3>2. Begun(v) /\ \A m \in replies : AnswerOK(m, q)
      BY <1>8, <2>1, <3>1 DEF VoterInv
    <3>3. Begun(v)' /\ SameWindow(proposals[v.proposal_id], proposals'[v.proposal_id])
      BY <1>2, <3>2
    <3>4. ASSUME NEW m \in replies, m.op = "OwnershipResolved", m.query_id = q, m.nft_id = v.nft_id
          PROVE  HeldFrom(m.owner, m.nft_id, proposals[v.proposal_id])'
      <4>1. HeldFrom(m.owner, m.nft_id, proposals[v.proposal_id])
        BY <3>1, <3>2, <3>4 DEF AnswerOK
      <4>2. QED BY <1>3, <3>3, <4>1
    <3>5. QED BY <2>1, <3>1, <3>3, <3>4 DEF AnswerOK, Begun
  <2>2. CASE q >= next_query_id /\ Begun(pending_votes[q])'
    <3>1. ASSUME NEW m \in replies PROVE m.query_id # q
      BY <1>5, <2>2 DEF VoterInv, ReplyOK
    <3>2. QED BY <2>2, <3>1 DEF AnswerOK
  <2>3. QED BY <1>8, <2>1, <2>2
<1>9. ASSUME NEW q \in QueryId, pending_eligibility_votes'[q] # null
      PROVE  AskedOK(pending_eligibility_votes[q])'
  <2>1. CASE pending_eligibility_votes'[q] = pending_eligibility_votes[q]
    <3>1. PICK v : v = pending_eligibility_votes[q]
      OBVIOUS
    <3>2. Begun(v) /\ HeldDuring(v.claimant, v.nft_id, proposals[v.proposal_id])
      BY <1>9, <2>1, <3>1 DEF VoterInv, AskedOK
    <3>3. Begun(v)' /\ HeldDuring(v.claimant, v.nft_id, proposals[v.proposal_id])'
      BY <1>2, <1>3, <3>2
    <3>4. AskedOK(v)'
      BY <3>3 DEF AskedOK
    <3>5. QED BY <2>1, <3>1, <3>4 DEF AskedOK, Begun
  <2>2. QED BY <1>9, <2>1
<1>10. ASSUME NEW b \in ballots PROVE BallotOK(b)'
  <2>1. /\ Begun(b) /\ isEligible(b.proposal_id, b.nft_id)
        /\ HeldDuring(b.voter, b.nft_id, proposals[b.proposal_id])
    BY DEF VoterInv, BallotOK
  <2>2. Begun(b)' /\ HeldDuring(b.voter, b.nft_id, proposals[b.proposal_id])'
    BY <1>2, <1>3, <2>1
  <2>3. isEligible(b.proposal_id, b.nft_id)'
    BY <1>1, <2>1 DEF isEligible
  <2>4. QED BY <2>2, <2>3 DEF BallotOK
<1>11. QED BY <1>4, <1>6, <1>7, <1>8, <1>9, <1>10 DEF VoterInv

(* The owner's answer to a vote, and the verifier's.                       *)
LEMMA AskedStays ==
  ASSUME UNCHANGED <<owners, now>>, WindowsKept, NEW v, AskedOK(v)
  PROVE  AskedOK(v)'
<1>1. PICK p : p = v.proposal_id
  OBVIOUS
<1>2. PICK n : n = v.nft_id
  OBVIOUS
<1>3. Begun(v)' /\ SameWindow(proposals[p], proposals'[p])
  BY <1>1 DEF AskedOK, Begun, WindowsKept, SameWindow
<1>4. HeldDuring(v.claimant, n, proposals[p])
  BY <1>1, <1>2 DEF AskedOK
<1>5. HeldDuring(v.claimant, n, proposals[p])'
  BY <1>3, <1>4 DEF HeldDuring, SameWindow
<1>6. QED BY <1>1, <1>2, <1>3, <1>5 DEF AskedOK

LEMMA RequestsKeepVoters ==
  ASSUME PendingInv, VoterInv, WindowsKept, UNCHANGED <<verifierVars, owners, now>>,
         NEW sender \in Voters, NEW nft \in NFT,
         \/ \E d \in Durations : SubmitProposal(sender, nft, d)
         \/ \E p \in ProposalId, vote \in VotesUsed : CastVote(sender, p, nft, vote)
  PROVE  VoterInv'
<1>1. /\ next_query_id \in Nat /\ next_query_id' = next_query_id + 1
      /\ replies' = replies /\ ballots' = ballots /\ proposals' = proposals
      /\ pending_eligibility_votes' = pending_eligibility_votes
      /\ \E to : requests' = requests \cup
           {[op |-> "ResolveOwnership", to |-> to, query_id |-> next_query_id, nft_id |-> nft]}
  BY DEF PendingInv, Bookkeeping, Books, SubmitProposal, CastVote, Ask
<1>2. \A r \in requests' : r \in requests \/ RequestOK(r)'
  BY <1>1 DEF RequestOK
<1>3. ASSUME NEW q \in QueryId, pending_votes'[q] # null
      PROVE  \/ pending_votes'[q] = pending_votes[q]
             \/ q >= next_query_id /\ Begun(pending_votes[q])'
  <2>1. CASE UNCHANGED pending_votes
    BY <2>1
  <2>2. ASSUME NEW p \in ProposalId, NEW vote \in VotesUsed, CastVote(sender, p, nft, vote)
        PROVE  \/ pending_votes'[q] = pending_votes[q]
               \/ q >= next_query_id /\ Begun(pending_votes[q])'
    <3>1. PICK rec : rec = [proposal_id |-> p, nft_id |-> nft, vote |-> vote, claimant |-> sender]
      OBVIOUS
    <3>2. /\ pending_votes \in [QueryId -> Opt(PendingVote)]
          /\ pending_votes' = [pending_votes EXCEPT ![next_query_id] = rec]
      BY <2>2, <3>1 DEF CastVote, Ask, PendingInv, Bookkeeping, Books
    <3>3. Begun(rec)'
      BY <1>1, <2>2, <3>1 DEF CastVote, Votable, Begun
    <3>4. CASE q = next_query_id
      <4>1. pending_votes'[q] = rec
        BY <3>2, <3>4
      <4>2. q >= next_query_id
        BY <1>1, <3>4
      <4>3. QED BY <3>3, <4>1, <4>2 DEF Begun
    <3>5. CASE q # next_query_id
      BY <3>2, <3>5
    <3>6. QED BY <3>4, <3>5
  <2>3. QED BY <2>1, <2>2 DEF SubmitProposal
<1>4. QED BY <1>1, <1>2, <1>3, RegistryMoves

LEMMA ClearKeepsVoters ==
  ASSUME PendingInv, VoterInv, WindowsKept, UNCHANGED <<verifierVars, owners, now>>,
         replies' \subseteq replies, NEW q \in QueryId, clearPending(q)
  PROVE  VoterInv'
<1>1. /\ pending_votes \in [QueryId -> Opt(PendingVote)]
      /\ pending_eligibility_votes \in [QueryId -> Opt(PendingVote)]
      /\ next_query_id \in Nat
  BY DEF PendingInv, Bookkeeping, Books
<1>2. ASSUME NEW j \in QueryId
      PROVE  /\ pending_votes'[j] # null => pending_votes'[j] = pending_votes[j]
             /\ pending_eligibility_votes'[j] # null
                  => pending_eligibility_votes'[j] = pending_eligibility_votes[j]
  BY <1>1 DEF clearPending
<1>3. UNCHANGED <<next_query_id, requests, ballots>>
  BY DEF clearPending
<1>4. QED BY <1>1, <1>2, <1>3, RegistryMoves

LEMMA OwnerAnswersVote ==
  ASSUME PendingInv, TallyInv, VoterInv, WindowsKept, UNCHANGED <<verifierVars, owners, now>>,
         replies' \subseteq replies, NEW m \in replies, m.op = "OwnershipResolved",
         pending_votes[m.query_id] # null,
         requestVoteEligibility(m.query_id, m.nft_id, m.owner)
  PROVE  VoterInv'
<1>1. PICK q : q = m.query_id
  OBVIOUS
<1>2. PICK v : v = pending_votes[q]
  OBVIOUS
<1>3. /\ q \in QueryId /\ next_query_id \in Nat
      /\ pending_votes \in [QueryId -> Opt(PendingVote)]
      /\ pending_eligibility_votes \in [QueryId -> Opt(PendingVote)]
  BY <1>1 DEF PendingInv, Bookkeeping, Books, MessagesNameQueries
<1>4. Begun(v) /\ AnswerOK(m, q) /\ v # null
  BY <1>1, <1>2, <1>3 DEF VoterInv
<1>5. /\ pending_votes' = [pending_votes EXCEPT ![q] = null]
      /\ UNCHANGED <<ballots, proposals>>
  BY <1>1 DEF requestVoteEligibility
<1>6. \A j \in QueryId : pending_votes'[j] # null => pending_votes'[j] = pending_votes[j]
  BY <1>3, <1>5
<1>7. CASE UNCHANGED <<next_query_id, requests, pending_eligibility_votes>>
  BY <1>3, <1>5, <1>6, <1>7, RegistryMoves
<1>8. CASE EligibilityAsked(v, m.nft_id, m.owner)
            /\ ~ UNCHANGED <<next_query_id, requests, pending_eligibility_votes>>
  <2>1. AskedOK(v)
    <3>1. PICK P : P = proposals[v.proposal_id]
      OBVIOUS
    <3>2. m.nft_id = v.nft_id /\ m.owner = v.claimant /\ now <= P.voting_end
      BY <1>8, <3>1 DEF EligibilityAsked, Votable
    <3>3. HeldFrom(v.claimant, v.nft_id, P)
      BY <1>1, <1>2, <1>4, <3>1, <3>2 DEF AnswerOK
    <3>4. v.nft_id \in NFT /\ P.voting_end \in Nat /\ now \in Nat
      BY <1>4, <3>1 DEF Begun, TallyInv, ProposalsTyped, Opt, Proposal, PendingInv
    <3>5. PICK i \in DOMAIN owners[v.nft_id] :
            /\ owners[v.nft_id][i].owner = v.claimant
            /\ i < Len(owners[v.nft_id]) => owners[v.nft_id][i + 1].since >= P.voting_start
      BY <3>3 DEF HeldFrom
    <3>6. owners[v.nft_id] \in Seq([owner : Voters, since : Nat])
      BY <3>4 DEF VoterInv, OwnersInv
    <3>7. i \in 1 .. Len(owners[v.nft_id])
      BY <3>5, <3>6
    <3>8. owners[v.nft_id][i].since <= now /\ owners[v.nft_id][i].since \in Nat
      <4>1. owners[v.nft_id][i].since <= now
        BY <3>4, <3>7 DEF VoterInv, OwnersInv
      <4>2. owners[v.nft_id][i] \in [owner : Voters, since : Nat]
        <5>1. ASSUME NEW S, NEW s \in Seq(S), NEW k \in 1 .. Len(s) PROVE s[k] \in S
          OBVIOUS
        <5>2. QED BY <3>6, <3>7, <5>1
      <4>3. QED BY <4>1, <4>2
    <3>9. owners[v.nft_id][i].since <= P.voting_end
      BY <3>2, <3>4, <3>8
    <3>10. QED BY <1>4, <3>1, <3>5, <3>9 DEF AskedOK, HeldDuring
  <2>2. AskedOK(v)'
    BY <2>1, AskedStays
  <2>3. PICK r \in QueryId :
          /\ r = next_query_id /\ next_query_id' = next_query_id + 1
          /\ requests' = requests \cup {[op |-> "EligibilityCheckRequest", to |-> snapshot_verifier, query_id |-> r,
                                         proposal_id |-> v.proposal_id, nft_id |-> v.nft_id]}
          /\ pending_eligibility_votes' = [pending_eligibility_votes EXCEPT ![r] = v]
    BY <1>1, <1>2, <1>8 DEF requestVoteEligibility, Ask
  <2>4. \A j \in requests' : j \in requests \/ RequestOK(j)'
    BY <1>3, <1>4, <2>3, GovernanceAssumption DEF RequestOK, Begun
  <2>5. ASSUME NEW j \in QueryId, pending_eligibility_votes'[j] # null
        PROVE  \/ pending_eligibility_votes'[j] = pending_eligibility_votes[j]
               \/ AskedOK(pending_eligibility_votes[j])'
    <3>1. CASE j = r
      <4>1. pending_eligibility_votes'[j] = v
        BY <1>3, <2>3, <3>1
      <4>2. QED BY <2>2, <4>1 DEF AskedOK, Begun
    <3>2. CASE j # r
      BY <1>3, <2>3, <3>2
    <3>3. QED BY <3>1, <3>2
  <2>6. next_query_id' \in Nat /\ next_query_id' >= next_query_id
    BY <1>3, <2>3
  <2>7. QED BY <1>5, <1>6, <2>4, <2>5, <2>6, RegistryMoves
<1>9. QED BY <1>1, <1>2, <1>7, <1>8 DEF requestVoteEligibility

LEMMA VerifierAnswersVote ==
  ASSUME PendingInv, TallyInv, VoterInv, WindowsKept, UNCHANGED <<verifierVars, owners, now>>,
         replies' \subseteq replies, NEW m \in replies, m.op = "EligibilityCheckResponse",
         EligibilityCheckResponse(m.from, m.query_id, m.proposal_id, m.nft_id, m.eligible)
  PROVE  VoterInv'
<1>1. PICK q : q = m.query_id
  OBVIOUS
<1>2. PICK v : v = pending_eligibility_votes[q]
  OBVIOUS
<1>3. /\ q \in QueryId /\ next_query_id \in Nat
      /\ pending_eligibility_votes \in [QueryId -> Opt(PendingVote)]
  BY <1>1 DEF PendingInv, Bookkeeping, Books, MessagesNameQueries
<1>4. CASE clearPending(q)
  BY <1>3, <1>4, ClearKeepsVoters
<1>5. CASE UNCHANGED <<next_query_id, pending_votes, pending_eligibility_votes, requests, ballots>>
  BY <1>3, <1>5, RegistryMoves
<1>6. CASE /\ v # null
           /\ UNCHANGED <<next_query_id, pending_votes, requests>>
           /\ pending_eligibility_votes' = [pending_eligibility_votes EXCEPT ![q] = null]
           /\ \/ UNCHANGED ballots
              \/ /\ m.proposal_id = v.proposal_id /\ m.nft_id = v.nft_id /\ m.eligible
                 /\ ballots' = ballots \cup {BallotOf(v)}
  <2>1. \A j \in QueryId : pending_eligibility_votes'[j] # null =>
           pending_eligibility_votes'[j] = pending_eligibility_votes[j]
    BY <1>3, <1>6
  <2>2. \A b \in ballots' : b \in ballots \/ BallotOK(b)'
    <3>1. CASE UNCHANGED ballots
      BY <3>1
    <3>2. CASE m.proposal_id = v.proposal_id /\ m.nft_id = v.nft_id /\ m.eligible
               /\ ballots' = ballots \cup {BallotOf(v)}
      <4>1. isEligible(v.proposal_id, v.nft_id)
        BY <3>2 DEF VoterInv, ReplyOK
      <4>2. AskedOK(v)
        BY <1>2, <1>3, <1>6 DEF VoterInv
      <4>3. AskedOK(v)'
        BY <4>2, AskedStays
      <4>4. PICK b : b = BallotOf(v)
        OBVIOUS
      <4>5. b.proposal_id = v.proposal_id /\ b.nft_id = v.nft_id /\ b.voter = v.claimant
        BY <4>4 DEF BallotOf
      <4>6. isEligible(b.proposal_id, b.nft_id)'
        BY <4>1, <4>5 DEF isEligible, verifierVars
      <4>7. Begun(b)' /\ HeldDuring(b.voter, b.nft_id, proposals[b.proposal_id])'
        BY <4>3, <4>5 DEF AskedOK, Begun
      <4>8. BallotOK(b)'
        BY <4>6, <4>7 DEF BallotOK
      <4>9. QED BY <3>2, <4>4, <4>8
    <3>3. QED BY <1>6, <3>1, <3>2
  <2>3. QED BY <1>3, <1>6, <2>1, <2>2, RegistryMoves
<1>7. QED
  BY <1>1, <1>2, <1>4, <1>5, <1>6
  DEF EligibilityCheckResponse, recordEligibleVote, Record, BallotOf, pendingVars

LEMMA RegistryKeepsVoters ==
  ASSUME PendingInv, TallyInv, VoterInv, WindowsKept, RegistryStep
  PROVE  VoterInv'
<1>1. UNCHANGED <<verifierVars, owners, now>>
  BY DEF RegistryStep
<1>2. CASE \E sender \in Voters, nft \in NFT :
             \/ \E d \in Durations : SubmitProposal(sender, nft, d)
             \/ \E p \in ProposalId, vote \in VotesUsed : CastVote(sender, p, nft, vote)
  BY <1>1, <1>2, RequestsKeepVoters
<1>3. ASSUME NEW p \in ProposalId, FinalizeProposal(p) PROVE VoterInv'
  <2>1. UNCHANGED <<next_query_id, pending_votes, pending_eligibility_votes, requests, replies, ballots>>
        /\ next_query_id \in Nat
    BY <1>3 DEF FinalizeProposal, pendingVars, PendingInv, Bookkeeping, Books
  <2>2. QED BY <1>1, <2>1, RegistryMoves
<1>4. ASSUME NEW q \in QueryId, CleanupPending(q) PROVE VoterInv'
  BY <1>1, <1>4, ClearKeepsVoters DEF CleanupPending
<1>5. QED BY <1>2, <1>3, <1>4 DEF RegistryStep, RegistryUserNext

LEMMA DeliveryKeepsVoters ==
  ASSUME PendingInv, TallyInv, VoterInv, WindowsKept, NEW m \in replies, DeliverReply(m)
  PROVE  VoterInv'
<1>1. /\ UNCHANGED <<verifierVars, owners, now>> /\ replies' \subseteq replies
      /\ m.query_id \in QueryId /\ next_query_id \in Nat
  BY DEF DeliverReply, ReplyDelivered, PendingInv, MessagesNameQueries, Bookkeeping, Books
<1>2. CASE clearPending(m.query_id)
  BY <1>1, <1>2, ClearKeepsVoters
<1>3. CASE /\ m.op = "OwnershipResolved" /\ pending_votes[m.query_id] # null
           /\ requestVoteEligibility(m.query_id, m.nft_id, m.owner)
  BY <1>1, <1>3, OwnerAnswersVote
<1>4. CASE UNCHANGED <<next_query_id, pending_votes, pending_eligibility_votes, requests, ballots>>
  BY <1>1, <1>4, RegistryMoves
<1>5. CASE /\ m.op = "EligibilityCheckResponse"
           /\ EligibilityCheckResponse(m.from, m.query_id, m.proposal_id, m.nft_id, m.eligible)
  BY <1>1, <1>5, VerifierAnswersVote
<1>6. QED
  BY <1>2, <1>3, <1>4, <1>5
  DEF DeliverReply, ReplyDelivered, OwnershipResolved, finalizeProposal, pendingVars

(* A look-up is answered with the owner of the moment, or with what the    *)
(* snapshot says.                                                          *)
LEMMA AnswersAreRight ==
  ASSUME PendingInv, VoterInv, NEW r \in requests,
         ResolveOwnership(r) \/ EligibilityCheckRequest(r) \/ BounceRequest(r)
  PROVE  VoterInv'
<1>1. ASSUME NEW m, Replied(r, m), ReplyOK(m),
             \A q \in QueryId : pending_votes[q] # null => AnswerOK(m, q)
      PROVE  VoterInv'
  <2>1. UNCHANGED <<proposals, next_query_id, pending_votes, pending_eligibility_votes, ballots,
                    snapshots, owners, now>>
        /\ requests' = requests \ {r} /\ replies' = replies \cup {m}
    BY <1>1 DEF Replied, pendingVars, verifierVars
  <2>2. OwnersInv' /\ \A q : Begun(q) => Begun(q)'
    BY <2>1 DEF VoterInv, OwnersInv, Begun
  <2>3. \A j \in replies' : ReplyOK(j)'
    BY <1>1, <2>1 DEF VoterInv, ReplyOK, isEligible
  <2>4. \A j \in requests' : RequestOK(j)'
    BY <2>1 DEF VoterInv, RequestOK
  <2>5. ASSUME NEW q \in QueryId, pending_votes'[q] # null
        PROVE  Begun(pending_votes[q])' /\ \A j \in replies' : AnswerOK(j, q)'
    BY <1>1, <2>1, <2>5 DEF VoterInv, AnswerOK, HeldFrom, Begun
  <2>6. \A q \in QueryId : pending_eligibility_votes'[q] # null => AskedOK(pending_eligibility_votes[q])'
    BY <2>1 DEF VoterInv, AskedOK, HeldDuring, Begun
  <2>7. \A b \in ballots' : BallotOK(b)'
    BY <2>1 DEF VoterInv, BallotOK, HeldDuring, Begun, isEligible
  <2>8. QED BY <2>1, <2>2, <2>3, <2>4, <2>5, <2>6, <2>7 DEF VoterInv
<1>2. r.query_id < next_query_id
  BY DEF VoterInv, RequestOK
<1>3. CASE ResolveOwnership(r)
  <2>1. PICK m : m = [op |-> "OwnershipResolved", from |-> r.to, query_id |-> r.query_id,
                      nft_id |-> r.nft_id, owner |-> OwnerOf(r.nft_id)]
    OBVIOUS
  <2>2. Replied(r, m) /\ ReplyOK(m) /\ m.owner = OwnerOf(m.nft_id)
    BY <1>2, <1>3, <2>1 DEF ResolveOwnership, ReplyOK
  <2>3. ASSUME NEW q \in QueryId, pending_votes[q] # null, m.nft_id = pending_votes[q].nft_id
        PROVE  HeldFrom(m.owner, m.nft_id, proposals[pending_votes[q].proposal_id])
    <3>1. PICK n : n = m.nft_id
      OBVIOUS
    <3>2. n \in NFT
      BY <2>3, <3>1 DEF VoterInv, Begun
    <3>3. PICK s : s = owners[n]
      OBVIOUS
    <3>4. s \in Seq([owner : Voters, since : Nat]) /\ Len(s) >= 1
      BY <3>2, <3>3 DEF VoterInv, OwnersInv
    <3>5. Len(s) \in DOMAIN s /\ ~ (Len(s) < Len(s))
      BY <3>4
    <3>6. s[Len(s)].owner = m.owner
      BY <2>2, <3>1, <3>3 DEF OwnerOf
    <3>7. QED BY <3>1, <3>3, <3>5, <3>6 DEF HeldFrom
  <2>4. QED BY <1>1, <2>2, <2>3 DEF AnswerOK
<1>4. CASE EligibilityCheckRequest(r)
  <2>1. PICK m : m = [op |-> "EligibilityCheckResponse", from |-> r.to, query_id |-> r.query_id,
                      proposal_id |-> r.proposal_id, nft_id |-> r.nft_id,
                      eligible |-> isEligible(r.proposal_id, r.nft_id)]
    OBVIOUS
  <2>2. Replied(r, m) /\ r.op = "EligibilityCheckRequest"
    BY <1>4, <2>1 DEF EligibilityCheckRequest
  <2>3. /\ m.op = "EligibilityCheckResponse" /\ m.query_id = r.query_id
        /\ m.proposal_id = r.proposal_id /\ m.nft_id = r.nft_id
        /\ m.eligible = isEligible(r.proposal_id, r.nft_id)
    BY <2>1
  <2>4. ReplyOK(m)
    BY <1>2, <2>2, <2>3 DEF ReplyOK, VoterInv, RequestOK
  <2>5. QED BY <1>1, <2>2, <2>3, <2>4 DEF AnswerOK
<1>5. CASE BounceRequest(r)
  <2>1. PICK m : m = [op |-> "bounced", query_id |-> r.query_id]
    OBVIOUS
  <2>2. Replied(r, m) /\ ReplyOK(m)
    BY <1>2, <1>5, <2>1 DEF BounceRequest, ReplyOK
  <2>3. QED BY <1>1, <2>1, <2>2 DEF AnswerOK
<1>6. QED BY <1>3, <1>4, <1>5

(* A later owner takes nothing from an earlier one.                        *)
LEMMA TransfersKeepVoters ==
  ASSUME PendingInv, VoterInv, NEW n \in NFT, NEW to \in Voters, TransferDiamond(n, to)
  PROVE  VoterInv'
<1>1. PICK e : e = [owner |-> to, since |-> now]
  OBVIOUS
<1>2. PICK s : s = Append(owners[n], e)
  OBVIOUS
<1>3. /\ owners' = [owners EXCEPT ![n] = s] /\ owners \in [NFT -> Seq([owner : Voters, since : Nat])]
      /\ now \in Nat /\ e \in [owner : Voters, since : Nat] /\ e.since = now
  BY <1>1, <1>2 DEF TransferDiamond, VoterInv, OwnersInv, PendingInv
<1>4. UNCHANGED <<proposals, next_query_id, pending_votes, pending_eligibility_votes, ballots,
                  requests, replies, snapshots, now>>
  BY DEF TransferDiamond, registryVars, pendingVars, verifierVars
<1>5. /\ owners'[n] = s /\ \A k \in NFT : k # n => owners'[k] = owners[k]
      /\ s \in Seq([owner : Voters, since : Nat]) /\ Len(s) = Len(owners[n]) + 1
      /\ s[Len(s)] = e /\ \A i \in 1 .. Len(owners[n]) : s[i] = owners[n][i]
      /\ Len(owners[n]) \in Nat /\ DOMAIN s = 1 .. Len(s) /\ DOMAIN owners[n] = 1 .. Len(owners[n])
  <2>1. ASSUME NEW S, NEW o \in Seq(S), NEW x \in S
        PROVE  /\ Append(o, x) \in Seq(S) /\ Len(Append(o, x)) = Len(o) + 1
               /\ Append(o, x)[Len(Append(o, x))] = x
               /\ \A i \in 1 .. Len(o) : Append(o, x)[i] = o[i]
               /\ Len(o) \in Nat /\ DOMAIN Append(o, x) = 1 .. Len(Append(o, x))
               /\ DOMAIN o = 1 .. Len(o)
    OBVIOUS
  <2>2. owners[n] \in Seq([owner : Voters, since : Nat])
    BY <1>3
  <2>3. QED BY <1>2, <1>3, <2>1, <2>2
<1>6. OwnersInv'
  <2>1. owners' \in [NFT -> Seq([owner : Voters, since : Nat])]
    BY <1>3, <1>5
  <2>2. ASSUME NEW k \in NFT
        PROVE  Len(owners'[k]) >= 1 /\ \A i \in 1 .. Len(owners'[k]) : owners'[k][i].since <= now'
    <3>1. CASE k # n
      BY <1>4, <1>5, <3>1 DEF VoterInv, OwnersInv
    <3>2. CASE k = n
      <4>1. Len(s) >= 1 /\ \A i \in 1 .. Len(s) : i \in 1 .. Len(owners[n]) \/ i = Len(s)
        BY <1>5
      <4>2. \A i \in 1 .. Len(owners[n]) : owners[n][i].since <= now
        BY DEF VoterInv, OwnersInv
      <4>3. now <= now
        BY <1>3
      <4>4. QED BY <1>3, <1>4, <1>5, <3>2, <4>1, <4>2, <4>3
    <3>3. QED BY <3>1, <3>2
  <2>3. QED BY <2>1, <2>2 DEF OwnersInv
<1>7. ASSUME NEW a, NEW k, NEW p, proposals[p].voting_start <= now
      PROVE  /\ HeldFrom(a, k, proposals[p]) => HeldFrom(a, k, proposals[p])'
             /\ HeldDuring(a, k, proposals[p]) => HeldDuring(a, k, proposals[p])'
  <2>1. CASE k # n
    <3>1. owners'[k] = owners[k]
      BY <1>3, <2>1
    <3>2. QED BY <1>4, <3>1 DEF HeldFrom, HeldDuring
  <2>2. CASE k = n
    <3>1. now >= proposals[p].voting_start
      BY <1>7
    <3>2. ASSUME NEW i \in 1 .. Len(owners[n]),
                 i < Len(owners[n]) => owners[n][i + 1].since >= proposals[p].voting_start
          PROVE  /\ i \in 1 .. Len(s) /\ s[i] = owners[n][i]
                 /\ i < Len(s) => s[i + 1].since >= proposals[p].voting_start
      <4>1. i \in 1 .. Len(s) /\ s[i] = owners[n][i]
        BY <1>5
      <4>2. CASE i < Len(owners[n])
        <5>1. i + 1 \in 1 .. Len(owners[n])
          BY <1>5, <4>2
        <5>2. QED BY <1>5, <3>2, <4>1, <4>2, <5>1
      <4>3. CASE i = Len(owners[n])
        <5>1. s[i + 1] = e
          BY <1>5, <4>3
        <5>2. QED BY <1>3, <3>1, <4>1, <5>1
      <4>4. QED BY <1>5, <4>2, <4>3
    <3>3. QED BY <1>4, <1>5, <2>2, <3>2 DEF HeldFrom, HeldDuring
  <2>3. QED BY <2>1, <2>2
<1>8. \A v : Begun(v) => Begun(v)'
  BY <1>4 DEF Begun
<1>9. \A r \in requests' : RequestOK(r)'
  BY <1>4 DEF VoterInv, RequestOK
<1>10. \A m \in replies' : ReplyOK(m)'
  BY <1>4 DEF VoterInv, ReplyOK, isEligible
<1>11. ASSUME NEW q \in QueryId, pending_votes'[q] # null
       PROVE  Begun(pending_votes[q])' /\ \A m \in replies' : AnswerOK(m, q)'
  <2>1. PICK v : v = pending_votes[q]
    OBVIOUS
  <2>2. Begun(v) /\ \A m \in replies : AnswerOK(m, q)
    BY <1>4, <1>11, <2>1 DEF VoterInv
  <2>3. proposals[v.proposal_id].voting_start <= now /\ Begun(v)'
    BY <1>8, <2>2 DEF Begun
  <2>4. ASSUME NEW m \in replies, m.op = "OwnershipResolved", m.query_id = q, m.nft_id = v.nft_id
        PROVE  HeldFrom(m.owner, m.nft_id, proposals[v.proposal_id])'
    <3>1. HeldFrom(m.owner, m.nft_id, proposals[v.proposal_id])
      BY <2>1, <2>2, <2>4 DEF AnswerOK
    <3>2. QED BY <1>7, <2>3, <3>1
  <2>5. QED BY <1>4, <2>1, <2>3, <2>4 DEF AnswerOK, Begun
<1>12. ASSUME NEW q \in QueryId, pending_eligibility_votes'[q] # null
       PROVE  AskedOK(pending_eligibility_votes[q])'
  <2>1. PICK v : v = pending_eligibility_votes[q]
    OBVIOUS
  <2>2. Begun(v) /\ HeldDuring(v.claimant, v.nft_id, proposals[v.proposal_id])
    BY <1>4, <1>12, <2>1 DEF VoterInv, AskedOK
  <2>3. Begun(v)' /\ HeldDuring(v.claimant, v.nft_id, proposals[v.proposal_id])'
    BY <1>7, <1>8, <2>2 DEF Begun
  <2>4. QED BY <1>4, <2>1, <2>3 DEF AskedOK, Begun
<1>13. ASSUME NEW b \in ballots PROVE BallotOK(b)'
  <2>1. /\ Begun(b) /\ isEligible(b.proposal_id, b.nft_id)
        /\ HeldDuring(b.voter, b.nft_id, proposals[b.proposal_id])
    BY DEF VoterInv, BallotOK
  <2>2. Begun(b)' /\ HeldDuring(b.voter, b.nft_id, proposals[b.proposal_id])'
    BY <1>7, <1>8, <2>1 DEF Begun
  <2>3. QED BY <1>4, <2>1, <2>2 DEF BallotOK, isEligible
<1>14. QED BY <1>4, <1>6, <1>9, <1>10, <1>11, <1>12, <1>13 DEF VoterInv

(* Time passes, snapshots are registered, contracts are replaced.          *)
SnapshotsKept ==
  /\ snapshots' = [p \in SnapshotIds |-> snapshots'[p]]
  /\ \A p \in SnapshotIds : snapshots[p] # null => snapshots'[p] = snapshots[p]

LEMMA OthersKeepVoters ==
  ASSUME PendingInv, TallyInv, VoterInv, UNCHANGED <<registryVars, owners>>,
         now' \in {now, now + 1}, SnapshotsKept
  PROVE  VoterInv'
<1>1. UNCHANGED <<proposals, next_query_id, pending_votes, pending_eligibility_votes, ballots,
                  requests, replies, owners>>
  BY DEF registryVars, pendingVars
<1>2. now \in Nat /\ now' \in Nat /\ now' >= now
  BY DEF PendingInv
<1>3. \A p \in ProposalId : proposals[p] # null => proposals[p].voting_start \in Nat
  BY DEF TallyInv, ProposalsTyped, Opt, Proposal
<1>4. ASSUME NEW v, Begun(v) PROVE Begun(v)'
  <2>1. /\ v.proposal_id \in ProposalId /\ v.nft_id \in NFT /\ proposals[v.proposal_id] # null
        /\ proposals[v.proposal_id].voting_start <= now
    BY <1>4 DEF Begun
  <2>2. proposals[v.proposal_id].voting_start <= now'
    BY <1>2, <1>3, <2>1
  <2>3. QED BY <1>1, <2>1, <2>2 DEF Begun
<1>5. OwnersInv'
  <2>1. ASSUME NEW n \in NFT, NEW i \in 1 .. Len(owners[n]) PROVE owners[n][i].since <= now'
    <3>1. owners[n][i].since <= now
      BY DEF VoterInv, OwnersInv
    <3>2. owners[n] \in Seq([owner : Voters, since : Nat])
      BY DEF VoterInv, OwnersInv
    <3>3. ASSUME NEW S, NEW s \in Seq(S), NEW k \in 1 .. Len(s) PROVE s[k] \in S
      OBVIOUS
    <3>4. owners[n][i] \in [owner : Voters, since : Nat]
      BY <3>2, <3>3
    <3>5. owners[n][i].since \in Nat
      BY <3>4
    <3>6. QED BY <1>2, <3>1, <3>5
  <2>2. QED BY <1>1, <2>1 DEF VoterInv, OwnersInv
<1>6. ASSUME NEW p \in SnapshotIds, NEW n, isEligible(p, n) PROVE isEligible(p, n)'
  BY <1>6 DEF isEligible, SnapshotsKept
<1>7. \A r \in requests' : RequestOK(r)'
  BY <1>1 DEF VoterInv, RequestOK
<1>8. \A m \in replies' : ReplyOK(m)'
  BY <1>1, <1>6 DEF VoterInv, ReplyOK
<1>9. ASSUME NEW q \in QueryId, pending_votes'[q] # null
      PROVE  Begun(pending_votes[q])' /\ \A m \in replies' : AnswerOK(m, q)'
  <2>1. PICK v : v = pending_votes[q]
    OBVIOUS
  <2>2. Begun(v)' /\ \A m \in replies : AnswerOK(m, q)
    BY <1>1, <1>4, <1>9, <2>1 DEF VoterInv
  <2>3. QED BY <1>1, <2>1, <2>2 DEF AnswerOK, HeldFrom, Begun
<1>10. ASSUME NEW q \in QueryId, pending_eligibility_votes'[q] # null
       PROVE  AskedOK(pending_eligibility_votes[q])'
  <2>1. PICK v : v = pending_eligibility_votes[q]
    OBVIOUS
  <2>2. Begun(v)' /\ HeldDuring(v.claimant, v.nft_id, proposals[v.proposal_id])
    BY <1>1, <1>4, <1>10, <2>1 DEF VoterInv, AskedOK
  <2>3. QED BY <1>1, <2>1, <2>2 DEF AskedOK, HeldDuring, Begun
<1>11. ASSUME NEW b \in ballots PROVE BallotOK(b)'
  <2>1. /\ Begun(b)' /\ isEligible(b.proposal_id, b.nft_id) /\ b.proposal_id \in SnapshotIds
        /\ HeldDuring(b.voter, b.nft_id, proposals[b.proposal_id])
    BY <1>4, GovernanceAssumption DEF VoterInv, BallotOK, Begun
  <2>2. isEligible(b.proposal_id, b.nft_id)'
    BY <1>6, <2>1
  <2>3. QED BY <1>1, <2>1, <2>2 DEF BallotOK, HeldDuring
<1>12. QED BY <1>1, <1>5, <1>7, <1>8, <1>9, <1>10, <1>11 DEF VoterInv, SnapshotsKept

LEMMA VoterStep ==
  PendingInv /\ TallyInv /\ VoterInv /\ [GovernanceNext]_governanceVars => VoterInv'
<1> SUFFICES ASSUME PendingInv, TallyInv, VoterInv, [GovernanceNext]_governanceVars PROVE VoterInv'
  OBVIOUS
<1>1. WindowsKept
  BY StepKeepsWindows
<1>2. CASE RegistryStep
  BY <1>1, <1>2, RegistryKeepsVoters
<1>3. ASSUME NEW m \in replies, DeliverReply(m) PROVE VoterInv'
  BY <1>1, <1>3, DeliveryKeepsVoters
<1>4. ASSUME NEW r \in requests,
             ResolveOwnership(r) \/ EligibilityCheckRequest(r) \/ BounceRequest(r)
      PROVE  VoterInv'
  BY <1>4, AnswersAreRight
<1>5. ASSUME NEW n \in NFT, NEW to \in Voters, TransferDiamond(n, to) PROVE VoterInv'
  BY <1>5, TransfersKeepVoters
<1>6. CASE UNCHANGED <<registryVars, owners, snapshots>> /\ now' \in {now, now + 1}
  <2>1. SnapshotsKept
    BY <1>6 DEF SnapshotsKept, VoterInv
  <2>2. QED BY <1>6, <2>1, OthersKeepVoters
<1>7. CASE VerifierStep
  <2>1. UNCHANGED <<registryVars, owners, now>>
    BY <1>7 DEF VerifierStep
  <2>2. snapshots' = snapshots \/ \E p \in SnapshotIds, S \in SUBSET NFT :
          snapshots[p] = null /\ snapshots' = [snapshots EXCEPT ![p] = S]
    BY <1>7 DEF VerifierStep, VerifierNext, SetTrustedIndexer, SetProposalRegistry, RegisterSnapshot
  <2>3. SnapshotsKept
    BY <2>2 DEF SnapshotsKept, VoterInv
  <2>4. QED BY <2>1, <2>3, OthersKeepVoters
<1>8. QED
  BY <1>2, <1>3, <1>4, <1>5, <1>6, <1>7
  DEF GovernanceNext, ConfigStep, NewBlock, PassTime, governanceVars, verifierVars

LEMMA VoterInit == GovernanceInit => VoterInv
<1> SUFFICES ASSUME GovernanceInit PROVE VoterInv
  OBVIOUS
<1>1. /\ ProposalsInit /\ snapshots = [p \in SnapshotIds |-> null]
      /\ owners = [n \in NFT |-> <<[owner |-> FirstOwner[n], since |-> 0]>>]
  BY DEF GovernanceInit, Deployed, Activated, RegistryInit, VerifierInit
<1>2. OwnersInv
  <2>1. ASSUME NEW n \in NFT
        PROVE  /\ owners[n] \in Seq([owner : Voters, since : Nat])
               /\ Len(owners[n]) >= 1 /\ \A i \in 1 .. Len(owners[n]) : owners[n][i].since <= now
    <3>1. PICK e : e = [owner |-> FirstOwner[n], since |-> 0]
      OBVIOUS
    <3>2. e \in [owner : Voters, since : Nat] /\ e.since = 0 /\ owners[n] = <<e>> /\ now = 0
      BY <1>1, <3>1, GovernanceAssumption DEF ProposalsInit
    <3>3. QED BY <3>2
  <2>2. QED BY <1>1, <2>1 DEF OwnersInv
<1>3. QED BY <1>1, <1>2 DEF VoterInv, ProposalsInit

(* A counted vote is of a Diamond in the proposal's snapshot and of a      *)
(* wallet that owned it during the voting, for any number of Diamonds,     *)
(* transfers and queries in flight (CastVote, requestVoteEligibility,      *)
(* recordEligibleVote, RegisterSnapshot).                                  *)
THEOREM VotersWereEligible == GovernanceSpec => []VotersHeldEligibleDiamonds
<1>1. VoterInv => VotersHeldEligibleDiamonds
  BY DEF VoterInv, BallotOK, VotersHeldEligibleDiamonds, isEligible
<1>2. QED BY <1>1, PendingInit, PendingStep, TallyInit, TallyStep, VoterInit, VoterStep, PTL DEF GovernanceSpec
=============================================================================
