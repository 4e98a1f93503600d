---------------------------- MODULE CardProtocol ----------------------------
(***************************************************************************)
(* The card protocol: the payment hub, the lock contract and the owner     *)
(* resolver, with the NFT items they are about, running as they do on      *)
(* chain: every contract handles one message at a time, and the contracts  *)
(* only learn of one another's state through messages in flight.           *)
(*                                                                         *)
(*   lock contract --lockMsgs--> hub <--ownerMsgs-- resolver               *)
(*                                    resolver <--replyMsgs-- NFT item     *)
(*                                    resolver --queryMsgs--> NFT item     *)
(*                                                                         *)
(* NFT items are not part of the repository; they are modelled by what the *)
(* resolver needs of them, as the test item AccountNFTHarness does: the    *)
(* owner may transfer the item at any time, and a query is answered with   *)
(* the owner at that instant, or bounces.                                  *)
(***************************************************************************)
EXTENDS MerchantPaymentHub, AccountLocks, VerifiedNFTAccountResolver

CONSTANTS Wallets,         \* the addresses that own NFT items
          InitialOwner,    \* who owns each item when the protocol starts
          ItemCollection,  \* the collection each item belongs to
          MaxOwners        \* bound: owners an item has in a behaviour

ASSUME ProtocolAssumption ==
  /\ HubTarget = Hub
  /\ Wallets \subseteq Address
  /\ InitialOwner \in [NFT -> Wallets]
  /\ ItemCollection \in [NFT -> Address]
  /\ MaxOwners \in Nat

VARIABLES nft_history,     \* the owners of each item so far, the last is current
          resolved_epoch   \* history: which of them the hub has recorded

itemVars == <<nft_history, resolved_epoch>>
protocolVars == <<hubVars, locksVars, resolverVars, itemVars, now>>

CurrentOwner(n) == nft_history[n][Len(nft_history[n])]

ProtocolTypeOK ==
  /\ HubTypeOK
  /\ LocksTypeOK
  /\ ResolverTypeOK
  /\ nft_history \in [NFT -> Seq(Wallets)]
  /\ resolved_epoch \in [NFT -> Nat]

ProtocolInit ==
  /\ HubInit
  /\ LocksInit
  /\ ResolverInit
  /\ nft_history = [n \in NFT |-> <<InitialOwner[n]>>]
  /\ resolved_epoch = [n \in NFT |-> 0]

-----------------------------------------------------------------------------
(* NFT items (external).                                                   *)
TransferItem(n, to) ==
  /\ Len(nft_history[n]) < MaxOwners
  /\ to # CurrentOwner(n)
  /\ nft_history' = [nft_history EXCEPT ![n] = Append(@, to)]
  /\ UNCHANGED <<hubVars, locksVars, resolverVars, resolved_epoch, now>>

AnswerQuery(q) ==
  /\ queryMsgs' = queryMsgs \ {q}
  /\ replyMsgs' = replyMsgs \cup
       {[kind |-> "data", nft |-> q.nft, query_id |-> q.query_id,
         collection |-> ItemCollection[q.nft],
         owner |-> CurrentOwner(q.nft), epoch |-> Len(nft_history[q.nft])]}
  /\ UNCHANGED <<hubVars, locksVars, items, pending, next_query, pending_count,
                 ownerMsgs, itemVars, now>>

BounceQuery(q) ==
  /\ queryMsgs' = queryMsgs \ {q}
  /\ replyMsgs' = replyMsgs \cup
       {[kind |-> "bounced", nft |-> q.nft, query_id |-> q.query_id]}
  /\ UNCHANGED <<hubVars, locksVars, items, pending, next_query, pending_count,
                 ownerMsgs, itemVars, now>>

-----------------------------------------------------------------------------
(* Messages between the contracts.                                         *)
DeliverLock ==
  /\ LockMsgDelivered
  /\ payment_hub = Hub
  /\ ApplyAccountLock(LocksContract, Head(lockMsgs).nft, Head(lockMsgs).lock)
  /\ UNCHANGED <<resolverVars, itemVars, now>>

DeliverOwner ==
  /\ ownerMsgs # <<>>
  /\ ownerMsgs' = Tail(ownerMsgs)
  /\ ResolveNFTOwner(Resolver, Head(ownerMsgs).nft, Head(ownerMsgs).owner)
  /\ resolved_epoch' =
       [resolved_epoch EXCEPT ![Head(ownerMsgs).nft] = Head(ownerMsgs).epoch]
  /\ UNCHANGED <<locksVars, items, pending, next_query, pending_count,
                 queryMsgs, replyMsgs, nft_history, now>>

DeliverReply(msg) ==
  /\ ReplyDelivered(msg)
  /\ UNCHANGED <<hubVars, locksVars, itemVars, now>>

(* Messages of the users, the roles, the settlement contract and the       *)
(* collections.                                                            *)
HubStep ==
  /\ HubUserNext \/ HubDepositNext
  /\ UNCHANGED <<locksVars, resolverVars, itemVars, now>>

LocksStep ==
  /\ LocksNext
  /\ UNCHANGED <<hubVars, resolverVars, itemVars, now>>

ResolverStep(n) ==
  /\ \/ \E c \in Collections : RegisterAccountItem(c, n)
     \/ \E target \in Targets :
          RefreshAccountOwner(n, target, Len(nft_history[n]))
     \/ CleanupOwnerQuery(n)
  /\ UNCHANGED <<hubVars, locksVars, itemVars, now>>

NewBlock ==
  /\ PassTime
  /\ UNCHANGED <<hubVars, locksVars, resolverVars, itemVars>>

ProtocolNext ==
  \/ \E n \in NFT :
       \/ \E to \in Wallets : TransferItem(n, to)
       \/ ResolverStep(n)
  \/ \E q \in queryMsgs : AnswerQuery(q) \/ BounceQuery(q)
  \/ \E msg \in replyMsgs : DeliverReply(msg)
  \/ DeliverLock
  \/ DeliverOwner
  \/ HubStep
  \/ LocksStep
  \/ NewBlock

ProtocolSpec == ProtocolInit /\ [][ProtocolNext]_protocolVars

(* TON delivers every message. No user, role or item is obliged to act.    *)
ProtocolFairness == WF_protocolVars(DeliverLock) /\ WF_protocolVars(DeliverOwner)

FairProtocolSpec == ProtocolSpec /\ ProtocolFairness

-----------------------------------------------------------------------------
(* The lock messages in flight that are about account n.                   *)
InFlight(n) == {i \in DOMAIN lockMsgs : lockMsgs[i].nft = n}

(* The hub's copy of an account's locks lags behind the lock contract by   *)
(* exactly the messages in flight: the last of them carries the current    *)
(* flags, and with none in flight the two contracts agree.                 *)
HubLocksConverge ==
  \A n \in NFT :
    /\ InFlight(n) = {} => account_locks[n] = lock_dict[n]
    /\ \A i \in InFlight(n) :
         (\A j \in InFlight(n) : j <= i) => lockMsgs[i].lock = lock_dict[n]

(* What emit_account_lock promises the hub's payments (I6/I7 across        *)
(* contracts). After every step the copies agree up to the messages in     *)
(* flight; and while the lock contract holds a lock on an account and its  *)
(* message is delivered, no step takes money from that account.            *)
LocksHold ==
  [][/\ HubLocksConverge'
     /\ \A n \in NFT :
          (~ canSendWithLocks(lock_dict[n]) /\ InFlight(n) = {})
            => account_balances'[n] >= account_balances[n]]_protocolVars

(* The owner on record at the hub is one the item really had: the one of   *)
(* the recorded epoch. What the resolver forwards to the hub was read from *)
(* the item after the refresh was asked for, never before: a refresh asked *)
(* for after a transfer cannot bring the owner from before it.             *)
RecordedOwnerWasOwner ==
  /\ \A n \in NFT :
       nft_owners[n] = IF resolved_epoch[n] = 0 THEN null
                       ELSE nft_history[n][resolved_epoch[n]]
  /\ \A i \in DOMAIN ownerMsgs : ownerMsgs[i].epoch >= ownerMsgs[i].asked

(* I2 across contracts: the hub never goes back to an earlier owner. An    *)
(* answer that was overtaken by an expiry and a new query is not used,     *)
(* and two answers reach the hub in the order the item gave them.          *)
OwnerNeverRegresses ==
  [][\A n \in NFT : resolved_epoch'[n] >= resolved_epoch[n]]_protocolVars

(* The resolver's counter is the number of open queries and stays within   *)
(* its capacity, through replacement, bounce, answer and cleanup in every  *)
(* order: it neither leaks capacity nor goes below zero.                   *)
PendingCountExact ==
  /\ pending_count = Cardinality({n \in NFT : pending[n] # null})
  /\ pending_count <= MaxPending

(* A lock change takes effect at the hub unless it is changed again first. *)
LockTakesEffect ==
  \A n \in NFT, l \in LockState :
    lock_dict[n] = l ~> (account_locks[n] = l \/ lock_dict[n] # l)

(* docs/invariants.md, I2: "Previous owner cannot transact after NFT       *)
(* transfer". The hub decides by its record of the owner, so this does not *)
(* hold while the refresh that follows a transfer is still to come.        *)
PayerIsCurrentOwner ==
  [][\A n \in NFT : account_balances'[n] < account_balances[n]
       => nft_owners[n] = CurrentOwner(n)]_protocolVars
=============================================================================
