--------------------- MODULE VerifiedNFTAccountResolver ---------------------
(***************************************************************************)
(* contracts/nft-resolver/VerifiedNFTAccountResolver.tact: asks an NFT     *)
(* item who owns it, over messages, and forwards the answer to the         *)
(* contract the request named. One query per item is open at a time; it    *)
(* expires QueryTTL after it was made and is then replaced by the next     *)
(* request or removed by a cleanup.                                        *)
(*                                                                         *)
(* queryMsgs, replyMsgs: the messages to and from the items; no order is   *)
(* assumed among them. ownerMsgs: the ResolveNFTOwner messages to the hub, *)
(* which TON delivers in the order they were sent; those to a target other *)
(* than the hub leave the model.                                           *)
(*                                                                         *)
(* `asked` and `epoch` are history: the number of owners item n had had    *)
(* when a query was made, and when it was answered. No guard reads them.   *)
(***************************************************************************)
EXTENDS ChainTime, Sequences

CONSTANTS Collections,      \* {collection_7777, collection_8888}
          HubTarget,        \* the hub's address
          Targets,          \* targets a request may name, the hub's included
          QueryTTL,         \* 300 seconds, in ticks
          MaxPending,       \* 64
          MaxQuery          \* bound: queries made in a behaviour

ASSUME ResolverAssumption ==
  /\ Collections \subseteq Address
  /\ HubTarget \in Targets
  /\ QueryTTL \in Nat \ {0}
  /\ MaxPending \in Nat
  /\ MaxQuery \in Nat

VARIABLES items, pending, next_query, pending_count,
          queryMsgs, replyMsgs, ownerMsgs

resolverVars == <<items, pending, next_query, pending_count,
                  queryMsgs, replyMsgs, ownerMsgs>>

PendingOwnerQuery ==
  [query_id : Nat, target : Targets, expires_at : Nat, asked : Nat]
Query == [nft : NFT, query_id : Nat]
Answer == [kind : {"data"}, nft : NFT, query_id : Nat, collection : Address,
           owner : Address, epoch : Nat]
Bounce == [kind : {"bounced"}, nft : NFT, query_id : Nat]
OwnerMsg == [nft : NFT, owner : Address, epoch : Nat, asked : Nat]
ASSUME NullQueryAssumption == null \notin PendingOwnerQuery

ResolverTypeOK ==
  /\ now \in 0 .. MaxTime
  /\ items \in [NFT -> Opt(Collections)]
  /\ pending \in [NFT -> Opt(PendingOwnerQuery)]
  /\ next_query \in Nat
  /\ pending_count \in Int
  /\ queryMsgs \subseteq Query
  /\ replyMsgs \subseteq Answer \cup Bounce
  /\ ownerMsgs \in Seq(OwnerMsg)

ResolverInit ==
  /\ items = [n \in NFT |-> null]
  /\ pending = [n \in NFT |-> null]
  /\ next_query = 0
  /\ pending_count = 0
  /\ queryMsgs = {}
  /\ replyMsgs = {}
  /\ ownerMsgs = <<>>

-----------------------------------------------------------------------------
RegisterAccountItem(sender, n) ==
  /\ sender \in Collections
  /\ items[n] = null
  /\ items' = [items EXCEPT ![n] = sender]
  /\ UNCHANGED <<pending, next_query, pending_count, queryMsgs, replyMsgs,
                 ownerMsgs>>

(* Anyone may ask. An expired query is replaced and stays counted; a new   *)
(* one needs room.                                                         *)
RefreshCountsReplacement(n, target, asked) ==
  /\ next_query < MaxQuery
  /\ items[n] # null
  /\ \/ pending[n] # null /\ pending[n].expires_at <= now
     \/ pending[n] = null /\ pending_count < MaxPending
  /\ pending_count' = pending_count + 1
  /\ next_query' = next_query + 1
  /\ pending' = [pending EXCEPT ![n] =
                   [query_id |-> next_query, target |-> target,
                    expires_at |-> now + QueryTTL, asked |-> asked]]
  /\ queryMsgs' = queryMsgs \cup {[nft |-> n, query_id |-> next_query]}
  /\ UNCHANGED <<items, replyMsgs, ownerMsgs>>

RefreshAccountOwner(n, target, asked) ==
  /\ next_query < MaxQuery
  /\ items[n] # null
  /\ \/ /\ pending[n] # null
        /\ pending[n].expires_at <= now
        /\ UNCHANGED pending_count
     \/ /\ pending[n] = null
        /\ pending_count < MaxPending
        /\ pending_count' = pending_count + 1
  /\ next_query' = next_query + 1
  /\ pending' = [pending EXCEPT ![n] =
                   [query_id |-> next_query, target |-> target,
                    expires_at |-> now + QueryTTL, asked |-> asked]]
  /\ queryMsgs' = queryMsgs \cup {[nft |-> n, query_id |-> next_query]}
  /\ UNCHANGED <<items, replyMsgs, ownerMsgs>>

(* The query is over: its entry goes and its place is free again.          *)
Release(n) ==
  /\ pending' = [pending EXCEPT ![n] = null]
  /\ pending_count' = pending_count - 1

(* The answer is forwarded only if it answers the open, unexpired query.   *)
AcceptAnyQuery(msg) ==
  /\ pending[msg.nft] # null
  /\ now < pending[msg.nft].expires_at
  /\ items[msg.nft] # null
  /\ msg.collection = items[msg.nft]

AnswerAccepted(msg) ==
  /\ pending[msg.nft] # null
  /\ msg.query_id = pending[msg.nft].query_id
  /\ now < pending[msg.nft].expires_at
  /\ items[msg.nft] # null
  /\ msg.collection = items[msg.nft]

AccountNFTData(msg) ==
  /\ msg.kind = "data"
  /\ AnswerAccepted(msg)
  /\ Release(msg.nft)
  /\ ownerMsgs' =
       IF pending[msg.nft].target = HubTarget
       THEN Append(ownerMsgs,
                   [nft |-> msg.nft, owner |-> msg.owner, epoch |-> msg.epoch,
                    asked |-> pending[msg.nft].asked])
       ELSE ownerMsgs

(* The item could not take the query and it came back.                     *)
bouncedQuery(msg) ==
  /\ msg.kind = "bounced"
  /\ pending[msg.nft] # null
  /\ msg.query_id = pending[msg.nft].query_id
  /\ Release(msg.nft)
  /\ UNCHANGED ownerMsgs

(* Any other callback is refused, or ignored, and used up all the same.    *)
RefusedReply(msg) ==
  /\ ~ (msg.kind = "data" /\ AnswerAccepted(msg))
  /\ ~ (msg.kind = "bounced" /\ pending[msg.nft] # null
        /\ msg.query_id = pending[msg.nft].query_id)
  /\ UNCHANGED <<pending, pending_count, ownerMsgs>>

ReplyDelivered(msg) ==
  /\ AccountNFTData(msg) \/ bouncedQuery(msg) \/ RefusedReply(msg)
  /\ replyMsgs' = replyMsgs \ {msg}
  /\ UNCHANGED <<items, next_query, queryMsgs>>

CleanupOwnerQuery(n) ==
  /\ pending[n] # null
  /\ pending[n].expires_at <= now
  /\ Release(n)
  /\ UNCHANGED <<items, next_query, queryMsgs, replyMsgs, ownerMsgs>>
=============================================================================
