------------------------------ MODULE Indexer ------------------------------
(***************************************************************************)
(* backend/indexer: services/indexer-service.ts follows the masterchain by *)
(* polling an HTTP API and stores blocks and their events in the SQLite    *)
(* database of db/database.ts.                                             *)
(*                                                                         *)
(* A poll is an asynchronous function. It runs without interruption from   *)
(* one await to the next, so a step of this model is what happens between  *)
(* the answer to one request and the next request; other polls, and the    *)
(* chain, move in between. The timer starts polls without asking whether   *)
(* the previous one has ended; each takes the first slot of `Poll` that is *)
(* free, and `overlaps` counts, for the properties, those that found an    *)
(* earlier one still waiting. The last commit of a poll and the flagging   *)
(* that ends it are two writes with nothing awaited in between: no other   *)
(* poll needs to run there, but the process can die or the write fail, so  *)
(* flagging is a step of its own. `flagsDue` records, for the properties,  *)
(* that the latest poll to come that far ended without it.                 *)
(*                                                                         *)
(* A block's hash is the number of the fork that produced it, and its      *)
(* events are named by the block they come from: `events` is the fork the  *)
(* transactions were fetched from, or Missing when the request for them    *)
(* failed, which the code takes for an empty answer. A fork that lost does *)
(* not come back, and the chain never gets shorter.                        *)
(***************************************************************************)
EXTENDS Integers, Sequences, FiniteSetsExt

CONSTANTS Poll,                \* slots for polls that run at the same time
          startBlock,          \* config.indexer.startBlock
          batchSize,           \* config.indexer.batchSize
          confirmationBlocks,  \* config.indexer.confirmationBlocks
          MaxDepth,            \* environment: deepest reorganisation
          MaxHead,             \* bound: length of the chain
          MaxFork,             \* bound: reorganisations
          MaxFailures,         \* bound: failed requests and restarts
          MaxOverlaps,         \* bound: polls started while another runs
          MaxOverlapHead,      \* bound: length of the chain when some have
          none, Missing

window == IF confirmationBlocks > 1 THEN confirmationBlocks ELSE 1

(* The re-validation window is meant for reorganisations that reach at     *)
(* most `window` blocks below the confirmation depth.                      *)
ASSUME IndexerAssumption ==
  /\ Poll \subseteq Nat
  /\ startBlock \in Nat /\ batchSize \in Nat \ {0} /\ confirmationBlocks \in Nat
  /\ MaxDepth \in Nat /\ MaxDepth <= confirmationBlocks + window
  /\ MaxHead \in Nat /\ MaxFork \in Nat /\ MaxFailures \in Nat /\ MaxOverlaps \in Nat
  /\ MaxOverlapHead \in 0 .. MaxHead
  /\ none \notin Nat /\ Missing \notin Nat

VARIABLES chain, fork,                                      \* the masterchain
          blocks, latest_block_indexed, latest_chain_seqno, \* the database
          poll,                                             \* the service
          failures, overlaps, flagsDue

database == <<blocks, latest_block_indexed, latest_chain_seqno>>
indexerVars == <<chain, fork, database, poll, failures, overlaps, flagsDue>>

Height == 1 .. MaxHead
Larger(a, b) == IF a > b THEN a ELSE b
Smaller(a, b) == IF a < b THEN a ELSE b

BlockRow == [hash : Nat, events : Nat \cup {Missing}, confirmed : BOOLEAN]
ASSUME NoneAssumption == none \notin BlockRow

(* The locals of syncBlocks that are alive at an await: the block asked    *)
(* for, the stored hash read before asking, the header's hash, the chain   *)
(* head, the cursor the poll began with and the end of the current batch.  *)
PollState ==
  [at : {"idle", "head", "revalidate", "check", "header", "transactions",
         "confirm"},
   block : Nat, stored : Nat, hash : Nat, seqno : Nat, latestIndexed : Nat,
   batchEnd : Nat]

Idle == [at |-> "idle", block |-> 0, stored |-> 0, hash |-> 0, seqno |-> 0,
         latestIndexed |-> 0, batchEnd |-> 0]

IndexerTypeOK ==
  /\ chain \in Seq(Nat) /\ Len(chain) <= MaxHead
  /\ fork \in Nat
  /\ blocks \in [Height -> BlockRow \cup {none}]
  /\ latest_block_indexed \in 0 .. MaxHead
  /\ latest_chain_seqno \in 0 .. MaxHead
  /\ poll \in [Poll -> PollState]
  /\ failures \in 0 .. MaxFailures
  /\ overlaps \in 0 .. MaxOverlaps
  /\ flagsDue \in BOOLEAN

IndexerInit ==
  /\ chain = <<>>
  /\ fork = 0
  /\ blocks = [n \in Height |-> none]
  /\ latest_block_indexed = 0
  /\ latest_chain_seqno = 0
  /\ poll = [p \in Poll |-> Idle]
  /\ failures = 0
  /\ overlaps = 0
  /\ flagsDue = FALSE

-----------------------------------------------------------------------------
(* The database.                                                           *)

markBlocksConfirmed(b, upToBlock) ==
  [n \in Height |-> IF b[n] # none /\ n <= upToBlock
                    THEN [b[n] EXCEPT !.confirmed = TRUE] ELSE b[n]]

DeleteFromParent(b, from) ==
  [n \in Height |-> IF n >= from - 1 THEN none ELSE b[n]]

(* handleReorg: the blocks it leaves, and the cursor it sets.              *)
DeleteFrom(b, from) == [n \in Height |-> IF n >= from THEN none ELSE b[n]]

CursorKeepsBlock(b, from) == from

CursorAfterReorg(b, from) ==
  IF from - 1 \in Height /\ b[from - 1] # none THEN from - 1 ELSE 0

(* insertBlock and updateLatestBlock, in one transaction with the events.  *)
StoreBlock(b, n, hash, events) ==
  [b EXCEPT ![n] = [hash |-> hash, events |-> events, confirmed |-> FALSE]]

-----------------------------------------------------------------------------
(* What a poll does after its last await, given the blocks b and the       *)
(* cursor c it has left in the database.                                   *)

(* The loops over batches and blocks, from block n on: the next request,   *)
(* or the flagging that ends the poll. A stored block is compared with the *)
(* chain before it is fetched.                                             *)
SyncFrom(p, b, c, n, batchEnd, seqno) ==
  LET endBlock == seqno - confirmationBlocks IN
    /\ blocks' = b
    /\ latest_block_indexed' = c
    /\ \/ /\ n > endBlock
          /\ poll' = [poll EXCEPT ![p] = [Idle EXCEPT !.at = "confirm", !.seqno = seqno]]
       \/ /\ n <= endBlock
          /\ poll' = [poll EXCEPT ![p] =
               [Idle EXCEPT !.at = IF b[n] = none THEN "header" ELSE "check",
                            !.block = n,
                            !.stored = IF b[n] = none THEN 0 ELSE b[n].hash,
                            !.seqno = seqno,
                            !.batchEnd = IF n <= batchEnd THEN batchEnd
                                         ELSE Smaller(n + batchSize - 1, endBlock)]]

SyncForwardExclusive(p, b, c, seqno) ==
  LET start == Larger(c + 1, startBlock) IN
    \/ /\ start >= seqno - confirmationBlocks
       /\ blocks' = b
       /\ latest_block_indexed' = c
       /\ poll' = [poll EXCEPT ![p] = Idle]
    \/ /\ start < seqno - confirmationBlocks
       /\ SyncFrom(p, b, c, start, start - 1, seqno)

(* The cursor is read again; without a new block the poll ends here and    *)
(* marks nothing.                                                          *)
SyncForward(p, b, c, seqno) ==
  LET start == Larger(c + 1, startBlock) IN
    \/ /\ start > seqno - confirmationBlocks
       /\ blocks' = b
       /\ latest_block_indexed' = c
       /\ poll' = [poll EXCEPT ![p] = Idle]
    \/ /\ start <= seqno - confirmationBlocks
       /\ SyncFrom(p, b, c, start, start - 1, seqno)

(* The walk over the window, from block n on: heights without a stored     *)
(* block are passed over.                                                  *)
RevalidateFrom(p, n, latestIndexed, seqno) ==
  LET toCheck == {m \in Height : n <= m /\ m <= latestIndexed /\ blocks[m] # none}
  IN  \/ /\ toCheck = {}
         /\ SyncForward(p, blocks, latest_block_indexed, seqno)
      \/ /\ toCheck # {}
         /\ LET m == Min(toCheck) IN
              poll' = [poll EXCEPT ![p] =
                [Idle EXCEPT !.at = "revalidate", !.block = m,
                             !.stored = blocks[m].hash, !.seqno = seqno,
                             !.latestIndexed = latestIndexed]]
         /\ UNCHANGED <<blocks, latest_block_indexed>>

-----------------------------------------------------------------------------
(* The timer fires. *)
StartPoll(p) ==
  /\ poll[p].at = "idle" /\ \A q \in Poll : poll[q].at = "idle" => p <= q
  /\ poll' = [poll EXCEPT ![p] = [Idle EXCEPT !.at = "head",
                                  !.latestIndexed = latest_block_indexed]]
  /\ \/ (\A q \in Poll : poll[q].at = "idle") /\ overlaps' = overlaps
     \/ /\ \E q \in Poll : poll[q].at # "idle"
        /\ overlaps < MaxOverlaps /\ Len(chain) <= MaxOverlapHead
        /\ overlaps' = overlaps + 1
  /\ UNCHANGED <<chain, fork, database, failures, flagsDue>>

ReadHeadCheckTip(p) ==
  /\ poll[p].at = "head"
  /\ latest_chain_seqno' = Larger(latest_chain_seqno, Len(chain))
  /\ RevalidateFrom(p, Larger(1, poll[p].latestIndexed),
                    poll[p].latestIndexed, Len(chain))
  /\ UNCHANGED <<chain, fork, failures, overlaps, flagsDue>>

(* getLatestBlock answers. *)
ReadHead(p) ==
  /\ poll[p].at = "head"
  /\ latest_chain_seqno' = Larger(latest_chain_seqno, Len(chain))
  /\ RevalidateFrom(p, Larger(1, poll[p].latestIndexed - window + 1),
                    poll[p].latestIndexed, Len(chain))
  /\ UNCHANGED <<chain, fork, failures, overlaps, flagsDue>>

(* detectAndHandleReorg, called from revalidateIndexedRange.               *)
Revalidate(p) ==
  /\ poll[p].at = "revalidate"
  /\ LET n == poll[p].block IN
       \/ /\ chain[n] = poll[p].stored
          /\ RevalidateFrom(p, n + 1, poll[p].latestIndexed, poll[p].seqno)
       \/ /\ chain[n] # poll[p].stored
          /\ SyncForward(p, DeleteFrom(blocks, n), CursorAfterReorg(blocks, n),
                         poll[p].seqno)
  /\ UNCHANGED <<chain, fork, latest_chain_seqno, failures, overlaps, flagsDue>>

(* detectAndHandleReorg, called from syncBlockRange. After a rollback only *)
(* the rest of this batch is given up: the loop over batches goes on.      *)
CheckStored(p) ==
  /\ poll[p].at = "check"
  /\ LET n == poll[p].block IN
       \/ /\ chain[n] = poll[p].stored
          /\ poll' = [poll EXCEPT ![p].at = "header"]
          /\ UNCHANGED <<blocks, latest_block_indexed>>
       \/ /\ chain[n] # poll[p].stored
          /\ SyncFrom(p, DeleteFrom(blocks, n), CursorAfterReorg(blocks, n),
                      poll[p].batchEnd + 1, poll[p].batchEnd, poll[p].seqno)
  /\ UNCHANGED <<chain, fork, latest_chain_seqno, failures, overlaps, flagsDue>>

(* processBlock: the header arrives. *)
FetchHeader(p) ==
  /\ poll[p].at = "header"
  /\ poll' = [poll EXCEPT ![p].at = "transactions", ![p].hash = chain[poll[p].block]]
  /\ UNCHANGED <<chain, fork, database, failures, overlaps, flagsDue>>

(* processBlock: the transactions arrive, or their requests have failed,   *)
(* and the block is committed.                                             *)
FetchTransactions(p) ==
  /\ poll[p].at = "transactions"
  /\ LET n == poll[p].block IN
       \E events \in {chain[n], Missing} :
         SyncFrom(p, StoreBlock(blocks, n, poll[p].hash, events), n,
                  n + 1, poll[p].batchEnd, poll[p].seqno)
  /\ UNCHANGED <<chain, fork, latest_chain_seqno, failures, overlaps, flagsDue>>

(* syncBlocks ends: what is deep enough is flagged. Forward                *)
(* synchronisation began at a height of at least 1, so the cutoff is       *)
(* positive.                                                               *)
ConfirmBlocks(p) ==
  /\ poll[p].at = "confirm"
  /\ blocks' = markBlocksConfirmed(blocks, poll[p].seqno - confirmationBlocks)
  /\ poll' = [poll EXCEPT ![p] = Idle]
  /\ flagsDue' = FALSE
  /\ UNCHANGED <<chain, fork, latest_block_indexed, latest_chain_seqno, failures, overlaps>>

(* A request or a write fails and the poll ends with an exception. *)
FailPoll(p) ==
  /\ failures < MaxFailures
  /\ poll[p].at # "idle"
  /\ poll' = [poll EXCEPT ![p] = Idle]
  /\ failures' = failures + 1
  /\ flagsDue' = (flagsDue \/ poll[p].at = "confirm")
  /\ UNCHANGED <<chain, fork, database, overlaps>>

(* The process dies and is started again: the database is what is left.    *)
Restart ==
  /\ failures < MaxFailures
  /\ poll' = [p \in Poll |-> Idle]
  /\ failures' = failures + 1
  /\ flagsDue' = (flagsDue \/ \E p \in Poll : poll[p].at = "confirm")
  /\ UNCHANGED <<chain, fork, database, overlaps>>

NewBlock ==
  /\ Len(chain) < IF overlaps = 0 THEN MaxHead ELSE MaxOverlapHead
  /\ chain' = Append(chain, fork)
  /\ UNCHANGED <<fork, database, poll, failures, overlaps, flagsDue>>

(* All blocks above height h are replaced. *)
Reorg(h) ==
  /\ fork < MaxFork
  /\ Len(chain) - MaxDepth <= h /\ h < Len(chain)
  /\ fork' = fork + 1
  /\ chain' = [n \in 1 .. Len(chain) |-> IF n > h THEN fork' ELSE chain[n]]
  /\ UNCHANGED <<database, poll, failures, overlaps, flagsDue>>

-----------------------------------------------------------------------------
Answer(p) == \/ ReadHead(p) \/ Revalidate(p) \/ CheckStored(p)
             \/ FetchHeader(p) \/ FetchTransactions(p) \/ ConfirmBlocks(p)

IndexerNext ==
  \/ \E p \in Poll : StartPoll(p) \/ Answer(p) \/ FailPoll(p)
  \/ Restart
  \/ NewBlock
  \/ \E h \in 0 .. MaxHead : Reorg(h)

IndexerSpec == IndexerInit /\ [][IndexerNext]_indexerVars

(* The timer fires, every request is answered or fails, a poll that has    *)
(* stored its last block goes on to flag, the chain grows.                 *)
IndexerFairSpec ==
  /\ IndexerSpec
  /\ \A p \in Poll : WF_indexerVars(StartPoll(p)) /\ WF_indexerVars(Answer(p))
  /\ WF_indexerVars(NewBlock)

-----------------------------------------------------------------------------
first == Larger(1, startBlock)

Stale(n) == /\ blocks[n] # none
            /\ \/ blocks[n].hash # chain[n]
               \/ blocks[n].events \notin {chain[n], Missing}

(* isBlockConfirmed of services/confirmations.ts, as the API calls it.     *)
isBlockConfirmed(n) ==
  Larger(0, latest_chain_seqno - n) >= confirmationBlocks

Sequential == overlaps = 0

(* No block is skipped: what is stored is every height from the first to   *)
(* the cursor, whatever reorganisations, failures and restarts came in     *)
(* between, as long as no poll has overlapped another. A restart resumes   *)
(* from a block that is there even when some have: the cursor is then      *)
(* still 0 or a stored height.                                             *)
Contiguous ==
  /\ Sequential => \A n \in Height :
       blocks[n] # none <=> first <= n /\ n <= latest_block_indexed
  /\ latest_block_indexed > 0 => blocks[latest_block_indexed] # none

(* Nothing wrong escapes re-validation: a stored block that the chain has  *)
(* replaced, or that was stored with the events of a replaced one, is in   *)
(* the window the next poll compares with the chain, as long as no poll    *)
(* has overlapped another.                                                 *)
StaleWithinWindow ==
  Sequential => \A n \in Height : Stale(n) => n > latest_block_indexed - window

(* A stored block is only taken back when it, or a stored block below it,  *)
(* is not the chain's, as long as no poll has overlapped another.          *)
RollbackNeedsReorg ==
  [][Sequential => \A n \in Height : (blocks[n] # none /\ blocks'[n] = none) =>
       \E m \in 1 .. n : blocks[m] # none /\ blocks[m].hash # chain[m]]_indexerVars

(* Once the chain rests, the database comes to hold its confirmed blocks,  *)
(* if no poll ever overlaps another, and to flag them all, unless the last *)
(* poll that had blocks to store ended between its last commit and the     *)
(* flagging: a poll that finds no new block returns before it flags, so    *)
(* those blocks stay unflagged until the chain grows again.                *)
CatchesUp ==
  []Sequential => <>[](\A n \in first .. MaxHead - confirmationBlocks :
         /\ blocks[n] # none /\ blocks[n].hash = chain[n]
         /\ blocks[n].confirmed \/ flagsDue)

(* docs/REORG_HANDLING.md, on several reorganisations at once: the indexer *)
(* "handles one at a time" and "will eventually catch up". A height below  *)
(* the cursor is never asked for again unless a later rollback reaches it. *)
NoBlockSkipped ==
  \A n \in Height : (first <= n /\ n <= latest_block_indexed) => blocks[n] # none

(* docs/error-codes.md 3.2: failures logged as warnings "do not lose       *)
(* data". The requests for a block's transactions log a warning and count  *)
(* as empty.                                                               *)
EventsStoredWithBlock ==
  \A n \in Height : blocks[n] # none => blocks[n].events # Missing

(* docs/REORG_HANDLING.md 3: the flag and the API's status "can never      *)
(* disagree for the same block".                                           *)
FlagAgreesWithStatus ==
  \A n \in Height : blocks[n] # none => (blocks[n].confirmed <=> isBlockConfirmed(n))
=============================================================================
