-------------------------- MODULE IndexerDatabase --------------------------
(***************************************************************************)
(* backend/indexer/src/db/database.ts: the event tables, and what is kept  *)
(* beside them for quick answers: one snapshot per card, one row per       *)
(* reporting period, and a cache of account histories. Storing a block     *)
(* updates all of them event by event; a reorganisation deletes the        *)
(* blocks' events and must bring the rest back in line.                    *)
(*                                                                         *)
(* The tables are one set of rows. A row has its block, its place among    *)
(* the block's events, which is the order of insertion, the transaction it *)
(* came from and its log index, which counts within the transaction. Both  *)
(* kinds of transfer (internal_transfers, merchant_payments) and both of   *)
(* the period tables behave alike and are one kind each here; there is one *)
(* reporting period. A cached answer may be dropped at any time, by age or *)
(* by the limit on entries.                                                *)
(*                                                                         *)
(* Any height may be stored at any time, over one that is stored and below *)
(* others: polls that overlap (Indexer) come to that. Which block is       *)
(* stored when is Indexer's business; this module is what storing does.    *)
(* A block that is replaced takes its rows with it without a word to       *)
(* snapshots and cache, and an event whose transaction and log index the   *)
(* table has already is not inserted but still written to the snapshot.    *)
(* `unsettled` and `outdated` record, for the properties, the cards to     *)
(* which that has happened since their snapshot was last rebuilt, or their *)
(* cached history dropped.                                                 *)
(***************************************************************************)
EXTENDS Integers, Sequences

CONSTANTS NFT, Transaction,
          Events,          \* the events that occur
          BlockContents,   \* the lists of them that a block may have
          MaxBlock,        \* bound: height of the blocks stored
          none

(* Events: a transfer of one or two cards, a change of a card's state or   *)
(* owner, a report of the period.                                          *)
Kinds == {"transfer", "state", "owner", "period"}
IsEvent(e) ==
  /\ e.kind \in Kinds /\ e.nfts \subseteq NFT
  /\ e.kind = "period" => e.nfts = {}

(* collectBlockEvents: the events of the block's transactions in order,    *)
(* each with its transaction's hash and its index within the transaction.  *)
(* A transaction that comes without a hash is given the empty one, so one  *)
(* hash and index may occur twice.                                         *)
Collected(c) ==
  \A i \in DOMAIN c :
    c[i].log = 0 \/ (i > 1 /\ c[i].tx = c[i - 1].tx /\ c[i].log = c[i - 1].log + 1)

ASSUME DatabaseAssumption ==
  /\ \A e \in Events : IsEvent(e)
  /\ BlockContents \subseteq Seq([tx : Transaction, log : Nat, event : Events])
  /\ \A c \in BlockContents : Collected(c)
  /\ MaxBlock \in Nat

VARIABLES blocks,          \* the heights stored
          latest,          \* latest_block_indexed
          rows,            \* the event tables
          snapshots,       \* account_snapshots
          metrics,         \* the period's row, or none
          historyCache,
          unsettled, outdated

databaseVars ==
  <<blocks, latest, rows, snapshots, metrics, historyCache, unsettled, outdated>>

NoSnapshot == [owner |-> none, state |-> 0, last_transfer_block |-> none,
               last_state_change_block |-> none]

ValuesOf(kind) == {e.value : e \in {e \in Events : e.kind = kind}}

Snapshot ==
  [owner : ValuesOf("owner") \cup {none}, state : ValuesOf("state") \cup {0},
   last_transfer_block : Nat \cup {none}, last_state_change_block : Nat \cup {none}]

ASSUME NoneAssumption == none \notin Snapshot

IsRow(r) ==
  /\ DOMAIN r = {"block", "place", "tx", "log", "event"}
  /\ r.block \in blocks /\ r.place \in Nat /\ r.tx \in Transaction
  /\ r.log \in Nat /\ r.event \in Events

DatabaseTypeOK ==
  /\ blocks \subseteq 1 .. MaxBlock
  /\ latest \in 0 .. MaxBlock
  /\ \A r \in rows : IsRow(r)
  /\ DOMAIN snapshots = NFT /\ DOMAIN historyCache = NFT
  /\ \A n \in NFT : snapshots[n] \in Snapshot \cup {none}
  /\ metrics # none => IsRow(metrics)
  /\ unsettled \subseteq NFT /\ outdated \subseteq NFT

DatabaseInit ==
  /\ blocks = {}
  /\ latest = 0
  /\ rows = {}
  /\ snapshots = [n \in NFT |-> none]
  /\ metrics = none
  /\ historyCache = [n \in NFT |-> none]
  /\ unsettled = {}
  /\ outdated = {}

-----------------------------------------------------------------------------
Of(table, n, kinds) == {r \in table : r.event.kind \in kinds /\ n \in r.event.nfts}

(* getAccountHistory. *)
history(table, n) == Of(table, n, {"transfer", "state"})

Existing(s) == IF s = none THEN NoSnapshot ELSE s

(* The snapshot of card n after one more event: UPSERTs that touch the     *)
(* columns of the event's kind only.                                       *)
ReplaceSnapshot(s, r) ==
  CASE r.event.kind = "transfer" ->
         [Existing(s) EXCEPT !.last_transfer_block = r.block]
    [] r.event.kind = "state" ->
         [NoSnapshot EXCEPT !.state = r.event.value, !.last_state_change_block = r.block]
    [] r.event.kind = "owner" -> [Existing(s) EXCEPT !.owner = r.event.value]

updateAccountSnapshot(s, r) ==
  CASE r.event.kind = "transfer" ->
         [Existing(s) EXCEPT !.last_transfer_block = r.block]
    [] r.event.kind = "state" ->
         [Existing(s) EXCEPT !.state = r.event.value, !.last_state_change_block = r.block]
    [] r.event.kind = "owner" -> [Existing(s) EXCEPT !.owner = r.event.value]

(* The newest report of the period wins. *)
upsertMetrics(m, r) ==
  IF m = none \/ r.block > m.block \/ (r.block = m.block /\ r.log >= m.log)
  THEN r ELSE m

insertEvent(d, r) ==
  [snapshots |-> [n \in NFT |-> IF n \in r.event.nfts
                                THEN updateAccountSnapshot(d.snapshots[n], r)
                                ELSE d.snapshots[n]],
   metrics |-> IF r.event.kind = "period" THEN upsertMetrics(d.metrics, r)
               ELSE d.metrics,
   historyCache |-> [n \in NFT |-> IF n \in r.event.nfts THEN none
                                   ELSE d.historyCache[n]]]

Row(c, block, i) ==
  [block |-> block, place |-> i, tx |-> c[i].tx, log |-> c[i].log, event |-> c[i].event]

(* insertBlock is an INSERT OR REPLACE: a stored block of that height goes *)
(* first, and CASCADE takes its rows and, if it is from there, the         *)
(* period's.                                                               *)
Replaced(block) == {r \in rows : r.block = block}
Kept(block) == rows \ Replaced(block)

BeforeEvents(block) ==
  [snapshots |-> snapshots,
   metrics |-> IF metrics # none /\ metrics.block = block THEN none ELSE metrics,
   historyCache |-> historyCache]

(* INSERT OR IGNORE: each table has a transaction's log index once. The    *)
(* rest of the handler of an ignored event runs all the same.              *)
SameKey(r, s) == r.event.kind = s.event.kind /\ r.tx = s.tx /\ r.log = s.log

Ignored(c, block, i) ==
  /\ c[i].event.kind # "period"
  /\ \/ \E r \in Kept(block) : SameKey(r, Row(c, block, i))
     \/ \E j \in 1 .. i - 1 : SameKey(Row(c, block, j), Row(c, block, i))

Inserted(c, block) ==
  {Row(c, block, i) : i \in {i \in DOMAIN c : ~ Ignored(c, block, i)}}

(* What is beside the tables when the events have been handled in order.   *)
AfterEvents(c, block) ==
  LET after[i \in 0 .. Len(c)] ==
        IF i = 0 THEN BeforeEvents(block)
        ELSE insertEvent(after[i - 1], Row(c, block, i))
  IN  after[Len(c)]

NamedBy(table) == UNION {r.event.nfts : r \in table}

(* The cards that lose rows, or whose event is ignored or comes below rows *)
(* of a later block.                                                       *)
Unsettling(c, block) ==
  NamedBy(Replaced(block)) \cup
  {n \in NFT : \E i \in DOMAIN c :
     /\ n \in c[i].event.nfts
     /\ \/ Ignored(c, block, i)
        \/ \E r \in Kept(block) : r.block > block /\ n \in r.event.nfts}

(* The write phase of processBlock, one transaction: insertBlock, the      *)
(* events, updateLatestBlock.                                              *)
storeBlock(block, c) ==
  /\ blocks' = blocks \cup {block}
  /\ latest' = block
  /\ rows' = Kept(block) \cup Inserted(c, block)
  /\ LET d == AfterEvents(c, block)
     IN  /\ snapshots' = d.snapshots
         /\ metrics' = d.metrics
         /\ historyCache' = d.historyCache
         /\ outdated' = {n \in outdated \cup NamedBy(Replaced(block)) :
                            d.historyCache[n] # none}
  /\ unsettled' = unsettled \cup Unsettling(c, block)

(* ORDER BY block_number DESC, log_index DESC LIMIT 1: the rows that may   *)
(* come first.                                                             *)
FirstByBlockAndLog(table) ==
  {r \in table : \A s \in table :
     s.block < r.block \/ (s.block = r.block /\ s.log <= r.log)}

(* MAX(block_number), NULL of no rows. *)
LastBlock(table) ==
  IF table = {} THEN none
  ELSE CHOOSE b \in {r.block : r \in table} : \A r \in table : r.block <= b

(* The snapshots rebuildAccountSnapshot may compute for card n.            *)
rebuildAccountSnapshot(table, n) ==
  LET owners == Of(table, n, {"owner"})
      states == Of(table, n, {"state"})
      transfers == Of(table, n, {"transfer"})
      OrDefault(S, v) == IF S = {} THEN {v} ELSE S
  IN  IF owners = {} /\ states = {} /\ transfers = {} THEN {none}
      ELSE {[owner |-> o,
             state |-> s.value,
             last_transfer_block |-> LastBlock(transfers),
             last_state_change_block |-> s.block] :
              o \in OrDefault({r.event.value : r \in FirstByBlockAndLog(owners)}, none),
              s \in OrDefault({[value |-> r.event.value, block |-> r.block] :
                                 r \in FirstByBlockAndLog(states)},
                              [value |-> 0, block |-> none])}

(* DELETE FROM blocks, and the CASCADE to the events. *)
Surviving(from) == {r \in rows : r.block < from}

AffectedByChanges(from) ==
  UNION {r.event.nfts : r \in {r \in rows : r.block >= from /\ r.event.kind # "transfer"}}

(* The cards named by the events that are about to go.                     *)
AffectedBy(from) == NamedBy(rows \ Surviving(from))

(* handleReorg, one transaction. A poll that was overlapped may call it    *)
(* for a height that is not stored any more.                               *)
handleReorg(from) ==
  LET affected == AffectedBy(from)
      possible == [n \in NFT |-> IF n \in affected
                                 THEN rebuildAccountSnapshot(Surviving(from), n)
                                 ELSE {snapshots[n]}]
  IN  /\ blocks' = {b \in blocks : b < from}
      /\ latest' = IF from - 1 \in blocks THEN from - 1 ELSE 0
      /\ rows' = Surviving(from)
      /\ \E s \in [NFT -> UNION {possible[n] : n \in NFT}] :
           (\A n \in NFT : s[n] \in possible[n]) /\ snapshots' = s
      /\ metrics' = IF metrics # none /\ metrics.block >= from THEN none ELSE metrics
      /\ historyCache' = [n \in NFT |-> IF n \in affected THEN none ELSE historyCache[n]]
      /\ unsettled' = unsettled \ affected
      /\ outdated' = outdated \ affected

(* A question that the cache cannot answer fills it. *)
getAccountHistory(n) ==
  /\ historyCache[n] = none
  /\ historyCache' = [historyCache EXCEPT ![n] = history(rows, n)]
  /\ UNCHANGED <<blocks, latest, rows, snapshots, metrics, unsettled, outdated>>

dropCacheEntry(n) ==
  /\ historyCache[n] # none
  /\ historyCache' = [historyCache EXCEPT ![n] = none]
  /\ outdated' = outdated \ {n}
  /\ UNCHANGED <<blocks, latest, rows, snapshots, metrics, unsettled>>

DatabaseNext ==
  \/ \E block \in 1 .. MaxBlock, c \in BlockContents : storeBlock(block, c)
  \/ \E from \in 1 .. MaxBlock : handleReorg(from)
  \/ \E n \in NFT : getAccountHistory(n) \/ dropCacheEntry(n)

DatabaseSpec == DatabaseInit /\ [][DatabaseNext]_databaseVars

-----------------------------------------------------------------------------
(* The row that the chain has last. *)
Last(table) ==
  CHOOSE r \in table : \A s \in table :
    s.block < r.block \/ (s.block = r.block /\ s.place <= r.place)

(* What a card's snapshot says if the events are read in chain order.      *)
SnapshotOf(table, n) ==
  LET owners == Of(table, n, {"owner"})
      states == Of(table, n, {"state"})
      transfers == Of(table, n, {"transfer"})
  IN  IF owners = {} /\ states = {} /\ transfers = {} THEN none
      ELSE [owner |-> IF owners = {} THEN none ELSE Last(owners).event.value,
            state |-> IF states = {} THEN 0 ELSE Last(states).event.value,
            last_transfer_block |->
              IF transfers = {} THEN none ELSE Last(transfers).block,
            last_state_change_block |->
              IF states = {} THEN none ELSE Last(states).block]

(* The log indexes put the changes of a card within each block in the      *)
(* order in which they happened. Indexes count within a transaction, so    *)
(* two transactions of a block that change the same column may break this. *)
LogsInOrder(table, n) ==
  \A kind \in {"owner", "state"} : \A r, s \in Of(table, n, {kind}) :
    r.block = s.block /\ r.place < s.place => r.log < s.log

(* Snapshots, written event by event and rebuilt after a rollback, are     *)
(* what the stored events say, in chain order: of every card that has not  *)
(* been unsettled since and whose stored changes the log indexes order.    *)
SnapshotsMatchEvents ==
  \A n \in NFT \ unsettled :
    LogsInOrder(rows, n) => snapshots[n] = SnapshotOf(rows, n)

(* database.ts, rebuildAccountSnapshot: "Latest surviving ownership change *)
(* (chain order = block then log index)". The order of two transactions of *)
(* a block is not in the tables.                                           *)
RebuiltInChainOrder ==
  \A n \in NFT \ unsettled : snapshots[n] = SnapshotOf(rows, n)

(* No answer from the cache is older than the database, through inserts    *)
(* and rollbacks, except of cards that a replaced block took rows from.    *)
CachedHistoryIsCurrent ==
  \A n \in NFT \ outdated : historyCache[n] # none => historyCache[n] = history(rows, n)

Reports == {r \in rows : r.event.kind = "period"}

(* docs/REORG_HANDLING.md, transparency aggregates: when a correction is   *)
(* rolled back the period is re-populated "from the surviving truth". The  *)
(* block of the earlier report is not indexed again.                       *)
PeriodSurvivesRollback == Reports # {} => metrics # none
=============================================================================
