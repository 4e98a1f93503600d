------------------------ MODULE IndexerDatabase_proofs ------------------------
(***************************************************************************)
(* A cached history is that of the tables, and a snapshot is what the      *)
(* stored events say: for any cards, events, blocks, replacements and      *)
(* rollbacks, but of the cards that `outdated` and `unsettled` name.       *)
(***************************************************************************)
EXTENDS IndexerDatabase, FiniteSetTheorems, WellFoundedInduction, TLAPS

-----------------------------------------------------------------------------
(* Least elements, of numbers and of finite sets, stand in for induction.  *)
LEMMA SmallestNumber ==
  ASSUME NEW Bad \in SUBSET Nat, Bad # {}
  PROVE  \E k \in Bad : \A j \in Nat : j < k => j \notin Bad
<1>1. PICK x \in Bad : \A y \in Bad : ~ (<<y, x>> \in OpToRel(<, Nat))
  BY NatLessThanWellFounded, WFMin
<1>2. OpToRel(<, Nat) = {ss \in Nat \X Nat : ss[1] < ss[2]}
  BY Zenon DEF OpToRel
<1>3. \A y \in Bad : <<y, x>> \in {ss \in Nat \X Nat : ss[1] < ss[2]} <=> y < x
  OBVIOUS
<1>4. \A y \in Bad : ~ (y < x)
  BY <1>1, <1>2, <1>3, Zenon
<1>5. QED BY <1>4

LEMMA SmallestSet ==
  ASSUME NEW S, IsFiniteSet(S), NEW Bad, Bad \subseteq SUBSET S, Bad # {}
  PROVE  \E T \in Bad : \A U \in SUBSET T : U # T => U \notin Bad
<1>1. IsWellFoundedOn(StrictSubsetOrdering(S), SUBSET S)
  BY FS_StrictSubsetOrderingWellFounded, FS_FiniteSubsetsOfFinite
<1>2. PICK T \in Bad : \A U \in Bad : ~ (<<U, T>> \in StrictSubsetOrdering(S))
  BY <1>1, WFMin
<1>3. \A U \in SUBSET T : U # T /\ U \in Bad => <<U, T>> \in StrictSubsetOrdering(S)
  BY DEF StrictSubsetOrdering
<1>4. \A U \in SUBSET T : U # T => U \notin Bad
  BY <1>2, <1>3
<1>5. QED BY <1>4

-----------------------------------------------------------------------------
(* Storing a block event by event: what is beside the tables after each.   *)
IsInsertion(f, c, block, k) ==
  f = [i \in 0 .. k |-> IF i = 0 THEN BeforeEvents(block)
                        ELSE insertEvent(f[i - 1], Row(c, block, i))]

LEMMA ContentsTyped ==
  ASSUME NEW c \in BlockContents
  PROVE  /\ c \in Seq([tx : Transaction, log : Nat, event : Events]) /\ Len(c) \in Nat /\ DOMAIN c = 1 .. Len(c)
         /\ \A i \in DOMAIN c : /\ c[i].log \in Nat /\ c[i].event \in Events
                                /\ IsEvent(c[i].event)
<1>1. c \in Seq([tx : Transaction, log : Nat, event : Events])
  BY DatabaseAssumption
<1>2. ASSUME NEW S, NEW s \in Seq(S)
      PROVE  Len(s) \in Nat /\ DOMAIN s = 1 .. Len(s) /\ \A i \in DOMAIN s : s[i] \in S
  OBVIOUS
<1>3. /\ Len(c) \in Nat /\ DOMAIN c = 1 .. Len(c)
      /\ \A i \in DOMAIN c : c[i] \in [tx : Transaction, log : Nat, event : Events]
  BY <1>1, <1>2
<1>4. QED BY <1>1, <1>3, DatabaseAssumption

LEMMA InsertionExists ==
  ASSUME NEW c, NEW block, NEW n \in Nat
  PROVE  \E f : IsInsertion(f, c, block, n)
<1> DEFINE Bad == {k \in Nat : ~ \E f : IsInsertion(f, c, block, k)}
<1>1. SUFFICES ASSUME Bad # {} PROVE FALSE
  OBVIOUS
<1>2. PICK k \in Bad : \A j \in Nat : j < k => j \notin Bad
  BY <1>1, SmallestNumber
<1>3. CASE k = 0
  <2>1. PICK f : f = [i \in 0 .. k |-> BeforeEvents(block)]
    OBVIOUS
  <2>2. IsInsertion(f, c, block, k)
    BY <1>3, <2>1 DEF IsInsertion
  <2>3. QED BY <2>2
<1>4. CASE k # 0
  <2>1. k \in Nat /\ k - 1 \in Nat /\ k - 1 < k
    BY <1>4
  <2>2. PICK f : IsInsertion(f, c, block, k - 1)
    BY <1>2, <2>1
  <2>3. PICK x : x = insertEvent(f[k - 1], Row(c, block, k))
    OBVIOUS
  <2>4. PICK g : g = [i \in 0 .. k |-> IF i = k THEN x ELSE f[i]]
    OBVIOUS
  <2>5. ASSUME NEW i \in 0 .. k
        PROVE  g[i] = IF i = 0 THEN BeforeEvents(block) ELSE insertEvent(g[i - 1], Row(c, block, i))
    <3>1. CASE i = k
      <4>1. g[i] = x /\ g[i - 1] = f[i - 1]
        BY <1>4, <2>1, <2>4, <3>1
      <4>2. QED BY <1>4, <2>3, <3>1, <4>1
    <3>2. CASE i # k
      <4>1. i \in 0 .. k - 1 /\ (i # 0 => i - 1 \in 0 .. k /\ i - 1 # k)
        BY <2>1, <3>2
      <4>2. f[i] = IF i = 0 THEN BeforeEvents(block) ELSE insertEvent(f[i - 1], Row(c, block, i))
        BY <2>2, <4>1 DEF IsInsertion
      <4>3. g[i] = f[i] /\ (i # 0 => g[i - 1] = f[i - 1])
        BY <2>4, <3>2, <4>1
      <4>4. QED BY <4>2, <4>3
    <3>3. QED BY <3>1, <3>2
  <2>6. IsInsertion(g, c, block, k)
    BY <2>4, <2>5 DEF IsInsertion
  <2>7. QED BY <2>6
<1>5. QED BY <1>3, <1>4

LEMMA BlockInserted ==
  ASSUME NEW c \in BlockContents, NEW block
  PROVE  \E f : IsInsertion(f, c, block, Len(c)) /\ AfterEvents(c, block) = f[Len(c)]
<1>1. Len(c) \in Nat
  BY ContentsTyped
<1>2. PICK g : IsInsertion(g, c, block, Len(c))
  BY <1>1, InsertionExists
<1> DEFINE f == CHOOSE f : IsInsertion(f, c, block, Len(c))
<1>3. IsInsertion(f, c, block, Len(c))
  BY <1>2
<1>4. AfterEvents(c, block) = f[Len(c)]
  BY DEF AfterEvents, IsInsertion
<1>5. QED BY <1>3, <1>4

(* A card that no event of the block names keeps its cached history;       *)
(* of any other the entry is gone.                                         *)
LEMMA CacheAfterEvents ==
  ASSUME NEW c \in BlockContents, NEW block, NEW n \in NFT
  PROVE  /\ AfterEvents(c, block).historyCache[n] \in {none, historyCache[n]}
         /\ (\E i \in DOMAIN c : n \in c[i].event.nfts) => AfterEvents(c, block).historyCache[n] = none
<1>1. PICK f : IsInsertion(f, c, block, Len(c)) /\ AfterEvents(c, block) = f[Len(c)]
  BY BlockInserted
<1>2. Len(c) \in Nat /\ DOMAIN c = 1 .. Len(c)
  BY ContentsTyped
<1> DEFINE H(k) == f[k].historyCache[n]
           Named(k) == \E i \in 1 .. k : n \in c[i].event.nfts
           Bad == {k \in 0 .. Len(c) : ~ (H(k) \in {none, historyCache[n]} /\ (Named(k) => H(k) = none))}
<1>3. f[0].historyCache = historyCache
  BY <1>1, <1>2 DEF IsInsertion, BeforeEvents
<1>4. ASSUME NEW k \in 1 .. Len(c)
      PROVE  H(k) = IF n \in c[k].event.nfts THEN none ELSE H(k - 1)
  <2>1. k \in 0 .. Len(c) /\ k # 0
    BY <1>2
  <2>2. f[k] = insertEvent(f[k - 1], Row(c, block, k))
    BY <1>1, <2>1 DEF IsInsertion
  <2>3. Row(c, block, k).event = c[k].event
    BY DEF Row
  <2>4. QED BY <2>2, <2>3 DEF insertEvent
<1> HIDE DEF H
<1>5. Bad = {}
  <2>1. SUFFICES ASSUME Bad # {} PROVE FALSE
    OBVIOUS
  <2>2. Bad \in SUBSET Nat
    BY <1>2
  <2>3. PICK k \in Bad : \A j \in Nat : j < k => j \notin Bad
    BY <2>1, <2>2, SmallestNumber
  <2>4. k # 0
    <3>1. H(0) = historyCache[n] /\ ~ Named(0)
      BY <1>3 DEF H
    <3>2. QED BY <2>3, <3>1
  <2>5. k \in 1 .. Len(c) /\ k - 1 \in 0 .. Len(c) /\ k - 1 < k
    BY <1>2, <2>3, <2>4
  <2>6. H(k - 1) \in {none, historyCache[n]} /\ (Named(k - 1) => H(k - 1) = none)
    BY <2>3, <2>5
  <2>7. \A i \in 1 .. k : i \in 1 .. k - 1 \/ i = k
    BY <2>5
  <2>8. QED BY <1>4, <2>3, <2>5, <2>6, <2>7
<1>6. Len(c) \notin Bad /\ Len(c) \in 0 .. Len(c)
  BY <1>2, <1>5
<1>7. QED BY <1>1, <1>2, <1>6 DEF H

CacheInv == historyCache = [n \in NFT |-> historyCache[n]] /\ CachedHistoryIsCurrent

LEMMA CacheStep == CacheInv /\ [DatabaseNext]_databaseVars => CacheInv'
<1> SUFFICES ASSUME CacheInv, [DatabaseNext]_databaseVars PROVE CacheInv'
  OBVIOUS
<1>1. ASSUME NEW block, NEW c \in BlockContents, storeBlock(block, c) PROVE CacheInv'
  <2>1. PICK d : d = AfterEvents(c, block)
    OBVIOUS
  <2>2. /\ historyCache' = d.historyCache
        /\ rows' = Kept(block) \cup Inserted(c, block)
        /\ outdated' = {n \in outdated \cup NamedBy(Replaced(block)) : d.historyCache[n] # none}
    BY <1>1, <2>1 DEF storeBlock
  <2>3. historyCache' = [n \in NFT |-> historyCache'[n]]
    <3>1. PICK f : IsInsertion(f, c, block, Len(c)) /\ d = f[Len(c)]
      BY <2>1, BlockInserted
    <3>2. Len(c) \in Nat
      BY ContentsTyped
    <3>3. PICK k : k = Len(c)
      OBVIOUS
    <3>4. \A i \in 0 .. k : f[i] = IF i = 0 THEN BeforeEvents(block)
                                    ELSE insertEvent(f[i - 1], Row(c, block, i))
      BY <3>1, <3>3 DEF IsInsertion
    <3>5. d = BeforeEvents(block) \/ d = insertEvent(f[k - 1], Row(c, block, k))
      BY <3>1, <3>2, <3>3, <3>4
    <3>6. QED BY <2>2, <3>5 DEF BeforeEvents, insertEvent, CacheInv
  <2>4. ASSUME NEW n \in NFT, n \notin outdated', historyCache'[n] # none
        PROVE  historyCache'[n] = history(rows', n)
    <3>1. historyCache'[n] = historyCache[n] /\ \A i \in DOMAIN c : n \notin c[i].event.nfts
      BY <2>1, <2>2, <2>4, CacheAfterEvents
    <3>2. n \notin outdated /\ n \notin NamedBy(Replaced(block))
      BY <2>2, <2>4
    <3>3. \A r \in rows : n \in r.event.nfts => r \in Kept(block)
      BY <3>2 DEF NamedBy, Kept
    <3>4. \A r \in Inserted(c, block) : n \notin r.event.nfts
      <4>1. \A i \in DOMAIN c : Row(c, block, i).event = c[i].event
        BY DEF Row
      <4>2. QED BY <3>1, <4>1 DEF Inserted
    <3>5. history(rows', n) = history(rows, n)
      BY <2>2, <3>3, <3>4 DEF history, Of, Kept
    <3>6. QED BY <2>4, <3>1, <3>2, <3>5 DEF CacheInv, CachedHistoryIsCurrent
  <2>5. QED BY <2>3, <2>4 DEF CacheInv, CachedHistoryIsCurrent
<1>2. ASSUME NEW from, handleReorg(from) PROVE CacheInv'
  <2>1. /\ rows' = Surviving(from)
        /\ historyCache' = [n \in NFT |-> IF n \in AffectedBy(from) THEN none ELSE historyCache[n]]
        /\ outdated' = outdated \ AffectedBy(from)
    BY <1>2 DEF handleReorg
  <2>2. ASSUME NEW n \in NFT, n \notin AffectedBy(from) PROVE history(rows', n) = history(rows, n)
    <3>1. \A r \in rows : n \in r.event.nfts => r \in Surviving(from)
      BY <2>2 DEF AffectedBy, NamedBy
    <3>2. Surviving(from) \subseteq rows
      BY DEF Surviving
    <3>3. QED BY <2>1, <3>1, <3>2 DEF history, Of
  <2>3. QED BY <2>1, <2>2 DEF CacheInv, CachedHistoryIsCurrent
<1>3. ASSUME NEW n \in NFT, getAccountHistory(n) \/ dropCacheEntry(n) PROVE CacheInv'
  BY <1>3 DEF getAccountHistory, dropCacheEntry, CacheInv, CachedHistoryIsCurrent
<1>4. CASE UNCHANGED databaseVars
  BY <1>4 DEF databaseVars, CacheInv, CachedHistoryIsCurrent
<1>5. QED BY <1>1, <1>2, <1>3, <1>4 DEF DatabaseNext

(* A cached history is the one that the tables give, for any cards, blocks *)
(* and rollbacks: whatever an insert or a rollback changes for a card, it  *)
(* drops the card's entry (invalidateHistoryCache). Only the rows that go  *)
(* with a replaced block (insertBlock) leave an entry behind.              *)
THEOREM CacheFollowsTables == DatabaseSpec => []CachedHistoryIsCurrent
<1>1. DatabaseInit => CacheInv
  BY DEF DatabaseInit, CacheInv, CachedHistoryIsCurrent
<1>2. CacheInv => CachedHistoryIsCurrent
  BY DEF CacheInv
<1>3. QED BY <1>1, <1>2, CacheStep, PTL DEF DatabaseSpec

-----------------------------------------------------------------------------
(* The order of the chain.                                                 *)
Before(r, s) == r.block < s.block \/ (r.block = s.block /\ r.place < s.place)

TypedRow(r) == r.block \in Nat /\ r.place \in Nat /\ r.log \in Nat /\ r.event \in Events

IsTable(T) ==
  /\ IsFiniteSet(T)
  /\ \A r \in T : TypedRow(r)
  /\ \A r, s \in T : r.block = s.block /\ r.place = s.place => r = s

LEMMA SubTable ==
  ASSUME NEW T, IsTable(T), NEW S \in SUBSET T
  PROVE  IsTable(S)
<1>1. IsFiniteSet(S)
  BY FS_Subset DEF IsTable
<1>2. QED BY <1>1 DEF IsTable

LEMMA Ordered ==
  ASSUME NEW T, IsTable(T)
  PROVE  /\ \A r, s \in T : r = s \/ Before(r, s) \/ Before(s, r)
         /\ \A r, s \in T : ~ (Before(r, s) /\ Before(s, r))
         /\ \A r \in T : ~ Before(r, r)
         /\ \A r, s, t \in T : Before(r, s) /\ Before(s, t) => Before(r, t)
<1>1. \A r \in T : r.block \in Nat /\ r.place \in Nat
  BY DEF IsTable, TypedRow
<1>2. \A r, s \in T : r.block = s.block /\ r.place = s.place => r = s
  BY DEF IsTable
<1>3. \A r, s \in T : r = s \/ Before(r, s) \/ Before(s, r)
  BY <1>1, <1>2 DEF Before
<1>4. QED BY <1>1, <1>3 DEF Before

(* A table that is not empty has a last row, by the smallest table that    *)
(* has none.                                                               *)
LEMMA LastIsLast ==
  ASSUME NEW S, IsTable(S), S # {}
  PROVE  Last(S) \in S /\ \A s \in S : s # Last(S) => Before(s, Last(S))
<1> DEFINE Ends(U, r) == r \in U /\ \A s \in U : s # r => Before(s, r)
           Bad == {U \in SUBSET S : U # {} /\ ~ \E r \in U : Ends(U, r)}
<1>1. \E r \in S : Ends(S, r)
  <2>1. SUFFICES ASSUME Bad # {} PROVE FALSE
    OBVIOUS
  <2>2. PICK U \in Bad : \A V \in SUBSET U : V # U => V \notin Bad
    <3>1. IsFiniteSet(S) /\ Bad \subseteq SUBSET S
      BY DEF IsTable
    <3> HIDE DEF Bad
    <3>2. QED BY <2>1, <3>1, SmallestSet
  <2>3. PICK x \in U : TRUE
    BY <2>2
  <2>4. U \in SUBSET S /\ U \ {x} \in SUBSET U /\ U \ {x} # U
    BY <2>2, <2>3
  <2>5. U \ {x} \notin Bad /\ U \ {x} \in SUBSET S
    BY <2>2, <2>4
  <2>6. CASE U \ {x} = {}
    <3>1. Ends(U, x)
      BY <2>3, <2>6
    <3>2. QED BY <2>2, <2>3, <3>1
  <2>7. CASE U \ {x} # {}
    <3>1. PICK y \in U \ {x} : Ends(U \ {x}, y)
      BY <2>5, <2>7
    <3>2. y \in S /\ x \in S /\ x # y /\ \A s \in U : s = x \/ s = y \/ Before(s, y)
      BY <2>3, <2>4, <3>1
    <3>3. CASE Before(x, y)
      <4>1. Ends(U, y)
        BY <3>1, <3>2, <3>3
      <4>2. QED BY <2>2, <3>1, <4>1
    <3>4. CASE Before(y, x)
      <4>1. \A s \in U : s # x => Before(s, x)
        BY <2>4, <3>2, <3>4, Ordered
      <4>2. QED BY <2>2, <2>3, <4>1
    <3>5. QED BY <3>2, <3>3, <3>4, Ordered
  <2>8. QED BY <2>6, <2>7
<1>2. PICK r \in S : \A s \in S : s.block < r.block \/ (s.block = r.block /\ s.place <= r.place)
  <2>1. PICK r \in S : Ends(S, r)
    BY <1>1
  <2>2. \A s \in S : s.block \in Nat /\ s.place \in Nat
    BY DEF IsTable, TypedRow
  <2>3. QED BY <2>1, <2>2 DEF Before
<1>3. /\ Last(S) \in S
      /\ \A s \in S : s.block < Last(S).block \/ (s.block = Last(S).block /\ s.place <= Last(S).place)
  BY <1>2 DEF Last
<1>4. \A s \in S : s.block \in Nat /\ s.place \in Nat
  BY DEF IsTable, TypedRow
<1>5. ASSUME NEW s \in S, s # Last(S) PROVE Before(s, Last(S))
  <2>1. ~ (s.block = Last(S).block /\ s.place = Last(S).place)
    BY <1>3, <1>5 DEF IsTable
  <2>2. QED BY <1>3, <1>4, <2>1 DEF Before
<1>6. QED BY <1>3, <1>5

LEMMA LastAdded ==
  ASSUME NEW T, IsTable(T), NEW r, TypedRow(r), \A s \in T : Before(s, r), NEW S \in SUBSET T
  PROVE  Last(S \cup {r}) = r
<1>1. \A s \in S \cup {r} : s.block \in Nat /\ s.place \in Nat
  BY DEF IsTable, TypedRow
<1>2. \A s \in S : Before(s, r)
  OBVIOUS
<1>3. \A s \in S \cup {r} : s.block < r.block \/ (s.block = r.block /\ s.place <= r.place)
  BY <1>1, <1>2 DEF Before
<1>4. PICK l : l = Last(S \cup {r})
  OBVIOUS
<1>5. /\ l \in S \cup {r}
      /\ \A s \in S \cup {r} : s.block < l.block \/ (s.block = l.block /\ s.place <= l.place)
  BY <1>3, <1>4 DEF Last
<1>6. CASE l \in S
  <2>1. Before(l, r) /\ l.block \in Nat /\ l.place \in Nat /\ r.block \in Nat /\ r.place \in Nat
    BY <1>1, <1>2, <1>6
  <2>2. r.block < l.block \/ (r.block = l.block /\ r.place <= l.place)
    BY <1>5
  <2>3. QED BY <2>1, <2>2 DEF Before
<1>7. QED BY <1>4, <1>5, <1>6

-----------------------------------------------------------------------------
(* The columns of a snapshot.                                              *)
Changed(S, default) == IF S = {} THEN default ELSE Last(S).event.value
At(S) == IF S = {} THEN none ELSE Last(S).block

Columns(T, n) ==
  [owner |-> Changed(Of(T, n, {"owner"}), none),
   state |-> Changed(Of(T, n, {"state"}), 0),
   last_transfer_block |-> At(Of(T, n, {"transfer"})),
   last_state_change_block |-> At(Of(T, n, {"state"}))]

Unnamed(T, n) ==
  Of(T, n, {"owner"}) = {} /\ Of(T, n, {"state"}) = {} /\ Of(T, n, {"transfer"}) = {}

LEMMA SnapshotIsColumns ==
  ASSUME NEW T, IsTable(T), NEW n
  PROVE  /\ SnapshotOf(T, n) = IF Unnamed(T, n) THEN none ELSE Columns(T, n)
         /\ Columns(T, n) # none
         /\ Existing(SnapshotOf(T, n)) = Columns(T, n)
<1>1. SnapshotOf(T, n) = IF Unnamed(T, n) THEN none ELSE Columns(T, n)
  BY DEF SnapshotOf, Unnamed, Columns, Changed, At
<1>2. ASSUME NEW k \in Kinds, NEW S, S = Of(T, n, {k}), S # {}
      PROVE  Last(S).block \in Nat /\ Last(S).event.value \in ValuesOf(k)
  <2>1. IsTable(S)
    BY <1>2, SubTable DEF Of
  <2>2. Last(S) \in S
    BY <1>2, <2>1, LastIsLast
  <2>3. PICK e : e = Last(S).event
    OBVIOUS
  <2>4. e \in Events /\ e.kind = k /\ Last(S).block \in Nat
    BY <1>2, <2>2, <2>3 DEF Of, IsTable, TypedRow
  <2>5. QED BY <2>3, <2>4 DEF ValuesOf
<1>3. Columns(T, n) \in Snapshot
  <2>1. /\ Changed(Of(T, n, {"owner"}), none) \in ValuesOf("owner") \cup {none}
        /\ Changed(Of(T, n, {"state"}), 0) \in ValuesOf("state") \cup {0}
        /\ At(Of(T, n, {"transfer"})) \in Nat \cup {none}
        /\ At(Of(T, n, {"state"})) \in Nat \cup {none}
    BY <1>2 DEF Changed, At, Kinds
  <2>2. QED BY <2>1 DEF Columns, Snapshot
<1>4. Columns(T, n) # none
  BY <1>3, NoneAssumption
<1>5. CASE Unnamed(T, n)
  <2>1. /\ Changed(Of(T, n, {"owner"}), none) = none /\ Changed(Of(T, n, {"state"}), 0) = 0
        /\ At(Of(T, n, {"transfer"})) = none /\ At(Of(T, n, {"state"})) = none
    BY <1>5, Zenon DEF Unnamed, Changed, At
  <2>2. Columns(T, n) = NoSnapshot
    BY <2>1, Zenon DEF Columns, NoSnapshot
  <2>3. SnapshotOf(T, n) = none
    BY <1>1, <1>5
  <2>4. Existing(none) = NoSnapshot
    BY DEF Existing
  <2>5. QED BY <1>1, <1>4, <2>2, <2>3, <2>4
<1>6. CASE ~ Unnamed(T, n)
  BY <1>1, <1>4, <1>6 DEF Existing
<1>7. QED BY <1>1, <1>4, <1>5, <1>6

(* One more event at the end of the table: the UPSERT writes what the      *)
(* table now says.                                                         *)
LEMMA SnapshotAfterEvent ==
  ASSUME NEW T, IsTable(T), NEW r, TypedRow(r), \A s \in T : Before(s, r),
         IsTable(T \cup {r}), NEW n \in NFT
  PROVE  SnapshotOf(T \cup {r}, n) =
           IF n \in r.event.nfts THEN updateAccountSnapshot(SnapshotOf(T, n), r)
           ELSE SnapshotOf(T, n)
<1> DEFINE U == T \cup {r}
<1>1. /\ r.event.kind \in Kinds /\ (r.event.kind = "period" => r.event.nfts = {})
      /\ \A k : Of(U, n, {k}) = IF r.event.kind = k /\ n \in r.event.nfts
                                THEN Of(T, n, {k}) \cup {r} ELSE Of(T, n, {k})
  BY DatabaseAssumption DEF TypedRow, IsEvent, Of
<1>2. PICK F : F = [k \in Kinds |-> Of(T, n, {k})]
  OBVIOUS
<1>3. PICK G : G = [k \in Kinds |-> Of(U, n, {k})]
  OBVIOUS
<1>4. /\ Columns(T, n) = [owner |-> Changed(F["owner"], none), state |-> Changed(F["state"], 0),
                          last_transfer_block |-> At(F["transfer"]),
                          last_state_change_block |-> At(F["state"])]
      /\ Columns(U, n) = [owner |-> Changed(G["owner"], none), state |-> Changed(G["state"], 0),
                          last_transfer_block |-> At(G["transfer"]),
                          last_state_change_block |-> At(G["state"])]
      /\ Unnamed(T, n) <=> F["owner"] = {} /\ F["state"] = {} /\ F["transfer"] = {}
      /\ Unnamed(U, n) <=> G["owner"] = {} /\ G["state"] = {} /\ G["transfer"] = {}
  BY <1>2, <1>3 DEF Columns, Unnamed, Kinds
<1>5. \A k \in Kinds : G[k] = IF r.event.kind = k /\ n \in r.event.nfts THEN F[k] \cup {r} ELSE F[k]
  BY <1>1, <1>2, <1>3
<1>6. \A k \in Kinds : Changed(F[k] \cup {r}, none) = r.event.value
                      /\ Changed(F[k] \cup {r}, 0) = r.event.value /\ At(F[k] \cup {r}) = r.block
  <2>1. ASSUME NEW k \in Kinds PROVE Last(F[k] \cup {r}) = r /\ F[k] \cup {r} # {}
    <3>1. F[k] \in SUBSET T
      BY <1>2 DEF Of
    <3>2. QED BY <3>1, LastAdded
  <2>2. QED BY <2>1 DEF Changed, At
<1>7. CASE n \notin r.event.nfts
  <2>1. G["owner"] = F["owner"] /\ G["state"] = F["state"] /\ G["transfer"] = F["transfer"]
    BY <1>5, <1>7 DEF Kinds
  <2>2. SnapshotOf(U, n) = SnapshotOf(T, n)
    BY <1>4, <2>1, SnapshotIsColumns
  <2>3. QED BY <1>7, <2>2
<1>8. CASE n \in r.event.nfts
  <2>1. PICK X : X = Columns(T, n)
    OBVIOUS
  <2>2. \A k \in Kinds : G[k] = IF r.event.kind = k THEN F[k] \cup {r} ELSE F[k]
    BY <1>5, <1>8
  <2>3. r.event.kind \in {"owner", "state", "transfer"}
    BY <1>1, <1>8 DEF Kinds
  <2>4. Existing(SnapshotOf(T, n)) = X /\ SnapshotOf(U, n) = Columns(U, n)
    <3>1. ~ Unnamed(U, n)
      BY <1>4, <2>2, <2>3 DEF Kinds
    <3>2. QED BY <2>1, <3>1, SnapshotIsColumns
  <2>5. CASE r.event.kind = "owner"
    <3>1. G["owner"] = F["owner"] \cup {r} /\ G["state"] = F["state"] /\ G["transfer"] = F["transfer"]
      BY <2>2, <2>5 DEF Kinds
    <3>2. /\ Changed(F["owner"] \cup {r}, none) = r.event.value
          /\ Changed(F["owner"] \cup {r}, 0) = r.event.value /\ At(F["owner"] \cup {r}) = r.block
      BY <1>6 DEF Kinds
    <3>3. Columns(U, n) = [X EXCEPT !.owner = r.event.value]
      BY <1>4, <2>1, <3>1, <3>2
    <3>4. QED BY <1>8, <2>4, <2>5, <3>3 DEF updateAccountSnapshot
  <2>6. CASE r.event.kind = "state"
    <3>1. G["state"] = F["state"] \cup {r} /\ G["owner"] = F["owner"] /\ G["transfer"] = F["transfer"]
      BY <2>2, <2>6 DEF Kinds
    <3>2. /\ Changed(F["state"] \cup {r}, none) = r.event.value
          /\ Changed(F["state"] \cup {r}, 0) = r.event.value /\ At(F["state"] \cup {r}) = r.block
      BY <1>6 DEF Kinds
    <3>3. PICK Y : Y = [X EXCEPT !.state = r.event.value, !.last_state_change_block = r.block]
      OBVIOUS
    <3>4. Columns(U, n) = Y
      <4>1. PICK o : o = Changed(F["owner"], none)
        OBVIOUS
      <4>2. PICK b : b = At(F["transfer"])
        OBVIOUS
      <4>3. Columns(U, n) = [owner |-> o, state |-> r.event.value, last_transfer_block |-> b,
                             last_state_change_block |-> r.block]
        BY <1>4, <3>1, <3>2, <4>1, <4>2
      <4>4. DOMAIN X = {"owner", "state", "last_transfer_block", "last_state_change_block"}
            /\ X.owner = o /\ X.last_transfer_block = b
        BY <1>4, <2>1, <4>1, <4>2
      <4>5. /\ DOMAIN Y = DOMAIN X
            /\ Y = [k \in DOMAIN X |-> Y[k]]
            /\ Y.owner = o /\ Y.state = r.event.value
            /\ Y.last_transfer_block = b /\ Y.last_state_change_block = r.block
        BY <3>3, <4>4
      <4>6. QED BY <4>3, <4>4, <4>5
    <3>5. QED BY <1>8, <2>4, <2>6, <3>3, <3>4 DEF updateAccountSnapshot
  <2>7. CASE r.event.kind = "transfer"
    <3>1. G["transfer"] = F["transfer"] \cup {r} /\ G["owner"] = F["owner"] /\ G["state"] = F["state"]
      BY <2>2, <2>7 DEF Kinds
    <3>2. /\ Changed(F["transfer"] \cup {r}, none) = r.event.value
          /\ Changed(F["transfer"] \cup {r}, 0) = r.event.value /\ At(F["transfer"] \cup {r}) = r.block
      BY <1>6 DEF Kinds
    <3>3. Columns(U, n) = [X EXCEPT !.last_transfer_block = r.block]
      BY <1>4, <2>1, <3>1, <3>2
    <3>4. QED BY <1>8, <2>4, <2>7, <3>3 DEF updateAccountSnapshot
  <2>8. QED BY <2>3, <2>5, <2>6, <2>7
<1>9. QED BY <1>7, <1>8

-----------------------------------------------------------------------------
(* Sorting by block and log index finds the row that was inserted last.    *)
LEMMA SortingFindsLast ==
  ASSUME NEW T, IsTable(T), NEW n, LogsInOrder(T, n), NEW k \in {"owner", "state"},
         NEW S, S = Of(T, n, {k}), S # {}
  PROVE  FirstByBlockAndLog(S) = {Last(S)}
<1>1. IsTable(S) /\ Last(S) \in S /\ \A s \in S : s # Last(S) => Before(s, Last(S))
  <2>1. IsTable(S)
    BY SubTable DEF Of
  <2>2. QED BY <2>1, LastIsLast
<1>2. PICK l : l = Last(S)
  OBVIOUS
<1>3. \A r \in S : r.block \in Nat /\ r.place \in Nat /\ r.log \in Nat
  BY <1>1 DEF IsTable, TypedRow
<1>4. \A r, s \in S : r.block = s.block /\ r.place < s.place => r.log < s.log
  BY DEF LogsInOrder
<1>5. l \in FirstByBlockAndLog(S)
  <2>1. ASSUME NEW s \in S PROVE s.block < l.block \/ (s.block = l.block /\ s.log <= l.log)
    <3>1. CASE s = l
      BY <1>1, <1>2, <1>3, <3>1
    <3>2. CASE s # l
      <4>1. Before(s, l) /\ l \in S
        BY <1>1, <1>2, <3>2
      <4>2. QED BY <1>3, <1>4, <4>1 DEF Before
    <3>3. QED BY <3>1, <3>2
  <2>2. QED BY <1>1, <1>2, <2>1 DEF FirstByBlockAndLog
<1>6. ASSUME NEW r \in FirstByBlockAndLog(S) PROVE r = l
  <2>1. r \in S /\ l \in S /\ (l.block < r.block \/ (l.block = r.block /\ l.log <= r.log))
    BY <1>1, <1>2 DEF FirstByBlockAndLog
  <2>2. CASE r # l
    <3>1. Before(r, l)
      BY <1>1, <1>2, <2>1, <2>2
    <3>2. QED BY <1>3, <1>4, <2>1, <3>1 DEF Before
  <2>3. QED BY <2>2
<1>7. QED BY <1>2, <1>5, <1>6

LEMMA LastBlockIsLast ==
  ASSUME NEW S, IsTable(S)
  PROVE  LastBlock(S) = At(S)
<1>1. CASE S = {}
  BY <1>1 DEF LastBlock, At
<1>2. CASE S # {}
  <2>1. Last(S) \in S /\ \A s \in S : s # Last(S) => Before(s, Last(S))
    BY <1>2, LastIsLast
  <2>2. \A s \in S : s.block \in Nat
    BY DEF IsTable, TypedRow
  <2>3. PICK b : b = Last(S).block
    OBVIOUS
  <2>4. b \in {r.block : r \in S} /\ \A r \in S : r.block <= b
    BY <2>1, <2>2, <2>3 DEF Before
  <2>5. \A d \in {r.block : r \in S} : (\A r \in S : r.block <= d) => d = b
    BY <2>1, <2>2, <2>3, <2>4
  <2>6. LastBlock(S) = b
    BY <1>2, <2>4, <2>5 DEF LastBlock
  <2>7. QED BY <1>2, <2>3, <2>6 DEF At
<1>3. QED BY <1>1, <1>2

LEMMA RebuiltIsSnapshot ==
  ASSUME NEW T, IsTable(T), NEW n, LogsInOrder(T, n)
  PROVE  rebuildAccountSnapshot(T, n) = {SnapshotOf(T, n)}
<1> DEFINE O == Of(T, n, {"owner"})
           S == Of(T, n, {"state"})
           X == Of(T, n, {"transfer"})
<1>4. CASE Unnamed(T, n)
  <2>1. rebuildAccountSnapshot(T, n) = {none}
    BY <1>4 DEF rebuildAccountSnapshot, Unnamed
  <2>2. SnapshotOf(T, n) = none
    BY <1>4, SnapshotIsColumns
  <2>3. QED BY <2>1, <2>2
<1>5. CASE ~ Unnamed(T, n)
  <2> DEFINE Owners == IF {r.event.value : r \in FirstByBlockAndLog(O)} = {} THEN {none}
                       ELSE {r.event.value : r \in FirstByBlockAndLog(O)}
             Found == {[value |-> r.event.value, block |-> r.block] : r \in FirstByBlockAndLog(S)}
             States == IF Found = {} THEN {[value |-> 0, block |-> none]} ELSE Found
  <2>1. rebuildAccountSnapshot(T, n) =
          {[owner |-> o, state |-> s.value, last_transfer_block |-> LastBlock(X),
            last_state_change_block |-> s.block] : o \in Owners, s \in States}
    <3>1. rebuildAccountSnapshot(T, n) =
            IF O = {} /\ S = {} /\ X = {} THEN {none}
            ELSE {[owner |-> o, state |-> s.value, last_transfer_block |-> LastBlock(X),
                   last_state_change_block |-> s.block] : o \in Owners, s \in States}
      BY DEF rebuildAccountSnapshot
    <3> HIDE DEF Owners, States
    <3>2. ~ (O = {} /\ S = {} /\ X = {})
      BY <1>5 DEF Unnamed
    <3>3. QED BY <3>1, <3>2
  <2>2. FirstByBlockAndLog({}) = {}
    BY DEF FirstByBlockAndLog
  <2>3. Owners = {Changed(O, none)}
    <3>1. CASE O = {}
      BY <2>2, <3>1 DEF Changed
    <3>2. CASE O # {}
      <4>1. FirstByBlockAndLog(O) = {Last(O)}
        BY <3>2, SortingFindsLast
      <4>2. {r.event.value : r \in FirstByBlockAndLog(O)} = {Last(O).event.value}
        BY <4>1
      <4>3. QED BY <3>2, <4>2 DEF Changed
    <3>3. QED BY <3>1, <3>2
  <2>4. States = {[value |-> Changed(S, 0), block |-> At(S)]}
    <3>1. CASE S = {}
      BY <2>2, <3>1 DEF Changed, At
    <3>2. CASE S # {}
      <4>1. FirstByBlockAndLog(S) = {Last(S)}
        BY <3>2, SortingFindsLast
      <4>2. Found = {[value |-> Last(S).event.value, block |-> Last(S).block]}
        BY <4>1
      <4>3. QED BY <3>2, <4>2 DEF Changed, At
    <3>3. QED BY <3>1, <3>2
  <2>5. LastBlock(X) = At(X)
    BY SubTable, LastBlockIsLast DEF Of
  <2> HIDE DEF Owners, States
  <2>6. rebuildAccountSnapshot(T, n) = {Columns(T, n)}
    <3>1. PICK o : o = Changed(O, none)
      OBVIOUS
    <3>2. PICK s : s = [value |-> Changed(S, 0), block |-> At(S)]
      OBVIOUS
    <3>3. Columns(T, n) = [owner |-> o, state |-> s.value, last_transfer_block |-> LastBlock(X),
                           last_state_change_block |-> s.block]
      BY <2>5, <3>1, <3>2 DEF Columns
    <3>4. Owners = {o} /\ States = {s}
      BY <2>3, <2>4, <3>1, <3>2
    <3>5. QED BY <2>1, <3>3, <3>4
  <2>7. QED BY <1>5, <2>6, SnapshotIsColumns
<1>6. QED BY <1>4, <1>5

-----------------------------------------------------------------------------
(* What a card's snapshot and the order of its logs depend on.             *)
Own(T, n) == {r \in T : n \in r.event.nfts}

LEMMA OfOwn ==
  ASSUME NEW T, NEW U, NEW n, Own(T, n) = Own(U, n)
  PROVE  SnapshotOf(T, n) = SnapshotOf(U, n) /\ (LogsInOrder(T, n) <=> LogsInOrder(U, n))
<1>1. ASSUME NEW k PROVE Of(T, n, {k}) = Of(U, n, {k})
  <2>1. /\ Of(T, n, {k}) = {r \in Own(T, n) : r.event.kind \in {k}}
        /\ Of(U, n, {k}) = {r \in Own(U, n) : r.event.kind \in {k}}
    BY DEF Of, Own
  <2>2. QED BY <2>1
<1>2. /\ Of(T, n, {"owner"}) = Of(U, n, {"owner"}) /\ Of(T, n, {"state"}) = Of(U, n, {"state"})
      /\ Of(T, n, {"transfer"}) = Of(U, n, {"transfer"})
  BY <1>1
<1>3. SnapshotOf(T, n) = SnapshotOf(U, n)
  BY <1>2 DEF SnapshotOf
<1>4. LogsInOrder(T, n) <=> LogsInOrder(U, n)
  BY <1>1 DEF LogsInOrder
<1>5. QED BY <1>3, <1>4

LEMMA OrderOfFewer ==
  ASSUME NEW T, NEW S \in SUBSET T, NEW n, LogsInOrder(T, n)
  PROVE  LogsInOrder(S, n)
BY DEF LogsInOrder, Of

TablesInv ==
  /\ IsTable(rows)
  /\ snapshots = [n \in NFT |-> snapshots[n]]
  /\ SnapshotsMatchEvents

LEMMA StoringKeepsSnapshots ==
  ASSUME TablesInv, NEW block \in 1 .. MaxBlock, NEW c \in BlockContents, storeBlock(block, c)
  PROVE  TablesInv'
<1> DEFINE New(k) == {Row(c, block, i) : i \in {i \in 1 .. k : ~ Ignored(c, block, i)}}
           Until(k) == Kept(block) \cup New(k)
<1>1. /\ Len(c) \in Nat /\ DOMAIN c = 1 .. Len(c) /\ block \in Nat
      /\ \A i \in 1 .. Len(c) : c[i].log \in Nat /\ c[i].event \in Events
      /\ \A r \in Kept(block) : r \in rows /\ TypedRow(r) /\ r.block \in Nat /\ r.block # block
  BY ContentsTyped, DatabaseAssumption DEF TablesInv, IsTable, TypedRow, Kept, Replaced
<1>2. \A i : LET r == Row(c, block, i) IN
        r.block = block /\ r.place = i /\ r.log = c[i].log /\ r.event = c[i].event
  BY DEF Row
<1>3. IsTable(Until(Len(c)))
  <2>1. IsFiniteSet(New(Len(c)))
    <3>1. IsFiniteSet(1 .. Len(c))
      <4>1. Len(c) \in Int /\ 1 \in Int
        BY <1>1
      <4>2. QED BY <4>1, FS_Interval, Zenon
    <3>2. PICK g : g = [i \in 1 .. Len(c) |-> Row(c, block, i)]
      OBVIOUS
    <3>3. PICK All : All = {Row(c, block, i) : i \in 1 .. Len(c)}
      OBVIOUS
    <3>4. g \in Surjection(1 .. Len(c), All)
      BY <3>2, <3>3 DEF Surjection
    <3>5. IsFiniteSet(All)
      BY <3>1, <3>4, FS_Surjection
    <3>6. New(Len(c)) \in SUBSET All
      BY <3>3
    <3>7. QED BY <3>5, <3>6, FS_Subset
  <2>2. IsFiniteSet(Until(Len(c)))
    <3>1. IsFiniteSet(rows) /\ Kept(block) \in SUBSET rows
      BY DEF TablesInv, IsTable, Kept
    <3>2. IsFiniteSet(Kept(block))
      BY <3>1, FS_Subset
    <3>3. QED BY <2>1, <3>2, FS_Union
  <2>3. \A r \in New(Len(c)) : TypedRow(r) /\ r.block = block
    BY <1>1, <1>2 DEF TypedRow
  <2>4. \A r, s \in New(Len(c)) : r.place = s.place => r = s
    BY <1>2
  <2>5. \A r, s \in Kept(block) : r.block = s.block /\ r.place = s.place => r = s
    BY <1>1 DEF TablesInv, IsTable
  <2> HIDE DEF New
  <2>6. /\ \A r \in Until(Len(c)) : TypedRow(r)
        /\ \A r, s \in Until(Len(c)) : r.block = s.block /\ r.place = s.place => r = s
    BY <1>1, <2>3, <2>4, <2>5
  <2>7. QED BY <2>2, <2>6 DEF IsTable
<1>4. rows' = Until(Len(c)) /\ snapshots' = AfterEvents(c, block).snapshots
  BY <1>1 DEF storeBlock, Inserted
<1>5. PICK f : IsInsertion(f, c, block, Len(c)) /\ AfterEvents(c, block) = f[Len(c)]
  BY BlockInserted
<1>6. ASSUME NEW k \in 1 .. Len(c)
      PROVE  f[k] = insertEvent(f[k - 1], Row(c, block, k))
  <2>1. k \in 0 .. Len(c) /\ k # 0
    BY <1>1
  <2>2. QED BY <1>5, <2>1 DEF IsInsertion
<1>7. f[0] = BeforeEvents(block)
  BY <1>1, <1>5 DEF IsInsertion
<1>8. snapshots' = [n \in NFT |-> snapshots'[n]]
  <2>1. Len(c) = 0 \/ Len(c) \in 1 .. Len(c)
    BY <1>1
  <2>2. PICK k : k = Len(c)
    OBVIOUS
  <2>3. f[k] = BeforeEvents(block) \/ f[k] = insertEvent(f[k - 1], Row(c, block, k))
    BY <1>6, <1>7, <2>1, <2>2
  <2>4. QED BY <1>4, <1>5, <2>2, <2>3 DEF BeforeEvents, insertEvent, TablesInv
<1> HIDE DEF New, Until
<1>9. ASSUME NEW n \in NFT, n \notin unsettled', LogsInOrder(rows', n)
      PROVE  snapshots'[n] = SnapshotOf(rows', n)
  <2>1. /\ n \notin unsettled /\ n \notin NamedBy(Replaced(block))
        /\ \A i \in 1 .. Len(c) : n \in c[i].event.nfts =>
             ~ Ignored(c, block, i) /\ \A r \in Kept(block) : n \in r.event.nfts => ~ (r.block > block)
    BY <1>1, <1>9 DEF storeBlock, Unsettling
  <2>2. \A r \in rows : n \in r.event.nfts => r \in Kept(block)
    BY <2>1 DEF NamedBy, Kept
  <2>3. Own(Kept(block), n) = Own(rows, n)
    BY <1>1, <2>2 DEF Own
  <2>4. snapshots[n] = SnapshotOf(Kept(block), n)
    <3>1. LogsInOrder(Kept(block), n)
      BY <1>4, <1>9, OrderOfFewer DEF Until
    <3>2. LogsInOrder(rows, n) /\ SnapshotOf(rows, n) = SnapshotOf(Kept(block), n)
      BY <2>3, <3>1, OfOwn
    <3>3. QED BY <2>1, <3>2 DEF TablesInv, SnapshotsMatchEvents
  <2> DEFINE Bad == {k \in 0 .. Len(c) : f[k].snapshots[n] # SnapshotOf(Until(k), n)}
  <2>5. f[0].snapshots[n] = SnapshotOf(Until(0), n)
    <3>1. Until(0) = Kept(block)
      BY <1>1 DEF Until, New
    <3>2. f[0].snapshots = snapshots
      BY <1>7 DEF BeforeEvents
    <3>3. QED BY <2>4, <3>1, <3>2
  <2>6. ASSUME NEW k \in 1 .. Len(c), f[k - 1].snapshots[n] = SnapshotOf(Until(k - 1), n)
        PROVE  f[k].snapshots[n] = SnapshotOf(Until(k), n)
    <3>1. PICK r : r = Row(c, block, k)
      OBVIOUS
    <3>2. r.event = c[k].event /\ r.block = block /\ r.place = k /\ TypedRow(r)
      BY <1>1, <1>2, <3>1 DEF TypedRow
    <3>3. /\ Until(k - 1) \subseteq Until(Len(c))
          /\ \A s \in Until(k - 1) : s \in Kept(block) \/ (s.block = block /\ s.place < k)
          /\ Until(k) = IF Ignored(c, block, k) THEN Until(k - 1) ELSE Until(k - 1) \cup {r}
      <4>1. \A i : i \in 1 .. k <=> i \in 1 .. k - 1 \/ i = k
        BY <1>1
      <4>2. \A i \in 1 .. k - 1 : i \in 1 .. Len(c) /\ i < k
        BY <1>1
      <4>3. New(k) = IF Ignored(c, block, k) THEN New(k - 1) ELSE New(k - 1) \cup {r}
        BY <3>1, <4>1 DEF New
      <4>4. New(k - 1) \subseteq New(Len(c)) /\ \A s \in New(k - 1) : s.block = block /\ s.place < k
        BY <1>2, <4>2 DEF New
      <4>5. QED BY <4>3, <4>4 DEF Until
    <3>4. f[k].snapshots[n] = IF n \in r.event.nfts
                              THEN updateAccountSnapshot(f[k - 1].snapshots[n], r)
                              ELSE f[k - 1].snapshots[n]
      <4>1. f[k] = insertEvent(f[k - 1], r)
        BY <1>6, <3>1
      <4>2. f[k].snapshots = [m \in NFT |-> IF m \in r.event.nfts
                                            THEN updateAccountSnapshot(f[k - 1].snapshots[m], r)
                                            ELSE f[k - 1].snapshots[m]]
        BY <4>1 DEF insertEvent
      <4>3. QED BY <4>2
    <3>5. CASE n \notin r.event.nfts
      <4>1. Own(Until(k), n) = Own(Until(k - 1), n)
        BY <3>3, <3>5 DEF Own
      <4>2. SnapshotOf(Until(k), n) = SnapshotOf(Until(k - 1), n)
        BY <4>1, OfOwn
      <4>3. QED BY <2>6, <3>4, <3>5, <4>2
    <3>6. CASE n \in r.event.nfts
      <4>1. PICK T : T = Own(Until(k - 1), n)
        OBVIOUS
      <4>2. ~ Ignored(c, block, k) /\ \A s \in Kept(block) : n \in s.event.nfts => ~ (s.block > block)
        BY <2>1, <3>2, <3>6
      <4>3. \A s \in T : Before(s, r)
        <5>1. ASSUME NEW s \in T PROVE Before(s, r)
          <6>1. s \in Until(k - 1) /\ n \in s.event.nfts
            BY <4>1 DEF Own
          <6>2. CASE s \in Kept(block)
            BY <1>1, <3>2, <4>2, <6>1, <6>2 DEF Before
          <6>3. CASE s.block = block /\ s.place < k
            BY <3>2, <6>3 DEF Before
          <6>4. QED BY <3>3, <6>1, <6>2, <6>3
        <5>2. QED BY <5>1
      <4>4. IsTable(T) /\ IsTable(T \cup {r})
        <5>1. Until(k) = Until(k - 1) \cup {r}
          BY <3>3, <4>2
        <5>2. Until(k) \subseteq Until(Len(c))
          <6>1. \A i \in 1 .. k : i \in 1 .. Len(c)
            BY <1>1
          <6>2. QED BY <6>1 DEF Until, New
        <5>3. T \in SUBSET Until(Len(c)) /\ T \cup {r} \in SUBSET Until(Len(c))
          BY <4>1, <5>1, <5>2 DEF Own
        <5>4. QED BY <1>3, <5>3, SubTable
      <4>5. SnapshotOf(T \cup {r}, n) = updateAccountSnapshot(SnapshotOf(T, n), r)
        BY <3>2, <3>6, <4>3, <4>4, SnapshotAfterEvent
      <4>6. SnapshotOf(T, n) = SnapshotOf(Until(k - 1), n)
        <5>1. Own(T, n) = Own(Until(k - 1), n)
          BY <4>1 DEF Own
        <5>2. QED BY <5>1, OfOwn
      <4>7. SnapshotOf(T \cup {r}, n) = SnapshotOf(Until(k), n)
        <5>1. Own(T \cup {r}, n) = Own(Until(k), n)
          BY <3>3, <4>1, <4>2 DEF Own
        <5>2. QED BY <5>1, OfOwn
      <4>8. QED BY <2>6, <3>4, <3>6, <4>5, <4>6, <4>7
    <3>7. QED BY <3>5, <3>6
  <2>7. Bad = {}
    <3>1. SUFFICES ASSUME Bad # {} PROVE FALSE
      OBVIOUS
    <3>2. Bad \in SUBSET Nat
      BY <1>1
    <3>3. PICK k \in Bad : \A j \in Nat : j < k => j \notin Bad
      BY <3>1, <3>2, SmallestNumber
    <3>4. k # 0
      BY <2>5, <3>3
    <3>5. k \in 1 .. Len(c) /\ k - 1 \in 0 .. Len(c) /\ k - 1 < k
      BY <1>1, <3>3, <3>4
    <3>6. QED BY <2>6, <3>3, <3>5
  <2>8. Len(c) \in 0 .. Len(c)
    BY <1>1
  <2>9. QED BY <1>4, <1>5, <2>7, <2>8
<1>10. IsTable(rows')
  BY <1>3, <1>4
<1>11. QED BY <1>8, <1>9, <1>10 DEF TablesInv, SnapshotsMatchEvents

LEMMA RollbackKeepsSnapshots ==
  ASSUME TablesInv, NEW from, handleReorg(from)
  PROVE  TablesInv'
<1>1. rows' = Surviving(from) /\ unsettled' = unsettled \ AffectedBy(from) /\ IsTable(rows)
  BY DEF handleReorg, TablesInv
<1>2. Surviving(from) \in SUBSET rows
  BY DEF Surviving
<1>3. IsTable(Surviving(from))
  BY <1>1, <1>2, SubTable
<1>4. snapshots' = [n \in NFT |-> snapshots'[n]]
      /\ \A n \in NFT : snapshots'[n] \in IF n \in AffectedBy(from)
                                          THEN rebuildAccountSnapshot(Surviving(from), n)
                                          ELSE {snapshots[n]}
  BY DEF handleReorg
<1>5. ASSUME NEW n \in NFT, n \notin unsettled', LogsInOrder(rows', n)
      PROVE  snapshots'[n] = SnapshotOf(rows', n)
  <2>1. CASE n \in AffectedBy(from)
    BY <1>1, <1>3, <1>4, <1>5, <2>1, RebuiltIsSnapshot
  <2>2. CASE n \notin AffectedBy(from)
    <3>1. \A r \in rows : n \in r.event.nfts => r \in Surviving(from)
      BY <2>2 DEF AffectedBy, NamedBy
    <3>2. Own(Surviving(from), n) = Own(rows, n)
      BY <1>2, <3>1 DEF Own
    <3>3. /\ SnapshotOf(Surviving(from), n) = SnapshotOf(rows, n)
          /\ LogsInOrder(rows, n)
      BY <1>1, <1>5, <3>2, OfOwn
    <3>4. n \notin unsettled
      BY <1>1, <1>5, <2>2
    <3>5. QED BY <1>1, <1>4, <2>2, <3>3, <3>4 DEF TablesInv, SnapshotsMatchEvents
  <2>3. QED BY <2>1, <2>2
<1>6. QED BY <1>1, <1>3, <1>4, <1>5 DEF TablesInv, SnapshotsMatchEvents

(* Snapshots are what the stored events say in chain order, for any cards, *)
(* blocks, replacements and rollbacks: written event by event              *)
(* (updateAccountSnapshot) and computed again from the surviving events    *)
(* (rebuildAccountSnapshot) they come to the same, as long as the card has *)
(* not been unsettled and the log indexes order its changes.               *)
THEOREM SnapshotsFollowEvents == DatabaseSpec => []SnapshotsMatchEvents
<1>1. DatabaseInit => TablesInv
  <2> SUFFICES ASSUME DatabaseInit PROVE TablesInv
    OBVIOUS
  <2>1. rows = {} /\ snapshots = [n \in NFT |-> none]
    BY DEF DatabaseInit
  <2>2. IsTable(rows)
    BY <2>1, FS_EmptySet DEF IsTable
  <2>3. \A n : SnapshotOf(rows, n) = none
    BY <2>1 DEF SnapshotOf, Of
  <2>4. QED BY <2>1, <2>2, <2>3 DEF TablesInv, SnapshotsMatchEvents
<1>2. TablesInv /\ [DatabaseNext]_databaseVars => TablesInv'
  <2> SUFFICES ASSUME TablesInv, [DatabaseNext]_databaseVars PROVE TablesInv'
    OBVIOUS
  <2>1. ASSUME NEW n \in NFT, getAccountHistory(n) \/ dropCacheEntry(n) PROVE TablesInv'
    BY <2>1 DEF getAccountHistory, dropCacheEntry, TablesInv, SnapshotsMatchEvents
  <2>2. CASE UNCHANGED databaseVars
    BY <2>2 DEF databaseVars, TablesInv, SnapshotsMatchEvents
  <2>3. QED BY <2>1, <2>2, StoringKeepsSnapshots, RollbackKeepsSnapshots DEF DatabaseNext
<1>3. TablesInv => SnapshotsMatchEvents
  BY DEF TablesInv
<1>4. QED BY <1>1, <1>2, <1>3, PTL DEF DatabaseSpec
=============================================================================
