--------------------------- MODULE Indexer_proofs ---------------------------
(***************************************************************************)
(* Theorems about the indexer, for any number of poll slots, any start     *)
(* block, batch size and confirmation depth, and any number of failures,   *)
(* restarts, overlaps and reorganisations that reach at most the re-       *)
(* validation window below the confirmation depth.                         *)
(***************************************************************************)
EXTENDS Indexer, SequenceTheorems, WellFoundedInduction, TLAPS

-----------------------------------------------------------------------------
(* The inductive invariant. A poll acts on what it read several awaits     *)
(* ago; its parts say what of that is still so.                            *)

(* b[n] is not the chain's block n any more, or holds other events.        *)
StaleIn(b, n) == /\ b[n] # none
                 /\ \/ b[n].hash # chain[n]
                    \/ b[n].events \notin {chain[n], Missing}

(* What is stored is deep enough, and was the chain's at some time: forks  *)
(* are numbered upwards, so a block whose hash is right has right events.  *)
Sound(b) ==
  \A n \in Height : b[n] # none =>
    /\ n <= Len(chain) - confirmationBlocks
    /\ b[n].hash <= chain[n]
    /\ b[n].events # Missing => b[n].hash <= b[n].events /\ b[n].events <= chain[n]

CursorStored(b, c) == c > 0 => b[c] # none
NoGap(b, c) == \A n \in Height : b[n] # none <=> first <= n /\ n <= c
FreshUpTo(b, limit) == \A n \in Height : StaleIn(b, n) => n > limit

(* What a poll that saw head seqno may leave behind it: a reorganisation   *)
(* since then reaches no block at or below this height.                    *)
Settled(seqno) == seqno - confirmationBlocks - window

ForksInOrder == \A n \in 1 .. Len(chain) : chain[n] <= fork

(* A poll in progress, whether or not others are.                          *)
PollSound(p) ==
  /\ poll[p].seqno <= Len(chain)
  /\ poll[p].at = "revalidate" =>
       poll[p].block \in Height /\ poll[p].block <= Len(chain) - confirmationBlocks
  /\ poll[p].at \in {"check", "header", "transactions"} =>
       poll[p].block \in Height /\ poll[p].block <= poll[p].seqno - confirmationBlocks
  /\ poll[p].at = "transactions" => poll[p].hash <= chain[poll[p].block]

(* A poll in progress while none has overlapped another.                   *)
PollAlone(p) ==
  /\ poll[p].at # "check"
  /\ poll[p].at \in {"head", "revalidate"} => poll[p].latestIndexed = latest_block_indexed
  /\ poll[p].at = "revalidate" =>
       /\ blocks[poll[p].block] # none
       /\ poll[p].stored = blocks[poll[p].block].hash
       /\ \A n \in Height : StaleIn(blocks, n) /\ n < poll[p].block => n > Settled(poll[p].seqno)
  /\ poll[p].at \in {"header", "transactions"} =>
       /\ poll[p].block = Larger(latest_block_indexed + 1, startBlock)
       /\ FreshUpTo(blocks, Settled(poll[p].seqno))
  /\ poll[p].at = "transactions" /\ poll[p].hash # chain[poll[p].block] =>
       poll[p].block > Settled(poll[p].seqno)

OnePoll == \A p, q \in Poll : poll[p].at # "idle" /\ poll[q].at # "idle" => p = q

DatabaseInv ==
  /\ Sound(blocks)
  /\ CursorStored(blocks, latest_block_indexed)
  /\ Sequential => /\ NoGap(blocks, latest_block_indexed)
                   /\ FreshUpTo(blocks, latest_block_indexed - window)

PollInv ==
  /\ \A p \in Poll : PollSound(p)
  /\ Sequential => OnePoll /\ \A p \in Poll : PollAlone(p)

IndexerInv == IndexerTypeOK /\ ForksInOrder /\ DatabaseInv /\ PollInv

-----------------------------------------------------------------------------
LEMMA Constants ==
  /\ window \in Nat \ {0} /\ first \in Nat \ {0} /\ startBlock \in Nat
  /\ confirmationBlocks \in Nat /\ batchSize \in Nat \ {0} /\ MaxHead \in Nat
  /\ MaxDepth \in Nat /\ MaxDepth <= confirmationBlocks + window
  /\ first = IF startBlock > 1 THEN startBlock ELSE 1
BY IndexerAssumption DEF window, first, Larger

LEMMA MinOfHeights ==
  ASSUME NEW S \in SUBSET Height, S # {}
  PROVE  Min(S) \in S /\ \A m \in S : Min(S) <= m
<1>1. S \subseteq Nat
  BY Constants DEF Height
<1>2. PICK x \in S : \A y \in S : ~ (<<y, x>> \in OpToRel(<, Nat))
  BY <1>1, NatLessThanWellFounded, WFMin
<1>3. OpToRel(<, Nat) = {ss \in Nat \X Nat : ss[1] < ss[2]}
  BY Zenon DEF OpToRel
<1>4. \A y \in S : <<y, x>> \in {ss \in Nat \X Nat : ss[1] < ss[2]} <=> y < x
  BY <1>1
<1>5. \A y \in S : x <= y
  <2>1. \A y \in S : ~ (y < x)
    BY <1>2, <1>3, <1>4, Zenon
  <2>2. QED BY <1>1, <2>1
<1>6. QED BY <1>5 DEF Min

(* What a poll hands to the loops over batches and blocks, and they to the *)
(* database: blocks b, cursor c, the head seqno it saw.                    *)
Handed(b, c, seqno) ==
  /\ b \in [Height -> BlockRow \cup {none}] /\ c \in 0 .. MaxHead
  /\ seqno \in Nat /\ seqno <= Len(chain)
  /\ Sound(b) /\ CursorStored(b, c)
  /\ Sequential => /\ NoGap(b, c)
                   /\ FreshUpTo(b, c - window)
                   /\ FreshUpTo(b, Settled(seqno))

(* A poll's step, but for what it leaves in the database and in its slot.  *)
Quiet == /\ UNCHANGED <<chain, fork, failures, overlaps>>
         /\ latest_chain_seqno' \in 0 .. MaxHead
         /\ flagsDue' \in BOOLEAN

(* Flags do not matter to the invariant.                                   *)
LEMMA MarkedIsSame ==
  ASSUME NEW b \in [Height -> BlockRow \cup {none}], NEW upTo
  PROVE  /\ markBlocksConfirmed(b, upTo) \in [Height -> BlockRow \cup {none}]
         /\ \A n \in Height :
              /\ markBlocksConfirmed(b, upTo)[n] = none <=> b[n] = none
              /\ b[n] # none =>
                   /\ markBlocksConfirmed(b, upTo)[n].hash = b[n].hash
                   /\ markBlocksConfirmed(b, upTo)[n].events = b[n].events
<1> DEFINE m == markBlocksConfirmed(b, upTo)
<1>0. none \notin BlockRow
  BY NoneAssumption
<1>1. ASSUME NEW n \in Height
      PROVE  /\ m[n] \in BlockRow \cup {none}
             /\ m[n] = none <=> b[n] = none
             /\ b[n] # none => m[n].hash = b[n].hash /\ m[n].events = b[n].events
  <2>1. m[n] = IF b[n] # none /\ n <= upTo THEN [b[n] EXCEPT !.confirmed = TRUE] ELSE b[n]
    BY DEF markBlocksConfirmed
  <2>2. b[n] # none => b[n] \in BlockRow
    OBVIOUS
  <2>3. b[n] # none => /\ [b[n] EXCEPT !.confirmed = TRUE] \in BlockRow
                       /\ [b[n] EXCEPT !.confirmed = TRUE].hash = b[n].hash
                       /\ [b[n] EXCEPT !.confirmed = TRUE].events = b[n].events
    BY <2>2 DEF BlockRow
  <2>4. QED BY <1>0, <2>1, <2>2, <2>3
<1>2. m \in [Height -> BlockRow \cup {none}]
  <2>1. m = [n \in Height |-> m[n]]
    BY DEF markBlocksConfirmed
  <2>2. QED BY <1>1, <2>1
<1>3. QED BY <1>1, <1>2

(* The database after a step that leaves rows b, marked or not.            *)
LEMMA DatabaseAfter ==
  ASSUME IndexerTypeOK, Quiet, NEW b, NEW c, NEW seqno, Handed(b, c, seqno),
         latest_block_indexed' = c,
         blocks' = b \/ \E upTo : blocks' = markBlocksConfirmed(b, upTo)
  PROVE  /\ blocks' \in [Height -> BlockRow \cup {none}]
         /\ latest_block_indexed' \in 0 .. MaxHead
         /\ DatabaseInv'
         /\ Sequential' => FreshUpTo(blocks, Settled(seqno))'
         /\ \A n \in Height : blocks'[n] = none <=> b[n] = none
<1>1. /\ blocks' \in [Height -> BlockRow \cup {none}]
      /\ \A n \in Height :
           /\ blocks'[n] = none <=> b[n] = none
           /\ b[n] # none => blocks'[n].hash = b[n].hash /\ blocks'[n].events = b[n].events
  BY MarkedIsSame DEF Handed
<1>2. chain' = chain /\ overlaps' = overlaps /\ latest_block_indexed' = c
  BY DEF Quiet
<1>3. \A n \in Height : StaleIn(blocks, n)' <=> StaleIn(b, n)
  BY <1>1, <1>2 DEF StaleIn
<1>4. Sound(blocks)'
  BY <1>1, <1>2 DEF Sound, Handed
<1>5. CursorStored(blocks, latest_block_indexed)'
  BY <1>1, <1>2 DEF CursorStored, Handed, Height
<1>6. Sequential' => NoGap(blocks, latest_block_indexed)'
  BY <1>1, <1>2 DEF NoGap, Handed, Sequential
<1>7. Sequential' => /\ FreshUpTo(blocks, latest_block_indexed - window)'
                     /\ FreshUpTo(blocks, Settled(seqno))'
  BY <1>2, <1>3 DEF FreshUpTo, Handed, Sequential, Settled
<1>8. QED BY <1>1, <1>2, <1>4, <1>5, <1>6, <1>7 DEF DatabaseInv, Handed

(* The polls after a step in which poll p goes on with state s, or ends.   *)
(* No other poll is in progress where the invariant speaks of the          *)
(* database, so what p does to it disturbs none.                           *)
LEMMA PollsAfter ==
  ASSUME IndexerInv, Quiet, NEW p \in Poll, poll[p].at # "idle",
         NEW s \in PollState, poll' = [poll EXCEPT ![p] = s],
         PollSound(p)', Sequential' => PollAlone(p)'
  PROVE  poll' \in [Poll -> PollState] /\ PollInv'
<1>1. poll \in [Poll -> PollState] /\ chain' = chain /\ overlaps' = overlaps
  BY DEF IndexerInv, IndexerTypeOK, Quiet
<1>2. poll' \in [Poll -> PollState] /\ poll'[p] = s /\ \A q \in Poll \ {p} : poll'[q] = poll[q]
  BY <1>1
<1>3. \A q \in Poll : PollSound(q)'
  BY <1>1, <1>2 DEF PollSound, IndexerInv, PollInv
<1>4. ASSUME Sequential' PROVE OnePoll' /\ \A q \in Poll : PollAlone(q)'
  <2>1. OnePoll
    BY <1>1, <1>4 DEF Sequential, IndexerInv, PollInv
  <2>2. \A q \in Poll \ {p} : poll'[q].at = "idle"
    BY <1>2, <2>1 DEF OnePoll
  <2>3. OnePoll'
    BY <2>2 DEF OnePoll
  <2>4. \A q \in Poll \ {p} : PollAlone(q)'
    BY <2>2 DEF PollAlone
  <2>5. QED BY <1>4, <2>3, <2>4
<1>5. QED BY <1>2, <1>3, <1>4 DEF PollInv

LEMMA IdleIsSound ==
  ASSUME NEW p, poll'[p] = Idle, IndexerTypeOK, Quiet
  PROVE  Idle \in PollState /\ PollSound(p)' /\ PollAlone(p)'
<1>1. Idle \in PollState /\ Idle.at = "idle" /\ Idle.seqno = 0
  BY DEF Idle, PollState
<1>2. Len(chain') \in Nat
  BY LenProperties DEF IndexerTypeOK, Quiet
<1>3. QED BY <1>1, <1>2 DEF PollSound, PollAlone

(* syncBlocks from block n on.                                             *)
LEMMA SyncFromInv ==
  ASSUME IndexerInv, Quiet, NEW p \in Poll, poll[p].at # "idle",
         NEW b, NEW c, NEW seqno, Handed(b, c, seqno),
         NEW n \in Nat \ {0}, NEW batchEnd \in Nat,
         Sequential => n = Larger(c + 1, startBlock),
         SyncFrom(p, b, c, n, batchEnd, seqno)
  PROVE  IndexerInv'
<1> DEFINE endBlock == seqno - confirmationBlocks
<1>0. IndexerTypeOK /\ chain \in Seq(Nat) /\ Len(chain) \in Nat /\ Len(chain) <= MaxHead
  BY LenProperties DEF IndexerInv, IndexerTypeOK
<1>1. latest_block_indexed' = c /\ blocks' = b
  BY DEF SyncFrom
<1>2. /\ blocks' \in [Height -> BlockRow \cup {none}]
      /\ latest_block_indexed' \in 0 .. MaxHead
      /\ DatabaseInv'
      /\ Sequential' => FreshUpTo(blocks, Settled(seqno))'
      /\ \A m \in Height : blocks'[m] = none <=> b[m] = none
  BY <1>0, <1>1, DatabaseAfter
<1>3. poll' \in [Poll -> PollState] /\ PollInv'
  <2>1. CASE n > endBlock
    <3>1. PICK s : s = [Idle EXCEPT !.at = "confirm", !.seqno = seqno]
      OBVIOUS
    <3>2. poll' = [poll EXCEPT ![p] = s]
      BY <2>1, <3>1, Constants DEF SyncFrom, Handed
    <3>3. s \in PollState /\ s.at = "confirm" /\ s.seqno = seqno
      BY <3>1 DEF Idle, PollState, Handed
    <3>4. poll'[p] = s
      BY <1>0, <3>2 DEF IndexerTypeOK
    <3>5. PollSound(p)' /\ PollAlone(p)'
      BY <3>3, <3>4 DEF PollSound, PollAlone, Handed, Quiet
    <3>6. QED BY <3>2, <3>3, <3>5, PollsAfter
  <2>2. CASE n <= endBlock
    <3>1. PICK s : s = [Idle EXCEPT !.at = IF b[n] = none THEN "header" ELSE "check",
                            !.block = n,
                            !.stored = IF b[n] = none THEN 0 ELSE b[n].hash,
                            !.seqno = seqno,
                            !.batchEnd = IF n <= batchEnd THEN batchEnd
                                         ELSE Smaller(n + batchSize - 1, endBlock)]
      OBVIOUS
    <3>2. poll' = [poll EXCEPT ![p] = s]
      BY <2>2, <3>1, Constants DEF SyncFrom, Handed
    <3>3. n \in Height /\ n <= Len(chain)
      BY <1>0, <2>2, Constants DEF Handed, Height
    <3>4. /\ s \in PollState
          /\ s.at = IF b[n] = none THEN "header" ELSE "check"
          /\ s.block = n /\ s.seqno = seqno
      <4>1. b[n] # none => b[n].hash \in Nat
        BY <3>3 DEF Handed, BlockRow
      <4>2. (IF n <= batchEnd THEN batchEnd ELSE Smaller(n + batchSize - 1, endBlock)) \in Nat
        BY <2>2, Constants DEF Smaller, Handed
      <4>3. QED BY <3>1, <4>1, <4>2 DEF Idle, PollState, Handed
    <3>5. poll'[p] = s
      BY <1>0, <3>2 DEF IndexerTypeOK
    <3>6. PollSound(p)'
      BY <2>2, <3>3, <3>4, <3>5 DEF PollSound, Handed, Quiet
    <3>7. ASSUME Sequential' PROVE PollAlone(p)'
      <4>1. Sequential /\ n = Larger(c + 1, startBlock) /\ n > c
        BY <3>7, Constants DEF Sequential, Quiet, Larger, Handed
      <4>2. b[n] = none
        BY <3>3, <4>1, Constants DEF Handed, NoGap
      <4>3. FreshUpTo(blocks, Settled(seqno))'
        BY <1>2, <3>7
      <4>4. (FreshUpTo(blocks, Settled(poll[p].seqno)))'
        BY <3>4, <3>5, <4>3 DEF FreshUpTo, Settled
      <4>5. QED BY <1>1, <3>4, <3>5, <4>1, <4>2, <4>4 DEF PollAlone
    <3>8. QED BY <3>2, <3>4, <3>6, <3>7, PollsAfter
  <2>3. QED BY <2>1, <2>2, Constants DEF Handed
<1>4. QED BY <1>0, <1>2, <1>3 DEF IndexerInv, IndexerTypeOK, ForksInOrder, Quiet

(* The cursor is read again and forward synchronisation begins.            *)
LEMMA SyncForwardInv ==
  ASSUME IndexerInv, Quiet, NEW p \in Poll, poll[p].at # "idle",
         NEW b, NEW c, NEW seqno, Handed(b, c, seqno),
         SyncForward(p, b, c, seqno)
  PROVE  IndexerInv'
<1> DEFINE start == Larger(c + 1, startBlock)
<1>1. start \in Nat \ {0} /\ start - 1 \in Nat
  BY Constants DEF Larger, Handed
<1>2. CASE start <= seqno - confirmationBlocks /\ SyncFrom(p, b, c, start, start - 1, seqno)
  BY <1>1, <1>2, SyncFromInv
<1>3. CASE /\ blocks' = b /\ latest_block_indexed' = c
           /\ poll' = [poll EXCEPT ![p] = Idle]
  <2>0. IndexerTypeOK
    BY DEF IndexerInv
  <2>1. /\ blocks' \in [Height -> BlockRow \cup {none}]
        /\ latest_block_indexed' \in 0 .. MaxHead /\ DatabaseInv'
    BY <1>3, <2>0, DatabaseAfter
  <2>2. poll'[p] = Idle
    BY <1>3, <2>0 DEF IndexerTypeOK
  <2>3. poll' \in [Poll -> PollState] /\ PollInv'
    BY <1>3, <2>0, <2>2, IdleIsSound, PollsAfter
  <2>4. QED BY <2>0, <2>1, <2>3 DEF IndexerInv, IndexerTypeOK, ForksInOrder, Quiet
<1>4. QED BY <1>2, <1>3 DEF SyncForward

-----------------------------------------------------------------------------
(* What re-validation may leave: the rows as they are.                     *)
LEMMA RevalidateFromInv ==
  ASSUME IndexerInv, Quiet, NEW p \in Poll, poll[p].at # "idle",
         NEW n \in Nat, NEW l \in Nat, NEW seqno \in Nat, seqno <= Len(chain),
         Sequential => /\ l = latest_block_indexed
                       /\ \A m \in Height : StaleIn(blocks, m) /\ m < n => m > Settled(seqno),
         RevalidateFrom(p, n, l, seqno)
  PROVE  IndexerInv'
<1> DEFINE toCheck == {m \in Height : n <= m /\ m <= l /\ blocks[m] # none}
<1>0. /\ IndexerTypeOK /\ chain' = chain /\ overlaps' = overlaps
      /\ Len(chain) \in Nat /\ Len(chain) <= MaxHead
      /\ \A m \in Height : m \in Nat
  BY LenProperties, Constants DEF IndexerInv, IndexerTypeOK, Quiet, Height
<1>1. CASE toCheck = {} /\ SyncForward(p, blocks, latest_block_indexed, seqno)
  <2>1. Sequential => FreshUpTo(blocks, Settled(seqno))
    <3> SUFFICES ASSUME Sequential, NEW m \in Height, StaleIn(blocks, m)
                 PROVE  m > Settled(seqno)
      BY DEF FreshUpTo
    <3>1. blocks[m] # none /\ m <= latest_block_indexed
      BY DEF StaleIn, IndexerInv, DatabaseInv, NoGap
    <3>2. m < n
      BY <1>0, <1>1, <3>1
    <3>3. QED BY <3>2
  <2>2. Handed(blocks, latest_block_indexed, seqno)
    BY <1>0, <2>1 DEF Handed, IndexerInv, IndexerTypeOK, DatabaseInv
  <2>3. QED BY <1>1, <2>2, SyncForwardInv
<1>2. CASE /\ toCheck # {}
           /\ LET m == Min(toCheck) IN
                poll' = [poll EXCEPT ![p] =
                  [Idle EXCEPT !.at = "revalidate", !.block = m,
                               !.stored = blocks[m].hash, !.seqno = seqno,
                               !.latestIndexed = l]]
           /\ UNCHANGED <<blocks, latest_block_indexed>>
  <2>0. toCheck \in SUBSET Height /\ toCheck # {}
    BY <1>2
  <2>1. PICK m \in toCheck : m = Min(toCheck) /\ \A k \in toCheck : m <= k
    <3> HIDE DEF toCheck
    <3>1. QED BY <2>0, MinOfHeights
  <2>2. /\ m \in Height /\ n <= m /\ m <= l /\ blocks[m] # none
        /\ \A k \in Height : n <= k /\ k < m /\ blocks[k] # none => k > l
    <3>1. ASSUME NEW k \in Height, k < m PROVE k \notin toCheck
      <4>1. m \in Nat /\ k \in Nat
        BY <1>0
      <4>2. k \in toCheck => m <= k
        BY <2>1
      <4>3. QED BY <3>1, <4>1, <4>2
    <3>2. QED BY <1>0, <2>1, <3>1
  <2>3. PICK s : s = [Idle EXCEPT !.at = "revalidate", !.block = m,
                               !.stored = blocks[m].hash, !.seqno = seqno,
                               !.latestIndexed = l]
    OBVIOUS
  <2>4. poll' = [poll EXCEPT ![p] = s]
    BY <1>2, <2>1, <2>3
  <2>5. /\ s \in PollState /\ s.at = "revalidate" /\ s.block = m
        /\ s.stored = blocks[m].hash /\ s.seqno = seqno /\ s.latestIndexed = l
    <3>1. blocks[m].hash \in Nat
      BY <1>0, <2>2 DEF IndexerTypeOK, BlockRow
    <3>2. QED BY <1>0, <2>2, <2>3, <3>1 DEF Idle, PollState
  <2>6. poll'[p] = s /\ blocks' = blocks /\ latest_block_indexed' = latest_block_indexed
    BY <1>0, <1>2, <2>4 DEF IndexerTypeOK
  <2>7. PollSound(p)'
    BY <1>0, <2>2, <2>5, <2>6 DEF PollSound, IndexerInv, DatabaseInv, Sound
  <2>8. ASSUME Sequential' PROVE PollAlone(p)'
    <3>1. Sequential /\ l = latest_block_indexed
      BY <1>0, <2>8 DEF Sequential
    <3>2. ASSUME NEW k \in Height, StaleIn(blocks, k), k < m
          PROVE  k > Settled(seqno)
      <4>1. blocks[k] # none /\ k <= l
        BY <3>1, <3>2 DEF StaleIn, IndexerInv, DatabaseInv, NoGap
      <4>2. k < n
        BY <1>0, <2>2, <3>2, <4>1
      <4>3. QED BY <3>1, <3>2, <4>2
    <3>3. \A k \in Height : StaleIn(blocks, k)' <=> StaleIn(blocks, k)
      BY <1>0, <2>6 DEF StaleIn
    <3>4. \A k \in Height :
            (StaleIn(blocks, k) /\ k < poll[p].block => k > Settled(poll[p].seqno))'
      BY <2>5, <2>6, <3>2, <3>3 DEF Settled
    <3>5. QED BY <2>2, <2>5, <2>6, <3>1, <3>4 DEF PollAlone
  <2>9. poll' \in [Poll -> PollState] /\ PollInv'
    BY <2>4, <2>5, <2>7, <2>8, PollsAfter
  <2>10. DatabaseInv'
    BY <1>0, <2>6 DEF IndexerInv, DatabaseInv, Sound, CursorStored, NoGap, FreshUpTo,
       StaleIn, Sequential
  <2>11. QED BY <1>0, <2>6, <2>9, <2>10 DEF IndexerInv, IndexerTypeOK, ForksInOrder, Quiet
<1>3. QED BY <1>1, <1>2 DEF RevalidateFrom

(* getLatestBlock answers: what may be wrong is in the window compared.    *)
LEMMA ReadHeadInv ==
  ASSUME IndexerInv, NEW p \in Poll, ReadHead(p)
  PROVE  IndexerInv'
<1>0. /\ IndexerTypeOK /\ Len(chain) \in Nat /\ Len(chain) <= MaxHead
      /\ poll[p].latestIndexed \in Nat /\ poll[p].at = "head"
      /\ latest_chain_seqno \in 0 .. MaxHead
  BY LenProperties DEF IndexerInv, IndexerTypeOK, PollState, ReadHead
<1>1. Quiet
  BY <1>0, Constants DEF Quiet, ReadHead, Larger, IndexerInv, IndexerTypeOK
<1> DEFINE n == Larger(1, poll[p].latestIndexed - window + 1)
<1>2. n \in Nat
  BY <1>0, Constants DEF Larger
<1>3. Sequential => /\ poll[p].latestIndexed = latest_block_indexed
                    /\ \A m \in Height : StaleIn(blocks, m) /\ m < n => m > Settled(Len(chain))
  <2> SUFFICES ASSUME Sequential
               PROVE  /\ poll[p].latestIndexed = latest_block_indexed
                      /\ \A m \in Height : StaleIn(blocks, m) => ~ (m < n)
    OBVIOUS
  <2>1. poll[p].latestIndexed = latest_block_indexed
    BY <1>0 DEF IndexerInv, PollInv, PollAlone
  <2>2. ASSUME NEW m \in Height, StaleIn(blocks, m) PROVE ~ (m < n)
    <3>1. m > latest_block_indexed - window /\ m \in Nat \ {0}
      BY <2>2, Constants DEF IndexerInv, DatabaseInv, FreshUpTo, Height
    <3>2. QED BY <1>0, <2>1, <3>1, Constants DEF Larger
  <2>3. QED BY <2>1, <2>2
<1>4. RevalidateFrom(p, n, poll[p].latestIndexed, Len(chain))
  BY DEF ReadHead
<1>5. QED BY <1>0, <1>1, <1>2, <1>3, <1>4, RevalidateFromInv

(* A rollback from block n leaves rows and a cursor that fit together.     *)
LEMMA RollbackHanded ==
  ASSUME IndexerInv, NEW n \in Height, NEW seqno \in Nat, seqno <= Len(chain),
         Sequential => /\ n <= latest_block_indexed /\ first <= n
                       /\ \A m \in Height : StaleIn(blocks, m) /\ m < n => m > Settled(seqno)
  PROVE  Handed(DeleteFrom(blocks, n), CursorAfterReorg(blocks, n), seqno)
<1> DEFINE b == DeleteFrom(blocks, n)
           c == CursorAfterReorg(blocks, n)
<1>0. /\ IndexerTypeOK /\ n \in Nat \ {0} /\ latest_block_indexed \in Nat
      /\ \A m \in Height : m \in Nat \ {0}
  BY Constants DEF IndexerInv, IndexerTypeOK, Height
<1>1. /\ b \in [Height -> BlockRow \cup {none}]
      /\ \A m \in Height : b[m] = IF m >= n THEN none ELSE blocks[m]
  BY <1>0 DEF DeleteFrom, IndexerTypeOK
<1>2. /\ c \in 0 .. MaxHead
      /\ c > 0 => c = n - 1 /\ c \in Height /\ blocks[c] # none
      /\ c = 0 => ~ (n - 1 \in Height /\ blocks[n - 1] # none)
  BY <1>0, Constants DEF CursorAfterReorg, Height
<1> HIDE DEF b, c
<1>3. Sound(b)
  BY <1>1 DEF Sound, IndexerInv, DatabaseInv
<1>4. CursorStored(b, c)
  BY <1>0, <1>1, <1>2 DEF CursorStored
<1>5. \A m \in Height : StaleIn(b, m) => StaleIn(blocks, m) /\ m < n
  BY <1>0, <1>1 DEF StaleIn
<1>6. ASSUME Sequential
      PROVE  NoGap(b, c) /\ FreshUpTo(b, c - window) /\ FreshUpTo(b, Settled(seqno))
  <2>1. /\ \A m \in Height : blocks[m] # none <=> first <= m /\ m <= latest_block_indexed
        /\ n <= latest_block_indexed /\ first <= n
    BY <1>6 DEF IndexerInv, DatabaseInv, NoGap
  <2>2. c = 0 => n = first
    <3>1. n - 1 < first \/ n - 1 \in Height
      BY <1>0, Constants DEF Height
    <3>2. QED BY <1>0, <1>2, <2>1, <3>1, Constants
  <2>3. NoGap(b, c)
    <3>1. ASSUME NEW m \in Height PROVE b[m] # none <=> first <= m /\ m <= c
      <4>1. b[m] # none <=> m < n /\ first <= m
        BY <1>0, <1>1, <2>1, Constants
      <4>2. CASE c > 0
        <5>1. m \in Nat /\ n \in Nat /\ c = n - 1
          BY <1>0, <1>2, <4>2
        <5>2. m < n <=> m <= c
          BY <5>1
        <5>3. QED BY <4>1, <5>2
      <4>3. CASE c = 0
        BY <1>0, <2>2, <4>1, <4>3, Constants
      <4>4. QED BY <1>2, <4>2, <4>3
    <3>2. QED BY <3>1 DEF NoGap
  <2>4. FreshUpTo(b, c - window)
    <3>1. c <= latest_block_indexed
      BY <1>0, <1>2, <2>1
    <3>2. \A m \in Height : StaleIn(blocks, m) => m > latest_block_indexed - window
      BY <1>6 DEF IndexerInv, DatabaseInv, FreshUpTo
    <3>3. QED BY <1>0, <1>2, <1>5, <3>1, <3>2, Constants DEF FreshUpTo
  <2>5. FreshUpTo(b, Settled(seqno))
    BY <1>5, <1>6 DEF FreshUpTo
  <2>6. QED BY <2>3, <2>4, <2>5
<1>7. QED BY <1>1, <1>2, <1>3, <1>4, <1>6 DEF Handed, b, c

(* detectAndHandleReorg over the window.                                   *)
LEMMA RevalidateInv ==
  ASSUME IndexerInv, NEW p \in Poll, Revalidate(p)
  PROVE  IndexerInv'
<1> DEFINE n == poll[p].block
<1>0. /\ IndexerTypeOK /\ n \in Height /\ n \in Nat /\ n <= Len(chain)
      /\ poll[p].latestIndexed \in Nat /\ poll[p].at = "revalidate"
      /\ poll[p].seqno \in Nat /\ poll[p].seqno <= Len(chain)
      /\ \A m \in Height : m \in Nat
  <2>1. poll[p] \in PollState /\ poll[p].at = "revalidate" /\ PollSound(p) /\ Len(chain) \in Nat
    BY LenProperties DEF IndexerInv, IndexerTypeOK, Revalidate, PollInv
  <2>2. QED BY <2>1, Constants DEF PollSound, PollState, Height, IndexerInv
<1>1. Quiet
  BY <1>0 DEF Quiet, Revalidate, IndexerTypeOK
<1>2. Sequential =>
        /\ poll[p].latestIndexed = latest_block_indexed
        /\ n <= latest_block_indexed /\ first <= n
        /\ poll[p].stored = blocks[n].hash
        /\ \A m \in Height : StaleIn(blocks, m) /\ m < n => m > Settled(poll[p].seqno)
  BY <1>0 DEF IndexerInv, PollInv, PollAlone, DatabaseInv, NoGap
<1>3. CASE /\ chain[n] = poll[p].stored
           /\ RevalidateFrom(p, n + 1, poll[p].latestIndexed, poll[p].seqno)
  <2>1. ASSUME Sequential, NEW m \in Height, StaleIn(blocks, m), m < n + 1
        PROVE  m > Settled(poll[p].seqno)
    <3>1. ASSUME m = n PROVE FALSE
      <4>1. /\ blocks[n] # none /\ blocks[n].hash = chain[n]
            /\ blocks[n].events # Missing => /\ blocks[n].hash <= blocks[n].events
                                              /\ blocks[n].events <= chain[n]
        BY <1>0, <1>2, <1>3, <2>1, <3>1 DEF IndexerInv, DatabaseInv, Sound, StaleIn
      <4>2. chain[n] \in Nat /\ (blocks[n].events # Missing => blocks[n].events \in Nat)
        <5>1. chain \in Seq(Nat) /\ blocks[n] \in BlockRow
          BY <1>0, <4>1 DEF IndexerTypeOK
        <5>2. chain[n] \in Nat
          <6>1. n \in 1 .. Len(chain)
            BY <1>0, <5>1, LenProperties DEF Height
          <6>2. QED BY <5>1, <6>1, ElementOfSeq
        <5>3. QED BY <5>1, <5>2 DEF BlockRow
      <4>3. blocks[n].events \in {chain[n], Missing}
        BY <4>1, <4>2
      <4>4. QED BY <2>1, <3>1, <4>1, <4>3 DEF StaleIn
    <3>2. m < n
      BY <1>0, <2>1, <3>1
    <3>3. QED BY <1>2, <2>1, <3>2
  <2>2. n + 1 \in Nat
    BY <1>0
  <2>3. QED BY <1>0, <1>1, <1>2, <1>3, <2>1, <2>2, RevalidateFromInv
<1>4. CASE /\ chain[n] # poll[p].stored
           /\ SyncForward(p, DeleteFrom(blocks, n), CursorAfterReorg(blocks, n), poll[p].seqno)
  <2>1. Handed(DeleteFrom(blocks, n), CursorAfterReorg(blocks, n), poll[p].seqno)
    BY <1>0, <1>2, RollbackHanded
  <2>2. QED BY <1>0, <1>1, <1>4, <2>1, SyncForwardInv
<1>5. QED BY <1>3, <1>4 DEF Revalidate

(* detectAndHandleReorg of a stored block in forward synchronisation,      *)
(* which only polls that overlap can meet.                                 *)
LEMMA CheckStoredInv ==
  ASSUME IndexerInv, NEW p \in Poll, CheckStored(p)
  PROVE  IndexerInv'
<1> DEFINE n == poll[p].block
<1>0. /\ IndexerTypeOK /\ poll[p] \in PollState /\ n \in Height /\ n \in Nat
      /\ poll[p].at = "check" /\ poll[p].batchEnd \in Nat
      /\ poll[p].seqno \in Nat /\ poll[p].seqno <= Len(chain)
      /\ n <= poll[p].seqno - confirmationBlocks
  <2>1. poll[p] \in PollState /\ poll[p].at = "check" /\ PollSound(p)
    BY DEF IndexerInv, IndexerTypeOK, CheckStored, PollInv
  <2>2. QED BY <2>1, Constants DEF PollSound, PollState, Height, IndexerInv
<1>1. Quiet
  BY <1>0 DEF Quiet, CheckStored, IndexerTypeOK
<1>2. ~ Sequential
  BY <1>0 DEF IndexerInv, PollInv, PollAlone
<1>3. CASE /\ poll' = [poll EXCEPT ![p].at = "header"]
           /\ UNCHANGED <<blocks, latest_block_indexed>>
  <2>1. PICK s : s = [poll[p] EXCEPT !.at = "header"]
    OBVIOUS
  <2>2. /\ s \in PollState /\ s.at = "header" /\ s.block = n /\ s.seqno = poll[p].seqno
    BY <1>0, <2>1 DEF PollState
  <2>3. poll' = [poll EXCEPT ![p] = s]
    BY <1>3, <2>1
  <2>4. poll'[p] = s
    BY <1>0, <2>3 DEF IndexerTypeOK
  <2>5. PollSound(p)'
    BY <1>0, <1>1, <2>2, <2>4 DEF PollSound, Quiet
  <2>6. poll' \in [Poll -> PollState] /\ PollInv'
    BY <1>0, <1>1, <1>2, <2>2, <2>3, <2>5, PollsAfter DEF Sequential, Quiet
  <2>7. DatabaseInv'
    BY <1>1, <1>2, <1>3 DEF IndexerInv, DatabaseInv, Sound, CursorStored, Sequential, Quiet
  <2>8. QED BY <1>0, <1>1, <1>3, <2>6, <2>7 DEF IndexerInv, IndexerTypeOK, ForksInOrder, Quiet
<1>4. CASE SyncFrom(p, DeleteFrom(blocks, n), CursorAfterReorg(blocks, n),
                    poll[p].batchEnd + 1, poll[p].batchEnd, poll[p].seqno)
  <2>1. Handed(DeleteFrom(blocks, n), CursorAfterReorg(blocks, n), poll[p].seqno)
    BY <1>0, <1>2, RollbackHanded
  <2>2. poll[p].batchEnd + 1 \in Nat \ {0}
    BY <1>0
  <2>3. QED BY <1>0, <1>1, <1>2, <1>4, <2>1, <2>2, SyncFromInv
<1>5. QED BY <1>3, <1>4 DEF CheckStored

(* processBlock, the header.                                               *)
LEMMA FetchHeaderInv ==
  ASSUME IndexerInv, NEW p \in Poll, FetchHeader(p)
  PROVE  IndexerInv'
<1> DEFINE n == poll[p].block
<1>0. /\ IndexerTypeOK /\ poll[p] \in PollState /\ n \in Height /\ n \in Nat
      /\ poll[p].at = "header" /\ PollSound(p) /\ n <= Len(chain)
  <2>1. poll[p] \in PollState /\ poll[p].at = "header" /\ PollSound(p) /\ Len(chain) \in Nat
    BY LenProperties DEF IndexerInv, IndexerTypeOK, FetchHeader, PollInv
  <2>2. QED BY <2>1, Constants DEF PollSound, PollState, Height, IndexerInv
<1>1. Quiet /\ UNCHANGED <<blocks, latest_block_indexed>>
  BY <1>0 DEF Quiet, FetchHeader, IndexerTypeOK, database
<1>2. chain[n] \in Nat
  BY <1>0, ElementOfSeq, Constants DEF Height, IndexerTypeOK
<1>3. PICK s : s = [poll[p] EXCEPT !.at = "transactions", !.hash = chain[n]]
  OBVIOUS
<1>4. /\ s \in PollState /\ s.at = "transactions" /\ s.block = n
      /\ s.seqno = poll[p].seqno /\ s.hash = chain[n]
  BY <1>0, <1>2, <1>3 DEF PollState
<1>5. poll' = [poll EXCEPT ![p] = s]
  BY <1>0, <1>3 DEF FetchHeader, IndexerTypeOK
<1>6. poll'[p] = s
  BY <1>0, <1>5 DEF IndexerTypeOK
<1>7. PollSound(p)'
  BY <1>0, <1>1, <1>2, <1>4, <1>6 DEF PollSound, Quiet
<1>8. Sequential' => PollAlone(p)'
  <2> SUFFICES ASSUME Sequential' PROVE PollAlone(p)'
    OBVIOUS
  <2>1. PollAlone(p)
    BY <1>1 DEF IndexerInv, PollInv, Sequential, Quiet
  <2>2. FreshUpTo(blocks, Settled(poll[p].seqno))'
    BY <1>0, <1>1, <1>4, <1>6, <2>1 DEF PollAlone, FreshUpTo, StaleIn, Settled, Quiet
  <2>3. QED BY <1>0, <1>1, <1>4, <1>6, <2>1, <2>2 DEF PollAlone, Quiet
<1>9. poll' \in [Poll -> PollState] /\ PollInv'
  BY <1>0, <1>1, <1>4, <1>5, <1>7, <1>8, PollsAfter
<1>10. DatabaseInv'
  BY <1>1 DEF IndexerInv, DatabaseInv, Sound, CursorStored, NoGap, FreshUpTo, StaleIn,
     Sequential, Quiet
<1>11. QED BY <1>0, <1>1, <1>9, <1>10 DEF IndexerInv, IndexerTypeOK, ForksInOrder, Quiet

(* processBlock, the transactions and the commit: a reorganisation since   *)
(* the header makes the block wrong, but only where the next poll looks.   *)
LEMMA FetchTransactionsInv ==
  ASSUME IndexerInv, NEW p \in Poll, FetchTransactions(p)
  PROVE  IndexerInv'
<1> DEFINE n == poll[p].block
           seqno == poll[p].seqno
<1>0. /\ IndexerTypeOK /\ poll[p] \in PollState /\ n \in Height /\ n \in Nat \ {0}
      /\ poll[p].at = "transactions" /\ poll[p].hash <= chain[n]
      /\ n <= Len(chain) - confirmationBlocks /\ n <= Len(chain) /\ n <= MaxHead
      /\ poll[p].hash \in Nat /\ poll[p].batchEnd \in Nat
      /\ seqno \in Nat /\ seqno <= Len(chain) /\ n <= seqno - confirmationBlocks
      /\ Len(chain) \in Nat /\ \A m \in Height : m \in Nat \ {0}
  <2>1. /\ poll[p] \in PollState /\ poll[p].at = "transactions" /\ PollSound(p)
        /\ Len(chain) \in Nat
    BY LenProperties DEF IndexerInv, IndexerTypeOK, FetchTransactions, PollInv
  <2>2. /\ poll[p].hash \in Nat /\ poll[p].batchEnd \in Nat /\ seqno \in Nat
    BY <2>1 DEF PollState
  <2>3. /\ seqno <= Len(chain) /\ n \in Height /\ n <= seqno - confirmationBlocks
        /\ poll[p].hash <= chain[n]
    BY <2>1 DEF PollSound
  <2>4. n \in Nat \ {0} /\ n <= MaxHead /\ \A m \in Height : m \in Nat \ {0}
    BY <2>3, Constants DEF Height
  <2>5. n <= Len(chain) - confirmationBlocks /\ n <= Len(chain)
    BY <2>1, <2>2, <2>3, <2>4, Constants
  <2>6. QED BY <2>1, <2>2, <2>3, <2>4, <2>5 DEF IndexerInv
<1>1. Quiet
  BY <1>0 DEF Quiet, FetchTransactions, IndexerTypeOK
<1>2. chain[n] \in Nat
  BY <1>0, ElementOfSeq DEF IndexerTypeOK
<1>3. PICK events, b :
        /\ events \in {chain[n], Missing}
        /\ b = StoreBlock(blocks, n, poll[p].hash, events)
        /\ SyncFrom(p, b, n, n + 1, poll[p].batchEnd, seqno)
  BY DEF FetchTransactions
<1>4. /\ b \in [Height -> BlockRow \cup {none}]
      /\ b[n] # none /\ b[n].hash = poll[p].hash /\ b[n].events = events
      /\ \A m \in Height \ {n} : b[m] = blocks[m]
  <2>1. PICK row : row = [hash |-> poll[p].hash, events |-> events, confirmed |-> FALSE]
    OBVIOUS
  <2>2. row \in BlockRow /\ row.hash = poll[p].hash /\ row.events = events
    BY <1>0, <1>2, <1>3, <2>1 DEF BlockRow
  <2>3. b = [blocks EXCEPT ![n] = row]
    BY <1>3, <2>1 DEF StoreBlock
  <2>4. row # none
    BY <2>2, NoneAssumption
  <2>5. QED BY <1>0, <2>2, <2>3, <2>4 DEF IndexerTypeOK
<1>5. Sound(b)
  <2>1. ASSUME NEW m \in Height, b[m] # none
        PROVE  /\ m <= Len(chain) - confirmationBlocks
               /\ b[m].hash <= chain[m]
               /\ b[m].events # Missing =>
                    b[m].hash <= b[m].events /\ b[m].events <= chain[m]
    <3>1. CASE m = n
      BY <1>0, <1>2, <1>3, <1>4, <3>1
    <3>2. CASE m # n
      BY <1>4, <2>1, <3>2 DEF IndexerInv, DatabaseInv, Sound
    <3>3. QED BY <3>1, <3>2
  <2>2. QED BY <2>1 DEF Sound
<1>6. ASSUME Sequential
      PROVE  /\ n + 1 = Larger(n + 1, startBlock) /\ NoGap(b, n)
             /\ FreshUpTo(b, Settled(seqno)) /\ FreshUpTo(b, n - window)
  <2>1. PollAlone(p)
    BY <1>6 DEF IndexerInv, PollInv
  <2>2. n = Larger(latest_block_indexed + 1, startBlock) /\ latest_block_indexed \in Nat
    BY <1>0, <2>1 DEF PollAlone, IndexerTypeOK
  <2>3. NoGap(blocks, latest_block_indexed)
    BY <1>6 DEF IndexerInv, DatabaseInv
  <2>4. latest_block_indexed = 0 \/ first <= latest_block_indexed
    BY <1>0, <2>2, <2>3 DEF IndexerInv, DatabaseInv, CursorStored, NoGap, Height, IndexerTypeOK
  <2>5. /\ first <= n
        /\ \A m \in Height \ {n} : (first <= m /\ m <= latest_block_indexed) <=> (first <= m /\ m <= n)
    BY <1>0, <2>2, <2>4, Constants DEF Larger
  <2>6. NoGap(b, n)
    BY <1>0, <1>4, <2>3, <2>5 DEF NoGap
  <2>7. FreshUpTo(b, Settled(seqno))
    <3>1. ASSUME NEW m \in Height, StaleIn(b, m) PROVE m > Settled(seqno)
      <4>1. CASE m = n
        <5>1. CASE poll[p].hash = chain[n]
          BY <1>3, <1>4, <3>1, <4>1, <5>1 DEF StaleIn
        <5>2. CASE poll[p].hash # chain[n]
          BY <1>0, <2>1, <4>1, <5>2 DEF PollAlone
        <5>3. QED BY <5>1, <5>2
      <4>2. CASE m # n
        BY <1>0, <1>4, <2>1, <3>1, <4>2 DEF StaleIn, PollAlone, FreshUpTo
      <4>3. QED BY <4>1, <4>2
    <3>2. QED BY <3>1 DEF FreshUpTo
  <2>8. FreshUpTo(b, n - window)
    <3>1. n - window <= Settled(seqno)
      BY <1>0, Constants DEF Settled
    <3>2. n - window \in Int /\ Settled(seqno) \in Int
      BY <1>0, Constants DEF Settled
    <3>3. QED BY <1>0, <2>7, <3>1, <3>2 DEF FreshUpTo
  <2>9. n + 1 = Larger(n + 1, startBlock)
    BY <1>0, <2>2, Constants DEF Larger
  <2>10. QED BY <2>6, <2>7, <2>8, <2>9
<1>7. Handed(b, n, seqno)
  <2>1. n \in 0 .. MaxHead /\ CursorStored(b, n)
    BY <1>0, <1>4, Constants DEF CursorStored
  <2>2. QED BY <1>0, <1>4, <1>5, <1>6, <2>1 DEF Handed
<1>8. n + 1 \in Nat \ {0}
  BY <1>0
<1>9. QED BY <1>0, <1>1, <1>3, <1>6, <1>7, <1>8, SyncFromInv

-----------------------------------------------------------------------------
(* The flags are written and the poll ends.                                *)
LEMMA ConfirmBlocksInv ==
  ASSUME IndexerInv, NEW p \in Poll, ConfirmBlocks(p)
  PROVE  IndexerInv'
<1>0. IndexerTypeOK /\ poll[p].at # "idle" /\ Len(chain) \in Nat
  BY LenProperties DEF IndexerInv, IndexerTypeOK, ConfirmBlocks
<1>1. Quiet /\ latest_block_indexed' = latest_block_indexed
  BY <1>0 DEF Quiet, ConfirmBlocks, IndexerTypeOK
<1>2. Handed(blocks, latest_block_indexed, 0)
  <2>1. FreshUpTo(blocks, Settled(0))
    BY Constants DEF FreshUpTo, Settled, Height
  <2>2. QED BY <1>0, <2>1 DEF Handed, IndexerInv, IndexerTypeOK, DatabaseInv
<1>3. \E upTo : blocks' = markBlocksConfirmed(blocks, upTo)
  BY DEF ConfirmBlocks
<1>4. /\ blocks' \in [Height -> BlockRow \cup {none}]
      /\ latest_block_indexed' \in 0 .. MaxHead /\ DatabaseInv'
  BY <1>0, <1>1, <1>2, <1>3, DatabaseAfter
<1>5. poll' = [poll EXCEPT ![p] = Idle] /\ poll'[p] = Idle
  BY <1>0 DEF ConfirmBlocks, IndexerTypeOK
<1>6. poll' \in [Poll -> PollState] /\ PollInv'
  BY <1>0, <1>1, <1>5, IdleIsSound, PollsAfter
<1>7. QED BY <1>0, <1>1, <1>4, <1>6 DEF IndexerInv, IndexerTypeOK, ForksInOrder, Quiet

-----------------------------------------------------------------------------
LEMMA IdleAlone ==
  ASSUME NEW p, poll[p].at = "idle"
  PROVE  PollAlone(p)
BY DEF PollAlone

(* The timer fires: alone, or never again alone.                           *)
LEMMA StartPollInv ==
  ASSUME IndexerInv, NEW p \in Poll, StartPoll(p)
  PROVE  IndexerInv'
<1>0. /\ IndexerTypeOK /\ poll \in [Poll -> PollState] /\ Len(chain) \in Nat
      /\ latest_block_indexed \in Nat
  BY LenProperties, Constants DEF IndexerInv, IndexerTypeOK
<1>1. PICK s : s = [Idle EXCEPT !.at = "head", !.latestIndexed = latest_block_indexed]
  OBVIOUS
<1>2. /\ s \in PollState /\ s.at = "head" /\ s.seqno = 0
      /\ s.latestIndexed = latest_block_indexed
  BY <1>0, <1>1 DEF Idle, PollState
<1>3. poll' = [poll EXCEPT ![p] = s]
  BY <1>1 DEF StartPoll
<1>4. /\ poll' \in [Poll -> PollState] /\ poll'[p] = s
      /\ \A q \in Poll \ {p} : poll'[q] = poll[q]
  BY <1>0, <1>2, <1>3
<1>5. UNCHANGED <<chain, fork, blocks, latest_block_indexed, latest_chain_seqno, failures, flagsDue>>
  BY DEF StartPoll, database
<1>6. /\ overlaps' \in 0 .. MaxOverlaps
      /\ Sequential' => Sequential /\ \A q \in Poll : poll[q].at = "idle"
  BY <1>0, IndexerAssumption DEF StartPoll, Sequential, IndexerTypeOK
<1>7. \A q \in Poll : PollSound(q)'
  BY <1>0, <1>2, <1>4, <1>5 DEF PollSound, IndexerInv, PollInv
<1>8. ASSUME Sequential' PROVE OnePoll' /\ \A q \in Poll : PollAlone(q)'
  <2>1. \A q \in Poll \ {p} : poll'[q].at = "idle"
    BY <1>4, <1>6, <1>8
  <2>2. QED BY <1>2, <1>4, <1>5, <2>1 DEF OnePoll, PollAlone
<1>9. DatabaseInv'
  BY <1>5, <1>6 DEF IndexerInv, DatabaseInv, Sound, CursorStored, NoGap, FreshUpTo, StaleIn
<1>10. QED BY <1>0, <1>4, <1>5, <1>6, <1>7, <1>8, <1>9
       DEF IndexerInv, IndexerTypeOK, ForksInOrder, PollInv

(* A poll, or every poll, ends: what it had read is forgotten.             *)
LEMMA EndInv ==
  ASSUME IndexerInv, NEW dead \in SUBSET Poll, failures < MaxFailures,
         poll' = [p \in Poll |-> IF p \in dead THEN Idle ELSE poll[p]],
         failures' = failures + 1, flagsDue' \in BOOLEAN,
         UNCHANGED <<chain, fork, blocks, latest_block_indexed, latest_chain_seqno, overlaps>>
  PROVE  IndexerInv'
<1>0. IndexerTypeOK /\ poll \in [Poll -> PollState] /\ Len(chain) \in Nat
  BY LenProperties DEF IndexerInv, IndexerTypeOK
<1>1. Idle \in PollState /\ Idle.at = "idle" /\ Idle.seqno = 0
  BY DEF Idle, PollState
<1>2. /\ poll' \in [Poll -> PollState]
      /\ \A q \in Poll : poll'[q] = Idle \/ poll'[q] = poll[q]
  BY <1>0, <1>1
<1>3. failures' \in 0 .. MaxFailures
  BY <1>0, IndexerAssumption DEF IndexerTypeOK
<1>4. \A q \in Poll : PollSound(q)'
  BY <1>0, <1>1, <1>2 DEF PollSound, IndexerInv, PollInv
<1>5. ASSUME Sequential' PROVE OnePoll' /\ \A q \in Poll : PollAlone(q)'
  <2>1. Sequential /\ OnePoll /\ \A q \in Poll : PollAlone(q)
    BY <1>5 DEF Sequential, IndexerInv, PollInv
  <2>2. OnePoll'
    BY <1>1, <1>2, <2>1 DEF OnePoll
  <2>3. ASSUME NEW q \in Poll PROVE PollAlone(q)'
    <3>1. CASE poll'[q] = Idle
      BY <1>1, <3>1 DEF PollAlone
    <3>2. CASE poll'[q] = poll[q]
      BY <2>1, <3>2 DEF PollAlone, FreshUpTo, StaleIn, Settled
    <3>3. QED BY <1>2, <3>1, <3>2
  <2>4. QED BY <2>2, <2>3
<1>6. DatabaseInv'
  BY DEF IndexerInv, DatabaseInv, Sound, CursorStored, NoGap, FreshUpTo, StaleIn, Sequential
<1>7. QED BY <1>0, <1>2, <1>3, <1>4, <1>5, <1>6
      DEF IndexerInv, IndexerTypeOK, ForksInOrder, PollInv

(* The chain moves under the indexer: heights keep their blocks, or get    *)
(* blocks of a new fork close to the head.                                 *)
LEMMA ChainMoves ==
  ASSUME IndexerInv, chain' \in Seq(Nat), Len(chain) <= Len(chain'),
         Len(chain') <= MaxHead, fork' \in Nat, fork <= fork', ForksInOrder',
         \A n \in 1 .. Len(chain) :
           \/ chain'[n] = chain[n]
           \/ /\ chain'[n] = fork' /\ fork < fork'
              /\ n > Len(chain) - confirmationBlocks - window,
         UNCHANGED <<blocks, latest_block_indexed, latest_chain_seqno, poll, failures, overlaps,
                   flagsDue>>
  PROVE  IndexerInv'
<1>0. /\ IndexerTypeOK /\ Len(chain) \in Nat /\ Len(chain') \in Nat /\ fork \in Nat
      /\ \A n \in Height : n \in Nat \ {0}
      /\ poll \in [Poll -> PollState] /\ blocks \in [Height -> BlockRow \cup {none}]
      /\ latest_block_indexed \in Nat
  BY LenProperties, Constants DEF IndexerInv, IndexerTypeOK, Height
<1>1. \A n \in 1 .. Len(chain) : /\ chain[n] \in Nat /\ chain[n] <= fork
                                 /\ chain'[n] \in Nat /\ chain[n] <= chain'[n]
  <2>1. \A n \in 1 .. Len(chain) : chain[n] \in Nat /\ chain[n] <= fork
    BY ElementOfSeq DEF IndexerInv, IndexerTypeOK, ForksInOrder
  <2>2. QED BY <1>0, <2>1
<1>2. ASSUME NEW n \in Height, blocks[n] # none
      PROVE  /\ n \in 1 .. Len(chain) /\ blocks[n] \in BlockRow
             /\ blocks[n].hash \in Nat /\ blocks[n].events \in Nat \cup {Missing}
             /\ n <= Len(chain) - confirmationBlocks
             /\ blocks[n].hash <= chain[n]
             /\ blocks[n].events # Missing =>
                  blocks[n].hash <= blocks[n].events /\ blocks[n].events <= chain[n]
  <2>1. /\ n <= Len(chain) - confirmationBlocks
        /\ blocks[n].hash <= chain[n]
        /\ blocks[n].events # Missing =>
             blocks[n].hash <= blocks[n].events /\ blocks[n].events <= chain[n]
    BY <1>2 DEF IndexerInv, DatabaseInv, Sound
  <2>2. n \in 1 .. Len(chain)
    BY <1>0, <2>1, Constants
  <2>3. blocks[n] \in BlockRow
    BY <1>0, <1>2
  <2>4. QED BY <2>1, <2>2, <2>3 DEF BlockRow
<1>3. Sound(blocks)'
  <2>1. ASSUME NEW n \in Height, blocks[n] # none
        PROVE  /\ n <= Len(chain') - confirmationBlocks
               /\ blocks[n].hash <= chain'[n]
               /\ blocks[n].events # Missing =>
                    blocks[n].hash <= blocks[n].events /\ blocks[n].events <= chain'[n]
    <3>1. n <= Len(chain') - confirmationBlocks
      BY <1>0, <1>2, <2>1, Constants
    <3>2. PICK x \in Nat, y \in Nat : x = chain[n] /\ y = chain'[n] /\ x <= y
      BY <1>1, <1>2, <2>1
    <3>3. QED BY <1>2, <2>1, <3>1, <3>2
  <2>2. QED BY <2>1 DEF Sound
<1>4. \A n \in Height :
        StaleIn(blocks, n)' => StaleIn(blocks, n) \/ n > Len(chain) - confirmationBlocks - window
  <2> SUFFICES ASSUME NEW n \in Height, StaleIn(blocks, n)'
               PROVE  StaleIn(blocks, n) \/ n > Len(chain) - confirmationBlocks - window
    OBVIOUS
  <2>1. n \in 1 .. Len(chain)
    BY <1>2 DEF StaleIn
  <2>2. CASE chain'[n] = chain[n]
    BY <2>2 DEF StaleIn
  <2>3. QED BY <2>1, <2>2
<1>5. ASSUME Sequential'
      PROVE  /\ NoGap(blocks, latest_block_indexed)'
             /\ FreshUpTo(blocks, latest_block_indexed - window)'
  <2>1. /\ NoGap(blocks, latest_block_indexed)
        /\ FreshUpTo(blocks, latest_block_indexed - window)
        /\ CursorStored(blocks, latest_block_indexed)
    BY <1>5 DEF Sequential, IndexerInv, DatabaseInv
  <2>2. \A n \in Height : blocks[n] # none =>
          latest_block_indexed <= Len(chain) - confirmationBlocks
    <3>1. latest_block_indexed > 0 => latest_block_indexed \in Height /\ blocks[latest_block_indexed] # none
      BY <1>0, <2>1 DEF CursorStored, IndexerTypeOK, Height
    <3>2. \A n \in Height : blocks[n] # none => latest_block_indexed > 0
      BY <1>0, <2>1 DEF NoGap
    <3>3. QED BY <1>2, <3>1, <3>2
  <2>3. ASSUME NEW n \in Height, StaleIn(blocks, n)'
        PROVE  n > latest_block_indexed - window
    <3>1. CASE StaleIn(blocks, n)
      BY <2>1, <3>1 DEF FreshUpTo
    <3>2. CASE n > Len(chain) - confirmationBlocks - window
      <4>1. latest_block_indexed <= Len(chain) - confirmationBlocks
        BY <2>2, <2>3 DEF StaleIn
      <4>2. QED BY <1>0, <3>2, <4>1, Constants
    <3>3. QED BY <1>4, <2>3, <3>1, <3>2
  <2>4. QED BY <2>1, <2>3 DEF NoGap, FreshUpTo
<1>6. DatabaseInv'
  BY <1>3, <1>5 DEF DatabaseInv, IndexerInv, CursorStored
<1>7. ASSUME NEW p \in Poll
      PROVE  /\ PollSound(p)'
             /\ poll[p].seqno \in Nat /\ poll[p].seqno <= Len(chain)
             /\ poll[p].at = "transactions" =>
                  poll[p].block \in Height /\ poll[p].block \in 1 .. Len(chain)
  <2>1. PollSound(p) /\ poll[p] \in PollState /\ poll[p].seqno \in Nat /\ poll[p].hash \in Nat
    BY <1>0 DEF IndexerInv, PollInv, PollState
  <2>2. poll[p].seqno <= Len(chain) /\ poll[p].seqno <= Len(chain')
    BY <1>0, <2>1 DEF PollSound
  <2>3. poll[p].at = "revalidate" =>
          poll[p].block \in Height /\ poll[p].block <= Len(chain') - confirmationBlocks
    BY <1>0, <2>1, Constants DEF PollSound
  <2>4. poll[p].at = "transactions" =>
          poll[p].block \in Height /\ poll[p].block \in 1 .. Len(chain)
    BY <1>0, <2>1, Constants DEF PollSound
  <2>5. poll[p].at = "transactions" => poll[p].hash <= chain'[poll[p].block]
    <3> SUFFICES ASSUME poll[p].at = "transactions" PROVE poll[p].hash <= chain'[poll[p].block]
      OBVIOUS
    <3>1. PICK x \in Nat, y \in Nat :
            x = chain[poll[p].block] /\ y = chain'[poll[p].block] /\ x <= y
      BY <1>1, <2>4
    <3>2. poll[p].hash <= x
      BY <2>1, <3>1 DEF PollSound
    <3>3. QED BY <2>1, <3>1, <3>2
  <2>6. QED BY <2>1, <2>2, <2>3, <2>4, <2>5 DEF PollSound
<1>8. ASSUME Sequential', NEW p \in Poll PROVE PollAlone(p)'
  <2>1. PollAlone(p)
    BY <1>8 DEF Sequential, IndexerInv, PollInv
  <2>2. \A n \in Height : n > Len(chain) - confirmationBlocks - window => n > Settled(poll[p].seqno)
    BY <1>0, <1>7, Constants DEF Settled
  <2>3. poll[p].at = "revalidate" =>
          \A n \in Height : StaleIn(blocks, n)' /\ n < poll[p].block => n > Settled(poll[p].seqno)
    BY <1>4, <2>1, <2>2 DEF PollAlone
  <2>4. poll[p].at \in {"header", "transactions"} =>
          \A n \in Height : StaleIn(blocks, n)' => n > Settled(poll[p].seqno)
    BY <1>4, <2>1, <2>2 DEF PollAlone, FreshUpTo
  <2>5. poll[p].at = "transactions" /\ poll[p].hash # chain'[poll[p].block] =>
          poll[p].block > Settled(poll[p].seqno)
    BY <1>7, <2>1, <2>2 DEF PollAlone
  <2>6. QED BY <2>1, <2>3, <2>4, <2>5 DEF PollAlone, FreshUpTo, Settled
<1>9. PollInv'
  BY <1>7, <1>8 DEF PollInv, IndexerInv, OnePoll, Sequential
<1>10. QED BY <1>0, <1>6, <1>9 DEF IndexerInv, IndexerTypeOK

LEMMA NewBlockInv ==
  ASSUME IndexerInv, NewBlock
  PROVE  IndexerInv'
<1>0. chain \in Seq(Nat) /\ Len(chain) \in Nat /\ fork \in Nat /\ Len(chain) < MaxHead
  BY LenProperties, IndexerAssumption DEF IndexerInv, IndexerTypeOK, NewBlock
<1>1. /\ chain' \in Seq(Nat) /\ Len(chain') = Len(chain) + 1
      /\ \A n \in 1 .. Len(chain) : chain'[n] = chain[n]
      /\ chain'[Len(chain) + 1] = fork
  BY <1>0, AppendProperties DEF NewBlock
<1>2. fork' = fork /\ UNCHANGED <<blocks, latest_block_indexed, latest_chain_seqno, poll, failures, overlaps,
                   flagsDue>>
  BY DEF NewBlock, database
<1>3. ForksInOrder'
  <2>1. \A n \in 1 .. Len(chain') : n \in 1 .. Len(chain) \/ n = Len(chain) + 1
    BY <1>0, <1>1
  <2>2. QED BY <1>0, <1>1, <1>2, <2>1 DEF ForksInOrder, IndexerInv
<1>4. Len(chain) <= Len(chain') /\ Len(chain') <= MaxHead /\ fork <= fork'
  BY <1>0, <1>1, <1>2, Constants
<1>5. QED BY <1>0, <1>1, <1>2, <1>3, <1>4, ChainMoves

LEMMA ReorgInv ==
  ASSUME IndexerInv, NEW h \in 0 .. MaxHead, Reorg(h)
  PROVE  IndexerInv'
<1>0. /\ chain \in Seq(Nat) /\ Len(chain) \in Nat /\ fork \in Nat /\ Len(chain) <= MaxHead
      /\ h \in Nat /\ fork' = fork + 1 /\ Len(chain) - MaxDepth <= h
      /\ \A n \in 1 .. Len(chain) : chain[n] \in Nat /\ chain[n] <= fork
  BY LenProperties, ElementOfSeq, Constants DEF IndexerInv, IndexerTypeOK, Reorg, ForksInOrder
<1>1. chain' = [n \in 1 .. Len(chain) |-> IF n > h THEN fork' ELSE chain[n]]
  BY DEF Reorg
<1>2. \A n \in 1 .. Len(chain) : chain'[n] = (IF n > h THEN fork' ELSE chain[n]) /\ chain'[n] \in Nat
  BY <1>0, <1>1
<1>3. chain' \in Seq(Nat) /\ Len(chain') = Len(chain)
  <2>1. chain' \in [1 .. Len(chain) -> Nat]
    BY <1>0, <1>1
  <2>2. chain' \in Seq(Nat)
    BY <1>0, <2>1, SeqDef
  <2>3. 1 .. Len(chain') = 1 .. Len(chain) /\ Len(chain') \in Nat
    BY <2>1, <2>2, LenProperties
  <2>4. QED BY <1>0, <2>2, <2>3
<1>4. \A n \in 1 .. Len(chain) :
        \/ chain'[n] = chain[n]
        \/ /\ chain'[n] = fork' /\ fork < fork'
           /\ n > Len(chain) - confirmationBlocks - window
  BY <1>0, <1>2, Constants
<1>5. ForksInOrder'
  BY <1>0, <1>2, <1>3 DEF ForksInOrder
<1>6. /\ Len(chain) <= Len(chain') /\ Len(chain') <= MaxHead /\ fork <= fork' /\ fork' \in Nat
      /\ UNCHANGED <<blocks, latest_block_indexed, latest_chain_seqno, poll, failures, overlaps,
                   flagsDue>>
  BY <1>0, <1>3 DEF Reorg, database
<1>7. QED BY <1>3, <1>4, <1>5, <1>6, ChainMoves

-----------------------------------------------------------------------------
LEMMA IndexerInitInv == IndexerInit => IndexerInv
<1> SUFFICES ASSUME IndexerInit PROVE IndexerInv
  OBVIOUS
<1>1. /\ chain \in Seq(Nat) /\ Len(chain) = 0 /\ fork = 0 /\ overlaps = 0 /\ failures = 0
      /\ latest_block_indexed = 0 /\ latest_chain_seqno = 0
      /\ \A n \in Height : blocks[n] = none
      /\ \A p \in Poll : poll[p] = Idle
      /\ blocks \in [Height -> BlockRow \cup {none}]
  BY EmptySeq DEF IndexerInit
<1>2. Idle \in PollState /\ Idle.at = "idle" /\ Idle.seqno = 0
  BY DEF Idle, PollState
<1>3. IndexerTypeOK
  <2>1. poll \in [Poll -> PollState] /\ flagsDue \in BOOLEAN
    BY <1>2 DEF IndexerInit
  <2>2. 0 \in 0 .. MaxHead /\ 0 \in 0 .. MaxFailures /\ 0 \in 0 .. MaxOverlaps
    BY IndexerAssumption
  <2>3. Len(chain) <= MaxHead /\ fork \in Nat
    BY <1>1, Constants
  <2>4. QED BY <1>1, <2>1, <2>2, <2>3 DEF IndexerTypeOK
<1>4. ForksInOrder
  BY <1>1 DEF ForksInOrder
<1>5. DatabaseInv
  <2>1. \A n \in Height : ~ (first <= n /\ n <= latest_block_indexed)
    BY <1>1, Constants DEF Height
  <2>2. QED BY <1>1, <2>1 DEF DatabaseInv, Sound, CursorStored, NoGap, FreshUpTo, StaleIn
<1>6. PollInv
  BY <1>1, <1>2 DEF PollInv, PollSound, PollAlone, OnePoll
<1>7. QED BY <1>3, <1>4, <1>5, <1>6 DEF IndexerInv

LEMMA IndexerStep == IndexerInv /\ [IndexerNext]_indexerVars => IndexerInv'
<1> SUFFICES ASSUME IndexerInv, [IndexerNext]_indexerVars PROVE IndexerInv'
  OBVIOUS
<1>1. ASSUME NEW p \in Poll, StartPoll(p) PROVE IndexerInv'
  BY <1>1, StartPollInv
<1>2. ASSUME NEW p \in Poll, Answer(p) PROVE IndexerInv'
  BY <1>2, ReadHeadInv, RevalidateInv, CheckStoredInv, FetchHeaderInv, FetchTransactionsInv,
     ConfirmBlocksInv DEF Answer
<1>3. ASSUME NEW p \in Poll, FailPoll(p) PROVE IndexerInv'
  <2>1. poll' = [q \in Poll |-> IF q \in {p} THEN Idle ELSE poll[q]]
    BY <1>3 DEF FailPoll, IndexerInv, IndexerTypeOK
  <2>2. flagsDue' \in BOOLEAN
    BY <1>3 DEF FailPoll, IndexerInv, IndexerTypeOK
  <2>3. QED BY <1>3, <2>1, <2>2, EndInv DEF FailPoll, database
<1>4. ASSUME Restart PROVE IndexerInv'
  <2>1. poll' = [q \in Poll |-> IF q \in Poll THEN Idle ELSE poll[q]]
    BY <1>4 DEF Restart
  <2>2. flagsDue' \in BOOLEAN
    BY <1>4 DEF Restart, IndexerInv, IndexerTypeOK
  <2>3. QED BY <1>4, <2>1, <2>2, EndInv DEF Restart, database
<1>5. ASSUME NewBlock PROVE IndexerInv'
  BY <1>5, NewBlockInv
<1>6. ASSUME NEW h \in 0 .. MaxHead, Reorg(h) PROVE IndexerInv'
  BY <1>6, ReorgInv
<1>7. ASSUME UNCHANGED indexerVars PROVE IndexerInv'
  BY <1>7 DEF indexerVars, database, IndexerInv, IndexerTypeOK, ForksInOrder, DatabaseInv,
     PollInv, Sound, CursorStored, NoGap, FreshUpTo, StaleIn, PollSound, PollAlone, OnePoll,
     Sequential, Settled
<1>8. QED BY <1>1, <1>2, <1>3, <1>4, <1>5, <1>6, <1>7 DEF IndexerNext

LEMMA IndexerInvariant == IndexerSpec => []IndexerInv
BY IndexerInitInv, IndexerStep, PTL DEF IndexerSpec

(* The tables and the polls in progress keep their types                   *)
(* (indexer-service.ts, syncBlocks; database.ts).                          *)
THEOREM IndexerTypes == IndexerSpec => []IndexerTypeOK
<1>1. IndexerInv => IndexerTypeOK
  BY DEF IndexerInv
<1>2. QED BY <1>1, IndexerInvariant, PTL

(* Polling skips no block (indexer-service.ts, syncBlocks and              *)
(* processBlock; database.ts, handleReorg).                                *)
THEOREM NothingSkipped == IndexerSpec => []Contiguous
<1>1. IndexerInv => Contiguous
  BY DEF IndexerInv, DatabaseInv, Contiguous, NoGap, CursorStored
<1>2. QED BY <1>1, IndexerInvariant, PTL

(* What is wrong lies in the window the next poll compares                 *)
(* (indexer-service.ts, revalidateIndexedRange).                           *)
THEOREM WindowCoversStale == IndexerSpec => []StaleWithinWindow
<1>1. IndexerInv => StaleWithinWindow
  BY DEF IndexerInv, DatabaseInv, StaleWithinWindow, FreshUpTo, StaleIn, Stale
<1>2. QED BY <1>1, IndexerInvariant, PTL

(* Which steps take a stored block away: a rollback by re-validation.      *)
LEMMA RollbackStep ==
  ASSUME IndexerInv, [IndexerNext]_indexerVars, Sequential,
         NEW n \in Height, blocks[n] # none, blocks'[n] = none
  PROVE  \E m \in 1 .. n : blocks[m] # none /\ blocks[m].hash # chain[m]
<1>0. blocks \in [Height -> BlockRow \cup {none}] /\ poll \in [Poll -> PollState]
  BY DEF IndexerInv, IndexerTypeOK
<1>1. \A b, upTo : b \in [Height -> BlockRow \cup {none}] /\ b[n] # none =>
        markBlocksConfirmed(b, upTo)[n] # none
  BY MarkedIsSame
<1>2. ASSUME NEW p, NEW b \in [Height -> BlockRow \cup {none}], NEW c, NEW k, NEW e, NEW s,
             SyncFrom(p, b, c, k, e, s)
      PROVE  b[n] = none
  BY <1>2 DEF SyncFrom
<1>3. ASSUME NEW p, NEW b \in [Height -> BlockRow \cup {none}], NEW c, NEW s,
             SyncForward(p, b, c, s)
      PROVE  b[n] = none
  BY <1>2, <1>3 DEF SyncForward
<1>4. ASSUME NEW p, NEW k, NEW l, NEW s, RevalidateFrom(p, k, l, s) PROVE FALSE
  BY <1>0, <1>3, <1>4 DEF RevalidateFrom
<1>5. ASSUME blocks' = blocks PROVE FALSE
  BY <1>5
<1>6. ASSUME NEW p \in Poll, FetchTransactions(p) PROVE FALSE
  <2>1. PICK events \in {chain[poll[p].block], Missing} :
          SyncFrom(p, StoreBlock(blocks, poll[p].block, poll[p].hash, events), poll[p].block,
                   poll[p].block + 1, poll[p].batchEnd, poll[p].seqno)
    BY <1>6 DEF FetchTransactions
  <2>2. PICK row : row = [hash |-> poll[p].hash, events |-> events, confirmed |-> FALSE]
    OBVIOUS
  <2>3. row \in BlockRow
    <3>1. PollSound(p) /\ poll[p] \in PollState /\ chain \in Seq(Nat) /\ poll[p].at = "transactions"
      BY <1>0, <1>6 DEF IndexerInv, PollInv, IndexerTypeOK, FetchTransactions
    <3>2. poll[p].block \in 1 .. Len(chain) /\ poll[p].hash \in Nat
      <4>1. Len(chain) \in Nat /\ poll[p].seqno \in Nat /\ poll[p].hash \in Nat
        BY <3>1, LenProperties DEF PollState
      <4>2. /\ poll[p].block \in Height /\ poll[p].block <= poll[p].seqno - confirmationBlocks
            /\ poll[p].seqno <= Len(chain)
        BY <3>1 DEF PollSound
      <4>3. QED BY <4>1, <4>2, Constants DEF Height
    <3>3. events \in Nat \cup {Missing}
      BY <2>1, <3>1, <3>2, ElementOfSeq
    <3>4. QED BY <2>2, <3>2, <3>3 DEF BlockRow
  <2>4. PICK b : b = [blocks EXCEPT ![poll[p].block] = row]
    OBVIOUS
  <2>5. b \in [Height -> BlockRow \cup {none}] /\ b[n] # none
    BY <1>0, <2>3, <2>4, NoneAssumption
  <2>6. SyncFrom(p, b, poll[p].block, poll[p].block + 1, poll[p].batchEnd, poll[p].seqno)
    BY <2>1, <2>2, <2>4 DEF StoreBlock
  <2>7. QED BY <1>2, <2>5, <2>6
<1>7. ASSUME NEW p \in Poll, Revalidate(p)
      PROVE  \E m \in 1 .. n : blocks[m] # none /\ blocks[m].hash # chain[m]
  <2> DEFINE m == poll[p].block
  <2>1. /\ PollSound(p) /\ PollAlone(p) /\ poll[p].at = "revalidate"
    BY <1>7 DEF IndexerInv, PollInv, Revalidate
  <2>2. m \in Height /\ blocks[m] # none /\ poll[p].stored = blocks[m].hash
    BY <2>1 DEF PollSound, PollAlone
  <2>3. /\ chain[m] # poll[p].stored
        /\ SyncForward(p, DeleteFrom(blocks, m), CursorAfterReorg(blocks, m), poll[p].seqno)
    BY <1>4, <1>7 DEF Revalidate
  <2>4. PICK b : b = DeleteFrom(blocks, m)
    OBVIOUS
  <2>5. /\ b \in [Height -> BlockRow \cup {none}]
        /\ b[n] = IF n >= m THEN none ELSE blocks[n]
    BY <1>0, <2>4 DEF DeleteFrom
  <2>6. n >= m
    BY <1>3, <2>3, <2>4, <2>5
  <2>7. m \in 1 .. n
    BY <2>2, <2>6, Constants DEF Height
  <2>8. QED BY <2>2, <2>3, <2>7
<1>8. ASSUME NEW p \in Poll, CheckStored(p) PROVE FALSE
  BY <1>8 DEF CheckStored, IndexerInv, PollInv, PollAlone
<1>9. ASSUME NEW p \in Poll, ReadHead(p) PROVE FALSE
  BY <1>4, <1>9 DEF ReadHead
<1>10. ASSUME NEW p \in Poll, ConfirmBlocks(p) PROVE FALSE
  BY <1>0, <1>1, <1>10 DEF ConfirmBlocks
<1>11. QED BY <1>5, <1>6, <1>7, <1>8, <1>9, <1>10 DEF IndexerNext, Answer, StartPoll, FailPoll,
         FetchHeader, Restart, NewBlock, Reorg, indexerVars, database

(* A stored block is only taken back with cause (indexer-service.ts,       *)
(* detectAndHandleReorg; database.ts, handleReorg).                        *)
THEOREM RollbackHasCause == IndexerSpec => RollbackNeedsReorg
<1>1. IndexerInv /\ [IndexerNext]_indexerVars =>
        [Sequential => \A n \in Height : (blocks[n] # none /\ blocks'[n] = none) =>
           \E m \in 1 .. n : blocks[m] # none /\ blocks[m].hash # chain[m]]_indexerVars
  BY RollbackStep
<1>2. QED BY <1>1, IndexerInvariant, PTL DEF IndexerSpec, RollbackNeedsReorg
=============================================================================
