--------------------------- MODULE LendingAdapter ---------------------------
(***************************************************************************)
(* backend/adapters/coinrabbit.ts: borrower identity, collateral signals   *)
(* and loan intents, read from the chain at a snapshot. Every read is an   *)
(* await: the chain moves on, and time passes, between the snapshot and    *)
(* the reads. chainGateway answers with the state of the snapshot's block, *)
(* or fails; it may hand out a block it observed some time ago.            *)
(***************************************************************************)
EXTENDS Naturals, Sequences

CONSTANTS Owner,              \* addresses that may own the NFT
          Nobody,             \* no owner
          MaxSnapshotAge,     \* maxSnapshotAgeSeconds
          MaxBlock,           \* blocks (a bound)
          MaxInstant          \* clock (a bound)

ASSUME LendingAssumption == MaxSnapshotAge \in Nat

VARIABLES chain,        \* the chain by block: the account's NFT and the signal
          observed,     \* when the gateway observed each block
          instant,      \* the clock
          inquiry,      \* the call of the adapter under way
          answer        \* what the last call answered

lendingVars == <<chain, observed, instant, inquiry, answer>>

(* The account: its item (a re-issued one has another address), whether it *)
(* is initialized and in a whitelisted collection, its owner; the signal:  *)
(* the item it was given for, whether it is active, whether it has expired.*)
Item == {"item", "re-issued item"}
Signal == [nftAddress : Item, isActive : BOOLEAN, expired : BOOLEAN]
ChainState ==
  [nftAddress : Item, initialized : BOOLEAN, whitelisted : BOOLEAN,
   ownerAddress : Owner \cup {Nobody}, signal : Signal]

Inquiry == {"identity", "collateral", "intent", "metadata"}
NoInquiry == [pc |-> "idle"]
At(pc) == inquiry.pc = pc

(* An answer: its verdict, the blocks its two parts are of (0: it has no   *)
(* such part), the owner that was asked about, when it was asked for.      *)
NoAnswer == [kind |-> "none", status |-> "none", identityBlock |-> 0, collateralBlock |-> 0,
             owner |-> Nobody, askedAt |-> 0]

-----------------------------------------------------------------------------
(* What the adapter derives from the data it has read. An account that     *)
(* does not exist, or answers with another id, is one not initialized.     *)
isValidIdentity(data, owner) ==
  /\ data.initialized /\ data.ownerAddress # Nobody /\ data.whitelisted
  /\ owner # Nobody => data.ownerAddress = owner

isValidSignal(signal, nftAddress) == signal.nftAddress = nftAddress /\ signal.isActive

(* getUsableSnapshot: not too old when it is handed out.                   *)
usableSnapshot(b) == instant - observed[b] <= MaxSnapshotAge

Continue(next) == inquiry' = next /\ UNCHANGED <<chain, observed, instant, answer>>
Finish(status, identityBlock, collateralBlock) ==
  /\ answer' = [kind |-> inquiry.kind, status |-> status, identityBlock |-> identityBlock,
                collateralBlock |-> collateralBlock, owner |-> inquiry.owner, askedAt |-> inquiry.askedAt]
  /\ inquiry' = NoInquiry
  /\ UNCHANGED <<chain, observed, instant>>

-----------------------------------------------------------------------------
(* A call; the owner is an argument of resolveBorrowerIdentity alone. An   *)
(* id of the wrong form is refused before anything is awaited.             *)
Start(kind, wellFormed, owner, signalId) ==
  /\ inquiry = NoInquiry
  /\ kind # "identity" => owner = Nobody
  /\ inquiry' = [pc |-> IF wellFormed THEN "snapshot" ELSE "malformed", kind |-> kind,
              leg |-> IF kind = "collateral" THEN "collateral" ELSE "identity",
              owner |-> owner, signalId |-> signalId, identityBlock |-> 0,
              block |-> 0, nftAddress |-> "item", askedAt |-> instant]
  /\ answer' = NoAnswer
  /\ UNCHANGED <<chain, observed, instant>>

isValidNFTAccountId ==
  /\ At("malformed")
  /\ Finish(IF inquiry.kind = "intent" THEN "refused" ELSE "invalid", 0, 0)

(* The identity is known: an intent is refused, or goes on to its signal;  *)
(* the metadata for lenders is answered whatever the identity.             *)
EndIdentity(status, block) ==
  IF inquiry.kind = "intent" /\ status = "verified" /\ inquiry.signalId
  THEN Continue([inquiry EXCEPT !.pc = "snapshot", !.leg = "collateral", !.identityBlock = block])
  ELSE Finish(CASE inquiry.kind = "intent" /\ status # "verified" -> "refused"
                [] inquiry.kind = "metadata" -> "metadata"
                [] OTHER -> status,
              IF status = "verified" /\ inquiry.kind # "metadata" THEN block ELSE 0, 0)

(* The signal is known: an intent is made with or without it.              *)
EndCollateral(status, block) ==
  LET verified == status = "verified"
  IN Finish(IF inquiry.kind = "intent" THEN "verified" ELSE status,
            IF inquiry.kind = "intent" THEN inquiry.identityBlock ELSE IF verified THEN block ELSE 0,
            IF verified THEN block ELSE 0)

EndLeg(status, block) ==
  IF inquiry.leg = "identity" THEN EndIdentity(status, block) ELSE EndCollateral(status, block)

(* An old snapshot, and a gateway that fails, is no snapshot.              *)
getUsableSnapshot ==
  /\ At("snapshot")
  /\ \/ \E b \in DOMAIN chain : usableSnapshot(b) /\ Continue([inquiry EXCEPT !.pc = "account", !.block = b])
     \/ EndLeg("unavailable", 0)

resolveBorrowerIdentity ==
  /\ At("account") /\ inquiry.leg = "identity"
  /\ \/ EndIdentity(IF isValidIdentity(chain[inquiry.block], inquiry.owner) THEN "verified" ELSE "unverified",
                    inquiry.block)
     \/ EndIdentity("unavailable", 0)

resolveBorrowerIdentityAtSnapshot ==
  /\ At("account") /\ inquiry.leg = "collateral"
  /\ LET data == chain[inquiry.block]
     IN \/ /\ isValidIdentity(data, Nobody)
           /\ Continue([inquiry EXCEPT !.pc = "signal", !.nftAddress = data.nftAddress])
        \/ /\ ~ isValidIdentity(data, Nobody)
           /\ EndCollateral("unverified", inquiry.block)
        \/ EndCollateral("unavailable", inquiry.block)

VerifyAtLatestBlock ==
  /\ At("signal")
  /\ EndCollateral(IF isValidSignal(chain[Len(chain)].signal, inquiry.nftAddress)
                   THEN "verified" ELSE "unverified", inquiry.block)

(* getCollateralSignal at the same snapshot. Whether the signal has        *)
(* expired is passed on and not looked at.                                 *)
verifyCollateralSignal ==
  /\ At("signal")
  /\ \/ EndCollateral(IF isValidSignal(chain[inquiry.block].signal, inquiry.nftAddress)
                      THEN "verified" ELSE "unverified", inquiry.block)
     \/ EndCollateral("unavailable", inquiry.block)

-----------------------------------------------------------------------------
(* The chain and the clock.                                                *)
Change(s, t) ==
  \/ \E o \in Owner \cup {Nobody} : t = [s EXCEPT !.ownerAddress = o]
  \/ t = [s EXCEPT !.nftAddress = "re-issued item"]
  \/ t = [s EXCEPT !.initialized = ~ @]
  \/ t = [s EXCEPT !.whitelisted = ~ @]
  \/ \E g \in Signal : t = [s EXCEPT !.signal = g]
NewBlock ==
  /\ Len(chain) < MaxBlock
  /\ \E s \in {t \in ChainState : Change(chain[Len(chain)], t)} : chain' = Append(chain, s)
  /\ observed' = Append(observed, instant)
  /\ UNCHANGED <<instant, inquiry, answer>>
PassClock ==
  /\ instant < MaxInstant
  /\ instant' = instant + 1
  /\ UNCHANGED <<chain, observed, inquiry, answer>>

LendingInit ==
  /\ chain \in {<<s>> : s \in {s \in ChainState : s.initialized /\ s.whitelisted /\ s.nftAddress = "item"}}
  /\ observed = <<0>> /\ instant = 0
  /\ inquiry = NoInquiry /\ answer = NoAnswer

LendingNext ==
  \/ \E kind \in Inquiry, wellFormed, signalId \in BOOLEAN, owner \in Owner \cup {Nobody} :
       Start(kind, wellFormed, owner, signalId)
  \/ isValidNFTAccountId \/ getUsableSnapshot
  \/ resolveBorrowerIdentity \/ resolveBorrowerIdentityAtSnapshot \/ verifyCollateralSignal
  \/ NewBlock \/ PassClock

LendingSpec == LendingInit /\ [][LendingNext]_lendingVars

-----------------------------------------------------------------------------
(* Although the chain moves on while a call waits, what an answer verifies *)
(* was true of the chain at one block: the account and the item its signal *)
(* was given for, together (verifyCollateralSignal). That block was not    *)
(* too old when the answer was asked for (getUsableSnapshot).              *)
VerifiedAtBlock ==
  /\ answer.identityBlock # 0 => isValidIdentity(chain[answer.identityBlock], answer.owner)
  /\ answer.collateralBlock # 0 =>
       LET s == chain[answer.collateralBlock]
       IN isValidIdentity(s, Nobody) /\ s.signal.isActive /\ s.signal.nftAddress = s.nftAddress
  /\ \A b \in {answer.identityBlock, answer.collateralBlock} \ {0} :
       observed[b] + MaxSnapshotAge >= answer.askedAt

(* "a collateral signal exists and is active" (coinrabbit.ts, line 223),   *)
(* of one that has expired: refuted, expiresAt is passed on and never      *)
(* compared.                                                               *)
VerifiedIsNotExpired ==
  answer.collateralBlock # 0 => ~ chain[answer.collateralBlock].signal.expired

(* An intent shows a borrower and a collateral of one moment. Refuted:     *)
(* createLoanIntent takes a snapshot for each of them.                     *)
IntentIsOfOneBlock ==
  answer.kind = "intent" /\ answer.collateralBlock # 0 => answer.identityBlock = answer.collateralBlock
=============================================================================
