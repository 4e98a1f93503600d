# TON bank card protocol: TLA+ verification

This directory holds TLA+ models of the protocol, the TLC configurations that
check them on small instances, and TLAPS proofs for every instance. Every
definition that models code is listed in `PROJECT.json` under `map` with the
lines it stands for.

## 1. The system

A *card* is an NFT. Whoever owns the NFT controls the account keyed by its
address. The on-chain part is a set of TON contracts: each handles one message
at a time, a handler that throws changes nothing, and contracts only learn of
one another's state through messages. The off-chain part indexes the chain and
serves merchants.

| Part | State it keeps | Operations | Talks to |
|---|---|---|---|
| Merchant payment hub (`contracts/MerchantPaymentHub.tact`) | balances, states, locks and owners per card; consumed deposit ids; admin and whitelist with a pending change each | payment, owner registration/refresh, deposit, lock update, whitelist and admin propose/execute/cancel | receives from resolver, lock contract, settlement |
| Account locks (`contracts/payments/account-locks.fc`) | fraud and collateral flag per card, two roles with pending transfers, bound hub | bind, set/clear of each flag, role transfers | pushes each change to the hub |
| Owner resolver (`contracts/nft-resolver/VerifiedNFTAccountResolver.tact`) | registered items, one open query per item, counter | register, refresh, answer, bounce, cleanup | NFT items, hub |
| Payment hub (`contracts/payments/PaymentHub.tact`, `payment-hub.fc`) | accounts, collections, admin | internal transfer, whitelist, register, admin transfer | - |
| Multi-sig card (`contracts/MultiSigCard.tact`) | signer set and threshold per card, proposals, approvals | configure, submit, approve, reject, execute, remove | external payment hub |
| Recurring payments (`contracts/RecurringPayments.tact`) | a mandate per card and id, with count and time of its charges | create, cancel, execute | the charges it emits are followed by the hub |
| Bridge, lending coordinator, collateral signal (`contracts/CrossChainBridge.tact`, `LendingProtocolCoordinator.tact`, `CollateralSignal.tact`) | an intent per card and id, an intent per card, a signal per card | register, confirm, cancel, update, release | read by the adapters |
| Governance (`contracts/governance/*`) | proposals, votes, pending ownership and eligibility requests, config change | submit, vote (two asynchronous look-ups), finalize, configure | snapshot verifier, resolver |
| Indexer (`backend/indexer`) | blocks, events, account snapshots, cursor | poll, reorg handling, confirmation | TON API, database |
| Invoice service (`api/src/services/InvoiceService.ts`) | invoices, idempotency records | create, expire, settle, clean up | indexer, merchants |
| API gateway (`api/src`: keys, routes, limiters, start-up) | keys in memory and in PostgreSQL, an authorisation cache, counters | issue, rebind, revoke, authenticate, authorise, limit | invoice service |
| Webhooks (`api/src/services/WebhookService.ts`, both SDKs) | endpoints with encrypted secrets | register, deliver, verify | name service, merchants |
| Adapters (`backend/adapters`) | none; they answer new records for old ones | borrower identity, collateral, loan intents; proposals, mandates, bridge intents, swaps, payments | chain gateway, providers and their callbacks |
| Merchant SDK (`sdk`, `sdk-python`) | local invoices, a mock | create invoice, verify settlement, status | chain, API |
| Wallet page (`wallet-ui`) | session per tab, one entry of local storage, what is drawn | connect, reply, cancel, disconnect, mount, navigate | wallet apps |
| Mobile app (`mobile-app`) | form, hand-offs in progress; session in memory and in the secure store | submit, confirm, authenticate, open; restore, connect, disconnect | wallet apps, key-chain |
| Dashboards and widget (`dashboard`, `sdk/src/widget`) | data, view, what is drawn | mount, set data, navigate, generate a link | host page |
| Readiness gates (`scripts/*/check-*-readiness.ts`) | none; they read documents | run, strict run, report | continuous integration |

### What is hard in it

* The hub's copies of the locks and of the NFT owner lag behind the contracts
  they come from: messages are in flight while payments are made.
* Owner queries expire, are replaced and are answered late; NFTs are
  transferred meanwhile.
* Deposits may be delivered twice; an account may pay itself.
* Roles change hands through a 7-day timelock that may be proposed again,
  cancelled or executed late.
* Multi-sig proposals outlive the configuration they were approved under.
* Governance acts on a vote only after two asynchronous look-ups; Diamonds are
  sold, requests expire and voting ends in between.
* The indexer's polls overlap, the chain reorganises under it, fetches fail.
* Equal invoice requests run at once over stores that know no transactions, may
  die between any two awaits, and meet expiry, cleanup and settlement.
* A mandate, a proposal or an intent is created again under the same id;
  confirmations and cancellations of one intent cross.
* API keys are rebound, revoked or expire between the awaits of a request, next
  to a cache and to an issue that is not stored yet.
* Webhooks are delayed and copied, hosts resolve differently, the service
  restarts with another encryption key.
* Wallet replies come late, after another choice or in another tab; the form
  changes under a biometric prompt; connector calls overlap.
* Adapters and SDK read the chain several times in a call while it moves on;
  providers repeat callbacks in another order.

The full list, line by line, is under `hazards` in `PROJECT.json`.

### What makes each part correct

| Part | Correct when |
|---|---|
| Merchant payment hub | money is neither made nor lost, none is left where nobody can spend it, the admin changes only through the timelock |
| Account locks with the hub | the hub's copy lags only by the messages in flight, in order; a delivered lock stops spending; every change takes effect |
| Owner resolver with the hub | the recorded owner is one the card had, never an older one than before; an answer belongs to the query it is taken for; capacity is released once |
| Multi-sig card | a payment has the approvals of enough different signers for these very terms |
| Recurring payments | charges under a mandate stay within its merchant, amount, period and number, and end with it |
| Bridge, lending coordinator | an intent ends once per registration, and what is stored is how |
| Governance | one vote per Diamond, by a holder, for an eligible Diamond, inside the window; outcomes do not change; configuration needs quorum and timelock |
| Indexer | no height is skipped, nothing that lost stays, nothing is undone without cause, it catches up |
| Indexer database | what is derived (snapshots, period rows, cached histories) agrees with the events that are stored |
| Invoice service | equal requests converge, what was issued stays until it expires, outcomes are final and rest on a confirmed payment, every call ends |
| API gateway | data of an invoice go only to a key that was good for its merchant during the request; a revoked key stays revoked |
| Webhooks | what a merchant accepts was sent to it, lately, unchanged |
| Adapters | what an answer verifies was true at one recent block; a record never claims more than what backs it |
| Merchant SDK | a positive verdict is true of the chain |
| Wallet page, mobile app, dashboards | what is shown is the present state; what is opened is what was confirmed; the last call decides |
| Readiness gates | a pass means all documents are there, complete and consistent |

## 2. The modules

An action is a whole message handler on chain, because transactions are atomic
and a handler that throws changes nothing. Off chain it is what runs between two
awaits, or between two events of a page. Definitions carry the names of the code. Variables called history in a
module's header are read by no guard.

| Module | Models | State | Notes |
|---|---|---|---|
| `ChainTime` | `now()`, absent map entries | `now` | extended by all contract modules |
| `TimelockedRole` | *abstract*: what a timelocked role promises | holder, open handover | implemented by the three roles below |
| `MerchantPaymentHub` | the hub | as stored; absent balances are 0 | any address may send any message |
| `AccountLocks` | the lock contract | as stored, plus `lockMsgs`, its messages in flight | FIFO, as TON guarantees per pair of contracts |
| `VerifiedNFTAccountResolver` | the resolver | as stored, plus messages to items and to the hub | answers of different items come in any order |
| `CardProtocol` | hub, locks and resolver composed, with NFT items that are transferred | the above, and the owners each item has had | items are external; modelled after the test harness |
| `CardOwners` | the owner check of the contracts below | `nft_owners` | owners are registered once, as the test harnesses do |
| `MultiSigCard` | the multi-sig card | as stored; hashed keys are the tuples they bind | |
| `RecurringPayments` | mandates | as stored, plus the charges emitted (history) | |
| `CardIntents` | bridge, lending coordinator, collateral signal | as stored, plus how each registration ended (history) | the harness authorises relayers |
| `RegistryConfig`, `ProposalRegistry` | the proposal registry: configuration, proposals and votes | as stored, plus messages | requests held under a query id between look-ups |
| `SnapshotVerifier` | the verifier | a set of Diamonds per proposal | |
| `DiamondGovernance` | registry, verifier and an external resolver composed | the above, and the owners of each Diamond | |
| `Indexer` | polling, re-validation, commit, flagging, rollback | blocks, cursor, chain head; the polls in progress; the chain; `flagsDue` (history) | a hash is the number of its fork; the last commit of a poll and the flagging are two writes and two steps |
| `IndexerDatabase` | event tables, snapshots, period rows, history cache | the tables, as one set of rows with block, place, transaction and log index; `unsettled`, `outdated` (history) | one reporting period, one kind per pair of alike tables; any height may be stored at any time, over a stored one (INSERT OR REPLACE, with its cascade) or with events the table ignores (INSERT OR IGNORE) |
| `InvoiceService` | invoices and idempotency records | both stores; each request's progress; chain and payments | see below |
| `ApiGateway` | start-up, keys, cache, limiters, the guarded and the public routes | keys in memory and store, cache, counters, each request's progress | a key and its hash are one value |
| `WebhookService` | registration, address guard, encryption, signing, delivery; verification by both SDKs | endpoints, calls in progress, requests on the wire | a digest is the tuple it is computed from |
| `LendingAdapter` | identity, collateral and loan intents | a call's snapshots and reads; the chain | every read is an await |
| `AdapterRecords` | the records of the other adapters | one record, its provider, callbacks on the way | an adapter keeps no state: any sequence of operations; a record made from a callback notes whether `verifyCallback` accepts it (`vetted`, history), which the adapter leaves to the application |
| `MerchantSdk` | invoices, settlement checks, status, mock | local invoices, calls in progress; chain and API | `lookupBlock` of the API is external: the last block by a time or the first since, whichever block includes the transaction |
| `PaymentLink` | amounts and wallet links | none | shared by SDK, dashboard, mobile app |
| `WalletUI` | connector, selector and page in several tabs | session and page per tab, the shared storage | wallets answer late or never; those of `NamingWallet` name themselves in the reply, for the others the connector takes the wallet it waits for |
| `MobilePayment` | send and receive screens, biometric gate | form, hand-offs in progress | |
| `MobileConnector` | the connector over the secure store | session, stored entry, queue of continuations | calls of the store complete in order |
| `Dashboard` | both dashboards and the widget | state and what is drawn | |
| `ReadinessGates` | the five gates | marks in each document, missing files | words that make up a mark are left out |

`InvoiceService` follows `createInvoice` await by await: `Begin`, `Lookup`,
`Fetch`, `DropKey`, `DropInvoice`, `Store`, `Publish`, `Discard`, `Winner`,
`Unpublish`, `DropStale`, and `Fail`, by which a request dies between any two of
them. Reads that expire an invoice and the cleanup are `ExpireInvoice`,
`RemoveExpired`, `FindDangling` and `DeleteDangling`; a settlement event is
`ScanSettlement`, then `RecordSettlement`. An idempotency key is the pair of a
request's parameters and the expiry it asks for. Invoices are found by id,
payments name the invoice they are for, and a storage backend keeps what it
stored: with the default in-memory storage this describes one process without
crashes.

Modules whose name ends in `_proofs` hold theorems, those that begin with `MC`
the instances for TLC. `MCCardContracts`, `MCFrontends` and `MCServices` each put
components side by side that share no state and exchange no messages: a behaviour
is one of them, chosen at the start, while the others rest, so every component is
explored in full and no product of independent states is built. The SDK is two such
parts: calls over a chain, and the mock, which sees none.

The contract, indexer, governance and invoice modules have one type invariant each
(`...TypeOK`). It describes the state, and what an induction of section 4 needs of it is a
conjunct of its invariant; the runs leave it out in favour of what the types do not
say.

## 3. The runs

Each passing property has a mutant in `PROJECT.json`: a plausible slip in the code
that makes TLC find the property violated under the same configuration.

| Run | Question | Bounds, and why they suffice |
|---|---|---|
| `protocol_roles` | Do the hub's admin and both roles of the lock contract keep the promise of `TimelockedRole`? | one card, delays of 1 and 2 in a time of 4: a proposal, a re-proposal, and execution before, at and after the deadline |
| `protocol_locks` | Does the ledger hold, do locks reach the hub, in order, and stop spending? | two cards (also one paying itself), a deposit delivered any number of times, two lock messages in flight: a change overtaken by a later one |
| `protocol_owners` | What can a late or replaced owner query do? | one query slot and two competing cards, three queries, one transfer each, expiry after 1 of 2 ticks; a second target besides the hub, a second collection |
| `card_contracts` | Does every payment have its quorum, does a mandate bound its charges, does an intent end once? | an owner who may be a signer, two more signers; a proposal id submitted again at will, amounts 0 (refused) to 2, two payments; periods of 1 and 2 and limits of 0 to 2 charges in a time of 5, re-creation at will; two bridge intents and one lending intent, each registered twice, a relayer, chains on both sides of the limit |
| `multisig_paid_twice` | Is an id paid at most once? | as above; violated |
| `indexer` | Gaps, stale blocks, rollbacks without need, catching up? And after an overlap: does the cursor name a stored block? | chain of 7, batches of 2, depth 2, reorganisations up to 4 deep (twice what the indexer re-validates), 2 of them, 2 failures; one poll may start while another runs, on a chain of at most 4, which brings in the check of a stored block in forward sync |
| `indexer_gap` | Two polls: is no height skipped? | one reorganisation; violated |
| `indexer_db` | Do derived tables agree with the events? | two cards; blocks of none, one or two transactions, with a transfer of both cards, changes of one card by two transactions in both orders of log index, and two transactions without a hash, one of them ignored; two heights stored in any order and again, rolled back to any height |
| `governance` | Do votes and proposals stay sound across two look-ups? | two wallets, one Diamond that is transferred, room for two requests and one per wallet, five queries, two changes of configuration, one proposal, expiry and end of the vote within reach |
| `invoices` | Do concurrent creates converge, and is nothing lost or settled wrongly? | two callers at once, one request three times, or an early expiry twice or followed by the default; the clock passes every expiry; more ids than any run uses |
| `frontends` | Do pages show what is so, do hand-offs carry what was confirmed, are verdicts true? | two tabs, one of them displayed; two hand-offs, two accounts, amounts on both sides of the rounding; three connector calls in progress and an unreadable entry; three wallets on offer, of which two name themselves; one check of one transaction, failed, foreign or paying, included at once, later or never, over three blocks and two seconds: a block sealed before, at and after the transaction's time |
| `services` | Who is served, what is accepted, what do answers and passes mean? | two keys (one the sandbox's), two merchants, limits of 1; one endpoint, two secrets, two encryption keys, three seconds with a tolerance of 1; two blocks and a snapshot too old; three signers, mandates of up to three executions, callbacks repeated and swapped; each document losing one mark and one file missing |

Deadlock checking is off where the model stops because a bound is reached (time
is over, all deposits were made) or a page is closed; `indexer`,
`indexer_gap` and `indexer_db` keep it on.

### Fairness

* `protocol_locks`: weak fairness of the delivery of a message that is in
  flight. TON delivers every message; no user, role or item has to act.
* `indexer`: the timer fires again after a poll (`setInterval`), an answer that
  is outstanding arrives or counts as a failure, a poll that has stored its last
  block goes on to flag (nothing is awaited in between), and the chain grows. Failures and
  reorganisations are finitely many by their bounds, without which nothing
  would have to be stored at all.
* `invoices`: an await of a request in progress settles. Nothing is assumed of
  the cleanup, of payments or of the clock.

### What two of the runs show to be otherwise

* **A proposal id can be paid twice** (`multisig_paid_twice`).
  `SubmitPaymentProposal` stores a pending proposal under an id whatever is there
  (`MultiSigCard.tact:297`), an executed one included. Line 468 says "so a
  proposal is either fully executed (once) or not at all"; `SPECIFICATION.md:124`
  that a proposal "cannot re-enter `PENDING`".
* **Overlapping polls can skip a block** (`indexer_gap`). The timer does not wait
  for the previous poll (`indexer-service.ts:132`). One poll rolls back while
  another is between a header and its commit; the second then moves the cursor
  past the heights just deleted. `REORG_HANDLING.md:513` says "Indexer handles
  one at a time" and "Will eventually catch up". With one poll at a time both are
  true (`indexer`: `Contiguous`, `CatchesUp`), and when polls do overlap
  the cursor is still at a stored block.

`CatchesUp` has one exception, and the code needs it: a poll whose last commit went
through and that ended before the flagging (`indexer-service.ts:246`) leaves its blocks
unflagged, and the next poll returns at `:221` before it flags, until the chain grows.
`flagsDue` is true in this case only.

### Further divergences

Each of these properties is defined in the module named. TLC refutes it when it
takes the place of the properties in the configuration that explores the module,
with one exception: `InvoiceIdsAreUnique` needs `MaxLocal = 2`. They are part of no
run; the two that are said to be *without* a name are the property of `indexer_db` when
the cards of that name are not excepted. All need a narrow window or an unusual input.

| Property | What is said | What the code does |
|---|---|---|
| `PayerIsCurrentOwner` (`CardProtocol`) | `docs/invariants.md:143` "No cached ownership records for fund control decisions", `:155` "Previous owner cannot transact after NFT transfer" | the hub checks the owner of its last refresh (`MerchantPaymentHub.tact:309`) until the next one |
| `FreshApprovalRound` (`MultiSigCard`) | `docs/multisig/WALLET_UX.md:153` "a fresh approval round will be needed" | approvals outlive a submission: who approved before is refused (`MultiSigCard.tact:345`) and the new round may never complete |
| `EventsStoredWithBlock` (`Indexer`) | `docs/error-codes.md:415`, warnings are for degradations that "**do not** lose data" | a failed request for a block's transactions is logged and counts as empty (`indexer-service.ts:668`); the block is stored and not fetched again |
| `FlagAgreesWithStatus` (`Indexer`) | `REORG_HANDLING.md:90` "the `confirmed` flag and the API status can never disagree" | the head is stored at the start of a poll, the flag set at its end; and a poll that dies between its last commit and the flag leaves the last batch unflagged until the chain grows, as the next one returns early (`indexer-service.ts:221`) |
| `PeriodSurvivesRollback` (`IndexerDatabase`) | `REORG_HANDLING.md:294` "The canonical chain re-emits the aggregate on re-index" | the earlier report's block is below the rollback and is not indexed again |
| `RebuiltInChainOrder` (`IndexerDatabase`) | `database.ts:285` "chain order = block then log index" | a log index counts within its transaction (`indexer-service.ts:845`), so of two transactions of a block that change one card the earlier may sort last, and the rebuilt snapshot (`database.ts:290`, `:300`) is its |
| `SnapshotsMatchEvents` without `unsettled` (`IndexerDatabase`) | `database.ts:225` "keep indexed state mirroring on-chain truth" | only a rollback rebuilds: an event that the table ignores (`database.ts:362`) is written to the snapshot, a replaced block's events (`:166`) leave it as it was, and the events of a block stored below others count as the latest |
| `CachedHistoryIsCurrent` without `outdated` (`IndexerDatabase`) | a cached history is that of the tables | the cascade of a replaced block (`database.ts:166`) takes rows and drops no entry |
| `OneLiveInvoicePerRequest` (`InvoiceService`) | `docs/merchant-api-spec.md:306` "Same request parameters return same invoice ID within expiry window" | a request that found an expired invoice deletes the key without looking again (`InvoiceService.ts:266-270`), also when another request has published a new invoice under it meanwhile |
| `SettledIsKept` (`InvoiceService`) | `merchant-api-spec.md:663` "`settled` → (terminal state, no further transitions)" | the expired invoice deleted at `InvoiceService.ts:268` may be a settled one |
| `StoredWithTimeLeft` (`InvoiceService`) | `InvoiceService.ts:281` "If validation fails, use default expiry" | the default goes into the request, the invoice keeps the expiry that has passed (`:282`, `:293`) |
| `MountedViewIsCurrent` (`WalletUI`) | `WalletApp.ts`: "Re-renders the UI on every status change" | `unmount` drops the subscription and `mount` does not take it up again |
| `EveryAddressBelongsToWallet` (`WalletUI`) | `connector.ts:230` takes a reply without `walletId` for one of the wallet waited for | a late reply of a wallet chosen earlier joins its address to the wallet chosen since |
| `ConnectedToLastChoice` (`WalletUI`) | the wallet connected to is the one chosen last | a late reply of an earlier choice is taken |
| `ConfirmedAmountIsShown` (`MobilePayment`) | the dialog tells the amount | amounts below half of the last place are shown as zero |
| `SessionSurvivesRestart` (`MobileConnector`) | a connected session is restored at the next start | `restore` deletes an unreadable entry without looking again, also when a connection has stored a good one meanwhile |
| `MountedWidgetOffersPayment` (`Dashboard`) | a mounted widget offers a payment | `updateAmount` with a bad amount empties the container and leaves the widget mounted |
| `DepthIsFromInclusion` (`MerchantSdk`) | `sdk.ts:344` "how many blocks were sealed on top of the block that included this transaction" | the block is looked up by the transaction's time (`sdk.ts:442`), which may be one before the block that includes it |
| `InvoiceIdsAreUnique` (`MerchantSdk`) | `sdk/src/utils.ts`, generateInvoiceId: "This ensures uniqueness" | two invoices of one second with equal amount and no order id share an id |
| `MockSeesItsStore` (`MerchantSdk`) | the example of MockSettlementStore in `mock.ts` | both sides copy the map, so what is settled later is not seen |
| `SettledIsNotExpired` (`MerchantSdk`) | a settled invoice is reported as settled | the expiry is looked at first |
| `NeighboursDoNotThrottle` (`ApiGateway`) | `rateLimiter.ts:11` "Merchants behind a shared NAT must not be throttled by their neighbours" | errors of one merchant, and successes not answered yet, count against every key of the address |
| `VerifiedIsNotExpired` (`LendingAdapter`) | `coinrabbit.ts:223` "a collateral signal exists and is active" | `expiresAt` is passed on and never compared |
| `IntentIsOfOneBlock` (`LendingAdapter`) | a loan intent shows borrower and collateral together | `createLoanIntent` takes a snapshot for each |
| `EveryExternalIsBacked` (`AdapterRecords`) | `nowpayments.ts:215` "This is called when a payment is confirmed" | `emitPaymentSettledEvent` maps whatever callback it is given; verification is a separate call |
| `ConfirmedIsFinal` (`AdapterRecords`) | "confirmed" ends a bridge intent | linking a provider transaction makes it pending again |
| `FinishedIsFinal` (`AdapterRecords`) | a finished payment is settled | an earlier callback that comes late takes the record back |
| `OncePerPeriod` (`AdapterRecords`) | a mandate is charged once per period | `recordExecution` does not ask `canExecute`; the contract does |
| `StrayItemsAreFound` (`ReadinessGates`) | `check-analytics-readiness.ts:1705` "Every AN-AH-N referenced from a doc must resolve" | analytics and dex look up listed ids only |
| `PendingVerdictBlocks` (`ReadinessGates`) | `check-multisig-readiness.ts:982`, the verdict is required "before MS-CH-N items are allowed to land" | a pending verdict whose line names READY passes |

Met while reading, and outside what the models distinguish:

* `LendingProtocolCoordinator.tact:92-102` lets RegisterLendingIntent leave NONE
  and CANCELLED only; the handler also replaces an ACTIVE intent, and
  `ERROR_LI_ALREADY_ACTIVE` is not used.
* `CollateralSignal.tact` releases a signal that was never given
  (`ERROR_CS_NO_SIGNAL` is not used), and an update may set any state.
* The getters `isMandateActive` and `isBridgeIntentPending` answer true for an
  unknown id, whose default record has status 0. `CancelMandate` accepts a completed
  mandate, the adapter refuses it.
* `TransparencyRegistry.tact:397` says "append-only - records cannot be modified
  after creation"; RecordProposal and RecordVotingResult overwrite and count again.
* `mock.ts:283` says that a payload hash is compared; it is not. A payment without a
  payload hash fits two invoices of equal amount.
* The Python SDK hashes the amount of an invoice id as typed, the TypeScript SDK
  trimmed.
* The gates match some ids inside longer ones (`AN-AH-1` in `R-AN-AH-1`), `= 5` in
  `= 50`, and "exactly one row" as at least one.

## 4. The proofs

TLAPS proves the following for all values of the constants that satisfy the
assumptions of the modules. The bounds of the runs are constants too, so a theorem
holds for bounds of any size. A theorem named after its property reads
`Spec => []Property`, or `Spec => Property` for an action property.

| Module | Theorem | Property |
|---|---|---|
| `CardProtocol_proofs` | `HubTypeCorrect`, `HubNoStrandedFunds`, `HubConserves` | `HubTypeOK`, `NoStrandedFunds`, `Conservation` of the hub by itself |
| | `AdminKeepsTimelock`, `RiskKeepsTimelock`, `LendingKeepsTimelock`, `LockRolesKeepTimelock` | each role implements `TimelockedRole` |
| | `ProtocolRunsHub`, `ProtocolRunsLocks` | a step of the composition is a step of the hub, and of the lock contract, or leaves it alone |
| | `ProtocolLedger`, `ProtocolRoles` | hence all of the above in the composition |
| | `ProtocolTypes` | `ProtocolTypeOK` |
| | `OwnersAreReal`, `OwnersMoveForward` | `RecordedOwnerWasOwner`, `OwnerNeverRegresses` |
| | `QueriesCounted` | `PendingCountExact` |
| | `LocksStopSpending` | `LocksHold` |
| `CardContracts_proofs` | `SignersCountOnce`, `PaymentsHaveQuorum` | `CountIsDistinctSigners`, `QuorumBacksPayment` |
| | `MandatesBoundCharges` | `ChargesWithinMandate` |
| | `IntentsEndOnce` | `OneOutcomePerIntent` |
| `DiamondGovernance_proofs` | `RegistryPendingExact`, `OneVotePerDiamond` | `PendingExact`, `TallyIsBallots` |
| | `OutcomesAreFinal`, `VotersWereEligible` | `OutcomeIsFinal`, `VotersHeldEligibleDiamonds` |
| | `ConfigHasQuorum` | `ConfigNeedsQuorum` |
| `Indexer_proofs` | `IndexerTypes`, `NothingSkipped` | `IndexerTypeOK`, `Contiguous` |
| | `WindowCoversStale`, `RollbackHasCause` | `StaleWithinWindow`, `RollbackNeedsReorg` |
| `IndexerDatabase_proofs` | `CacheFollowsTables` | `CachedHistoryIsCurrent` |
| | `SnapshotsFollowEvents` | `SnapshotsMatchEvents` |
| `InvoiceService_proofs` | `InvoiceTypes`, `IssuedNeverLost` | `InvoiceTypeOK`, `IssuedStayStored` |
| | `EqualRequestsConverge` | `ConvergesWhileLive` |
| | `SettlementsAreProven`, `OutcomesAreFinal` | `SettlementIsProven`, `OutcomeNeverChanges` |
| `Services_proofs` | `OnlyOwnersServed`, `RevocationIsFinal` | `ServedOnlyToOwner`, `RevokedStaysRevoked` |
| | `OnlyGenuineAccepted` | `AcceptedIsGenuine` |
| | `AnswersHoldAtBlock`, `AdapterRecordsBacked` | `VerifiedAtBlock`, `RecordsAreBacked` |
| | `GatePassesMeanComplete` | `PassMeansComplete` |
| `Frontends_proofs` | `LastCallDecides`, `PagesShowTheirSession` | `LastCallWins`, `WalletShowsItsSession` |
| | `LinksAreConsented`, `PagesStayCurrent` | `HandoffIsConfirmed`, `PagesAreCurrent` |
| | `VerdictsAreSound` | `VerdictIsSound` |

### Along which arguments

* **Hub.** That a balance has an owner is not inductive: a payment only checks
  that the merchant has a *state*. `RegisteredIsOwned` adds that states and
  owners come together. `Conservation` needs sums that follow a transfer; lemmas
  about `Total` reduce each step to the one or two cards it touches.
* **Roles.** Each operation maps to `Propose`, `Accept` or `Withdraw` of
  `TimelockedRole` and every other step to a stutter. `since` is the stored
  deadline minus the delay. For the lock contract the pending address and time
  outlive a transfer, so the mapping goes by the `present` flag.
* **Owners.** `OwnersInv` follows what is known of an item's owner from query to
  answer to hub. `EpochsAreReal`: whatever is on record or on the way was an owner
  of the card. `AnswersAreFresh`: an answer that fits the open query was given after
  it was asked, because query ids are used once. `EpochsInOrder`: a query asks after
  everything read for its card before. Without the last two a late answer to a
  replaced query could take the owner back.
* **Locks.** `HubLocksConverge` is inductive with the types: the last message in
  flight about a card carries its present flags, and with none in flight the hub's
  flags are those. Delivery takes the first message, so order is what it rests on.
* **Multi-sig.** Approvals are never removed, endorsements start afresh with each
  submission. `Backed` says that the endorsements are among the approvals, so
  the already-approved check keeps a signer from counting twice, and that the
  count is their number.
* **Mandates.** The guards of a charge see the count, the last time and the status,
  not the charges. `Recorded` says that these are the number, the last time and
  the end of what was charged under the present mandate.
* **Intents.** `Settled` says that an intent is untouched, open with no outcome in
  its round, or ended with exactly the outcome that is stored; that no outcome is
  of a later round makes a new registration start without one. The three
  contracts are one specification here; who owns a card plays no part.
* **Registry.** The counters are kept apart from the requests. `PendingInv`
  says that each query is at most one of a vote, a proposal and an eligibility
  request, that claimants are recorded for exactly these, and that ids not yet
  given out are free. A release and a reservation each change one claimant and
  one query.
* **Votes.** `TallyInv` ties the ballots to `votes_cast`, which the double-vote
  guard reads; `WindowInv` puts every ballot inside the window and every outcome
  after it, so no ballot can follow an outcome. `VoterInv` follows a vote through
  both look-ups: an ownership query is asked after the voting began, so its answer
  names somebody who held the Diamond then or later (`HeldFrom`); an answer used in
  time names one who held it during the voting (`AskedOK`); and both stay true when
  the Diamond is sold afterwards.
* **Configuration.** A change is executable a timelock after its threshold was
  reached. `ConfigInv` keeps the set of those who had approved by then; approvals
  that come later do not count towards it.
* **Indexer.** A poll acts on what it read several awaits ago. `PollSound` and
  `PollAlone` say what of that still holds: what is stored was the chain's once,
  and where the chain has changed since, it changed above the height that the next
  poll compares. Without overlaps at most one poll is in progress, so no other can
  disturb the database between its steps; with overlaps only the cursor's own row is
  kept. Flagging changes no hash, no events and no cursor (`MarkedIsSame`).
* **Database.** Insertion (`AfterEvents`) is a recursive function of a block's
  events. `IsInsertion` says what it has done after each event. A card that is not
  unsettled lost no row, and each of its events was inserted above its other rows; so
  snapshots are `SnapshotOf` the rows event by event (`SnapshotAfterEvent`), whatever
  the log indices. Rebuilt ones are when the last change of a column is the one with
  the highest log index (`SortingFindsLast`), which `LogsInOrder` says of the rows
  that are stored: it is a condition of the property, not on the blocks. It only gets
  weaker as rows go (`OrderOfFewer`).
* **Invoices.** Deletions go by an id read several awaits before. `StayInv` says
  what such an id may be: a candidate was not issued and is nobody else's; an
  id from a record was issued; before a found invoice is deleted it has expired.
  Most steps are covered by one lemma, `QuietStep`; only `Store` and `Issue` need
  an argument of their own. `ConvergeInv` adds `LiveRecorded`: until one of a
  request's invoices has expired, its record names the one that was issued, for at
  least as long, so a second caller finds it.
  `OutcomeInv` says that an id is used once and that an event whose scan succeeded
  is a payment deep enough, which later blocks only make deeper.
* **Gateway.** `CacheFollowsKeys`: what the cache grants is what memory says of the
  key, expiry apart, since every change but expiry drops the entries. `OwnerInv`
  keeps, for a request behind authentication, that the key was valid then, so that
  an older grant of the cache and the valid key together entitled it. For revocation
  it matters that ids come in order (`IdsInOrder`), so neither a record on its way
  to the store nor one still to be made carries a revoked id (`IssuedIsNew`).
* **Webhooks.** A digest that fits a header says when it was computed only because
  every request on the wire carries the digest of its own time and body
  (`SignedByService`).
* **Adapters.** `LendingInv` says of a call under way that the reads it has made were
  all of the one block it took. `RecordsInv` ties each record to what backs it: the
  signers' approvals, the executions counted, a status the provider has had, for a payment if its
  callback was verified (`VerifiedCallback`: a digest that fits was the provider's).
* **Gates.** Each collected error stands for a missing mark; `Closed` says that a
  gate without errors has looked at every document and every rule.
* **User interfaces.** `LastCallPending` describes the connector's queue: the last
  connect or disconnect in it is the last one made, a restore behind it has read
  what that call stored, and with none in it the session is already the one asked
  for. `WalletInv`, `PaymentInv` and `DashboardInv` say what each page holds while
  nothing is drawn or opened: a page that listens shows its session, a session joins the address of a
  naming wallet to that wallet (`Joined`), a hand-off
  carries what its dialog held, a board is drawn from its present state.
* **SDK.** `CheckInv` says what a call has read by each of its awaits; blocks are
  only added, each sealed no earlier than the one before, so it stays true until the
  call answers (`WorldStep`). `LookupLemma`: whichever block the look-up gives, those
  above it were sealed since the time asked for, so the depth is not above their number.

What computes over data (sums, folds, insertion) is reasoned about without
induction: a smallest number, or a smallest set, for which a lemma fails leads to a
smaller one.

### Assumptions

The named `ASSUME`s of the modules, which TLC evaluates on every run. `null`, `none`
and their like differ from every value they stand beside; limits, delays, amounts and
bounds are natural numbers, and periods and batches positive where the code refuses
or loops on zero; addresses, signers and candidates that are named are addresses, and
first owners are wallets; the resolver's target is the hub; there are finitely many
cards, and signer sets are finite; snapshots are kept by proposal id; the wallets that name themselves are known ones; reorganisations
reach at most the re-validation window below the confirmation depth; a block's events
come as the indexer collects them (`Collected`), an event of a period names no card;
grants are permissions with an expiry or without.

### What the proofs leave out

* Liveness: `LockTakesEffect`, `CatchesUp` and `CallsEnd` need fairness and `ENABLED`,
  which are beyond this prover. TLC checks them.
* `ExecutedAtMostOnce` and `NoBlockSkipped`, which TLC refutes (section 3).
* Type invariants of the other modules, where a theorem needs only a part of them.

Every other property of the runs has its theorem. TLC checks them as well: on the
small instance a run explores every state, and a mutant shows that the property can
fail; the theorem drops the bounds.

## 5. What is not modelled

`PROJECT.json` lists every part with its reason. In short:

* without behaviour to check: the payment hub (`contracts/payments/PaymentHub.tact`:
  no receiver creates or credits an account, so every transfer is refused) and the
  transparency registry (an archive no contract writes to);
* no state changes of their own: look-up contracts, plain resolvers, key
  derivation, the event parser, the indexer's HTTP API, the read-only mobile
  library;
* pure functions of bytes: the QR encoder, message bodies, hashes;
* migrations, which run once at start-up in one process; the Go SDK, which repeats
  the client of the others; further validators of documents, deployment and the
  documentation site;
* left out of modelled parts: getters, emitted events, gas and message values,
  field validation, styles and wording, the text of messages.

The two user interfaces marked *partly* miss the QR encoder and the read-only
screens, the SDKs the Go client.

## 6. The plan

1. *Done.* Card protocol (hub, locks, resolver and their composition), the
   contracts beside it, indexer and database, governance, invoices, API gateway and
   webhooks, adapters, SDK, user interfaces, readiness gates; a theorem for every
   safety property of the passing runs.
2. Next theorems: the type invariants `GovernanceTypeOK` and `DatabaseTypeOK`; that
   the composition of hub and resolver implements an abstract register of owners
   that only moves forward; that governance implements an abstract ballot box.
3. Compositions worth having: the adapters over `CardIntents` as their chain, the
   webhooks over `InvoiceService` as the source of their bodies.
