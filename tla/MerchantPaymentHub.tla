------------------------- MODULE MerchantPaymentHub -------------------------
(***************************************************************************)
(* contracts/MerchantPaymentHub.tact: the ledger of the card accounts.     *)
(* One action per receiver. An action's `sender` is the address the        *)
(* message comes from: the standalone specification lets any address send  *)
(* any message, CardProtocol.tla connects the hub to the contracts that    *)
(* really send them.                                                       *)
(*                                                                         *)
(* A balance map entry that is absent reads as 0 and a lock entry that is  *)
(* absent as "not locked" (getBalance, getLockState), so both maps are     *)
(* total functions here; states and owners keep the difference between     *)
(* absent and present, which the code tests.                               *)
(***************************************************************************)
EXTENDS ChainTime, FiniteSetsExt

CONSTANTS Deployer,          \* init's deployer_address, the first admin
          LocksContract,     \* immutable account_locks_contract
          Resolver,          \* immutable nft_resolver
          Settlement,        \* immutable tbc_settlement
          Collection,        \* collections that may be proposed
          Candidates,        \* addresses that may be proposed for a role
          DepositId,         \* deposit ids the settlement contract uses
          DepositAmount,     \* the confirmed amount behind each deposit id
          Amounts,           \* amounts a payment request may carry
          TimelockDelay      \* the 7-day delay, in ticks

ASSUME HubAssumption ==
  /\ {Deployer, LocksContract, Resolver, Settlement} \subseteq Address
  /\ Candidates \subseteq Address
  /\ null \notin Collection
  /\ Amounts \subseteq Nat
  /\ DepositAmount \in [DepositId -> Nat]
  /\ TimelockDelay \in Nat

ASSUME FiniteCardsAssumption == IsFiniteSet(NFT)

VARIABLES admin, pending_admin, pending_admin_executable_at,
          account_states, account_balances, account_locks, nft_owners,
          processed_deposits,
          whitelisted_collections, pending_whitelist_collection,
          pending_whitelist_executable_at

adminVars == <<admin, pending_admin, pending_admin_executable_at>>
ledgerVars == <<account_states, account_balances, account_locks, nft_owners,
                processed_deposits>>
whitelistVars == <<whitelisted_collections, pending_whitelist_collection,
                   pending_whitelist_executable_at>>
hubVars == <<adminVars, ledgerVars, whitelistVars>>

-----------------------------------------------------------------------------
(* contracts/types: the account states and the two lock flags. *)
AccountState == {"ACTIVE", "FROZEN", "COLLATERAL_LOCKED", "CLOSED"}
ASSUME AccountStateAssumption == null \notin AccountState

LockState == [fraud_locked : BOOLEAN, collateral_locked : BOOLEAN]
defaultLockState == [fraud_locked |-> FALSE, collateral_locked |-> FALSE]

canSend(state) == state = "ACTIVE"
canReceive(state) == state # "CLOSED"
canSendWithLocks(l) == ~ l.fraud_locked /\ ~ l.collateral_locked

HubTypeOK ==
  /\ now \in 0 .. MaxTime
  /\ admin \in Address
  /\ pending_admin \in Opt(Address)
  /\ pending_admin_executable_at \in Nat
  /\ account_states \in [NFT -> Opt(AccountState)]
  /\ account_balances \in [NFT -> Nat]
  /\ account_locks \in [NFT -> LockState]
  /\ nft_owners \in [NFT -> Opt(Address)]
  /\ processed_deposits \subseteq DepositId
  /\ whitelisted_collections \subseteq Collection
  /\ pending_whitelist_collection \in Opt(Collection)
  /\ pending_whitelist_executable_at \in Nat

HubInit ==
  /\ TimeInit
  /\ admin = Deployer
  /\ pending_admin = null
  /\ pending_admin_executable_at = 0
  /\ account_states = [n \in NFT |-> null]
  /\ account_balances = [n \in NFT |-> 0]
  /\ account_locks = [n \in NFT |-> defaultLockState]
  /\ nft_owners = [n \in NFT |-> null]
  /\ processed_deposits = {}
  /\ whitelisted_collections = {}
  /\ pending_whitelist_collection = null
  /\ pending_whitelist_executable_at = 0

-----------------------------------------------------------------------------
getAccountState(n) ==
  IF account_states[n] = null THEN "ACTIVE" ELSE account_states[n]

(* The checks of validateAndExecutePayment. A request that fails one of    *)
(* them is answered with an error code and changes no storage.             *)
PaymentAllowed(sender, payer, merchant, amount) ==
  /\ nft_owners[payer] # null
  /\ nft_owners[payer] = sender
  /\ account_states[merchant] # null
  /\ amount > 0
  /\ canSend(getAccountState(payer))
  /\ canSendWithLocks(account_locks[payer])
  /\ canReceive(account_states[merchant])
  /\ account_balances[payer] >= amount

(* debitBalance, then creditBalance on the map the debit has left: a       *)
(* payment of an account to itself reads its own debited balance.          *)
debitBalance(balances, n, amount) == [balances EXCEPT ![n] = @ - amount]
creditBalance(balances, n, amount) == [balances EXCEPT ![n] = @ + amount]

MerchantPaymentRequest(sender, payer, merchant, amount) ==
  /\ PaymentAllowed(sender, payer, merchant, amount)
  /\ account_balances' =
       creditBalance(debitBalance(account_balances, payer, amount),
                     merchant, amount)
  /\ UNCHANGED <<adminVars, account_states, account_locks, nft_owners,
                 processed_deposits, whitelistVars>>

(* A refresh replaces the owner; the state is set on first registration    *)
(* only, balance and locks are kept.                                       *)
ResolveWithoutOwner(sender, n, owner) ==
  /\ sender = Resolver
  /\ account_states' =
       [account_states EXCEPT ![n] = IF @ = null THEN "ACTIVE" ELSE @]
  /\ UNCHANGED <<adminVars, account_balances, account_locks, nft_owners,
                 processed_deposits, whitelistVars>>

RegisterOwnerOnce(sender, n, owner) ==
  /\ sender = Resolver
  /\ nft_owners' = [nft_owners EXCEPT ![n] = IF @ = null THEN owner ELSE @]
  /\ account_states' =
       [account_states EXCEPT ![n] = IF @ = null THEN "ACTIVE" ELSE @]
  /\ UNCHANGED <<adminVars, account_balances, account_locks,
                 processed_deposits, whitelistVars>>

ResolveNFTOwner(sender, n, owner) ==
  /\ sender = Resolver
  /\ nft_owners' = [nft_owners EXCEPT ![n] = owner]
  /\ account_states' =
       [account_states EXCEPT ![n] = IF @ = null THEN "ACTIVE" ELSE @]
  /\ UNCHANGED <<adminVars, account_balances, account_locks,
                 processed_deposits, whitelistVars>>

DepositWithoutReplayCheck(sender, id, n, amount) ==
  /\ sender = Settlement
  /\ amount > 0
  /\ account_states[n] # null
  /\ processed_deposits' = processed_deposits \cup {id}
  /\ account_balances' = creditBalance(account_balances, n, amount)
  /\ UNCHANGED <<adminVars, account_states, account_locks, nft_owners,
                 whitelistVars>>

TBCDeposit(sender, id, n, amount) ==
  /\ sender = Settlement
  /\ amount > 0
  /\ account_states[n] # null
  /\ id \notin processed_deposits
  /\ processed_deposits' = processed_deposits \cup {id}
  /\ account_balances' = creditBalance(account_balances, n, amount)
  /\ UNCHANGED <<adminVars, account_states, account_locks, nft_owners,
                 whitelistVars>>

ApplyAccountLock(sender, n, lock) ==
  /\ sender = LocksContract
  /\ account_locks' = [account_locks EXCEPT ![n] = lock]
  /\ UNCHANGED <<adminVars, account_states, account_balances, nft_owners,
                 processed_deposits, whitelistVars>>

-----------------------------------------------------------------------------
(* Collection whitelist: propose, wait TimelockDelay, execute.             *)
ProposeWhitelistCollection(sender, c) ==
  /\ sender = admin
  /\ pending_whitelist_collection' = c
  /\ pending_whitelist_executable_at' = now + TimelockDelay
  /\ UNCHANGED <<adminVars, ledgerVars, whitelisted_collections>>

ExecuteWhitelistCollection(sender) ==
  /\ sender = admin
  /\ pending_whitelist_collection # null
  /\ now >= pending_whitelist_executable_at
  /\ whitelisted_collections' =
       whitelisted_collections \cup {pending_whitelist_collection}
  /\ pending_whitelist_collection' = null
  /\ pending_whitelist_executable_at' = 0
  /\ UNCHANGED <<adminVars, ledgerVars>>

CancelWhitelistCollection(sender) ==
  /\ sender = admin
  /\ pending_whitelist_collection # null
  /\ pending_whitelist_collection' = null
  /\ pending_whitelist_executable_at' = 0
  /\ UNCHANGED <<adminVars, ledgerVars, whitelisted_collections>>

(* Admin transfer: the proposed admin, and nobody else, executes it.       *)
MerchantProposeAdminTransfer(sender, new_admin) ==
  /\ sender = admin
  /\ pending_admin' = new_admin
  /\ pending_admin_executable_at' = now + TimelockDelay
  /\ UNCHANGED <<admin, ledgerVars, whitelistVars>>

ExecuteWithoutTimelock(sender) ==
  /\ pending_admin # null
  /\ sender = pending_admin
  /\ admin' = pending_admin
  /\ pending_admin' = null
  /\ pending_admin_executable_at' = 0
  /\ UNCHANGED <<ledgerVars, whitelistVars>>

MerchantExecuteAdminTransfer(sender) ==
  /\ pending_admin # null
  /\ sender = pending_admin
  /\ now >= pending_admin_executable_at
  /\ admin' = pending_admin
  /\ pending_admin' = null
  /\ pending_admin_executable_at' = 0
  /\ UNCHANGED <<ledgerVars, whitelistVars>>

MerchantCancelAdminTransfer(sender) ==
  /\ sender = admin
  /\ pending_admin # null
  /\ pending_admin' = null
  /\ pending_admin_executable_at' = 0
  /\ UNCHANGED <<admin, ledgerVars, whitelistVars>>

-----------------------------------------------------------------------------
(* The messages any address may send: users' payments and the admin's.     *)
HubUserNext ==
  \E sender \in Address :
    \/ \E payer, merchant \in NFT, amount \in Amounts :
         MerchantPaymentRequest(sender, payer, merchant, amount)
    \/ \E c \in Collection : ProposeWhitelistCollection(sender, c)
    \/ ExecuteWhitelistCollection(sender)
    \/ CancelWhitelistCollection(sender)
    \/ \E new_admin \in Candidates :
         MerchantProposeAdminTransfer(sender, new_admin)
    \/ MerchantExecuteAdminTransfer(sender)
    \/ MerchantCancelAdminTransfer(sender)

(* The settlement contract may deliver a deposit again; it never gives one *)
(* id to two deposits, so an id has one amount.                            *)
HubDepositNext ==
  \E sender \in Address, id \in DepositId, n \in NFT :
    TBCDeposit(sender, id, n, DepositAmount[id])

(* The messages of the resolver and of the lock contract.                  *)
HubContractNext ==
  \E sender \in Address, n \in NFT :
    \/ \E owner \in Address : ResolveNFTOwner(sender, n, owner)
    \/ \E lock \in LockState : ApplyAccountLock(sender, n, lock)

HubNext ==
  \/ (HubUserNext \/ HubDepositNext \/ HubContractNext) /\ UNCHANGED now
  \/ PassTime /\ UNCHANGED hubVars

HubSpec == HubInit /\ [][HubNext]_<<hubVars, now>>

-----------------------------------------------------------------------------
(* I5, ledger conservation: the balances of all accounts add up to the     *)
(* deposits the settlement contract has confirmed, each counted once,      *)
(* however often its message is delivered and whoever pays whom, an        *)
(* account paying itself included.                                         *)
Conservation ==
  MapThenSumSet(LAMBDA n : account_balances[n], NFT) =
    MapThenSumSet(LAMBDA id : DepositAmount[id], processed_deposits)

(* An account has a state exactly when it has an owner.                    *)
RegisteredIsOwned ==
  \A n \in NFT : account_states[n] = null <=> nft_owners[n] = null

(* No money is ever where nobody can spend it: an account that holds a     *)
(* balance, deposited or received, has an owner on record.                 *)
NoStrandedFunds ==
  \A n \in NFT : account_balances[n] > 0 => nft_owners[n] # null

(* The hub's admin role keeps the promise of every timelocked role.        *)
AdminRole ==
  INSTANCE TimelockedRole
    WITH Delay <- TimelockDelay,
         holder <- admin,
         handover <- IF pending_admin = null THEN null
                     ELSE [to |-> pending_admin,
                           since |-> pending_admin_executable_at - TimelockDelay]
AdminHandover == AdminRole!RoleSpec
=============================================================================
