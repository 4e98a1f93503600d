------------------------ MODULE CardProtocol_proofs ------------------------
(***************************************************************************)
(* Theorems about the card protocol, for every set of addresses, cards,    *)
(* amounts and deposits, every delay and every bound: first the hub and    *)
(* the lock contract by themselves, then the composition, in which both    *)
(* run unchanged and the resolver feeds the hub.                           *)
(***************************************************************************)
EXTENDS CardProtocol, FiniteSetTheorems, SequenceTheorems, TLAPS

(* The inductive invariant. That a balance belongs to an owned account is  *)
(* not inductive alone: a payment only checks that the merchant has a      *)
(* state, so states and owners must be known to come together.             *)
HubInv == HubTypeOK /\ RegisteredIsOwned /\ NoStrandedFunds

(* The initial storage of the hub satisfies the invariant.                 *)
LEMMA HubInitInv == HubInit => HubInv
<1> USE NullAssumption, MaxTimeAssumption, HubAssumption DEF Opt
<1> SUFFICES ASSUME HubInit PROVE HubInv
  OBVIOUS
<1>1. HubTypeOK
  BY DEF HubInit, TimeInit, HubTypeOK, LockState, defaultLockState
<1>2. RegisteredIsOwned /\ NoStrandedFunds
  BY DEF HubInit, RegisteredIsOwned, NoStrandedFunds
<1>3. QED BY <1>1, <1>2 DEF HubInv

(* A payment keeps the invariant: it needs the payer to hold the amount and*)
(* the merchant to be registered.                                          *)
LEMMA PaymentInv ==
  ASSUME HubInv, NEW sender \in Address, NEW payer \in NFT, NEW merchant \in NFT,
         NEW amount \in Amounts, UNCHANGED now,
         MerchantPaymentRequest(sender, payer, merchant, amount)
  PROVE  HubInv'
<1> USE NullAssumption, HubAssumption, AccountStateAssumption
<1>1. amount \in Nat
  OBVIOUS
<1>2. account_balances' \in [NFT -> Nat]
  BY <1>1 DEF HubInv, HubTypeOK, MerchantPaymentRequest, PaymentAllowed,
              creditBalance, debitBalance
<1>3. HubTypeOK'
  BY <1>2 DEF HubInv, HubTypeOK, MerchantPaymentRequest, adminVars, whitelistVars
<1>4. RegisteredIsOwned'
  BY DEF HubInv, RegisteredIsOwned, MerchantPaymentRequest
<1>5. NoStrandedFunds'
  <2> SUFFICES ASSUME NEW n \in NFT, account_balances'[n] > 0
               PROVE  nft_owners'[n] # null
    BY DEF NoStrandedFunds
  <2>1. nft_owners' = nft_owners
    BY DEF MerchantPaymentRequest
  <2>2. CASE n = merchant
    BY <2>1, <2>2 DEF HubInv, RegisteredIsOwned, MerchantPaymentRequest,
                      PaymentAllowed
  <2>3. CASE n # merchant /\ n = payer
    BY <2>1, <2>3 DEF MerchantPaymentRequest, PaymentAllowed
  <2>4. CASE n # merchant /\ n # payer
    <3>1. account_balances'[n] = account_balances[n]
      BY <2>4 DEF HubInv, HubTypeOK, MerchantPaymentRequest, creditBalance,
                  debitBalance
    <3>2. QED BY <2>1, <3>1 DEF HubInv, NoStrandedFunds
  <2>5. QED BY <2>2, <2>3, <2>4
<1>6. QED BY <1>3, <1>4, <1>5 DEF HubInv

(* Registration and every later refresh set the owner, and a state with it.*)
LEMMA ResolveInv ==
  ASSUME HubInv, NEW sender \in Address, NEW n \in NFT, NEW owner \in Address,
         UNCHANGED now, ResolveNFTOwner(sender, n, owner)
  PROVE  HubInv'
<1> USE NullAssumption, AccountStateAssumption
<1>1. /\ nft_owners' \in [NFT -> Opt(Address)]
      /\ account_states' \in [NFT -> Opt(AccountState)]
  BY DEF HubInv, HubTypeOK, ResolveNFTOwner, Opt, AccountState
<1>2. HubTypeOK'
  BY <1>1 DEF HubInv, HubTypeOK, ResolveNFTOwner, adminVars, whitelistVars
<1>3. \A m \in NFT : /\ m # n => /\ nft_owners'[m] = nft_owners[m]
                                 /\ account_states'[m] = account_states[m]
                     /\ m = n => /\ nft_owners'[m] # null
                                 /\ account_states'[m] # null
  BY DEF HubInv, HubTypeOK, ResolveNFTOwner, Opt, AccountState
<1>4. RegisteredIsOwned'
  BY <1>3 DEF HubInv, RegisteredIsOwned
<1>5. NoStrandedFunds'
  BY <1>3 DEF HubInv, NoStrandedFunds, ResolveNFTOwner
<1>6. QED BY <1>2, <1>4, <1>5 DEF HubInv

(* A deposit credits a registered account, once per deposit id.            *)
LEMMA DepositInv ==
  ASSUME HubInv, NEW sender \in Address, NEW id \in DepositId, NEW n \in NFT,
         UNCHANGED now, TBCDeposit(sender, id, n, DepositAmount[id])
  PROVE  HubInv'
<1> USE NullAssumption, HubAssumption, AccountStateAssumption
<1>1. account_balances' \in [NFT -> Nat] /\ processed_deposits' \subseteq DepositId
  BY DEF HubInv, HubTypeOK, TBCDeposit, creditBalance
<1>2. HubTypeOK'
  BY <1>1 DEF HubInv, HubTypeOK, TBCDeposit, adminVars, whitelistVars
<1>3. RegisteredIsOwned'
  BY DEF HubInv, RegisteredIsOwned, TBCDeposit
<1>4. NoStrandedFunds'
  <2> SUFFICES ASSUME NEW m \in NFT, account_balances'[m] > 0
               PROVE  nft_owners'[m] # null
    BY DEF NoStrandedFunds
  <2>1. m # n => account_balances'[m] = account_balances[m]
    BY DEF HubInv, HubTypeOK, TBCDeposit, creditBalance
  <2>2. QED
    BY <2>1 DEF HubInv, RegisteredIsOwned, NoStrandedFunds, TBCDeposit
<1>5. QED BY <1>2, <1>3, <1>4 DEF HubInv

(* Locks, the whitelist and the admin role do not touch balances, owners   *)
(* and account states.                                                     *)
LEMMA OtherStepInv ==
  ASSUME HubInv, HubTypeOK',
         UNCHANGED <<account_states, account_balances, nft_owners>>
  PROVE  HubInv'
BY DEF HubInv, RegisteredIsOwned, NoStrandedFunds

(* Every step of the hub keeps the invariant.                              *)
LEMMA HubStepInv == HubInv /\ [HubNext]_<<hubVars, now>> => HubInv'
<1> USE NullAssumption, MaxTimeAssumption, HubAssumption, AccountStateAssumption
<1> SUFFICES ASSUME HubInv, [HubNext]_<<hubVars, now>> PROVE HubInv'
  OBVIOUS
<1>1. CASE UNCHANGED <<hubVars, now>>
  BY <1>1 DEF HubInv, HubTypeOK, RegisteredIsOwned, NoStrandedFunds, hubVars,
              adminVars, ledgerVars, whitelistVars
<1>2. CASE PassTime /\ UNCHANGED hubVars
  BY <1>2 DEF HubInv, HubTypeOK, RegisteredIsOwned, NoStrandedFunds, hubVars,
              adminVars, ledgerVars, whitelistVars, PassTime
<1>3. CASE HubUserNext /\ UNCHANGED now
  <2> PICK sender \in Address :
        \/ \E payer, merchant \in NFT, amount \in Amounts :
             MerchantPaymentRequest(sender, payer, merchant, amount)
        \/ \E c \in Collection : ProposeWhitelistCollection(sender, c)
        \/ ExecuteWhitelistCollection(sender)
        \/ CancelWhitelistCollection(sender)
        \/ \E new_admin \in Candidates :
             MerchantProposeAdminTransfer(sender, new_admin)
        \/ MerchantExecuteAdminTransfer(sender)
        \/ MerchantCancelAdminTransfer(sender)
    BY <1>3 DEF HubUserNext
  <2>1. CASE \E payer, merchant \in NFT, amount \in Amounts :
               MerchantPaymentRequest(sender, payer, merchant, amount)
    BY <1>3, <2>1, PaymentInv
  <2>2. CASE \E c \in Collection : ProposeWhitelistCollection(sender, c)
    BY <1>3, <2>2, OtherStepInv DEF HubInv, HubTypeOK, Opt,
       ProposeWhitelistCollection, adminVars, ledgerVars
  <2>3. CASE ExecuteWhitelistCollection(sender)
    BY <1>3, <2>3, OtherStepInv DEF HubInv, HubTypeOK, Opt,
       ExecuteWhitelistCollection, adminVars, ledgerVars
  <2>4. CASE CancelWhitelistCollection(sender)
    BY <1>3, <2>4, OtherStepInv DEF HubInv, HubTypeOK, Opt,
       CancelWhitelistCollection, adminVars, ledgerVars
  <2>5. CASE \E new_admin \in Candidates :
               MerchantProposeAdminTransfer(sender, new_admin)
    BY <1>3, <2>5, OtherStepInv DEF HubInv, HubTypeOK, Opt,
       MerchantProposeAdminTransfer, whitelistVars, ledgerVars
  <2>6. CASE MerchantExecuteAdminTransfer(sender)
    BY <1>3, <2>6, OtherStepInv DEF HubInv, HubTypeOK, Opt,
       MerchantExecuteAdminTransfer, whitelistVars, ledgerVars
  <2>7. CASE MerchantCancelAdminTransfer(sender)
    BY <1>3, <2>7, OtherStepInv DEF HubInv, HubTypeOK, Opt,
       MerchantCancelAdminTransfer, whitelistVars, ledgerVars
  <2>8. QED BY <2>1, <2>2, <2>3, <2>4, <2>5, <2>6, <2>7
<1>4. CASE HubDepositNext /\ UNCHANGED now
  BY <1>4, DepositInv DEF HubDepositNext
<1>5. CASE HubContractNext /\ UNCHANGED now
  <2> PICK sender \in Address, n \in NFT :
        \/ \E owner \in Address : ResolveNFTOwner(sender, n, owner)
        \/ \E lock \in LockState : ApplyAccountLock(sender, n, lock)
    BY <1>5 DEF HubContractNext
  <2>1. CASE \E owner \in Address : ResolveNFTOwner(sender, n, owner)
    BY <1>5, <2>1, ResolveInv
  <2>2. CASE \E lock \in LockState : ApplyAccountLock(sender, n, lock)
    BY <1>5, <2>2, OtherStepInv DEF HubInv, HubTypeOK, ApplyAccountLock,
       adminVars, whitelistVars
  <2>3. QED BY <2>1, <2>2
<1>6. QED BY <1>1, <1>2, <1>3, <1>4, <1>5 DEF HubNext

(* The storage of the hub keeps its types; in particular no sequence of    *)
(* payments and deposits makes a balance negative.                         *)
THEOREM HubTypeCorrect == HubSpec => []HubTypeOK
<1>1. HubInv => HubTypeOK
  BY DEF HubInv
<1>2. QED BY HubInitInv, HubStepInv, <1>1, PTL DEF HubSpec

(* Whatever messages the hub receives, from anyone and in any order, an    *)
(* account that holds money has an owner on record who can spend it.       *)
THEOREM HubNoStrandedFunds == HubSpec => []NoStrandedFunds
<1>1. HubInv => NoStrandedFunds
  BY DEF HubInv
<1>2. QED BY HubInitInv, HubStepInv, <1>1, PTL DEF HubSpec

(***************************************************************************)
(* The admin role implements TimelockedRole: `to` and `since` of the open  *)
(* handover are read off the two pending fields.                           *)
(***************************************************************************)
OpenHandover == IF pending_admin = null THEN null
            ELSE [to |-> pending_admin,
                  since |-> pending_admin_executable_at - TimelockDelay]

(* The handover is open exactly when an address is pending.                *)
LEMMA OpenHandoverFields ==
  ASSUME HubTypeOK, pending_admin # null
  PROVE  /\ OpenHandover # null
         /\ OpenHandover.to = pending_admin
         /\ OpenHandover.since = pending_admin_executable_at - TimelockDelay
BY NullRecordAssumption, HubAssumption DEF HubTypeOK, Opt, OpenHandover

LEMMA AdminRoleStep ==
  ASSUME HubTypeOK, [HubNext]_<<hubVars, now>>
  PROVE  [AdminRole!RoleNext]_<<AdminRole!roleVars, now>>
<1> USE NullAssumption, MaxTimeAssumption, HubAssumption
<1>1. ASSUME UNCHANGED <<adminVars, now>>
      PROVE  UNCHANGED <<AdminRole!roleVars, now>>
  BY <1>1 DEF adminVars, AdminRole!roleVars
<1>2. ASSUME NEW sender \in Address, NEW new_admin \in Candidates,
             MerchantProposeAdminTransfer(sender, new_admin), UNCHANGED now
      PROVE  AdminRole!Propose
  <2>1. now \in Nat /\ TimelockDelay \in Nat /\ new_admin \in Address
    BY DEF HubTypeOK
  <2>2. pending_admin' = new_admin /\ new_admin # null /\ admin' = admin
    BY <1>2, <2>1 DEF MerchantProposeAdminTransfer
  <2>3. pending_admin_executable_at' - TimelockDelay = now
    BY <1>2, <2>1 DEF MerchantProposeAdminTransfer
  <2>4. QED BY <1>2, <2>1, <2>2, <2>3 DEF AdminRole!Propose
<1>3. ASSUME NEW sender \in Address, MerchantExecuteAdminTransfer(sender), UNCHANGED now
      PROVE  AdminRole!Accept
  <2>1. pending_admin # null /\ now >= pending_admin_executable_at
    BY <1>3 DEF MerchantExecuteAdminTransfer
  <2>2. /\ OpenHandover # null
        /\ now >= OpenHandover.since + TimelockDelay
        /\ OpenHandover.to = pending_admin
    BY <2>1, OpenHandoverFields DEF HubTypeOK
  <2>3. admin' = pending_admin /\ pending_admin' = null
    BY <1>3 DEF MerchantExecuteAdminTransfer
  <2>4. QED BY <1>3, <2>2, <2>3 DEF AdminRole!Accept, OpenHandover
<1>4. ASSUME NEW sender \in Address, MerchantCancelAdminTransfer(sender), UNCHANGED now
      PROVE  AdminRole!Withdraw
  <2>1. pending_admin # null /\ pending_admin' = null /\ admin' = admin
    BY <1>4 DEF MerchantCancelAdminTransfer
  <2>2. OpenHandover # null
    BY <2>1, OpenHandoverFields
  <2>3. QED BY <1>4, <2>1, <2>2 DEF AdminRole!Withdraw, OpenHandover
<1>5. CASE UNCHANGED <<hubVars, now>>
  BY <1>1, <1>5 DEF hubVars
<1>6. CASE PassTime /\ UNCHANGED hubVars
  BY <1>6 DEF hubVars, adminVars, AdminRole!RoleNext, AdminRole!PassTime, PassTime,
              AdminRole!roleVars
<1>7. CASE HubUserNext /\ UNCHANGED now
  <2>1. \/ UNCHANGED adminVars
        \/ \E sender \in Address :
             \/ \E new_admin \in Candidates :
                  MerchantProposeAdminTransfer(sender, new_admin)
             \/ MerchantExecuteAdminTransfer(sender)
             \/ MerchantCancelAdminTransfer(sender)
    BY <1>7 DEF HubUserNext, MerchantPaymentRequest, ProposeWhitelistCollection,
                ExecuteWhitelistCollection, CancelWhitelistCollection
  <2>2. QED BY <1>1, <1>2, <1>3, <1>4, <1>7, <2>1 DEF AdminRole!RoleNext
<1>8. CASE (HubDepositNext \/ HubContractNext) /\ UNCHANGED now
  <2>1. UNCHANGED adminVars
    BY <1>8 DEF HubDepositNext, HubContractNext, TBCDeposit, ResolveNFTOwner,
                ApplyAccountLock
  <2>2. QED BY <1>1, <1>8, <2>1
<1>9. QED BY <1>5, <1>6, <1>7, <1>8 DEF HubNext

(* The hub's admin only changes through a proposal that has stood, neither *)
(* cancelled nor replaced, for TimelockDelay, and becomes the address that *)
(* was proposed (MerchantProposeAdminTransfer, MerchantExecuteAdmin-       *)
(* Transfer, MerchantCancelAdminTransfer).                                 *)
THEOREM AdminKeepsTimelock == HubSpec => AdminHandover
<1>1. HubInit => AdminRole!RoleInit
  BY HubAssumption DEF HubInit, AdminRole!RoleInit
<1>2. HubTypeOK /\ [HubNext]_<<hubVars, now>>
        => [AdminRole!RoleNext]_<<AdminRole!roleVars, now>>
  BY AdminRoleStep
<1>3. QED BY <1>1, <1>2, HubTypeCorrect, PTL DEF HubSpec, AdminHandover, AdminRole!RoleSpec
RolesTyped ==
  /\ now \in Nat
  /\ risk_authority \in Address /\ lending_adapter \in Address
  /\ pending_risk \in PendingRole /\ pending_lending \in PendingRole

(* The operations on a role, named by which role they are on.              *)
RiskStep(sender) ==
  \/ \E proposed \in RoleCandidates : propose_risk_authority(sender, proposed)
  \/ execute_risk_authority(sender)
  \/ cancel_risk_authority(sender)

LendingStep(sender) ==
  \/ \E proposed \in RoleCandidates : propose_lending_adapter(sender, proposed)
  \/ execute_lending_adapter(sender)
  \/ cancel_lending_adapter(sender)

(* A step is on one of the roles, or touches neither, or passes time.      *)
LEMMA StepKinds ==
  ASSUME [LocksAloneNext]_<<locksVars, now>>
  PROVE  \/ \E sender \in Address :
              RiskStep(sender) /\ UNCHANGED <<now, lending_adapter, pending_lending>>
         \/ \E sender \in Address :
              LendingStep(sender) /\ UNCHANGED <<now, risk_authority, pending_risk>>
         \/ UNCHANGED <<roleStorage, now>>
         \/ PassTime /\ UNCHANGED roleStorage
<1>1. ASSUME NEW sender \in Address, RiskStep(sender)
      PROVE  UNCHANGED <<lending_adapter, pending_lending>>
  BY <1>1 DEF RiskStep, propose_risk_authority, execute_risk_authority,
              cancel_risk_authority
<1>2. ASSUME NEW sender \in Address, LendingStep(sender)
      PROVE  UNCHANGED <<risk_authority, pending_risk>>
  BY <1>2 DEF LendingStep, propose_lending_adapter, execute_lending_adapter,
              cancel_lending_adapter
<1>3. CASE UNCHANGED <<locksVars, now>>
  BY <1>3 DEF locksVars
<1>4. CASE PassTime /\ UNCHANGED locksVars
  BY <1>4 DEF locksVars
<1>5. CASE LockMsgDelivered /\ UNCHANGED now
  BY <1>5 DEF LockMsgDelivered
<1>6. CASE LocksNext /\ UNCHANGED now
  <2>1. \/ \E sender \in Address : RiskStep(sender) \/ LendingStep(sender)
        \/ UNCHANGED roleStorage
    BY <1>6 DEF LocksNext, RiskStep, LendingStep, bind_payment_hub,
                change_fraud_lock, change_collateral_lock, set_lock
  <2>2. QED BY <1>1, <1>2, <1>6, <2>1
<1>7. QED BY <1>3, <1>4, <1>5, <1>6 DEF LocksAloneNext

LEMMA RolesInit == LocksInit => RolesTyped
BY LocksAssumption DEF LocksInit, TimeInit, RolesTyped, PendingRole

LEMMA RolesStep == RolesTyped /\ [LocksAloneNext]_<<locksVars, now>> => RolesTyped'
<1> SUFFICES ASSUME RolesTyped, [LocksAloneNext]_<<locksVars, now>> PROVE RolesTyped'
  OBVIOUS
<1> USE LocksAssumption, MaxTimeAssumption
<1>1. ASSUME NEW sender \in Address, RiskStep(sender),
             UNCHANGED <<now, lending_adapter, pending_lending>>
      PROVE  RolesTyped'
  <2>1. CASE \E proposed \in RoleCandidates : propose_risk_authority(sender, proposed)
    <3>1. now + RoleTransferDelay \in Nat
      BY DEF RolesTyped
    <3>2. pending_risk' \in PendingRole /\ risk_authority' = risk_authority
      BY <2>1, <3>1 DEF propose_risk_authority, PendingRole
    <3>3. QED BY <1>1, <3>2 DEF RolesTyped
  <2>2. CASE execute_risk_authority(sender)
    <3>1. pending_risk' \in PendingRole /\ risk_authority' \in Address
      BY <2>2 DEF execute_risk_authority, RolesTyped, PendingRole
    <3>2. QED BY <1>1, <3>1 DEF RolesTyped
  <2>3. CASE cancel_risk_authority(sender)
    <3>1. pending_risk' \in PendingRole /\ risk_authority' = risk_authority
      BY <2>3 DEF cancel_risk_authority, RolesTyped, PendingRole
    <3>2. QED BY <1>1, <3>1 DEF RolesTyped
  <2>4. QED BY <1>1, <2>1, <2>2, <2>3 DEF RiskStep
<1>2. ASSUME NEW sender \in Address, LendingStep(sender),
             UNCHANGED <<now, risk_authority, pending_risk>>
      PROVE  RolesTyped'
  <2>1. CASE \E proposed \in RoleCandidates : propose_lending_adapter(sender, proposed)
    <3>1. now + RoleTransferDelay \in Nat
      BY DEF RolesTyped
    <3>2. pending_lending' \in PendingRole /\ lending_adapter' = lending_adapter
      BY <2>1, <3>1 DEF propose_lending_adapter, PendingRole
    <3>3. QED BY <1>2, <3>2 DEF RolesTyped
  <2>2. CASE execute_lending_adapter(sender)
    <3>1. pending_lending' \in PendingRole /\ lending_adapter' \in Address
      BY <2>2 DEF execute_lending_adapter, RolesTyped, PendingRole
    <3>2. QED BY <1>2, <3>1 DEF RolesTyped
  <2>3. CASE cancel_lending_adapter(sender)
    <3>1. pending_lending' \in PendingRole /\ lending_adapter' = lending_adapter
      BY <2>3 DEF cancel_lending_adapter, RolesTyped, PendingRole
    <3>2. QED BY <1>2, <3>1 DEF RolesTyped
  <2>4. QED BY <1>2, <2>1, <2>2, <2>3 DEF LendingStep
<1>3. CASE UNCHANGED <<roleStorage, now>>
  BY <1>3 DEF RolesTyped, roleStorage
<1>4. CASE PassTime /\ UNCHANGED roleStorage
  BY <1>4 DEF RolesTyped, roleStorage, PassTime
<1>5. QED BY <1>1, <1>2, <1>3, <1>4, StepKinds

(* The handover that a pending transfer stands for.                        *)
LEMMA HandoverFields ==
  ASSUME NEW p \in PendingRole, p.present
  PROVE  /\ Handover(p) # null
         /\ Handover(p).to = p.address
         /\ Handover(p).since = p.at - RoleTransferDelay
BY NullRecordAssumption, LocksAssumption DEF Handover, PendingRole

(* One step of the contract is one of the abstract role, or leaves it be.  *)
LEMMA RiskRoleStep ==
  ASSUME RolesTyped, [LocksAloneNext]_<<locksVars, now>>
  PROVE  [RiskRole!RoleNext]_<<RiskRole!roleVars, now>>
<1> USE LocksAssumption
<1>1. ASSUME NEW sender \in Address, RiskStep(sender), UNCHANGED now
      PROVE  RiskRole!RoleNext
  <2>1. ASSUME NEW proposed \in RoleCandidates, propose_risk_authority(sender, proposed)
        PROVE  RiskRole!Propose
    <3>1. /\ pending_risk' = [present |-> TRUE, address |-> proposed,
                     at |-> now + RoleTransferDelay]
          /\ risk_authority' = risk_authority
      BY <2>1 DEF propose_risk_authority
    <3>2. (now + RoleTransferDelay) - RoleTransferDelay = now
      BY DEF RolesTyped
    <3>3. Handover(pending_risk)' = [to |-> proposed, since |-> now]
      BY <3>1, <3>2 DEF Handover
    <3>4. QED BY <1>1, <3>1, <3>3 DEF RiskRole!Propose
  <2>2. ASSUME execute_risk_authority(sender) PROVE RiskRole!Accept
    <3>1. /\ pending_risk.present /\ now >= pending_risk.at
          /\ risk_authority' = pending_risk.address
          /\ pending_risk' = [pending_risk EXCEPT !.present = FALSE, !.at = 0]
      BY <2>2 DEF execute_risk_authority
    <3>2. /\ Handover(pending_risk) # null
          /\ Handover(pending_risk).to = pending_risk.address
          /\ now >= Handover(pending_risk).since + RoleTransferDelay
      BY <3>1, HandoverFields DEF RolesTyped, PendingRole
    <3>3. Handover(pending_risk)' = null
      BY <3>1 DEF Handover, RolesTyped, PendingRole
    <3>4. QED BY <1>1, <3>1, <3>2, <3>3 DEF RiskRole!Accept
  <2>3. ASSUME cancel_risk_authority(sender) PROVE RiskRole!Withdraw
    <3>1. /\ pending_risk.present /\ risk_authority' = risk_authority
          /\ pending_risk' = [present |-> FALSE, address |-> risk_authority, at |-> 0]
      BY <2>3 DEF cancel_risk_authority
    <3>2. Handover(pending_risk) # null
      BY <3>1, HandoverFields DEF RolesTyped
    <3>3. Handover(pending_risk)' = null
      BY <3>1 DEF Handover
    <3>4. QED BY <1>1, <3>1, <3>2, <3>3 DEF RiskRole!Withdraw
  <2>4. QED BY <1>1, <2>1, <2>2, <2>3 DEF RiskStep, RiskRole!RoleNext
<1>2. ASSUME UNCHANGED <<risk_authority, pending_risk>>
      PROVE  UNCHANGED RiskRole!roleVars
  BY <1>2 DEF RiskRole!roleVars, Handover
<1>3. CASE PassTime /\ UNCHANGED roleStorage
  BY <1>2, <1>3 DEF roleStorage, RiskRole!RoleNext, RiskRole!PassTime, PassTime
<1>4. CASE UNCHANGED <<risk_authority, pending_risk, now>>
  BY <1>2, <1>4
<1>5. QED BY <1>1, <1>3, <1>4, StepKinds DEF roleStorage

(* The risk authority only changes through a proposal that has stood,      *)
(* neither cancelled nor replaced, for RoleTransferDelay, and becomes the  *)
(* address that was proposed (propose_risk_authority,                      *)
(* execute_risk_authority, cancel_risk_authority).                         *)
THEOREM RiskKeepsTimelock == LocksSpec => RiskHandover
<1>1. LocksInit => RiskRole!RoleInit
  BY LocksAssumption DEF LocksInit, RiskRole!RoleInit, Handover
<1>2. RolesTyped /\ [LocksAloneNext]_<<locksVars, now>>
        => [RiskRole!RoleNext]_<<RiskRole!roleVars, now>>
  BY RiskRoleStep
<1>3. QED
  BY <1>1, <1>2, RolesInit, RolesStep, PTL DEF LocksSpec, RiskHandover, RiskRole!RoleSpec

(* One step of the contract is one of the abstract role, or leaves it be.  *)
LEMMA LendingRoleStep ==
  ASSUME RolesTyped, [LocksAloneNext]_<<locksVars, now>>
  PROVE  [LendingRole!RoleNext]_<<LendingRole!roleVars, now>>
<1> USE LocksAssumption
<1>1. ASSUME NEW sender \in Address, LendingStep(sender), UNCHANGED now
      PROVE  LendingRole!RoleNext
  <2>1. ASSUME NEW proposed \in RoleCandidates, propose_lending_adapter(sender, proposed)
        PROVE  LendingRole!Propose
    <3>1. /\ pending_lending' = [present |-> TRUE, address |-> proposed,
                     at |-> now + RoleTransferDelay]
          /\ lending_adapter' = lending_adapter
      BY <2>1 DEF propose_lending_adapter
    <3>2. (now + RoleTransferDelay) - RoleTransferDelay = now
      BY DEF RolesTyped
    <3>3. Handover(pending_lending)' = [to |-> proposed, since |-> now]
      BY <3>1, <3>2 DEF Handover
    <3>4. QED BY <1>1, <3>1, <3>3 DEF LendingRole!Propose
  <2>2. ASSUME execute_lending_adapter(sender) PROVE LendingRole!Accept
    <3>1. /\ pending_lending.present /\ now >= pending_lending.at
          /\ lending_adapter' = pending_lending.address
          /\ pending_lending' = [pending_lending EXCEPT !.present = FALSE, !.at = 0]
      BY <2>2 DEF execute_lending_adapter
    <3>2. /\ Handover(pending_lending) # null
          /\ Handover(pending_lending).to = pending_lending.address
          /\ now >= Handover(pending_lending).since + RoleTransferDelay
      BY <3>1, HandoverFields DEF RolesTyped, PendingRole
    <3>3. Handover(pending_lending)' = null
      BY <3>1 DEF Handover, RolesTyped, PendingRole
    <3>4. QED BY <1>1, <3>1, <3>2, <3>3 DEF LendingRole!Accept
  <2>3. ASSUME cancel_lending_adapter(sender) PROVE LendingRole!Withdraw
    <3>1. /\ pending_lending.present /\ lending_adapter' = lending_adapter
          /\ pending_lending' = [present |-> FALSE, address |-> lending_adapter, at |-> 0]
      BY <2>3 DEF cancel_lending_adapter
    <3>2. Handover(pending_lending) # null
      BY <3>1, HandoverFields DEF RolesTyped
    <3>3. Handover(pending_lending)' = null
      BY <3>1 DEF Handover
    <3>4. QED BY <1>1, <3>1, <3>2, <3>3 DEF LendingRole!Withdraw
  <2>4. QED BY <1>1, <2>1, <2>2, <2>3 DEF LendingStep, LendingRole!RoleNext
<1>2. ASSUME UNCHANGED <<lending_adapter, pending_lending>>
      PROVE  UNCHANGED LendingRole!roleVars
  BY <1>2 DEF LendingRole!roleVars, Handover
<1>3. CASE PassTime /\ UNCHANGED roleStorage
  BY <1>2, <1>3 DEF roleStorage, LendingRole!RoleNext, LendingRole!PassTime, PassTime
<1>4. CASE UNCHANGED <<lending_adapter, pending_lending, now>>
  BY <1>2, <1>4
<1>5. QED BY <1>1, <1>3, <1>4, StepKinds DEF roleStorage

(* The lending adapter only changes through a proposal that has stood,     *)
(* neither cancelled nor replaced, for RoleTransferDelay, and becomes the  *)
(* address that was proposed (propose_lending_adapter,                     *)
(* execute_lending_adapter, cancel_lending_adapter).                       *)
THEOREM LendingKeepsTimelock == LocksSpec => LendingHandover
<1>1. LocksInit => LendingRole!RoleInit
  BY LocksAssumption DEF LocksInit, LendingRole!RoleInit, Handover
<1>2. RolesTyped /\ [LocksAloneNext]_<<locksVars, now>>
        => [LendingRole!RoleNext]_<<LendingRole!roleVars, now>>
  BY LendingRoleStep
<1>3. QED
  BY <1>1, <1>2, RolesInit, RolesStep, PTL DEF LocksSpec, LendingHandover, LendingRole!RoleSpec

(* Both roles of the lock contract keep their timelock.                    *)
THEOREM LockRolesKeepTimelock == LocksSpec => LockRoleHandovers
BY RiskKeepsTimelock, LendingKeepsTimelock DEF LockRoleHandovers
-----------------------------------------------------------------------------
(* The protocol. A step of the composition is a step of the hub by itself, *)
(* of the lock contract by itself, and of the resolver and the items.      *)

(* Steps of the resolver, the items and the messages between them.         *)
OwnerStep ==
  \/ \E n \in NFT :
       \/ \E to \in Wallets : TransferItem(n, to)
       \/ ResolverStep(n)
  \/ \E q \in queryMsgs : AnswerQuery(q) \/ BounceQuery(q)
  \/ \E msg \in replyMsgs : DeliverReply(msg)
  \/ DeliverOwner

ownerVars == <<resolverVars, itemVars, nft_owners>>

(* What the composition hands to the hub has the types the hub expects.    *)
LEMMA HubPart ==
  ASSUME ProtocolTypeOK, [ProtocolNext]_protocolVars
  PROVE  [HubNext]_<<hubVars, now>>
<1>1. CASE UNCHANGED <<hubVars, now>>
  BY <1>1
<1>2. CASE HubStep \/ NewBlock
  BY <1>2 DEF HubStep, NewBlock, HubNext
<1>3. CASE DeliverLock
  <2>1. Head(lockMsgs) \in LockMsg
    BY <1>3 DEF DeliverLock, LockMsgDelivered, ProtocolTypeOK, LocksTypeOK
  <2>2. Head(lockMsgs).nft \in NFT /\ Head(lockMsgs).lock \in LockState
    BY <2>1 DEF LockMsg, Flags, LockState
  <2>3. LocksContract \in Address
    BY HubAssumption
  <2>4. HubContractNext
    BY <1>3, <2>2, <2>3 DEF DeliverLock, HubContractNext
  <2>5. QED BY <1>3, <2>4 DEF DeliverLock, HubNext
<1>4. CASE DeliverOwner
  <2>1. Head(ownerMsgs) \in OwnerMsg
    BY <1>4 DEF DeliverOwner, ProtocolTypeOK, ResolverTypeOK
  <2>2. Head(ownerMsgs).nft \in NFT /\ Head(ownerMsgs).owner \in Address
    BY <2>1 DEF OwnerMsg
  <2>3. Resolver \in Address
    BY HubAssumption
  <2>4. HubContractNext
    BY <1>4, <2>2, <2>3 DEF DeliverOwner, HubContractNext
  <2>5. QED BY <1>4, <2>4 DEF DeliverOwner, HubNext
<1>5. QED
  BY <1>1, <1>2, <1>3, <1>4
     DEF ProtocolNext, protocolVars, TransferItem, ResolverStep, AnswerQuery,
         BounceQuery, DeliverReply, LocksStep

(* The lock contract runs as it does alone.                                *)
LEMMA LocksPart ==
  ASSUME [ProtocolNext]_protocolVars
  PROVE  [LocksAloneNext]_<<locksVars, now>>
<1>1. CASE UNCHANGED <<locksVars, now>>
  BY <1>1
<1>2. CASE LocksStep \/ NewBlock \/ DeliverLock
  BY <1>2 DEF LocksStep, NewBlock, DeliverLock, LocksAloneNext
<1>3. QED
  BY <1>1, <1>2
     DEF ProtocolNext, protocolVars, TransferItem, ResolverStep, AnswerQuery,
         BounceQuery, DeliverReply, DeliverOwner, HubStep

(* Every other step leaves the resolver, the items and the hub's record of *)
(* owners as they are.                                                     *)
LEMMA OwnerPart ==
  ASSUME [ProtocolNext]_protocolVars
  PROVE  \/ OwnerStep /\ UNCHANGED now
         \/ UNCHANGED ownerVars
<1>1. CASE UNCHANGED protocolVars
  BY <1>1 DEF protocolVars, ownerVars, hubVars, ledgerVars
<1>2. CASE NewBlock \/ LocksStep
  BY <1>2 DEF NewBlock, LocksStep, ownerVars, hubVars, ledgerVars
<1>3. CASE DeliverLock
  BY <1>3 DEF DeliverLock, ApplyAccountLock, ownerVars
<1>4. CASE HubStep
  <2>1. UNCHANGED nft_owners
    BY <1>4 DEF HubStep, HubUserNext, HubDepositNext, MerchantPaymentRequest,
       TBCDeposit, ProposeWhitelistCollection, ExecuteWhitelistCollection,
       CancelWhitelistCollection, MerchantProposeAdminTransfer,
       MerchantExecuteAdminTransfer, MerchantCancelAdminTransfer, ledgerVars
  <2>2. QED BY <1>4, <2>1 DEF HubStep, ownerVars
<1>5. CASE OwnerStep
  BY <1>5 DEF OwnerStep, TransferItem, ResolverStep, AnswerQuery, BounceQuery,
              DeliverReply, DeliverOwner
<1>6. QED BY <1>1, <1>2, <1>3, <1>4, <1>5 DEF ProtocolNext, OwnerStep

(* The storage of the lock contract keeps its types.                       *)
LEMMA LocksTypesStep ==
  ASSUME LocksTypeOK, [LocksAloneNext]_<<locksVars, now>>
  PROVE  LocksTypeOK'
<1> USE LocksAssumption, MaxTimeAssumption
<1>1. RolesTyped
  BY DEF LocksTypeOK, RolesTyped
<1>2. RolesTyped'
  BY <1>1, RolesStep
<1>3. ASSUME NEW n \in NFT, NEW flags \in Flags, set_lock(n, flags)
      PROVE  /\ lock_dict' \in [NFT -> Flags]
             /\ lockMsgs' \in Seq(LockMsg)
             /\ payment_hub' = payment_hub
  <2>1. lock_dict' \in [NFT -> Flags] /\ lock_dict'[n] = flags
    BY <1>3 DEF set_lock, LocksTypeOK
  <2>2. [nft |-> n, lock |-> lock_dict'[n]] \in LockMsg
    BY <2>1 DEF LockMsg
  <2>3. lockMsgs' = Append(lockMsgs, [nft |-> n, lock |-> lock_dict'[n]])
    BY <1>3 DEF set_lock
  <2>4. lockMsgs' \in Seq(LockMsg)
    BY <2>2, <2>3, AppendProperties DEF LocksTypeOK
  <2>5. QED BY <1>3, <2>1, <2>4 DEF set_lock
<1>4. /\ lock_dict' \in [NFT -> Flags]
      /\ lockMsgs' \in Seq(LockMsg)
      /\ payment_hub' \in Opt(Address)
  <2>1. CASE UNCHANGED <<lock_dict, lockMsgs, payment_hub>>
    BY <2>1 DEF LocksTypeOK
  <2>2. CASE LockMsgDelivered
    BY <2>2, HeadTailProperties DEF LockMsgDelivered, LocksTypeOK
  <2>3. ASSUME NEW sender \in Address, bind_payment_hub(sender, Hub)
        PROVE  <1>4
    BY <2>3 DEF bind_payment_hub, LocksTypeOK, Opt
  <2>4. ASSUME NEW sender \in Address, NEW n \in NFT, NEW value \in BOOLEAN,
               change_fraud_lock(sender, n, value)
        PROVE  <1>4
    <3>1. [lock_dict[n] EXCEPT !.fraud_locked = value] \in Flags
      BY DEF LocksTypeOK, Flags
    <3>2. QED BY <1>3, <2>4, <3>1 DEF change_fraud_lock, LocksTypeOK
  <2>5. ASSUME NEW sender \in Address, NEW n \in NFT, NEW value \in BOOLEAN,
               change_collateral_lock(sender, n, value)
        PROVE  <1>4
    <3>1. [lock_dict[n] EXCEPT !.collateral_locked = value] \in Flags
      BY DEF LocksTypeOK, Flags
    <3>2. QED BY <1>3, <2>5, <3>1 DEF change_collateral_lock, LocksTypeOK
  <2>6. QED
    BY <2>1, <2>2, <2>3, <2>4, <2>5
       DEF LocksAloneNext, LocksNext, locksVars, propose_risk_authority,
           execute_risk_authority, cancel_risk_authority, propose_lending_adapter,
           execute_lending_adapter, cancel_lending_adapter
<1>5. now' \in 0 .. MaxTime
  <2>1. now' = now \/ PassTime
    BY DEF LocksAloneNext
  <2>2. QED BY <2>1 DEF PassTime, LocksTypeOK
<1>6. QED BY <1>2, <1>4, <1>5 DEF LocksTypeOK, RolesTyped

(* The types of the resolver and of the items.                             *)
OwnersTyped ==
  /\ items \in [NFT -> Opt(Collections)]
  /\ pending \in [NFT -> Opt(PendingOwnerQuery)]
  /\ next_query \in Nat
  /\ pending_count \in Int
  /\ queryMsgs \subseteq Query
  /\ replyMsgs \subseteq Answer \cup Bounce
  /\ ownerMsgs \in Seq(OwnerMsg)
  /\ nft_history \in [NFT -> Seq(Wallets)]
  /\ \A n \in NFT : nft_history[n] # <<>>
  /\ resolved_epoch \in [NFT -> Nat]
  /\ nft_owners \in [NFT -> Opt(Address)]

(* What delivering a reply may do to the resolver.                         *)
LEMMA ReplyEffect ==
  ASSUME OwnersTyped, NEW msg \in replyMsgs, DeliverReply(msg)
  PROVE  /\ msg.nft \in NFT /\ msg.query_id \in Nat
         /\ replyMsgs' = replyMsgs \ {msg}
         /\ UNCHANGED <<items, next_query, queryMsgs, nft_history, resolved_epoch,
                        nft_owners>>
         /\ \/ UNCHANGED <<pending, pending_count, ownerMsgs>>
            \/ /\ pending[msg.nft] # null
               /\ pending[msg.nft].query_id = msg.query_id
               /\ pending' = [pending EXCEPT ![msg.nft] = null]
               /\ pending_count' = pending_count - 1
               /\ \/ UNCHANGED ownerMsgs
                  \/ /\ msg \in Answer
                     /\ ownerMsgs' =
                          Append(ownerMsgs,
                                 [nft |-> msg.nft, owner |-> msg.owner,
                                  epoch |-> msg.epoch,
                                  asked |-> pending[msg.nft].asked])
<1>1. msg \in Answer \cup Bounce
  BY DEF OwnersTyped
<1>2. msg.nft \in NFT /\ msg.query_id \in Nat
  BY <1>1 DEF Answer, Bounce
<1>3. /\ replyMsgs' = replyMsgs \ {msg}
      /\ UNCHANGED <<items, next_query, queryMsgs, nft_history, resolved_epoch,
                     nft_owners>>
  BY DEF DeliverReply, ReplyDelivered, itemVars, hubVars, ledgerVars
<1>4. CASE AccountNFTData(msg)
  <2>1. msg \in Answer
    BY <1>1, <1>4 DEF AccountNFTData, Answer, Bounce
  <2>2. QED BY <1>2, <1>3, <1>4, <2>1 DEF AccountNFTData, AnswerAccepted, Release
<1>5. CASE bouncedQuery(msg)
  BY <1>2, <1>3, <1>5 DEF bouncedQuery, Release
<1>6. CASE RefusedReply(msg)
  BY <1>2, <1>3, <1>6 DEF RefusedReply
<1>7. QED BY <1>4, <1>5, <1>6 DEF DeliverReply, ReplyDelivered

(* What a request for a refresh does, to a card without an open query and  *)
(* to one whose query has expired.                                         *)
LEMMA RefreshEffect ==
  ASSUME OwnersTyped, now \in Nat, NEW n \in NFT, NEW target \in Targets,
         RefreshAccountOwner(n, target, Len(nft_history[n]))
  PROVE  \E p \in PendingOwnerQuery :
           /\ p # null
           /\ p.query_id = next_query
           /\ p.asked = Len(nft_history[n])
           /\ pending' = [pending EXCEPT ![n] = p]
           /\ next_query' = next_query + 1
           /\ queryMsgs' = queryMsgs \cup {[nft |-> n, query_id |-> next_query]}
           /\ UNCHANGED <<items, replyMsgs, ownerMsgs>>
           /\ \/ pending[n] # null /\ UNCHANGED pending_count
              \/ /\ pending[n] = null /\ pending_count < MaxPending
                 /\ pending_count' = pending_count + 1
<1> DEFINE p == [query_id |-> next_query, target |-> target,
                 expires_at |-> now + QueryTTL, asked |-> Len(nft_history[n])]
<1>1. Len(nft_history[n]) \in Nat /\ now + QueryTTL \in Nat
  BY ResolverAssumption, LenProperties DEF OwnersTyped
<1>2. p \in PendingOwnerQuery /\ p.query_id = next_query /\ p.asked = Len(nft_history[n])
  BY <1>1 DEF OwnersTyped, PendingOwnerQuery
<1>3. p # null
  BY <1>2, NullQueryAssumption
<1>4. QED BY <1>2, <1>3 DEF RefreshAccountOwner

(* Every step on the owners' side keeps their types.                       *)
LEMMA OwnersTypedStep ==
  ASSUME OwnersTyped, now \in Nat, OwnerStep
  PROVE  OwnersTyped'
<1> USE ProtocolAssumption, ResolverAssumption
<1>1. ASSUME NEW n \in NFT, NEW to \in Wallets, TransferItem(n, to)
      PROVE  OwnersTyped'
  <2>1. Append(nft_history[n], to) \in Seq(Wallets) /\ Append(nft_history[n], to) # <<>>
    <3>1. nft_history[n] \in Seq(Wallets)
      BY DEF OwnersTyped
    <3>2. QED BY <3>1, AppendProperties
  <2>2. /\ nft_history' \in [NFT -> Seq(Wallets)]
        /\ \A m \in NFT : nft_history'[m] # <<>>
    BY <1>1, <2>1 DEF OwnersTyped, TransferItem
  <2>3. QED BY <1>1, <2>2 DEF OwnersTyped, TransferItem, resolverVars, hubVars, ledgerVars
<1>2. ASSUME NEW n \in NFT, ResolverStep(n)
      PROVE  OwnersTyped'
  <2>1. UNCHANGED <<nft_history, resolved_epoch, nft_owners>>
    BY <1>2 DEF ResolverStep, itemVars, hubVars, ledgerVars
  <2>2. ASSUME NEW c \in Collections, RegisterAccountItem(c, n)
        PROVE  OwnersTyped'
    <3>1. items' \in [NFT -> Opt(Collections)]
      BY <2>2 DEF RegisterAccountItem, OwnersTyped, Opt
    <3>2. QED BY <2>1, <2>2, <3>1 DEF RegisterAccountItem, OwnersTyped
  <2>3. ASSUME NEW target \in Targets,
               RefreshAccountOwner(n, target, Len(nft_history[n]))
        PROVE  OwnersTyped'
    <3>1. PICK p \in PendingOwnerQuery :
             /\ pending' = [pending EXCEPT ![n] = p]
             /\ next_query' = next_query + 1
             /\ queryMsgs' = queryMsgs \cup {[nft |-> n, query_id |-> next_query]}
             /\ UNCHANGED <<items, replyMsgs, ownerMsgs>>
             /\ pending_count' = pending_count \/ pending_count' = pending_count + 1
      BY <2>3, RefreshEffect
    <3>2. pending' \in [NFT -> Opt(PendingOwnerQuery)]
      BY <3>1 DEF OwnersTyped, Opt
    <3>3. queryMsgs' \subseteq Query
      BY <3>1 DEF OwnersTyped, Query
    <3>4. QED BY <2>1, <3>1, <3>2, <3>3 DEF OwnersTyped
  <2>4. CASE CleanupOwnerQuery(n)
    <3>1. pending' \in [NFT -> Opt(PendingOwnerQuery)] /\ pending_count' \in Int
      BY <2>4 DEF CleanupOwnerQuery, Release, OwnersTyped, Opt
    <3>2. QED BY <2>1, <2>4, <3>1 DEF CleanupOwnerQuery, OwnersTyped
  <2>5. QED BY <1>2, <2>2, <2>3, <2>4 DEF ResolverStep
<1>3. ASSUME NEW q \in queryMsgs, AnswerQuery(q) \/ BounceQuery(q)
      PROVE  OwnersTyped'
  <2>1. q.nft \in NFT /\ q.query_id \in Nat
    BY DEF OwnersTyped, Query
  <2>2. /\ CurrentOwner(q.nft) \in Address
        /\ Len(nft_history[q.nft]) \in Nat
    <3>1. nft_history[q.nft] \in Seq(Wallets) /\ nft_history[q.nft] # <<>>
      BY <2>1 DEF OwnersTyped
    <3>2. Len(nft_history[q.nft]) \in 1 .. Len(nft_history[q.nft])
      BY <3>1, EmptySeq
    <3>3. QED BY <3>1, <3>2, ElementOfSeq DEF CurrentOwner
  <2>3. replyMsgs' \subseteq Answer \cup Bounce /\ queryMsgs' \subseteq Query
    <3>1. CASE AnswerQuery(q)
      <4>1. [kind |-> "data", nft |-> q.nft, query_id |-> q.query_id,
             collection |-> ItemCollection[q.nft],
             owner |-> CurrentOwner(q.nft), epoch |-> Len(nft_history[q.nft])] \in Answer
        BY <2>1, <2>2 DEF Answer
      <4>2. QED BY <3>1, <4>1 DEF AnswerQuery, OwnersTyped
    <3>2. CASE BounceQuery(q)
      <4>1. [kind |-> "bounced", nft |-> q.nft, query_id |-> q.query_id] \in Bounce
        BY <2>1 DEF Bounce
      <4>2. QED BY <3>2, <4>1 DEF BounceQuery, OwnersTyped
    <3>3. QED BY <1>3, <3>1, <3>2
  <2>4. QED
    BY <1>3, <2>3 DEF AnswerQuery, BounceQuery, OwnersTyped, itemVars, hubVars, ledgerVars
<1>4. ASSUME NEW msg \in replyMsgs, DeliverReply(msg)
      PROVE  OwnersTyped'
  <2> DEFINE m == [nft |-> msg.nft, owner |-> msg.owner, epoch |-> msg.epoch,
                   asked |-> pending[msg.nft].asked]
  <2>1. /\ msg.nft \in NFT
        /\ replyMsgs' \subseteq Answer \cup Bounce
        /\ UNCHANGED <<items, next_query, queryMsgs, nft_history, resolved_epoch,
                       nft_owners>>
    BY <1>4, ReplyEffect DEF OwnersTyped
  <2>2. CASE UNCHANGED <<pending, pending_count, ownerMsgs>>
    BY <2>1, <2>2 DEF OwnersTyped
  <2>3. ASSUME pending[msg.nft] # null,
               pending' = [pending EXCEPT ![msg.nft] = null],
               pending_count' = pending_count - 1,
               ownerMsgs' \in Seq(OwnerMsg)
        PROVE  OwnersTyped'
    <3>1. pending' \in [NFT -> Opt(PendingOwnerQuery)]
      BY <2>3 DEF OwnersTyped, Opt
    <3>2. QED BY <2>1, <2>3, <3>1 DEF OwnersTyped
  <2>4. ASSUME pending[msg.nft] # null, msg \in Answer
        PROVE  Append(ownerMsgs, m) \in Seq(OwnerMsg)
    <3>1. pending[msg.nft] \in PendingOwnerQuery
      BY <2>1, <2>4 DEF OwnersTyped, Opt
    <3>2. m \in OwnerMsg
      BY <2>4, <3>1 DEF Answer, OwnerMsg, PendingOwnerQuery
    <3>3. QED BY <3>2, AppendProperties DEF OwnersTyped
  <2>5. ownerMsgs \in Seq(OwnerMsg)
    BY DEF OwnersTyped
  <2>6. \/ UNCHANGED <<pending, pending_count, ownerMsgs>>
        \/ /\ pending[msg.nft] # null
           /\ pending' = [pending EXCEPT ![msg.nft] = null]
           /\ pending_count' = pending_count - 1
           /\ \/ UNCHANGED ownerMsgs
              \/ msg \in Answer /\ ownerMsgs' = Append(ownerMsgs, m)
    BY <1>4, ReplyEffect
  <2>7. QED BY <2>2, <2>3, <2>4, <2>5, <2>6
<1>5. CASE DeliverOwner
  <2>1. Head(ownerMsgs) \in OwnerMsg /\ ownerMsgs' \in Seq(OwnerMsg)
    BY <1>5, HeadTailProperties DEF DeliverOwner, OwnersTyped
  <2>2. /\ Head(ownerMsgs).nft \in NFT /\ Head(ownerMsgs).owner \in Address
        /\ Head(ownerMsgs).epoch \in Nat
    BY <2>1 DEF OwnerMsg
  <2>3. /\ nft_owners' \in [NFT -> Opt(Address)]
        /\ resolved_epoch' \in [NFT -> Nat]
    BY <1>5, <2>2 DEF DeliverOwner, ResolveNFTOwner, OwnersTyped, Opt
  <2>4. QED BY <1>5, <2>1, <2>3 DEF DeliverOwner, OwnersTyped
<1>6. QED BY <1>1, <1>2, <1>3, <1>4, <1>5 DEF OwnerStep

(* An owner somebody has on record, or on the way, is the one of the epoch *)
(* it is marked with.                                                      *)
WasOwner(n, epoch, owner) ==
  epoch \in 1 .. Len(nft_history[n]) /\ owner = nft_history[n][epoch]

EpochsAreReal ==
  /\ \A n \in NFT :
       \/ resolved_epoch[n] = 0 /\ nft_owners[n] = null
       \/ WasOwner(n, resolved_epoch[n], nft_owners[n])
  /\ \A m \in replyMsgs : m.kind = "data" => WasOwner(m.nft, m.epoch, m.owner)
  /\ \A i \in 1 .. Len(ownerMsgs) :
       WasOwner(ownerMsgs[i].nft, ownerMsgs[i].epoch, ownerMsgs[i].owner)

(* Query ids are never used twice, so an answer that fits the open query   *)
(* was given after it was asked.                                           *)
AnswersAreFresh ==
  /\ \A q \in queryMsgs : q.query_id < next_query
  /\ \A m \in replyMsgs : m.query_id < next_query
  /\ \A n \in NFT : pending[n] # null => pending[n].asked <= Len(nft_history[n])
  /\ \A m \in replyMsgs :
       (/\ m.kind = "data" /\ pending[m.nft] # null
        /\ m.query_id = pending[m.nft].query_id) => m.epoch >= pending[m.nft].asked
  /\ \A i \in 1 .. Len(ownerMsgs) : ownerMsgs[i].epoch >= ownerMsgs[i].asked

(* A query asks after everything that was read for its card before: what   *)
(* the hub has on record, and what is on the way to it, in order.          *)
EpochsInOrder ==
  /\ \A i \in 1 .. Len(ownerMsgs) :
       resolved_epoch[ownerMsgs[i].nft] <= ownerMsgs[i].epoch
  /\ \A i, j \in 1 .. Len(ownerMsgs) :
       (i < j /\ ownerMsgs[i].nft = ownerMsgs[j].nft)
         => ownerMsgs[i].epoch <= ownerMsgs[j].epoch
  /\ \A n \in NFT : pending[n] # null =>
       /\ resolved_epoch[n] <= pending[n].asked
       /\ \A i \in 1 .. Len(ownerMsgs) :
            ownerMsgs[i].nft = n => ownerMsgs[i].epoch <= pending[n].asked

OwnersInv == OwnersTyped /\ EpochsAreReal /\ AnswersAreFresh /\ EpochsInOrder

(* What the types say of a message, a query and a history.                 *)
LEMMA OwnerFields ==
  ASSUME OwnersTyped
  PROVE  /\ Len(ownerMsgs) \in Nat
         /\ \A i \in 1 .. Len(ownerMsgs) :
              /\ ownerMsgs[i].nft \in NFT /\ ownerMsgs[i].epoch \in Nat
              /\ ownerMsgs[i].asked \in Nat
         /\ \A n \in NFT : pending[n] # null =>
              pending[n].asked \in Nat /\ pending[n].query_id \in Nat
         /\ \A n \in NFT : /\ Len(nft_history[n]) \in Nat \ {0}
                           /\ resolved_epoch[n] \in Nat
         /\ \A m \in replyMsgs :
              /\ m.nft \in NFT /\ m.query_id \in Nat
              /\ m.kind = "data" => m \in Answer /\ m.epoch \in Nat
         /\ \A q \in queryMsgs : q.nft \in NFT /\ q.query_id \in Nat
<1>1. /\ Len(ownerMsgs) \in Nat
      /\ \A i \in 1 .. Len(ownerMsgs) : ownerMsgs[i] \in OwnerMsg
  BY LenProperties, ElementOfSeq DEF OwnersTyped
<1>2. \A n \in NFT : pending[n] # null =>
              pending[n].asked \in Nat /\ pending[n].query_id \in Nat
  BY DEF OwnersTyped, Opt, PendingOwnerQuery
<1>3. \A n \in NFT : Len(nft_history[n]) \in Nat \ {0} /\ resolved_epoch[n] \in Nat
  <2>1. \A n \in NFT : nft_history[n] \in Seq(Wallets) /\ nft_history[n] # <<>>
    BY DEF OwnersTyped
  <2>2. QED BY <2>1, EmptySeq DEF OwnersTyped
<1>4. \A m \in replyMsgs :
              /\ m.nft \in NFT /\ m.query_id \in Nat
              /\ m.kind = "data" => m \in Answer /\ m.epoch \in Nat
  BY DEF OwnersTyped, Answer, Bounce
<1>5. \A q \in queryMsgs : q.nft \in NFT /\ q.query_id \in Nat
  BY DEF OwnersTyped, Query
<1>6. QED BY <1>1, <1>2, <1>3, <1>4, <1>5 DEF OwnerMsg

(* A transfer adds an owner and leaves the earlier ones in their places.   *)
LEMMA TransferKeepsOwners ==
  ASSUME OwnersInv, NEW n \in NFT, NEW to \in Wallets, TransferItem(n, to)
  PROVE  EpochsAreReal' /\ AnswersAreFresh' /\ EpochsInOrder'
<1> USE OwnerFields DEF OwnersInv
<1>1. UNCHANGED <<resolverVars, resolved_epoch, nft_owners>>
  BY DEF TransferItem, hubVars, ledgerVars
<1>2. \A m \in NFT :
        /\ Len(nft_history'[m]) \in Nat /\ Len(nft_history'[m]) >= Len(nft_history[m])
        /\ \A e \in 1 .. Len(nft_history[m]) : nft_history'[m][e] = nft_history[m][e]
  <2> SUFFICES ASSUME NEW m \in NFT
               PROVE  /\ Len(nft_history'[m]) \in Nat
                      /\ Len(nft_history'[m]) >= Len(nft_history[m])
                      /\ \A e \in 1 .. Len(nft_history[m]) :
                           nft_history'[m][e] = nft_history[m][e]
    OBVIOUS
  <2>1. CASE m # n
    <3>1. nft_history'[m] = nft_history[m]
      BY <2>1 DEF TransferItem, OwnersTyped
    <3>2. QED BY <3>1
  <2>2. CASE m = n
    <3>1. nft_history'[m] = Append(nft_history[m], to)
      BY <2>2 DEF TransferItem, OwnersTyped
    <3>2. nft_history[m] \in Seq(Wallets)
      BY DEF OwnersTyped
    <3>3. QED BY <3>1, <3>2, AppendProperties
  <2>3. QED BY <2>1, <2>2
<1>3. ASSUME NEW m \in NFT, NEW e, NEW o, WasOwner(m, e, o)
      PROVE  WasOwner(m, e, o)'
  BY <1>2, <1>3 DEF WasOwner
<1>4. EpochsAreReal'
  <2>1. \A m \in NFT : \/ resolved_epoch[m] = 0 /\ nft_owners[m] = null
                       \/ WasOwner(m, resolved_epoch[m], nft_owners[m])'
    BY <1>1, <1>3 DEF EpochsAreReal
  <2>2. \A m \in replyMsgs : m.kind = "data" => WasOwner(m.nft, m.epoch, m.owner)'
    BY <1>3 DEF EpochsAreReal
  <2>3. \A i \in 1 .. Len(ownerMsgs) :
          WasOwner(ownerMsgs[i].nft, ownerMsgs[i].epoch, ownerMsgs[i].owner)'
    BY <1>1, <1>3 DEF EpochsAreReal, resolverVars
  <2>4. QED BY <1>1, <2>1, <2>2, <2>3 DEF EpochsAreReal, resolverVars, WasOwner
<1>5. AnswersAreFresh'
  BY <1>1, <1>2 DEF AnswersAreFresh, resolverVars
<1>6. EpochsInOrder'
  BY <1>1 DEF EpochsInOrder, resolverVars
<1>7. QED BY <1>4, <1>5, <1>6

(* A new query carries an id nobody has used, and asks after everything.   *)
LEMMA RefreshKeepsOwners ==
  ASSUME OwnersInv, now \in Nat, NEW n \in NFT, NEW target \in Targets,
         RefreshAccountOwner(n, target, Len(nft_history[n])),
         UNCHANGED <<nft_history, resolved_epoch, nft_owners>>
  PROVE  EpochsAreReal' /\ AnswersAreFresh' /\ EpochsInOrder'
<1> USE OwnerFields DEF OwnersInv
<1>1. PICK p \in PendingOwnerQuery :
           /\ p # null
           /\ p.query_id = next_query
           /\ p.asked = Len(nft_history[n])
           /\ pending' = [pending EXCEPT ![n] = p]
           /\ next_query' = next_query + 1
           /\ queryMsgs' = queryMsgs \cup {[nft |-> n, query_id |-> next_query]}
           /\ UNCHANGED <<items, replyMsgs, ownerMsgs>>
  BY RefreshEffect
<1>2. EpochsAreReal'
  BY <1>1 DEF EpochsAreReal, WasOwner
<1>3. next_query \in Nat
  BY DEF OwnersTyped
<1>4. \A m \in NFT : pending'[m] = IF m = n THEN p ELSE pending[m]
  BY <1>1 DEF OwnersTyped
<1>5. AnswersAreFresh'
  <2>1. /\ \A q \in queryMsgs' : q.query_id < next_query'
        /\ \A m \in replyMsgs' : m.query_id < next_query'
    BY <1>1, <1>3 DEF AnswersAreFresh
  <2>2. \A m \in NFT : pending'[m] # null => pending'[m].asked <= Len(nft_history'[m])
    BY <1>1, <1>4 DEF AnswersAreFresh
  <2>3. \A m \in replyMsgs' :
          (/\ m.kind = "data" /\ pending'[m.nft] # null
           /\ m.query_id = pending'[m.nft].query_id) => m.epoch >= pending'[m.nft].asked
    BY <1>1, <1>3, <1>4 DEF AnswersAreFresh
  <2>4. \A i \in 1 .. Len(ownerMsgs') : ownerMsgs'[i].epoch >= ownerMsgs'[i].asked
    BY <1>1 DEF AnswersAreFresh
  <2>5. QED BY <2>1, <2>2, <2>3, <2>4 DEF AnswersAreFresh
<1>6. EpochsInOrder'
  <2>1. resolved_epoch[n] <= p.asked
    BY <1>1 DEF EpochsAreReal, WasOwner
  <2>2. \A i \in 1 .. Len(ownerMsgs) : ownerMsgs[i].nft = n => ownerMsgs[i].epoch <= p.asked
    BY <1>1 DEF EpochsAreReal, WasOwner
  <2>3. QED BY <1>1, <1>4, <2>1, <2>2 DEF EpochsInOrder
<1>7. QED BY <1>2, <1>5, <1>6

(* Closing a query, by a cleanup or with the reply that ends it.           *)
LEMMA CloseKeepsOwners ==
  ASSUME OwnersInv, NEW n \in NFT, pending' = [pending EXCEPT ![n] = null],
         replyMsgs' \subseteq replyMsgs,
         UNCHANGED <<next_query, queryMsgs, ownerMsgs, nft_history, resolved_epoch,
                     nft_owners>>
  PROVE  EpochsAreReal' /\ AnswersAreFresh' /\ EpochsInOrder'
<1> USE OwnerFields DEF OwnersInv
<1>1. \A m \in NFT : pending'[m] # null => pending'[m] = pending[m]
  BY DEF OwnersTyped
<1>2. EpochsAreReal'
  BY DEF EpochsAreReal, WasOwner
<1>3. AnswersAreFresh'
  BY <1>1 DEF AnswersAreFresh
<1>4. EpochsInOrder'
  BY <1>1 DEF EpochsInOrder
<1>5. QED BY <1>2, <1>3, <1>4

(* The item answers with its owner at that instant, or not at all.         *)
LEMMA AnswerKeepsOwners ==
  ASSUME OwnersInv, NEW q \in queryMsgs, AnswerQuery(q) \/ BounceQuery(q)
  PROVE  EpochsAreReal' /\ AnswersAreFresh' /\ EpochsInOrder'
<1> USE OwnerFields DEF OwnersInv
<1> DEFINE answer == [kind |-> "data", nft |-> q.nft, query_id |-> q.query_id,
                      collection |-> ItemCollection[q.nft],
                      owner |-> CurrentOwner(q.nft), epoch |-> Len(nft_history[q.nft])]
           bounce == [kind |-> "bounced", nft |-> q.nft, query_id |-> q.query_id]
<1>1. /\ UNCHANGED <<pending, next_query, ownerMsgs, nft_history, resolved_epoch,
                     nft_owners>>
      /\ queryMsgs' \subseteq queryMsgs
      /\ \A m \in replyMsgs' : m \in replyMsgs \/ m = answer \/ m = bounce
  BY DEF AnswerQuery, BounceQuery, itemVars, hubVars, ledgerVars
<1>2. q.nft \in NFT /\ Len(nft_history[q.nft]) \in Nat \ {0}
  OBVIOUS
<1>3. WasOwner(answer.nft, answer.epoch, answer.owner)
  BY <1>2 DEF WasOwner, CurrentOwner
<1>4. bounce.kind # "data" /\ bounce.query_id = q.query_id /\ answer.query_id = q.query_id
  OBVIOUS
<1>5. EpochsAreReal'
  <2>1. \A m \in replyMsgs' : m.kind = "data" => WasOwner(m.nft, m.epoch, m.owner)
    BY <1>1, <1>3, <1>4 DEF EpochsAreReal
  <2>2. QED BY <1>1, <2>1 DEF EpochsAreReal, WasOwner
<1>6. AnswersAreFresh'
  <2>1. \A m \in replyMsgs' : m.query_id < next_query
    BY <1>1, <1>4 DEF AnswersAreFresh
  <2>2. pending[q.nft] # null => answer.epoch >= pending[q.nft].asked
    BY <1>2 DEF AnswersAreFresh
  <2>3. \A m \in replyMsgs' :
          (/\ m.kind = "data" /\ pending[m.nft] # null
           /\ m.query_id = pending[m.nft].query_id) => m.epoch >= pending[m.nft].asked
    BY <1>1, <1>4, <2>2 DEF AnswersAreFresh
  <2>4. QED BY <1>1, <2>1, <2>3 DEF AnswersAreFresh
<1>7. EpochsInOrder'
  BY <1>1 DEF EpochsInOrder
<1>8. QED BY <1>5, <1>6, <1>7

(* A forwarded answer comes after all that is on its way for the card.     *)
LEMMA ForwardKeepsOwners ==
  ASSUME OwnersInv, NEW msg \in replyMsgs, msg \in Answer,
         pending[msg.nft] # null, pending[msg.nft].query_id = msg.query_id,
         pending' = [pending EXCEPT ![msg.nft] = null],
         ownerMsgs' = Append(ownerMsgs,
                             [nft |-> msg.nft, owner |-> msg.owner,
                              epoch |-> msg.epoch, asked |-> pending[msg.nft].asked]),
         replyMsgs' \subseteq replyMsgs,
         UNCHANGED <<next_query, queryMsgs, nft_history, resolved_epoch, nft_owners>>
  PROVE  EpochsAreReal' /\ AnswersAreFresh' /\ EpochsInOrder'
<1> USE OwnerFields DEF OwnersInv
<1> DEFINE m == [nft |-> msg.nft, owner |-> msg.owner, epoch |-> msg.epoch,
                 asked |-> pending[msg.nft].asked]
           k == Len(ownerMsgs)
<1>1. msg.nft \in NFT /\ msg.kind = "data" /\ msg.epoch \in Nat
  BY DEF Answer
<1>2. m \in OwnerMsg
  BY <1>1 DEF OwnerMsg, Answer
<1>3. /\ Len(ownerMsgs') = k + 1 /\ k \in Nat
      /\ \A i \in 1 .. k : ownerMsgs'[i] = ownerMsgs[i]
      /\ ownerMsgs'[k + 1] = m
  BY <1>2, AppendProperties DEF OwnersTyped
<1>4. \A n \in NFT : pending'[n] # null => pending'[n] = pending[n] /\ n # msg.nft
  BY <1>1 DEF OwnersTyped
<1>5. WasOwner(msg.nft, msg.epoch, msg.owner) /\ msg.epoch >= pending[msg.nft].asked
  BY <1>1 DEF EpochsAreReal, AnswersAreFresh
<1>6. EpochsAreReal'
  <2>1. \A i \in 1 .. k + 1 :
          WasOwner(ownerMsgs'[i].nft, ownerMsgs'[i].epoch, ownerMsgs'[i].owner)
    BY <1>3, <1>5 DEF EpochsAreReal
  <2>2. QED BY <1>3, <2>1 DEF EpochsAreReal, WasOwner
<1>7. AnswersAreFresh'
  <2>1. \A i \in 1 .. k + 1 : ownerMsgs'[i].epoch >= ownerMsgs'[i].asked
    BY <1>3, <1>5 DEF AnswersAreFresh
  <2>2. QED BY <1>3, <1>4, <2>1 DEF AnswersAreFresh
<1>8. EpochsInOrder'
  <2>1. /\ resolved_epoch[msg.nft] <= msg.epoch
        /\ \A i \in 1 .. k : ownerMsgs[i].nft = msg.nft => ownerMsgs[i].epoch <= msg.epoch
    BY <1>1, <1>5 DEF EpochsInOrder
  <2>2. \A i \in 1 .. k + 1 : resolved_epoch[ownerMsgs'[i].nft] <= ownerMsgs'[i].epoch
    BY <1>3, <2>1 DEF EpochsInOrder
  <2>3. \A i, j \in 1 .. k + 1 :
          (i < j /\ ownerMsgs'[i].nft = ownerMsgs'[j].nft)
            => ownerMsgs'[i].epoch <= ownerMsgs'[j].epoch
    BY <1>3, <2>1 DEF EpochsInOrder
  <2>4. \A n \in NFT : pending'[n] # null =>
          \A i \in 1 .. k + 1 :
            ownerMsgs'[i].nft = n => ownerMsgs'[i].epoch <= pending'[n].asked
    BY <1>3, <1>4 DEF EpochsInOrder
  <2>5. QED BY <1>3, <1>4, <2>2, <2>3, <2>4 DEF EpochsInOrder
<1>9. QED BY <1>6, <1>7, <1>8

(* The hub takes the first message: no later one is of an earlier epoch.   *)
LEMMA DeliverKeepsOwners ==
  ASSUME OwnersInv, DeliverOwner
  PROVE  /\ EpochsAreReal' /\ AnswersAreFresh' /\ EpochsInOrder'
         /\ \A n \in NFT : resolved_epoch'[n] >= resolved_epoch[n]
<1> USE OwnerFields DEF OwnersInv
<1> DEFINE m == ownerMsgs[1]
           k == Len(ownerMsgs)
<1>1. /\ k \in Nat \ {0} /\ Len(ownerMsgs') = k - 1
      /\ Head(ownerMsgs) = m
      /\ \A i \in 1 .. k - 1 : ownerMsgs'[i] = ownerMsgs[i + 1]
  BY HeadTailProperties, EmptySeq DEF DeliverOwner, OwnersTyped
<1>0. \A i \in 1 .. k - 1 : i + 1 \in 1 .. k /\ ownerMsgs'[i] = ownerMsgs[i + 1]
  BY <1>1
<1>2. 1 \in 1 .. k /\ m.nft \in NFT
  BY <1>1
<1>3. /\ \A n \in NFT : /\ n # m.nft => /\ resolved_epoch'[n] = resolved_epoch[n]
                                        /\ nft_owners'[n] = nft_owners[n]
                        /\ n = m.nft => /\ resolved_epoch'[n] = m.epoch
                                        /\ nft_owners'[n] = m.owner
      /\ UNCHANGED <<pending, next_query, queryMsgs, replyMsgs, nft_history>>
  BY <1>1, <1>2 DEF DeliverOwner, ResolveNFTOwner, OwnersTyped
<1>4. WasOwner(m.nft, m.epoch, m.owner)
  BY <1>2 DEF EpochsAreReal
<1>5. \A n \in NFT : resolved_epoch'[n] >= resolved_epoch[n]
  BY <1>2, <1>3 DEF EpochsInOrder
<1>6. EpochsAreReal'
  <2>1. \A n \in NFT :
          \/ resolved_epoch'[n] = 0 /\ nft_owners'[n] = null
          \/ WasOwner(n, resolved_epoch'[n], nft_owners'[n])
    BY <1>3, <1>4 DEF EpochsAreReal
  <2>2. \A i \in 1 .. k - 1 :
          WasOwner(ownerMsgs'[i].nft, ownerMsgs'[i].epoch, ownerMsgs'[i].owner)
    BY <1>1 DEF EpochsAreReal
  <2>3. QED BY <1>1, <1>3, <2>1, <2>2 DEF EpochsAreReal, WasOwner
<1>7. AnswersAreFresh'
  <2>1. \A i \in 1 .. k - 1 : ownerMsgs'[i].epoch >= ownerMsgs'[i].asked
    <3> SUFFICES ASSUME NEW i \in 1 .. k - 1
                 PROVE  ownerMsgs'[i].epoch >= ownerMsgs'[i].asked
      OBVIOUS
    <3>1. QED BY <1>0 DEF AnswersAreFresh
  <2>2. QED BY <1>1, <1>3, <2>1 DEF AnswersAreFresh
<1>8. EpochsInOrder'
  <2>1. \A i \in 1 .. k - 1 : resolved_epoch'[ownerMsgs'[i].nft] <= ownerMsgs'[i].epoch
    <3> SUFFICES ASSUME NEW i \in 1 .. k - 1
                 PROVE  resolved_epoch'[ownerMsgs'[i].nft] <= ownerMsgs'[i].epoch
      OBVIOUS
    <3>1. ownerMsgs'[i] = ownerMsgs[i + 1] /\ i + 1 \in 1 .. k /\ 1 < i + 1
      BY <1>1
    <3>2. ownerMsgs[i + 1].nft \in NFT
      BY <3>1
    <3>3. CASE ownerMsgs[i + 1].nft = m.nft
      BY <1>2, <1>3, <3>1, <3>3 DEF EpochsInOrder
    <3>4. CASE ownerMsgs[i + 1].nft # m.nft
      BY <1>3, <3>1, <3>2, <3>4 DEF EpochsInOrder
    <3>5. QED BY <3>3, <3>4
  <2>2. \A i, j \in 1 .. k - 1 :
          (i < j /\ ownerMsgs'[i].nft = ownerMsgs'[j].nft)
            => ownerMsgs'[i].epoch <= ownerMsgs'[j].epoch
    <3> SUFFICES ASSUME NEW i \in 1 .. k - 1, NEW j \in 1 .. k - 1, i < j,
                        ownerMsgs'[i].nft = ownerMsgs'[j].nft
                 PROVE  ownerMsgs'[i].epoch <= ownerMsgs'[j].epoch
      OBVIOUS
    <3>1. i + 1 < j + 1
      OBVIOUS
    <3>2. QED BY <1>0, <3>1 DEF EpochsInOrder
  <2>3. \A n \in NFT : pending[n] # null =>
          /\ resolved_epoch'[n] <= pending[n].asked
          /\ \A i \in 1 .. k - 1 :
               ownerMsgs'[i].nft = n => ownerMsgs'[i].epoch <= pending[n].asked
    BY <1>1, <1>2, <1>3 DEF EpochsInOrder
  <2>4. QED BY <1>1, <1>3, <2>1, <2>2, <2>3 DEF EpochsInOrder
<1>9. QED BY <1>5, <1>6, <1>7, <1>8

(* Every step on the owners' side keeps the invariant, and the recorded    *)
(* epochs only rise.                                                       *)
LEMMA OwnersStep ==
  ASSUME OwnersInv, now \in Nat, OwnerStep
  PROVE  OwnersInv' /\ \A n \in NFT : resolved_epoch'[n] >= resolved_epoch[n]
<1> USE DEF OwnersInv
<1> DEFINE Kept == EpochsAreReal' /\ AnswersAreFresh' /\ EpochsInOrder'
<1>1. OwnersTyped'
  BY OwnersTypedStep
<1>2. \A n \in NFT : resolved_epoch[n] \in Nat
  BY OwnerFields
<1>3. ASSUME NEW n \in NFT, NEW to \in Wallets, TransferItem(n, to)
      PROVE  Kept /\ UNCHANGED resolved_epoch
  BY <1>3, TransferKeepsOwners DEF TransferItem
<1>4. ASSUME NEW n \in NFT, ResolverStep(n)
      PROVE  Kept /\ UNCHANGED resolved_epoch
  <2>1. UNCHANGED <<nft_history, resolved_epoch, nft_owners>>
    BY <1>4 DEF ResolverStep, itemVars, hubVars, ledgerVars
  <2>2. ASSUME NEW c \in Collections, RegisterAccountItem(c, n)
        PROVE  Kept
    BY <2>1, <2>2 DEF RegisterAccountItem, EpochsAreReal, WasOwner, AnswersAreFresh,
                      EpochsInOrder
  <2>3. ASSUME NEW target \in Targets,
               RefreshAccountOwner(n, target, Len(nft_history[n]))
        PROVE  Kept
    BY <2>1, <2>3, RefreshKeepsOwners
  <2>4. ASSUME CleanupOwnerQuery(n)
        PROVE  Kept
    BY <2>1, <2>4, CloseKeepsOwners DEF CleanupOwnerQuery, Release
  <2>5. QED BY <1>4, <2>1, <2>2, <2>3, <2>4 DEF ResolverStep
<1>5. ASSUME NEW q \in queryMsgs, AnswerQuery(q) \/ BounceQuery(q)
      PROVE  Kept /\ UNCHANGED resolved_epoch
  BY <1>5, AnswerKeepsOwners DEF AnswerQuery, BounceQuery, itemVars
<1>6. ASSUME NEW msg \in replyMsgs, DeliverReply(msg)
      PROVE  Kept /\ UNCHANGED resolved_epoch
  <2>1. /\ msg.nft \in NFT
        /\ replyMsgs' \subseteq replyMsgs
        /\ UNCHANGED <<next_query, queryMsgs, nft_history, resolved_epoch, nft_owners>>
    BY <1>6, ReplyEffect
  <2>2. CASE UNCHANGED <<pending, ownerMsgs>>
    BY <2>1, <2>2 DEF EpochsAreReal, WasOwner, AnswersAreFresh, EpochsInOrder
  <2>3. CASE pending' = [pending EXCEPT ![msg.nft] = null] /\ UNCHANGED ownerMsgs
    BY <2>1, <2>3, CloseKeepsOwners
  <2>4. CASE /\ pending[msg.nft] # null
             /\ pending[msg.nft].query_id = msg.query_id
             /\ pending' = [pending EXCEPT ![msg.nft] = null]
             /\ msg \in Answer
             /\ ownerMsgs' = Append(ownerMsgs,
                                    [nft |-> msg.nft, owner |-> msg.owner,
                                     epoch |-> msg.epoch,
                                     asked |-> pending[msg.nft].asked])
    BY <2>1, <2>4, ForwardKeepsOwners
  <2>5. QED BY <1>6, <2>1, <2>2, <2>3, <2>4, ReplyEffect
<1>7. CASE DeliverOwner
  BY <1>1, <1>7, DeliverKeepsOwners
<1>8. QED BY <1>1, <1>2, <1>3, <1>4, <1>5, <1>6, <1>7 DEF OwnerStep

-----------------------------------------------------------------------------
(* The counter of the resolver. Open(p) are the cards with an open query.  *)
Open(p) == {n \in NFT : p[n] # null}

CountInv ==
  /\ IsFiniteSet(Open(pending))
  /\ pending_count = Cardinality(Open(pending))
  /\ pending_count <= MaxPending

(* Opening a query of a card without one, and closing one.                 *)
LEMMA OpenOne ==
  ASSUME OwnersTyped, CountInv, NEW n \in NFT, NEW p \in Opt(PendingOwnerQuery),
         pending' = [pending EXCEPT ![n] = p]
  PROVE  /\ IsFiniteSet(Open(pending'))
         /\ pending[n] = null /\ p # null =>
              Cardinality(Open(pending')) = Cardinality(Open(pending)) + 1
         /\ pending[n] # null /\ p # null => Open(pending') = Open(pending)
         /\ pending[n] # null /\ p = null =>
              Cardinality(Open(pending')) = Cardinality(Open(pending)) - 1
<1>1. \A m \in NFT : pending'[m] = IF m = n THEN p ELSE pending[m]
  BY DEF OwnersTyped
<1>2. CASE p # null
  <2>1. Open(pending') = Open(pending) \cup {n}
    BY <1>1, <1>2 DEF Open
  <2>2. pending[n] = null <=> n \notin Open(pending)
    BY DEF Open
  <2>3. QED BY <1>2, <2>1, <2>2, FS_AddElement DEF CountInv
<1>3. CASE p = null
  <2>1. Open(pending') = Open(pending) \ {n}
    BY <1>1, <1>3 DEF Open
  <2>2. pending[n] # null <=> n \in Open(pending)
    BY DEF Open
  <2>3. QED BY <1>3, <2>1, <2>2, FS_RemoveElement DEF CountInv
<1>4. QED BY <1>2, <1>3

(* Every step on the owners' side keeps the counter exact.                 *)
LEMMA CountStep ==
  ASSUME OwnersTyped, CountInv, now \in Nat, OwnerStep
  PROVE  CountInv'
<1> USE ResolverAssumption
<1>1. Cardinality(Open(pending)) \in Nat /\ pending_count \in Nat
  BY FS_CardinalityType DEF CountInv
<1>2. CASE UNCHANGED <<pending, pending_count>>
  BY <1>2 DEF CountInv, Open
<1>3. ASSUME NEW n \in NFT, pending[n] # null, pending' = [pending EXCEPT ![n] = null],
             pending_count' = pending_count - 1
      PROVE  CountInv'
  <2>1. null \in Opt(PendingOwnerQuery)
    BY DEF Opt
  <2>2. IsFiniteSet(Open(pending')) /\ Cardinality(Open(pending')) = pending_count - 1
    BY <1>3, <2>1, OpenOne DEF CountInv
  <2>3. QED BY <1>1, <1>3, <2>2 DEF CountInv
<1>4. ASSUME NEW n \in NFT, NEW target \in Targets,
             RefreshAccountOwner(n, target, Len(nft_history[n]))
      PROVE  CountInv'
  <2>1. PICK p \in PendingOwnerQuery :
           /\ p # null
           /\ pending' = [pending EXCEPT ![n] = p]
           /\ \/ pending[n] # null /\ UNCHANGED pending_count
              \/ /\ pending[n] = null /\ pending_count < MaxPending
                 /\ pending_count' = pending_count + 1
    BY <1>4, RefreshEffect
  <2>2. p \in Opt(PendingOwnerQuery)
    BY DEF Opt
  <2>3. CASE pending[n] # null /\ UNCHANGED pending_count
    BY <2>1, <2>2, <2>3, OpenOne DEF CountInv
  <2>4. CASE /\ pending[n] = null /\ pending_count < MaxPending
             /\ pending_count' = pending_count + 1
    <3>1. IsFiniteSet(Open(pending')) /\ Cardinality(Open(pending')) = pending_count + 1
      BY <2>1, <2>2, <2>4, OpenOne DEF CountInv
    <3>2. QED BY <1>1, <2>4, <3>1 DEF CountInv
  <2>5. QED BY <2>1, <2>3, <2>4
<1>5. ASSUME NEW msg \in replyMsgs, DeliverReply(msg)
      PROVE  CountInv'
  BY <1>2, <1>3, <1>5, ReplyEffect
<1>6. QED
  BY <1>2, <1>3, <1>4, <1>5
     DEF OwnerStep, TransferItem, ResolverStep, RegisterAccountItem, CleanupOwnerQuery,
         Release, AnswerQuery, BounceQuery, DeliverOwner, resolverVars

-----------------------------------------------------------------------------
(* The protocol's invariant: types, the hub's own, owners and the counter. *)
ProtocolInv == ProtocolTypeOK /\ HubInv /\ OwnersInv /\ CountInv

LEMMA ProtocolInitInv == ProtocolInit => ProtocolInv
<1> SUFFICES ASSUME ProtocolInit PROVE ProtocolInv
  OBVIOUS
<1> USE ProtocolAssumption, ResolverAssumption, MaxTimeAssumption
<1>1. HubTypeOK /\ HubInv
  BY HubInitInv DEF ProtocolInit, HubInv
<1>2. LocksTypeOK
  <2>1. RolesTyped
    BY RolesInit DEF ProtocolInit
  <2>2. lockMsgs \in Seq(LockMsg)
    BY EmptySeq DEF ProtocolInit, LocksInit
  <2>3. QED
    BY <2>1, <2>2 DEF ProtocolInit, LocksInit, TimeInit, LocksTypeOK, RolesTyped, Flags, Opt
<1>3. \A n \in NFT : /\ nft_history[n] = <<InitialOwner[n]>>
                     /\ nft_history[n] \in Seq(Wallets) /\ nft_history[n] # <<>>
  BY DEF ProtocolInit
<1>4. OwnersTyped
  <2>1. ownerMsgs \in Seq(OwnerMsg)
    BY EmptySeq DEF ProtocolInit, ResolverInit
  <2>2. /\ items \in [NFT -> Opt(Collections)]
        /\ pending \in [NFT -> Opt(PendingOwnerQuery)]
        /\ next_query \in Nat
        /\ pending_count \in Int
        /\ queryMsgs \subseteq Query
        /\ replyMsgs \subseteq Answer \cup Bounce
    BY DEF ProtocolInit, ResolverInit, Opt
  <2>3. nft_history \in [NFT -> Seq(Wallets)] /\ \A n \in NFT : nft_history[n] # <<>>
    BY <1>3 DEF ProtocolInit
  <2>4. resolved_epoch \in [NFT -> Nat] /\ nft_owners \in [NFT -> Opt(Address)]
    BY DEF ProtocolInit, HubInit, Opt
  <2>5. QED BY <2>1, <2>2, <2>3, <2>4 DEF OwnersTyped
<1>5. EpochsAreReal /\ AnswersAreFresh /\ EpochsInOrder
  <2>1. ownerMsgs = <<>> /\ Len(ownerMsgs) = 0 /\ replyMsgs = {} /\ queryMsgs = {}
    BY DEF ProtocolInit, ResolverInit
  <2>2. \A n \in NFT : pending[n] = null /\ resolved_epoch[n] = 0 /\ nft_owners[n] = null
    BY DEF ProtocolInit, ResolverInit, HubInit
  <2>3. QED BY <2>1, <2>2 DEF EpochsAreReal, AnswersAreFresh, EpochsInOrder
<1>6. CountInv
  <2>1. Open(pending) = {} /\ pending_count = 0
    BY DEF ProtocolInit, ResolverInit, Open
  <2>2. QED BY <2>1, FS_EmptySet DEF CountInv
<1>7. ResolverTypeOK /\ ProtocolTypeOK
  BY <1>1, <1>2, <1>4 DEF OwnersTyped, ResolverTypeOK, ProtocolTypeOK, HubTypeOK
<1>8. QED BY <1>1, <1>4, <1>5, <1>6, <1>7 DEF ProtocolInv, OwnersInv

(* Each contract's part of a step keeps that contract's part of it.        *)
LEMMA ProtocolStepInv ==
  ASSUME ProtocolInv, [ProtocolNext]_protocolVars
  PROVE  ProtocolInv' /\ \A n \in NFT : resolved_epoch'[n] >= resolved_epoch[n]
<1> USE DEF ProtocolInv
<1>1. HubInv' /\ HubTypeOK'
  BY HubPart, HubStepInv DEF HubInv
<1>2. LocksTypeOK'
  BY LocksPart, LocksTypesStep DEF ProtocolTypeOK
<1>3. now \in Nat
  BY MaxTimeAssumption DEF ProtocolTypeOK, HubTypeOK
<1>4. /\ OwnersInv' /\ CountInv'
      /\ \A n \in NFT : resolved_epoch'[n] >= resolved_epoch[n]
  <2>1. CASE OwnerStep
    BY <1>3, <2>1, OwnersStep, CountStep DEF OwnersInv
  <2>2. CASE UNCHANGED ownerVars
    <3>1. OwnersTyped'
      BY <2>2 DEF OwnersInv, OwnersTyped, ownerVars, resolverVars, itemVars
    <3>2. EpochsAreReal' /\ AnswersAreFresh' /\ EpochsInOrder'
      BY <2>2 DEF OwnersInv, EpochsAreReal, WasOwner, AnswersAreFresh, EpochsInOrder,
                  ownerVars, resolverVars, itemVars
    <3>3. CountInv'
      BY <2>2 DEF CountInv, Open, ownerVars, resolverVars
    <3>4. \A n \in NFT : resolved_epoch[n] \in Nat /\ resolved_epoch'[n] = resolved_epoch[n]
      BY <2>2, OwnerFields DEF OwnersInv, ownerVars, itemVars
    <3>5. QED BY <3>1, <3>2, <3>3, <3>4 DEF OwnersInv
  <2>3. QED BY <2>1, <2>2, OwnerPart
<1>5. ProtocolTypeOK'
  BY <1>1, <1>2, <1>4 DEF ProtocolTypeOK, ResolverTypeOK, OwnersInv, OwnersTyped, HubTypeOK
<1>6. QED BY <1>1, <1>4, <1>5

LEMMA ProtocolInvariant == ProtocolSpec => []ProtocolInv
<1>1. ProtocolInv /\ [ProtocolNext]_protocolVars => ProtocolInv'
  BY ProtocolStepInv
<1>2. QED BY <1>1, ProtocolInitInv, PTL DEF ProtocolSpec

(* MerchantPaymentHub.tact, account-locks.fc and VerifiedNFTAccountResolver*)
(* keep the types of their storage while they exchange messages.           *)
THEOREM ProtocolTypes == ProtocolSpec => []ProtocolTypeOK
BY ProtocolInvariant, PTL DEF ProtocolInv

(* The hub in the protocol does what the hub does alone, and so does the   *)
(* lock contract: whatever holds of HubSpec and LocksSpec holds of the     *)
(* protocol. The messages of the other contracts, and only they, have taken*)
(* the place of messages anyone might send.                                *)
THEOREM ProtocolRunsHub == ProtocolSpec => HubSpec
<1>1. ProtocolTypeOK /\ [ProtocolNext]_protocolVars => [HubNext]_<<hubVars, now>>
  BY HubPart
<1>2. ProtocolInit => HubInit
  BY DEF ProtocolInit
<1>3. QED BY <1>1, <1>2, ProtocolTypes, PTL DEF ProtocolSpec, HubSpec

(* account-locks.fc in the protocol does what it does alone.               *)
THEOREM ProtocolRunsLocks == ProtocolSpec => LocksSpec
<1>1. [ProtocolNext]_protocolVars => [LocksAloneNext]_<<locksVars, now>>
  BY LocksPart
<1>2. ProtocolInit => LocksInit
  BY DEF ProtocolInit
<1>3. QED BY <1>1, <1>2, PTL DEF ProtocolSpec, LocksSpec

(* The owner on the hub's record is one the item really had, and what the  *)
(* resolver forwards was read after it was asked for (RefreshAccountOwner, *)
(* AccountNFTData, ResolveNFTOwner).                                       *)
THEOREM OwnersAreReal == ProtocolSpec => []RecordedOwnerWasOwner
<1>1. ProtocolInv => RecordedOwnerWasOwner
  <2> SUFFICES ASSUME ProtocolInv PROVE RecordedOwnerWasOwner
    OBVIOUS
  <2>1. \A n \in NFT : nft_owners[n] = IF resolved_epoch[n] = 0 THEN null
                                       ELSE nft_history[n][resolved_epoch[n]]
    BY OwnerFields DEF ProtocolInv, OwnersInv, EpochsAreReal, WasOwner
  <2>2. DOMAIN ownerMsgs = 1 .. Len(ownerMsgs)
    BY LenProperties DEF ProtocolInv, OwnersInv, OwnersTyped
  <2>3. QED
    BY <2>1, <2>2 DEF ProtocolInv, OwnersInv, AnswersAreFresh, RecordedOwnerWasOwner
<1>2. QED BY <1>1, ProtocolInvariant, PTL

(* The hub never goes back to an earlier owner, whatever expires, is asked *)
(* again, is answered late or bounces (VerifiedNFTAccountResolver.tact).   *)
THEOREM OwnersMoveForward == ProtocolSpec => OwnerNeverRegresses
<1>1. ProtocolInv /\ [ProtocolNext]_protocolVars
        => [\A n \in NFT : resolved_epoch'[n] >= resolved_epoch[n]]_protocolVars
  BY ProtocolStepInv
<1>2. QED BY <1>1, ProtocolInvariant, PTL DEF ProtocolSpec, OwnerNeverRegresses

(* pending_count is the number of open queries and at most MaxPending      *)
(* (RefreshAccountOwner, AccountNFTData, bounced, CleanupOwnerQuery).      *)
THEOREM QueriesCounted == ProtocolSpec => []PendingCountExact
<1>1. ProtocolInv => PendingCountExact
  BY DEF ProtocolInv, CountInv, Open, PendingCountExact
<1>2. QED BY <1>1, ProtocolInvariant, PTL

-----------------------------------------------------------------------------
(* The hub's copy of the locks.                                            *)

(* The steps that leave all three sides of the comparison as they are.     *)
LEMMA LockStepKinds ==
  ASSUME ProtocolTypeOK, [ProtocolNext]_protocolVars
  PROVE  \/ UNCHANGED <<lock_dict, lockMsgs, account_locks>>
         \/ \E n \in NFT, flags \in Flags : set_lock(n, flags) /\ UNCHANGED account_locks
         \/ DeliverLock
<1>1. CASE UNCHANGED protocolVars
  BY <1>1 DEF protocolVars, locksVars, hubVars, ledgerVars
<1>2. CASE LocksStep
  <2>1. UNCHANGED account_locks
    BY <1>2 DEF LocksStep, hubVars, ledgerVars
  <2>2. ASSUME NEW n \in NFT, NEW value \in BOOLEAN
        PROVE  /\ [lock_dict[n] EXCEPT !.fraud_locked = value] \in Flags
               /\ [lock_dict[n] EXCEPT !.collateral_locked = value] \in Flags
    BY DEF ProtocolTypeOK, LocksTypeOK, Flags
  <2>3. ASSUME NEW sender \in Address, NEW n \in NFT, NEW value \in BOOLEAN,
               \/ change_fraud_lock(sender, n, value)
               \/ change_collateral_lock(sender, n, value)
        PROVE  \E flags \in Flags : set_lock(n, flags)
    BY <2>2, <2>3 DEF change_fraud_lock, change_collateral_lock
  <2>4. \/ \E sender \in Address, n \in NFT, value \in BOOLEAN :
             \/ change_fraud_lock(sender, n, value)
             \/ change_collateral_lock(sender, n, value)
        \/ UNCHANGED <<lock_dict, lockMsgs>>
    BY <1>2 DEF LocksStep, LocksNext, bind_payment_hub, propose_risk_authority,
                execute_risk_authority, cancel_risk_authority, propose_lending_adapter,
                execute_lending_adapter, cancel_lending_adapter
  <2>5. QED BY <2>1, <2>3, <2>4
<1>3. CASE HubStep
  BY <1>3 DEF HubStep, HubUserNext, HubDepositNext, MerchantPaymentRequest,
     TBCDeposit, ProposeWhitelistCollection, ExecuteWhitelistCollection,
     CancelWhitelistCollection, MerchantProposeAdminTransfer,
     MerchantExecuteAdminTransfer, MerchantCancelAdminTransfer, ledgerVars, locksVars
<1>4. CASE OwnerStep
  BY <1>4 DEF OwnerStep, TransferItem, ResolverStep, AnswerQuery, BounceQuery,
              DeliverReply, DeliverOwner, ResolveNFTOwner, locksVars, hubVars, ledgerVars
<1>5. CASE NewBlock
  BY <1>5 DEF NewBlock, locksVars, hubVars, ledgerVars
<1>6. QED BY <1>1, <1>2, <1>3, <1>4, <1>5 DEF ProtocolNext, OwnerStep

(* A change of the locks is sent as it is made.                            *)
LEMMA SetLockConverges ==
  ASSUME ProtocolTypeOK, HubLocksConverge, NEW n \in NFT, NEW flags \in Flags,
         set_lock(n, flags), UNCHANGED account_locks
  PROVE  HubLocksConverge'
<1> DEFINE k == Len(lockMsgs)
           msg == [nft |-> n, lock |-> lock_dict'[n]]
<1>1. lockMsgs \in Seq(LockMsg) /\ k \in Nat /\ DOMAIN lockMsgs = 1 .. k
  BY LenProperties DEF ProtocolTypeOK, LocksTypeOK
<1>2. \A m \in NFT : lock_dict'[m] = IF m = n THEN flags ELSE lock_dict[m]
  BY DEF set_lock, ProtocolTypeOK, LocksTypeOK
<1>3. msg \in LockMsg
  BY <1>2 DEF LockMsg
<1>4. lockMsgs' = Append(lockMsgs, msg)
  BY DEF set_lock
<1>5. /\ lockMsgs' \in Seq(LockMsg) /\ Len(lockMsgs') = k + 1
      /\ \A i \in 1 .. k : lockMsgs'[i] = lockMsgs[i]
      /\ lockMsgs'[k + 1] = msg
  BY <1>1, <1>3, <1>4, AppendProperties
<1>6. DOMAIN lockMsgs' = 1 .. k + 1
  BY <1>5, LenProperties
<1>7. ASSUME NEW m \in NFT
      PROVE  /\ InFlight(m)' = {} => account_locks'[m] = lock_dict'[m]
             /\ \A i \in InFlight(m)' :
                  (\A j \in InFlight(m)' : j <= i) => lockMsgs'[i].lock = lock_dict'[m]
  <2>1. CASE m = n
    <3>1. k + 1 \in InFlight(m)' /\ InFlight(m)' \subseteq 1 .. k + 1
      BY <1>1, <1>5, <1>6, <2>1 DEF InFlight
    <3>2. \A i \in InFlight(m)' : (\A j \in InFlight(m)' : j <= i) => i = k + 1
      BY <1>1, <3>1
    <3>3. QED BY <1>5, <2>1, <3>1, <3>2
  <2>2. CASE m # n
    <3>1. InFlight(m)' = InFlight(m) /\ InFlight(m) \subseteq 1 .. k
      BY <1>1, <1>5, <1>6, <2>2 DEF InFlight
    <3>2. QED BY <1>2, <1>5, <2>2, <3>1 DEF HubLocksConverge
  <2>3. QED BY <2>1, <2>2
<1>8. QED BY <1>7 DEF HubLocksConverge

(* The hub copies the first message; what remains lags by the rest.        *)
LEMMA DeliverLockConverges ==
  ASSUME ProtocolTypeOK, HubLocksConverge, DeliverLock
  PROVE  HubLocksConverge'
<1> DEFINE k == Len(lockMsgs)
           head == lockMsgs[1]
<1>1. lockMsgs \in Seq(LockMsg) /\ lockMsgs # <<>>
  BY DEF ProtocolTypeOK, LocksTypeOK, DeliverLock, LockMsgDelivered
<1>2. /\ k \in Nat \ {0} /\ DOMAIN lockMsgs = 1 .. k
      /\ Head(lockMsgs) = head /\ head \in LockMsg
  BY <1>1, LenProperties, EmptySeq, ElementOfSeq
<1>3. lockMsgs' = Tail(lockMsgs)
  BY DEF DeliverLock, LockMsgDelivered
<1>4. /\ lockMsgs' \in Seq(LockMsg) /\ Len(lockMsgs') = k - 1
      /\ \A i \in 1 .. k - 1 : lockMsgs'[i] = lockMsgs[i + 1]
  BY <1>1, <1>3, HeadTailProperties
<1>5. DOMAIN lockMsgs' = 1 .. k - 1
  BY <1>4, LenProperties
<1>6. head.nft \in NFT /\ head.lock \in Flags
  BY <1>2 DEF LockMsg
<1>7. \A m \in NFT : /\ account_locks'[m] = IF m = head.nft THEN head.lock
                                            ELSE account_locks[m]
                     /\ lock_dict'[m] = lock_dict[m]
  BY <1>2, <1>6 DEF DeliverLock, LockMsgDelivered, ApplyAccountLock, ProtocolTypeOK,
                    HubTypeOK
<1>8. ASSUME NEW m \in NFT
      PROVE  /\ InFlight(m)' = {} => account_locks'[m] = lock_dict'[m]
             /\ \A i \in InFlight(m)' :
                  (\A j \in InFlight(m)' : j <= i) => lockMsgs'[i].lock = lock_dict'[m]
  <2>1. \A i \in InFlight(m)' : /\ i \in 1 .. k - 1 /\ i + 1 \in InFlight(m)
                                /\ lockMsgs'[i] = lockMsgs[i + 1]
    <3> SUFFICES ASSUME NEW i \in InFlight(m)'
                 PROVE  /\ i \in 1 .. k - 1 /\ i + 1 \in InFlight(m)
                        /\ lockMsgs'[i] = lockMsgs[i + 1]
      OBVIOUS
    <3>1. i \in 1 .. k - 1 /\ lockMsgs'[i].nft = m
      BY <1>5 DEF InFlight
    <3>2. lockMsgs'[i] = lockMsgs[i + 1] /\ i + 1 \in 1 .. k
      BY <1>2, <1>4, <3>1
    <3>3. QED BY <1>2, <3>1, <3>2 DEF InFlight
  <2>2. \A j \in InFlight(m) : j \in 1 .. k /\ (j # 1 => j - 1 \in InFlight(m)')
    <3> SUFFICES ASSUME NEW j \in InFlight(m)
                 PROVE  j \in 1 .. k /\ (j # 1 => j - 1 \in InFlight(m)')
      OBVIOUS
    <3>1. j \in 1 .. k /\ lockMsgs[j].nft = m
      BY <1>2 DEF InFlight
    <3>2. CASE j # 1
      <4>1. j - 1 \in 1 .. k - 1 /\ (j - 1) + 1 = j
        BY <1>2, <3>1, <3>2
      <4>2. lockMsgs'[j - 1] = lockMsgs[j]
        BY <1>4, <4>1
      <4>3. QED BY <1>5, <3>1, <4>1, <4>2 DEF InFlight
    <3>3. QED BY <3>1, <3>2
  <2>3. ASSUME NEW i \in InFlight(m)', \A j \in InFlight(m)' : j <= i
        PROVE  lockMsgs'[i].lock = lock_dict'[m]
    <3>1. \A j \in InFlight(m) : j <= i + 1
      <4> SUFFICES ASSUME NEW j \in InFlight(m) PROVE j <= i + 1
        OBVIOUS
      <4>1. i \in 1 .. k - 1 /\ j \in 1 .. k /\ k \in Nat
        BY <1>2, <2>1, <2>2
      <4>2. CASE j = 1
        BY <4>1, <4>2
      <4>3. CASE j # 1
        <5>1. j - 1 <= i
          BY <2>2, <2>3, <4>3
        <5>2. QED BY <4>1, <5>1
      <4>4. QED BY <4>2, <4>3
    <3>2. QED BY <1>7, <2>1, <3>1 DEF HubLocksConverge
  <2>4. ASSUME InFlight(m)' = {}
        PROVE  account_locks'[m] = lock_dict'[m]
    <3>1. \A j \in InFlight(m) : j = 1
      BY <2>2, <2>4
    <3>2. CASE m = head.nft
      <4>1. 1 \in InFlight(m)
        BY <1>2, <3>2 DEF InFlight
      <4>2. \A j \in InFlight(m) : j <= 1
        BY <3>1
      <4>3. head.lock = lock_dict[m]
        BY <4>1, <4>2 DEF HubLocksConverge
      <4>4. QED BY <1>7, <3>2, <4>3
    <3>3. CASE m # head.nft
      <4>1. InFlight(m) = {}
        BY <3>1, <3>3 DEF InFlight
      <4>2. QED BY <1>7, <3>3, <4>1 DEF HubLocksConverge
    <3>4. QED BY <3>2, <3>3
  <2>5. QED BY <2>3, <2>4
<1>9. QED BY <1>8 DEF HubLocksConverge

(* Every step keeps the two copies of the locks together.                  *)
LEMMA ConvergeStep ==
  ASSUME ProtocolTypeOK, HubLocksConverge, [ProtocolNext]_protocolVars
  PROVE  HubLocksConverge'
<1>1. CASE UNCHANGED <<lock_dict, lockMsgs, account_locks>>
  BY <1>1 DEF HubLocksConverge, InFlight
<1>2. QED BY <1>1, SetLockConverges, DeliverLockConverges, LockStepKinds

(* With its locks delivered, an account that may not send keeps its money. *)
LEMMA LockedKeepsMoney ==
  ASSUME ProtocolTypeOK, HubLocksConverge, [ProtocolNext]_protocolVars,
         NEW n \in NFT, ~ canSendWithLocks(lock_dict[n]), InFlight(n) = {}
  PROVE  account_balances'[n] >= account_balances[n]
<1>1. account_balances \in [NFT -> Nat] /\ account_balances[n] \in Nat
  BY DEF ProtocolTypeOK, HubTypeOK
<1>2. ~ canSendWithLocks(account_locks[n])
  BY DEF HubLocksConverge
<1>3. CASE UNCHANGED account_balances
  BY <1>1, <1>3
<1>4. ASSUME NEW sender, NEW payer \in NFT, NEW merchant \in NFT, NEW amount \in Amounts,
             MerchantPaymentRequest(sender, payer, merchant, amount)
      PROVE  account_balances'[n] >= account_balances[n]
  <2>1. n # payer
    BY <1>2, <1>4 DEF MerchantPaymentRequest, PaymentAllowed
  <2>2. amount \in Nat
    BY HubAssumption
  <2>3. account_balances'[n] = IF n = merchant THEN account_balances[n] + amount
                               ELSE account_balances[n]
    BY <1>1, <1>4, <2>1 DEF MerchantPaymentRequest, creditBalance, debitBalance
  <2>4. QED BY <1>1, <2>2, <2>3
<1>5. ASSUME NEW sender, NEW id \in DepositId, NEW m \in NFT,
             TBCDeposit(sender, id, m, DepositAmount[id])
      PROVE  account_balances'[n] >= account_balances[n]
  <2>1. DepositAmount[id] \in Nat
    BY HubAssumption
  <2>2. account_balances'[n] = IF n = m THEN account_balances[n] + DepositAmount[id]
                               ELSE account_balances[n]
    BY <1>1, <1>5 DEF TBCDeposit, creditBalance
  <2>3. QED BY <1>1, <2>1, <2>2
<1>6. [HubNext]_<<hubVars, now>>
  BY HubPart
<1>7. \/ UNCHANGED account_balances
      \/ \E sender \in Address, payer, merchant \in NFT, amount \in Amounts :
           MerchantPaymentRequest(sender, payer, merchant, amount)
      \/ \E sender \in Address, id \in DepositId, m \in NFT :
           TBCDeposit(sender, id, m, DepositAmount[id])
  BY <1>6 DEF HubNext, HubUserNext, HubDepositNext, HubContractNext, ResolveNFTOwner,
     ApplyAccountLock, ProposeWhitelistCollection, ExecuteWhitelistCollection,
     CancelWhitelistCollection, MerchantProposeAdminTransfer,
     MerchantExecuteAdminTransfer, MerchantCancelAdminTransfer, hubVars, ledgerVars
<1>8. QED BY <1>3, <1>4, <1>5, <1>7

(* The copies of the locks agree up to the messages in flight, and a lock  *)
(* whose message is delivered stops spending (account-locks.fc,            *)
(* emit_account_lock; MerchantPaymentHub.tact, ApplyAccountLock and        *)
(* validateAndExecutePayment).                                             *)
THEOREM LocksStopSpending == ProtocolSpec => LocksHold
<1>1. ProtocolInit => HubLocksConverge
  BY DEF ProtocolInit, HubInit, LocksInit, HubLocksConverge, InFlight, defaultLockState
<1>2. ProtocolTypeOK /\ HubLocksConverge /\ [ProtocolNext]_protocolVars
        => HubLocksConverge'
  BY ConvergeStep
<1>3. ProtocolTypeOK /\ HubLocksConverge /\ [ProtocolNext]_protocolVars
        => [/\ HubLocksConverge'
            /\ \A n \in NFT : (~ canSendWithLocks(lock_dict[n]) /\ InFlight(n) = {})
                 => account_balances'[n] >= account_balances[n]]_protocolVars
  BY ConvergeStep, LockedKeepsMoney
<1>4. QED BY <1>1, <1>2, <1>3, ProtocolTypes, PTL DEF ProtocolSpec, LocksHold

-----------------------------------------------------------------------------
(* Sums over finite sets. The provers cannot apply an induction theorem    *)
(* that takes a predicate; the argument by a smallest counterexample, a    *)
(* set, takes its place.                                                   *)
Total(f, S) == MapThenSumSet(LAMBDA x : f[x], S)
Pick(s) == CHOOSE x \in s : TRUE

(* g tells the sum of every subset of S.                                   *)
SumsOf(f, S, g) ==
  g = [s \in SUBSET S |-> IF s = {} THEN 0 ELSE f[Pick(s)] + g[s \ {Pick(s)}]]

LEMMA SmallestSet ==
  ASSUME NEW S, IsFiniteSet(S), NEW Bad, Bad \subseteq SUBSET S, Bad # {}
  PROVE  \E T \in Bad : \A U \in SUBSET T : U # T => U \notin Bad
<1>1. IsWellFoundedOn(StrictSubsetOrdering(S), SUBSET S)
  BY FS_StrictSubsetOrderingWellFounded, FS_FiniteSubsetsOfFinite
<1>2. PICK T \in Bad : \A U \in Bad : ~ (<<U, T>> \in StrictSubsetOrdering(S))
  BY <1>1, WFMin
<1>3. \A U \in SUBSET T : U # T /\ U \in Bad => <<U, T>> \in StrictSubsetOrdering(S)
  BY DEF StrictSubsetOrdering
<1>4. \A U \in SUBSET T : U # T => U \notin Bad
  BY <1>2, <1>3
<1>5. QED BY <1>4

LEMMA SumsFacts ==
  ASSUME NEW f, NEW S, NEW g, SumsOf(f, S, g)
  PROVE  /\ g[{}] = 0
         /\ \A T \in SUBSET S : T # {} =>
              /\ Pick(T) \in T
              /\ g[T] = f[Pick(T)] + g[T \ {Pick(T)}]
<1>1. \A T \in SUBSET S : g[T] = IF T = {} THEN 0 ELSE f[Pick(T)] + g[T \ {Pick(T)}]
  BY DEF SumsOf
<1>2. \A T : T # {} => Pick(T) \in T
  BY DEF Pick
<1>3. QED BY <1>1, <1>2

(* Two such tables agree where both are defined.                           *)
LEMMA SumsAgree ==
  ASSUME NEW f, NEW S, NEW g, SumsOf(f, S, g), NEW T, NEW h, SumsOf(f, T, h),
         NEW U, U \subseteq S, U \subseteq T, IsFiniteSet(U)
  PROVE  g[U] = h[U]
<1> DEFINE Bad == {V \in SUBSET U : g[V] # h[V]}
<1>1. CASE Bad # {}
  <2>0. Bad \subseteq SUBSET U
    OBVIOUS
  <2> HIDE DEF Bad
  <2>1. PICK V \in Bad : \A W \in SUBSET V : W # V => W \notin Bad
    BY <1>1, <2>0, SmallestSet
  <2>2. V \in SUBSET U /\ g[V] # h[V] /\ V \in SUBSET S /\ V \in SUBSET T
    BY <2>1 DEF Bad
  <2>3. V # {}
    BY <2>2, SumsFacts
  <2>4. /\ Pick(V) \in V
        /\ g[V] = f[Pick(V)] + g[V \ {Pick(V)}]
        /\ h[V] = f[Pick(V)] + h[V \ {Pick(V)}]
    BY <2>2, <2>3, SumsFacts
  <2>5. V \ {Pick(V)} \in SUBSET V /\ V \ {Pick(V)} # V
    BY <2>4
  <2>6. g[V \ {Pick(V)}] = h[V \ {Pick(V)}]
    BY <2>1, <2>2, <2>5 DEF Bad
  <2>7. QED BY <2>2, <2>4, <2>6
<1>2. QED BY <1>1

(* There is such a table for every finite set.                             *)
LEMMA SumsExist ==
  ASSUME NEW f, NEW S, IsFiniteSet(S)
  PROVE  \E g : SumsOf(f, S, g)
<1> DEFINE Bad == {T \in SUBSET S : ~ \E g : SumsOf(f, T, g)}
           Table(T) == CHOOSE g : SumsOf(f, T, g)
<1>1. CASE Bad # {}
  <2>0. Bad \subseteq SUBSET S
    OBVIOUS
  <2> HIDE DEF Bad
  <2>1. PICK T \in Bad : \A U \in SUBSET T : U # T => U \notin Bad
    BY <1>1, <2>0, SmallestSet
  <2>2. T \in SUBSET S /\ IsFiniteSet(T) /\ ~ \E g : SumsOf(f, T, g)
    BY <2>1, FS_Subset DEF Bad
  <2>3. \A U \in SUBSET T : U # T => SumsOf(f, U, Table(U)) /\ IsFiniteSet(U)
    BY <2>1, <2>2, FS_Subset DEF Bad
  <2>4. \A U : U # {} => Pick(U) \in U
    BY DEF Pick
  <2> DEFINE g == [s \in SUBSET T |->
                     IF s = {} THEN 0
                     ELSE f[Pick(s)] + Table(s \ {Pick(s)})[s \ {Pick(s)}]]
  <2>5. /\ g = [s \in SUBSET T |-> g[s]]
        /\ \A s \in SUBSET T : s # {} =>
             g[s] = f[Pick(s)] + Table(s \ {Pick(s)})[s \ {Pick(s)}]
        /\ g[{}] = 0
    OBVIOUS
  <2> HIDE DEF g, Table
  <2>6. ASSUME NEW s \in SUBSET T, s # {}
        PROVE  g[s \ {Pick(s)}] = Table(s \ {Pick(s)})[s \ {Pick(s)}]
    <3>1. PICK u : u = s \ {Pick(s)}
      OBVIOUS
    <3>2. u \in SUBSET T /\ u # T
      BY <2>4, <2>6, <3>1
    <3>3. SumsOf(f, u, Table(u)) /\ IsFiniteSet(u)
      BY <2>3, <3>2
    <3>4. CASE u = {}
      <4>1. Table(u)[{}] = 0
        BY <3>3, SumsFacts
      <4>2. QED BY <2>5, <3>1, <3>4, <4>1
    <3>5. CASE u # {}
      <4>1. PICK v : v = u \ {Pick(u)}
        OBVIOUS
      <4>2. v \in SUBSET u /\ v \in SUBSET T /\ v # T
        BY <2>4, <3>2, <3>5, <4>1
      <4>3. Table(u)[u] = f[Pick(u)] + Table(u)[v]
        <5>1. u \in SUBSET u
          OBVIOUS
        <5>2. QED BY <3>3, <3>5, <4>1, <5>1, SumsFacts
      <4>4. SumsOf(f, v, Table(v)) /\ IsFiniteSet(v)
        BY <2>3, <4>2
      <4>5. Table(u)[v] = Table(v)[v]
        BY <3>3, <4>2, <4>4, SumsAgree
      <4>6. g[u] = f[Pick(u)] + Table(v)[v]
        BY <2>5, <3>2, <3>5, <4>1
      <4>7. QED BY <3>1, <4>3, <4>5, <4>6
    <3>6. QED BY <3>4, <3>5
  <2>7. \A s \in SUBSET T :
          g[s] = IF s = {} THEN 0 ELSE f[Pick(s)] + g[s \ {Pick(s)}]
    BY <2>5, <2>6
  <2>8. SumsOf(f, T, g)
    <3>1. [s \in SUBSET T |-> g[s]] =
            [s \in SUBSET T |-> IF s = {} THEN 0 ELSE f[Pick(s)] + g[s \ {Pick(s)}]]
      BY <2>7
    <3>2. QED BY <2>5, <3>1 DEF SumsOf
  <2>9. QED BY <2>2, <2>8
<1>2. QED BY <1>1

LEMMA TotalDef ==
  ASSUME NEW f, NEW S
  PROVE  Total(f, S) = (CHOOSE g : SumsOf(f, S, g))[S]
BY DEF Total, MapThenSumSet, MapThenFoldSet, SumsOf, Pick

(* The sum, one element after the other.                                   *)
LEMMA TotalPick ==
  ASSUME NEW f, NEW S, IsFiniteSet(S)
  PROVE  /\ S = {} => Total(f, S) = 0
         /\ S # {} => /\ Pick(S) \in S
                      /\ Total(f, S) = f[Pick(S)] + Total(f, S \ {Pick(S)})
<1> DEFINE g == CHOOSE h : SumsOf(f, S, h)
           T == S \ {Pick(S)}
           k == CHOOSE h : SumsOf(f, T, h)
<1>1. SumsOf(f, S, g)
  BY SumsExist
<1>2. Total(f, S) = g[S]
  BY TotalDef
<1>3. IsFiniteSet(T)
  BY FS_Subset
<1>4. SumsOf(f, T, k)
  BY <1>3, SumsExist
<1>5. Total(f, T) = k[T]
  BY TotalDef
<1>6. g[T] = k[T]
  BY <1>1, <1>3, <1>4, SumsAgree
<1> HIDE DEF g, k
<1>7. CASE S = {}
  BY <1>1, <1>2, <1>7, SumsFacts
<1>8. CASE S # {}
  <2>1. Pick(S) \in S /\ g[S] = f[Pick(S)] + g[T]
    BY <1>1, <1>8, SumsFacts
  <2>2. QED BY <1>2, <1>5, <1>6, <1>8, <2>1
<1>9. QED BY <1>7, <1>8

LEMMA TotalInt ==
  ASSUME NEW f, NEW S, IsFiniteSet(S), \A x \in S : f[x] \in Int
  PROVE  Total(f, S) \in Int
<1> DEFINE Bad == {T \in SUBSET S : Total(f, T) \notin Int}
<1>1. CASE Bad # {}
  <2>0. Bad \subseteq SUBSET S
    OBVIOUS
  <2> HIDE DEF Bad
  <2>1. PICK T \in Bad : \A U \in SUBSET T : U # T => U \notin Bad
    BY <1>1, <2>0, SmallestSet
  <2>2. T \in SUBSET S /\ IsFiniteSet(T) /\ Total(f, T) \notin Int
    BY <2>1, FS_Subset DEF Bad
  <2>3. ASSUME T = {} PROVE FALSE
    <3>1. Total(f, T) = 0
      BY <2>2, <2>3, TotalPick
    <3>2. QED BY <2>2, <3>1
  <2>4. Pick(T) \in T /\ Total(f, T) = f[Pick(T)] + Total(f, T \ {Pick(T)})
    BY <2>2, <2>3, TotalPick
  <2>5. T \ {Pick(T)} \in SUBSET T /\ T \ {Pick(T)} # T
    BY <2>4
  <2>6. Total(f, T \ {Pick(T)}) \in Int
    BY <2>1, <2>2, <2>5 DEF Bad
  <2>7. f[Pick(T)] \in Int
    BY <2>2, <2>4
  <2>8. QED BY <2>2, <2>4, <2>6, <2>7
<1>2. QED BY <1>1

(* Any element may be taken out first.                                     *)
LEMMA TotalRemove ==
  ASSUME NEW f, NEW S, IsFiniteSet(S), \A x \in S : f[x] \in Int, NEW x \in S
  PROVE  Total(f, S) = f[x] + Total(f, S \ {x})
<1> DEFINE Bad == {T \in SUBSET S : \E y \in T : Total(f, T) # f[y] + Total(f, T \ {y})}
<1>1. CASE Bad # {}
  <2>0. Bad \subseteq SUBSET S
    OBVIOUS
  <2> HIDE DEF Bad
  <2>1. PICK T \in Bad : \A U \in SUBSET T : U # T => U \notin Bad
    BY <1>1, <2>0, SmallestSet
  <2>2. T \in SUBSET S /\ IsFiniteSet(T)
    BY <2>1, FS_Subset DEF Bad
  <2>3. PICK y \in T : Total(f, T) # f[y] + Total(f, T \ {y})
    BY <2>1 DEF Bad
  <2> DEFINE p == Pick(T)
             R == T \ {p, y}
  <2>4. p \in T /\ Total(f, T) = f[p] + Total(f, T \ {p})
    BY <2>2, <2>3, TotalPick
  <2>5. p # y
    BY <2>3, <2>4
  <2>6. Total(f, T \ {p}) = f[y] + Total(f, R)
    <3>1. T \ {p} \in SUBSET T /\ T \ {p} # T /\ y \in T \ {p}
      BY <2>4, <2>5
    <3>2. (T \ {p}) \ {y} = R
      OBVIOUS
    <3>3. QED BY <2>1, <2>2, <3>1, <3>2 DEF Bad
  <2>7. Total(f, T \ {y}) = f[p] + Total(f, R)
    <3>1. T \ {y} \in SUBSET T /\ T \ {y} # T /\ p \in T \ {y}
      BY <2>4, <2>5
    <3>2. (T \ {y}) \ {p} = R
      OBVIOUS
    <3>3. QED BY <2>1, <2>2, <3>1, <3>2 DEF Bad
  <2>8. Total(f, R) \in Int /\ f[p] \in Int /\ f[y] \in Int
    <3>1. IsFiniteSet(R) /\ R \subseteq S
      BY <2>2, FS_Subset
    <3>2. QED BY <2>2, <2>4, <3>1, TotalInt
  <2> HIDE DEF p, R
  <2>9. QED BY <2>3, <2>4, <2>6, <2>7, <2>8
<1>2. QED BY <1>1

(* The sum depends on the values in the set only.                          *)
LEMMA TotalCong ==
  ASSUME NEW f, NEW g, NEW S, IsFiniteSet(S), \A x \in S : f[x] = g[x]
  PROVE  Total(f, S) = Total(g, S)
<1> DEFINE Bad == {T \in SUBSET S : Total(f, T) # Total(g, T)}
<1>1. CASE Bad # {}
  <2>0. Bad \subseteq SUBSET S
    OBVIOUS
  <2> HIDE DEF Bad
  <2>1. PICK T \in Bad : \A U \in SUBSET T : U # T => U \notin Bad
    BY <1>1, <2>0, SmallestSet
  <2>2. T \in SUBSET S /\ IsFiniteSet(T) /\ Total(f, T) # Total(g, T)
    BY <2>1, FS_Subset DEF Bad
  <2>3. T # {}
    BY <2>2, TotalPick
  <2>4. /\ Pick(T) \in T
        /\ Total(f, T) = f[Pick(T)] + Total(f, T \ {Pick(T)})
        /\ Total(g, T) = g[Pick(T)] + Total(g, T \ {Pick(T)})
    BY <2>2, <2>3, TotalPick
  <2>5. T \ {Pick(T)} \in SUBSET T /\ T \ {Pick(T)} # T
    BY <2>4
  <2>6. Total(f, T \ {Pick(T)}) = Total(g, T \ {Pick(T)})
    BY <2>1, <2>2, <2>5 DEF Bad
  <2>7. f[Pick(T)] = g[Pick(T)]
    BY <2>2, <2>4
  <2>8. QED BY <2>2, <2>4, <2>6, <2>7
<1>2. QED BY <1>1

(* A change of one value changes the sum by the difference.                *)
LEMMA TotalChange ==
  ASSUME NEW S, IsFiniteSet(S), NEW f, \A y \in S : f[y] \in Int,
         NEW g, \A y \in S : g[y] \in Int,
         NEW x \in S, \A y \in S \ {x} : g[y] = f[y]
  PROVE  Total(g, S) = Total(f, S) + (g[x] - f[x])
<1>1. f[x] \in Int /\ g[x] \in Int
  OBVIOUS
<1>3. Total(g, S) = g[x] + Total(g, S \ {x})
  BY TotalRemove
<1>4. Total(f, S) = f[x] + Total(f, S \ {x})
  BY TotalRemove
<1>5. IsFiniteSet(S \ {x})
  BY FS_Subset
<1>6. Total(g, S \ {x}) = Total(f, S \ {x}) /\ Total(f, S \ {x}) \in Int
  BY <1>5, TotalCong, TotalInt
<1>7. QED BY <1>1, <1>3, <1>4, <1>6

LEMMA TotalAdd ==
  ASSUME NEW f, NEW S, IsFiniteSet(S), NEW x, x \notin S,
         \A y \in S \cup {x} : f[y] \in Int
  PROVE  Total(f, S \cup {x}) = Total(f, S) + f[x]
<1>1. IsFiniteSet(S \cup {x}) /\ (S \cup {x}) \ {x} = S
  BY FS_AddElement
<1>2. Total(f, S \cup {x}) = f[x] + Total(f, S)
  BY <1>1, TotalRemove
<1>3. Total(f, S) \in Int /\ f[x] \in Int
  BY TotalInt
<1>4. QED BY <1>2, <1>3

-----------------------------------------------------------------------------
(* Conservation, with what makes it inductive: a sum over the processed    *)
(* deposits is only a sum while they are finitely many.                    *)
LedgerInv == IsFiniteSet(processed_deposits) /\ Conservation

LEMMA ConservationIsTotals ==
  Conservation <=> Total(account_balances, NFT) = Total(DepositAmount, processed_deposits)
BY DEF Conservation, Total

LEMMA ConservationAfter ==
  Conservation' <=> Total(account_balances', NFT) = Total(DepositAmount, processed_deposits')
<1>1. (Conservation
        <=> Total(account_balances, NFT) = Total(DepositAmount, processed_deposits))'
  BY ConservationIsTotals, PTL
<1>2. QED BY <1>1

LEMMA LedgerInit == HubInit => LedgerInv
<1> SUFFICES ASSUME HubInit PROVE LedgerInv
  OBVIOUS
<1>1. IsFiniteSet(processed_deposits) /\ Total(DepositAmount, processed_deposits) = 0
  BY FS_EmptySet, TotalPick DEF HubInit
<1>2. Total(account_balances, NFT) = 0
  <2> DEFINE Bad == {T \in SUBSET NFT : Total(account_balances, T) # 0}
  <2>1. CASE Bad # {}
    <3>0. Bad \subseteq SUBSET NFT
      OBVIOUS
    <3> HIDE DEF Bad
    <3>1. PICK T \in Bad : \A U \in SUBSET T : U # T => U \notin Bad
      BY <2>1, <3>0, SmallestSet, FiniteCardsAssumption
    <3>2. T \in SUBSET NFT /\ IsFiniteSet(T) /\ Total(account_balances, T) # 0
      BY <3>1, FS_Subset, FiniteCardsAssumption DEF Bad
    <3>3. T # {}
      BY <3>2, TotalPick
    <3>4. /\ Pick(T) \in T
          /\ Total(account_balances, T) =
               account_balances[Pick(T)] + Total(account_balances, T \ {Pick(T)})
      BY <3>2, <3>3, TotalPick
    <3>5. T \ {Pick(T)} \in SUBSET T /\ T \ {Pick(T)} # T
      BY <3>4
    <3>6. Total(account_balances, T \ {Pick(T)}) = 0
      BY <3>1, <3>2, <3>5 DEF Bad
    <3>7. account_balances[Pick(T)] = 0
      BY <3>2, <3>4 DEF HubInit
    <3>8. QED BY <3>2, <3>4, <3>6, <3>7
  <2>2. QED BY <2>1
<1>3. QED BY <1>1, <1>2, ConservationIsTotals DEF LedgerInv

(* What a payment takes from the payer it gives to the merchant, also when *)
(* they are the same account.                                              *)
LEMMA PaymentConserves ==
  ASSUME HubTypeOK, LedgerInv, NEW sender, NEW payer \in NFT, NEW merchant \in NFT,
         NEW amount \in Amounts, MerchantPaymentRequest(sender, payer, merchant, amount)
  PROVE  LedgerInv'
<1>1. account_balances \in [NFT -> Int] /\ amount \in Int
  BY HubAssumption DEF HubTypeOK
<1>2. PICK debited :
        /\ debited = [account_balances EXCEPT ![payer] = account_balances[payer] - amount]
        /\ account_balances' = [debited EXCEPT ![merchant] = debited[merchant] + amount]
  BY DEF MerchantPaymentRequest, creditBalance, debitBalance
<1>3. Total(account_balances', NFT) = Total(account_balances, NFT)
  <2>1. /\ \A y \in NFT : account_balances[y] \in Int /\ debited[y] \in Int
        /\ \A y \in NFT : account_balances'[y] \in Int
        /\ debited[payer] - account_balances[payer] = 0 - amount
        /\ \A y \in NFT \ {payer} : debited[y] = account_balances[y]
        /\ account_balances'[merchant] - debited[merchant] = amount
        /\ \A y \in NFT \ {merchant} : account_balances'[y] = debited[y]
    BY <1>1, <1>2
  <2>2. Total(debited, NFT) =
          Total(account_balances, NFT) + (debited[payer] - account_balances[payer])
    BY <2>1, TotalChange, FiniteCardsAssumption
  <2>3. Total(account_balances', NFT) =
          Total(debited, NFT) + (account_balances'[merchant] - debited[merchant])
    BY <2>1, TotalChange, FiniteCardsAssumption
  <2>4. Total(account_balances, NFT) \in Int
    BY <2>1, TotalInt, FiniteCardsAssumption
  <2>5. QED BY <1>1, <2>1, <2>2, <2>3, <2>4
<1>4. UNCHANGED processed_deposits
  BY DEF MerchantPaymentRequest
<1>5. Total(account_balances', NFT) = Total(DepositAmount, processed_deposits')
  BY <1>3, <1>4, ConservationIsTotals DEF LedgerInv
<1>6. QED BY <1>4, <1>5, ConservationAfter DEF LedgerInv

(* A deposit is credited once, with the amount it is counted with.         *)
LEMMA DepositConserves ==
  ASSUME HubTypeOK, LedgerInv, NEW sender, NEW id \in DepositId, NEW n \in NFT,
         TBCDeposit(sender, id, n, DepositAmount[id])
  PROVE  LedgerInv'
<1> DEFINE amount == DepositAmount[id]
<1>1. account_balances \in [NFT -> Int] /\ amount \in Int /\ account_balances[n] \in Int
  BY HubAssumption DEF HubTypeOK
<1>2. account_balances' = [account_balances EXCEPT ![n] = account_balances[n] + amount]
  BY <1>1 DEF TBCDeposit, creditBalance
<1>3. /\ \A y \in NFT : account_balances[y] \in Int /\ account_balances'[y] \in Int
      /\ \A y \in NFT \ {n} : account_balances'[y] = account_balances[y]
      /\ account_balances'[n] - account_balances[n] = amount
  <2> HIDE DEF amount
  <2>1. QED BY <1>1, <1>2
<1>4. /\ id \notin processed_deposits
      /\ processed_deposits' = processed_deposits \cup {id}
      /\ \A d \in processed_deposits \cup {id} : DepositAmount[d] \in Int
  BY HubAssumption DEF TBCDeposit, HubTypeOK
<1>5. /\ IsFiniteSet(processed_deposits')
      /\ Total(DepositAmount, processed_deposits') =
           Total(DepositAmount, processed_deposits) + amount
  BY <1>4, TotalAdd, FS_AddElement DEF LedgerInv
<1>6. Total(account_balances, NFT) \in Int
  BY <1>1, TotalInt, FiniteCardsAssumption
<1>7. Total(account_balances', NFT) = Total(account_balances, NFT) + amount
  BY <1>3, TotalChange, FiniteCardsAssumption
<1>8. Total(account_balances', NFT) = Total(DepositAmount, processed_deposits')
  BY <1>1, <1>5, <1>6, <1>7, ConservationIsTotals DEF LedgerInv
<1>9. QED BY <1>5, <1>8, ConservationAfter DEF LedgerInv

LEMMA LedgerStep ==
  ASSUME HubTypeOK, LedgerInv, [HubNext]_<<hubVars, now>>
  PROVE  LedgerInv'
<1>1. \/ UNCHANGED <<account_balances, processed_deposits>>
      \/ \E sender \in Address, payer, merchant \in NFT, amount \in Amounts :
           MerchantPaymentRequest(sender, payer, merchant, amount)
      \/ \E sender \in Address, id \in DepositId, m \in NFT :
           TBCDeposit(sender, id, m, DepositAmount[id])
  BY DEF HubNext, HubUserNext, HubDepositNext, HubContractNext, ResolveNFTOwner,
     ApplyAccountLock, ProposeWhitelistCollection, ExecuteWhitelistCollection,
     CancelWhitelistCollection, MerchantProposeAdminTransfer,
     MerchantExecuteAdminTransfer, MerchantCancelAdminTransfer, hubVars, ledgerVars
<1>2. CASE UNCHANGED <<account_balances, processed_deposits>>
  BY <1>2, ConservationIsTotals, ConservationAfter DEF LedgerInv
<1>3. QED BY <1>1, <1>2, PaymentConserves, DepositConserves

(* I5: the balances add up to the confirmed deposits, each counted once    *)
(* (MerchantPaymentHub.tact, validateAndExecutePayment and TBCDeposit).    *)
THEOREM HubConserves == HubSpec => []Conservation
<1>1. HubTypeOK /\ LedgerInv /\ [HubNext]_<<hubVars, now>> => LedgerInv'
  BY LedgerStep
<1>2. LedgerInv => Conservation
  BY DEF LedgerInv
<1>3. QED BY <1>1, <1>2, LedgerInit, HubTypeCorrect, PTL DEF HubSpec

(* The ledger is exact and no money is stranded in the protocol too, where *)
(* owners and locks come from the resolver and the lock contract.          *)
THEOREM ProtocolLedger == ProtocolSpec => [](Conservation /\ NoStrandedFunds)
BY ProtocolRunsHub, HubConserves, HubNoStrandedFunds, PTL

(* The three roles of the protocol keep their timelocks in the composition *)
(* (MerchantPaymentHub.tact, the admin; account-locks.fc, both roles).     *)
THEOREM ProtocolRoles == ProtocolSpec => AdminHandover /\ LockRoleHandovers
BY ProtocolRunsHub, ProtocolRunsLocks, AdminKeepsTimelock, LockRolesKeepTimelock

=============================================================================
