---------------------------- MODULE AccountLocks ----------------------------
(***************************************************************************)
(* contracts/payments/account-locks.fc: the two lock flags of every card   *)
(* account, the roles that may change them, and the hub the contract pushes*)
(* every change to. `lockMsgs` holds the ApplyAccountLock messages on      *)
(* their way to the hub: TON delivers the messages of one contract to      *)
(* another in the order they were sent, and loses none.                    *)
(*                                                                         *)
(* The stored pending address outlives a transfer (execute leaves the new  *)
(* holder in it, cancel the current one); the `present` flag alone says    *)
(* whether a transfer is pending.                                          *)
(***************************************************************************)
EXTENDS ChainTime, Sequences

CONSTANTS RiskAuthority,      \* the first risk_authority
          LendingAdapter,     \* the first lending_adapter
          Hub,                \* the address of the payment hub
          RoleCandidates,     \* addresses that may be proposed for a role
          RoleTransferDelay,  \* ROLE_TRANSFER_DELAY, in ticks
          MaxLockMsgs         \* bound: lock messages in flight

ASSUME LocksAssumption ==
  /\ {RiskAuthority, LendingAdapter, Hub} \subseteq Address
  /\ RoleCandidates \subseteq Address
  /\ RoleTransferDelay \in Nat
  /\ MaxLockMsgs \in Nat

VARIABLES lock_dict, risk_authority, lending_adapter,
          pending_risk, pending_lending,   \* [present, address, at]
          payment_hub,                     \* null until it is bound
          lockMsgs

roleStorage == <<risk_authority, lending_adapter, pending_risk, pending_lending>>
locksVars == <<lock_dict, roleStorage, payment_hub, lockMsgs>>

Flags == [fraud_locked : BOOLEAN, collateral_locked : BOOLEAN]
LockMsg == [nft : NFT, lock : Flags]
PendingRole == [present : BOOLEAN, address : Address, at : Nat]

LocksTypeOK ==
  /\ now \in 0 .. MaxTime
  /\ lock_dict \in [NFT -> Flags]
  /\ risk_authority \in Address
  /\ lending_adapter \in Address
  /\ pending_risk \in PendingRole
  /\ pending_lending \in PendingRole
  /\ payment_hub \in Opt(Address)
  /\ lockMsgs \in Seq(LockMsg)

(* What the deployment stores: no lock, no pending transfer, no hub.       *)
LocksInit ==
  /\ TimeInit
  /\ lock_dict =
       [n \in NFT |-> [fraud_locked |-> FALSE, collateral_locked |-> FALSE]]
  /\ risk_authority = RiskAuthority
  /\ lending_adapter = LendingAdapter
  /\ pending_risk = [present |-> FALSE, address |-> RiskAuthority, at |-> 0]
  /\ pending_lending = [present |-> FALSE, address |-> LendingAdapter, at |-> 0]
  /\ payment_hub = null
  /\ lockMsgs = <<>>

-----------------------------------------------------------------------------
(* bind_payment_hub succeeds once: the bound hub is immutable.             *)
bind_payment_hub(sender, hub) ==
  /\ sender = risk_authority
  /\ payment_hub = null
  /\ payment_hub' = hub
  /\ UNCHANGED <<lock_dict, roleStorage, lockMsgs>>

(* set_lock, then emit_account_lock, which re-reads both flags of the      *)
(* account and throws, undoing set_lock, while no hub is bound.            *)
EmitBeforeSave(n, flags) ==
  /\ payment_hub # null
  /\ Len(lockMsgs) < MaxLockMsgs
  /\ lock_dict' = [lock_dict EXCEPT ![n] = flags]
  /\ lockMsgs' = Append(lockMsgs, [nft |-> n, lock |-> lock_dict[n]])
  /\ UNCHANGED <<roleStorage, payment_hub>>

EmitFirstLockOnly(n, flags) ==
  /\ payment_hub # null
  /\ Len(lockMsgs) < MaxLockMsgs
  /\ lock_dict' = [lock_dict EXCEPT ![n] = flags]
  /\ lockMsgs' = IF lock_dict[n].fraud_locked \/ lock_dict[n].collateral_locked
                 THEN lockMsgs
                 ELSE Append(lockMsgs, [nft |-> n, lock |-> lock_dict'[n]])
  /\ UNCHANGED <<roleStorage, payment_hub>>

set_lock(n, flags) ==
  /\ payment_hub # null
  /\ Len(lockMsgs) < MaxLockMsgs
  /\ lock_dict' = [lock_dict EXCEPT ![n] = flags]
  /\ lockMsgs' = Append(lockMsgs, [nft |-> n, lock |-> lock_dict'[n]])
  /\ UNCHANGED <<roleStorage, payment_hub>>

change_fraud_lock(sender, n, value) ==
  /\ sender = risk_authority
  /\ set_lock(n, [lock_dict[n] EXCEPT !.fraud_locked = value])

change_collateral_lock(sender, n, value) ==
  /\ sender = lending_adapter
  /\ set_lock(n, [lock_dict[n] EXCEPT !.collateral_locked = value])

-----------------------------------------------------------------------------
(* The transfer of the risk authority, then of the lending adapter.        *)
propose_risk_authority(sender, proposed) ==
  /\ sender = risk_authority
  /\ pending_risk' = [present |-> TRUE, address |-> proposed,
                      at |-> now + RoleTransferDelay]
  /\ UNCHANGED <<lock_dict, risk_authority, lending_adapter, pending_lending,
                 payment_hub, lockMsgs>>

ExecuteKeepsPending(sender) ==
  /\ pending_risk.present
  /\ sender = pending_risk.address
  /\ now >= pending_risk.at
  /\ risk_authority' = pending_risk.address
  /\ UNCHANGED <<lock_dict, lending_adapter, pending_risk, pending_lending,
                 payment_hub, lockMsgs>>

execute_risk_authority(sender) ==
  /\ pending_risk.present
  /\ sender = pending_risk.address
  /\ now >= pending_risk.at
  /\ risk_authority' = pending_risk.address
  /\ pending_risk' = [pending_risk EXCEPT !.present = FALSE, !.at = 0]
  /\ UNCHANGED <<lock_dict, lending_adapter, pending_lending, payment_hub,
                 lockMsgs>>

cancel_risk_authority(sender) ==
  /\ sender = risk_authority
  /\ pending_risk.present
  /\ pending_risk' = [present |-> FALSE, address |-> risk_authority, at |-> 0]
  /\ UNCHANGED <<lock_dict, risk_authority, lending_adapter, pending_lending,
                 payment_hub, lockMsgs>>

propose_lending_adapter(sender, proposed) ==
  /\ sender = lending_adapter
  /\ pending_lending' = [present |-> TRUE, address |-> proposed,
                         at |-> now + RoleTransferDelay]
  /\ UNCHANGED <<lock_dict, risk_authority, lending_adapter, pending_risk,
                 payment_hub, lockMsgs>>

execute_lending_adapter(sender) ==
  /\ pending_lending.present
  /\ sender = pending_lending.address
  /\ now >= pending_lending.at
  /\ lending_adapter' = pending_lending.address
  /\ pending_lending' = [pending_lending EXCEPT !.present = FALSE, !.at = 0]
  /\ UNCHANGED <<lock_dict, risk_authority, pending_risk, payment_hub, lockMsgs>>

cancel_lending_adapter(sender) ==
  /\ sender = lending_adapter
  /\ pending_lending.present
  /\ pending_lending' =
       [present |-> FALSE, address |-> lending_adapter, at |-> 0]
  /\ UNCHANGED <<lock_dict, risk_authority, lending_adapter, pending_risk,
                 payment_hub, lockMsgs>>

-----------------------------------------------------------------------------
(* Every message any address may send. Binding is to the hub this contract *)
(* was deployed for.                                                       *)
LocksNext ==
  \E sender \in Address :
    \/ bind_payment_hub(sender, Hub)
    \/ \E n \in NFT, value \in BOOLEAN :
         \/ change_fraud_lock(sender, n, value)
         \/ change_collateral_lock(sender, n, value)
    \/ \E proposed \in RoleCandidates :
         \/ propose_risk_authority(sender, proposed)
         \/ propose_lending_adapter(sender, proposed)
    \/ execute_risk_authority(sender)
    \/ cancel_risk_authority(sender)
    \/ execute_lending_adapter(sender)
    \/ cancel_lending_adapter(sender)

(* The first message in flight reaches the hub.                            *)
LockMsgDelivered ==
  /\ lockMsgs # <<>>
  /\ lockMsgs' = Tail(lockMsgs)
  /\ UNCHANGED <<lock_dict, roleStorage, payment_hub>>

LocksAloneNext ==
  \/ (LocksNext \/ LockMsgDelivered) /\ UNCHANGED now
  \/ PassTime /\ UNCHANGED locksVars

LocksSpec == LocksInit /\ [][LocksAloneNext]_<<locksVars, now>>

-----------------------------------------------------------------------------
(* Both roles keep the promise of every timelocked role, although the      *)
(* stored pending address and time outlive the transfer.                   *)
Handover(p) == IF p.present THEN [to |-> p.address,
                                  since |-> p.at - RoleTransferDelay]
               ELSE null

RiskRole == INSTANCE TimelockedRole
              WITH Delay <- RoleTransferDelay, holder <- risk_authority,
                   handover <- Handover(pending_risk)
LendingRole == INSTANCE TimelockedRole
                 WITH Delay <- RoleTransferDelay, holder <- lending_adapter,
                      handover <- Handover(pending_lending)

(* account-locks.fc, risk_authority transfer: propose, execute, cancel.    *)
RiskHandover == RiskRole!RoleSpec

(* account-locks.fc, lending_adapter transfer: propose, execute, cancel.   *)
LendingHandover == LendingRole!RoleSpec

(* Each role of account-locks.fc passes only to the address that was       *)
(* proposed last, once that proposal has stood for the whole delay, in     *)
(* whatever order both are proposed, re-proposed, cancelled and executed.  *)
LockRoleHandovers == RiskHandover /\ LendingHandover
=============================================================================
