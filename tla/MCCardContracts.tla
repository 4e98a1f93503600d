--------------------------- MODULE MCCardContracts ---------------------------
(***************************************************************************)
(* The contracts beside the payment hub that serve the owner of a card:    *)
(* multi-signature payments, recurring payments, the bridge, the lending   *)
(* coordinator and the collateral signal. They exchange no messages, so    *)
(* one behaviour is one of them while the others rest; nft_owners is the   *)
(* map of the one at work.                                                 *)
(***************************************************************************)
EXTENDS MultiSigCard, RecurringPayments, CardIntents

CONSTANTS owner, s1, s2

VARIABLE contract       \* the contract at work

CardContractsInit ==
  /\ contract \in {"multisig", "recurring", "bridge", "lending", "signal"}
  /\ MultiSigInit /\ RecurringInit /\ IntentsInit

HasHarness == contract \in {"bridge", "lending"}

CardContractsNext ==
  \/ /\ contract = "multisig" /\ MultiSigNext
     /\ UNCHANGED <<contract, recurringVars, intentVars>>
  \/ /\ contract = "recurring" /\ RecurringNext
     /\ UNCHANGED <<contract, multisig_configs, proposals, approvals, historyVars, intentVars>>
  \/ /\ \/ HasHarness /\ HarnessRegisters
        \/ contract = "bridge" /\ BridgeNext
        \/ contract = "lending" /\ LendingNext
        \/ contract = "signal" /\ SignalNext
     /\ UNCHANGED <<contract, multisig_configs, proposals, approvals, historyVars, recurringVars>>

CardContractsSpec ==
  CardContractsInit
    /\ [][CardContractsNext]_<<contract, multiSigVars, recurringVars, intentVars>>
=============================================================================
