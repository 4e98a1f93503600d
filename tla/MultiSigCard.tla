---------------------------- MODULE MultiSigCard ----------------------------
(***************************************************************************)
(* contracts/MultiSigCard.tact: payments of a card behind M-of-N approval. *)
(* The owner configures up to three co-signers and a threshold, submits    *)
(* proposals and executes approved ones; co-signers approve or reject.     *)
(*                                                                         *)
(* History, which no guard reads: `endorsed` and `endorsed_terms`, the     *)
(* co-signers who approved the present submission of a proposal and the    *)
(* terms they saw; `quorum`, the threshold the last of them had to meet;   *)
(* `executions`, how often the proposal was paid.                          *)
(***************************************************************************)
EXTENDS CardOwners, FiniteSets

CONSTANTS ProposalId,
          Amounts,
          MaxExecutions     \* bound: payments made for one proposal id

ASSUME MultiSigAssumption ==
  /\ Amounts \subseteq Nat
  /\ MaxExecutions \in Nat

MAX_SIGNERS == 3

VARIABLES multisig_configs, proposals, approvals,
          endorsed, endorsed_terms, quorum, executions

contractVars == <<multisig_configs, proposals, approvals, nft_owners>>
historyVars == <<endorsed, endorsed_terms, quorum, executions>>
multiSigVars == <<contractVars, historyVars>>

Key == NFT \X ProposalId

MultiSigConfig == [required_signatures : 1 .. MAX_SIGNERS,
                   signers : SUBSET Address]
Terms == [recipient : Address, amount : Nat]
PaymentProposal == [status : {"PENDING", "APPROVED", "REJECTED", "EXECUTED"},
                    terms : Terms, approval_count : Nat]

(* A configuration that is absent, removed or never made is null: it has   *)
(* no signer. A configuration's three signer fields may repeat.            *)
MultiSigTypeOK ==
  /\ multisig_configs \in [NFT -> MultiSigConfig \cup {null}]
  /\ proposals \in [Key -> PaymentProposal \cup {null}]
  /\ approvals \subseteq Key \X Address
  /\ OwnersTypeOK
  /\ endorsed \in [Key -> SUBSET Address]
  /\ endorsed_terms \in [Key -> SUBSET Terms]
  /\ quorum \in [Key -> Nat]
  /\ executions \in [Key -> Nat]

MultiSigInit ==
  /\ multisig_configs = [n \in NFT |-> null]
  /\ proposals = [k \in Key |-> null]
  /\ approvals = {}
  /\ OwnersInit
  /\ endorsed = [k \in Key |-> {}]
  /\ endorsed_terms = [k \in Key |-> {}]
  /\ quorum = [k \in Key |-> 0]
  /\ executions = [k \in Key |-> 0]

-----------------------------------------------------------------------------
isSigner(sender, n) ==
  multisig_configs[n] # null /\ sender \in multisig_configs[n].signers

(* MultiSigCardHarness. *)
RegisterNFTOwnerMultiSig(n, owner) ==
  /\ RegisterNFTOwner(n, owner)
  /\ UNCHANGED <<multisig_configs, proposals, approvals, historyVars>>

(* The threshold is checked against the three slots, not against how many  *)
(* different signers fill them. Open proposals are left as they are.       *)
ConfigureMultiSig(sender, n, required, s1, s2, s3) ==
  /\ validateOwnership(sender, n)
  /\ required >= 1 /\ required <= MAX_SIGNERS
  /\ multisig_configs' = [multisig_configs EXCEPT ![n] =
       [required_signatures |-> required, signers |-> {s1, s2, s3}]]
  /\ UNCHANGED <<proposals, approvals, nft_owners, historyVars>>

(* Stores the proposal whatever is stored under its id; the approvals      *)
(* recorded under that id stay.                                            *)
SubmitKeepsCount(sender, k, terms) ==
  /\ validateOwnership(sender, k[1])
  /\ terms.amount > 0
  /\ multisig_configs[k[1]] # null
  /\ proposals' = [proposals EXCEPT ![k] =
       [status |-> "PENDING", terms |-> terms,
        approval_count |-> IF @ = null THEN 0 ELSE @.approval_count]]
  /\ endorsed' = [endorsed EXCEPT ![k] = {}]
  /\ endorsed_terms' = [endorsed_terms EXCEPT ![k] = {}]
  /\ quorum' = [quorum EXCEPT ![k] = 0]
  /\ UNCHANGED <<multisig_configs, approvals, nft_owners, executions>>

SubmitPaymentProposal(sender, k, terms) ==
  /\ validateOwnership(sender, k[1])
  /\ terms.amount > 0
  /\ multisig_configs[k[1]] # null
  /\ proposals' = [proposals EXCEPT ![k] =
       [status |-> "PENDING", terms |-> terms, approval_count |-> 0]]
  /\ endorsed' = [endorsed EXCEPT ![k] = {}]
  /\ endorsed_terms' = [endorsed_terms EXCEPT ![k] = {}]
  /\ quorum' = [quorum EXCEPT ![k] = 0]
  /\ UNCHANGED <<multisig_configs, approvals, nft_owners, executions>>

(* The threshold that counts is the one configured when the approval       *)
(* arrives.                                                                *)
ApproveRepeatedly(sender, k) ==
  /\ isSigner(sender, k[1])
  /\ proposals[k] # null
  /\ proposals[k].status = "PENDING"
  /\ approvals' = approvals \cup {<<k, sender>>}
  /\ LET new_count == proposals[k].approval_count + 1
         required == multisig_configs[k[1]].required_signatures IN
       /\ proposals' = [proposals EXCEPT
            ![k].approval_count = new_count,
            ![k].status = IF new_count >= required THEN "APPROVED" ELSE "PENDING"]
       /\ quorum' = [quorum EXCEPT ![k] = required]
  /\ endorsed' = [endorsed EXCEPT ![k] = @ \cup {sender}]
  /\ endorsed_terms' = [endorsed_terms EXCEPT ![k] = @ \cup {proposals[k].terms}]
  /\ UNCHANGED <<multisig_configs, nft_owners, executions>>

ApprovePaymentProposal(sender, k) ==
  /\ isSigner(sender, k[1])
  /\ proposals[k] # null
  /\ proposals[k].status = "PENDING"
  /\ <<k, sender>> \notin approvals
  /\ approvals' = approvals \cup {<<k, sender>>}
  /\ LET new_count == proposals[k].approval_count + 1
         required == multisig_configs[k[1]].required_signatures IN
       /\ proposals' = [proposals EXCEPT
            ![k].approval_count = new_count,
            ![k].status = IF new_count >= required THEN "APPROVED" ELSE "PENDING"]
       /\ quorum' = [quorum EXCEPT ![k] = required]
  /\ endorsed' = [endorsed EXCEPT ![k] = @ \cup {sender}]
  /\ endorsed_terms' = [endorsed_terms EXCEPT ![k] = @ \cup {proposals[k].terms}]
  /\ UNCHANGED <<multisig_configs, nft_owners, executions>>

RejectPaymentProposal(sender, k) ==
  /\ validateOwnership(sender, k[1]) \/ isSigner(sender, k[1])
  /\ proposals[k] # null
  /\ proposals[k].status = "PENDING"
  /\ proposals' = [proposals EXCEPT ![k].status = "REJECTED"]
  /\ UNCHANGED <<multisig_configs, approvals, nft_owners, historyVars>>

(* The owner attaches `value`; exactly the approved amount goes out.       *)
(* Neither the configuration nor the approvals are looked at again.        *)
ExecutePaymentProposal(sender, k, value) ==
  /\ executions[k] < MaxExecutions
  /\ validateOwnership(sender, k[1])
  /\ proposals[k] # null
  /\ proposals[k].status = "APPROVED"
  /\ value >= proposals[k].terms.amount
  /\ proposals' = [proposals EXCEPT ![k].status = "EXECUTED"]
  /\ executions' = [executions EXCEPT ![k] = @ + 1]
  /\ UNCHANGED <<multisig_configs, approvals, nft_owners, endorsed, endorsed_terms,
                 quorum>>

RemoveMultiSig(sender, n) ==
  /\ validateOwnership(sender, n)
  /\ multisig_configs' = [multisig_configs EXCEPT ![n] = null]
  /\ UNCHANGED <<proposals, approvals, nft_owners, historyVars>>

-----------------------------------------------------------------------------
MultiSigNext ==
  \E sender \in Address :
    \/ \E n \in NFT :
         \/ RegisterNFTOwnerMultiSig(n, sender)
         \/ \E required \in 0 .. MAX_SIGNERS + 1, s1, s2, s3 \in Address :
              ConfigureMultiSig(sender, n, required, s1, s2, s3)
         \/ RemoveMultiSig(sender, n)
    \/ \E k \in Key :
         \/ \E recipient \in Address, amount \in Amounts :
              SubmitPaymentProposal(sender, k,
                [recipient |-> recipient, amount |-> amount])
         \/ ApprovePaymentProposal(sender, k)
         \/ RejectPaymentProposal(sender, k)
         \/ \E value \in Amounts : ExecutePaymentProposal(sender, k, value)

MultiSigSpec == MultiSigInit /\ [][MultiSigNext]_multiSigVars

-----------------------------------------------------------------------------
(* No signer counts twice: the count of a proposal is the number of        *)
(* different co-signers who approved the present submission, and all of    *)
(* them saw the terms it now carries.                                      *)
CountIsDistinctSigners ==
  \A k \in Key : proposals[k] # null =>
    /\ proposals[k].approval_count = Cardinality(endorsed[k])
    /\ endorsed_terms[k] \subseteq {proposals[k].terms}

(* Money only moves with a quorum: a proposal that is approved or was paid *)
(* has as many different approvers as the threshold asked for when the     *)
(* last of them approved, whatever was reconfigured, removed, rejected or  *)
(* submitted again in between.                                             *)
QuorumBacksPayment ==
  \A k \in Key :
    (proposals[k] # null /\ proposals[k].status \in {"APPROVED", "EXECUTED"})
      => quorum[k] >= 1 /\ Cardinality(endorsed[k]) >= quorum[k]

(* MultiSigCard.tact, ExecutePaymentProposal: "a proposal is either fully  *)
(* executed (once) or not at all". SubmitPaymentProposal does not look at  *)
(* what is stored under the id, so an executed proposal becomes pending    *)
(* again.                                                                  *)
ExecutedAtMostOnce == \A k \in Key : executions[k] <= 1

(* docs/multisig/WALLET_UX.md 4.3: after a rejection the proposal "can be  *)
(* re-submitted, but a fresh approval round will be needed": the signers   *)
(* who count as having approved a pending proposal have approved this      *)
(* submission of it.                                                       *)
FreshApprovalRound ==
  \A k \in Key : (proposals[k] # null /\ proposals[k].status = "PENDING")
    => \A s \in Address : <<k, s>> \in approvals => s \in endorsed[k]
=============================================================================
