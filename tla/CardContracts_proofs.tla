------------------------ MODULE CardContracts_proofs ------------------------
(***************************************************************************)
(* A multi-signature card pays only with a quorum of different co-signers, *)
(* mandates bound their charges and intents end once, for every set of     *)
(* cards, ids and addresses, every period, limit and amount.               *)
(***************************************************************************)
EXTENDS MultiSigCard, RecurringPayments, CardIntents, FiniteSetTheorems, TLAPS

-----------------------------------------------------------------------------
(* The multi-signature card. The invariant, for one proposal: the          *)
(* recorded approvals must be known to contain the present endorsements,   *)
(* or an approval that passes the already-approved check might repeat one. *)
Backed(k) ==
  /\ IsFiniteSet(endorsed[k])
  /\ \A s \in endorsed[k] : <<k, s>> \in approvals
  /\ proposals[k] # null =>
       /\ proposals[k].approval_count = Cardinality(endorsed[k])
       /\ endorsed_terms[k] \subseteq {proposals[k].terms}
       /\ proposals[k].status \in {"APPROVED", "EXECUTED"} =>
            quorum[k] >= 1 /\ Cardinality(endorsed[k]) >= quorum[k]

AllBacked == \A k \in Key : Backed(k)

MultiSigInv == MultiSigTypeOK /\ AllBacked

(* One more member raises a finite set's size by one.                      *)
LEMMA AddOne ==
  ASSUME NEW S, IsFiniteSet(S), NEW x, x \notin S
  PROVE  IsFiniteSet(S \cup {x}) /\ Cardinality(S \cup {x}) = Cardinality(S) + 1
BY FS_AddElement

(* The empty contract satisfies the invariant.                             *)
LEMMA MultiSigInitInv == MultiSigInit => MultiSigInv
<1> SUFFICES ASSUME MultiSigInit PROVE MultiSigInv
  OBVIOUS
<1>1. MultiSigTypeOK
  BY DEF MultiSigInit, MultiSigTypeOK, OwnersInit, OwnersTypeOK
<1>2. IsFiniteSet({})
  BY FS_EmptySet
<1>3. AllBacked
  BY <1>2 DEF MultiSigInit, AllBacked, Backed
<1>4. QED BY <1>1, <1>3 DEF MultiSigInv

(* A submission starts the count, and with it the endorsements, afresh.    *)
LEMMA SubmitProposalInv ==
  ASSUME MultiSigInv, NEW sender \in Address, NEW k \in Key, NEW terms \in Terms,
         SubmitPaymentProposal(sender, k, terms)
  PROVE  MultiSigInv'
<1>1. MultiSigTypeOK'
  BY DEF MultiSigInv, MultiSigTypeOK, OwnersTypeOK, SubmitPaymentProposal, PaymentProposal
<1>2. ASSUME NEW j \in Key PROVE Backed(j)'
  <2>1. CASE j = k
    <3>1. endorsed'[k] = {} /\ endorsed_terms'[k] = {}
      BY DEF MultiSigInv, MultiSigTypeOK, OwnersTypeOK, SubmitPaymentProposal
    <3>2. /\ proposals'[k].approval_count = 0
          /\ proposals'[k].status = "PENDING"
      BY DEF MultiSigInv, MultiSigTypeOK, OwnersTypeOK, SubmitPaymentProposal
    <3>3. IsFiniteSet({}) /\ Cardinality({}) = 0
      BY FS_EmptySet
    <3>4. QED BY <2>1, <3>1, <3>2, <3>3 DEF Backed
  <2>2. CASE j # k
    <3>1. /\ proposals'[j] = proposals[j]
          /\ endorsed'[j] = endorsed[j]
          /\ endorsed_terms'[j] = endorsed_terms[j]
          /\ quorum'[j] = quorum[j]
          /\ approvals' = approvals
      BY <2>2 DEF MultiSigInv, MultiSigTypeOK, OwnersTypeOK, SubmitPaymentProposal
    <3>2. Backed(j)
      BY DEF MultiSigInv, AllBacked
    <3>3. QED BY <3>1, <3>2 DEF Backed
  <2>3. QED BY <2>1, <2>2
<1>3. QED BY <1>1, <1>2 DEF MultiSigInv, AllBacked

(* An approval adds exactly one signer, who was not among the endorsers,   *)
(* and approves the proposal only when the count meets the threshold.      *)
LEMMA ApproveProposalInv ==
  ASSUME MultiSigInv, NEW sender \in Address, NEW k \in Key,
         ApprovePaymentProposal(sender, k)
  PROVE  MultiSigInv'
<1> DEFINE c == proposals[k].approval_count + 1
           r == multisig_configs[k[1]].required_signatures
<1>1. /\ proposals[k] \in PaymentProposal
      /\ proposals[k].approval_count \in Nat
      /\ k[1] \in NFT
      /\ multisig_configs[k[1]] \in MultiSigConfig
      /\ r \in 1 .. MAX_SIGNERS
  BY DEF MultiSigInv, MultiSigTypeOK, OwnersTypeOK, ApprovePaymentProposal, isSigner, Key,
         PaymentProposal, MultiSigConfig
<1>2. /\ proposals'[k].approval_count = c
      /\ proposals'[k].status = IF c >= r THEN "APPROVED" ELSE "PENDING"
      /\ proposals'[k].terms = proposals[k].terms
      /\ proposals'[k] \in PaymentProposal
  <2> DEFINE st == IF c >= r THEN "APPROVED" ELSE "PENDING"
             a == [proposals EXCEPT ![k].approval_count = c]
  <2>1. proposals' = [a EXCEPT ![k].status = st]
    BY DEF ApprovePaymentProposal
  <2>2. k \in DOMAIN proposals /\ k \in DOMAIN a
    BY DEF MultiSigInv, MultiSigTypeOK, OwnersTypeOK
  <2>3. a[k] = [proposals[k] EXCEPT !.approval_count = c]
    BY <2>2
  <2>4. proposals'[k] = [a[k] EXCEPT !.status = st]
    BY <2>1, <2>2
  <2>5. c \in Nat /\ st \in {"PENDING", "APPROVED", "REJECTED", "EXECUTED"}
    BY <1>1
  <2> HIDE DEF c, st, a
  <2>6. proposals'[k] = [status |-> st, terms |-> proposals[k].terms,
                         approval_count |-> c]
    BY <1>1, <2>3, <2>4 DEF PaymentProposal
  <2>7. proposals'[k] \in PaymentProposal
    BY <1>1, <2>5, <2>6 DEF PaymentProposal
  <2>8. st = IF c >= r THEN "APPROVED" ELSE "PENDING"
    BY DEF st
  <2>9. QED BY <2>6, <2>7, <2>8
<1>3. MultiSigTypeOK'
  <2>1. proposals' \in [Key -> PaymentProposal \cup {null}]
    <3>1. \A j \in Key : j # k => proposals'[j] = proposals[j]
      BY DEF MultiSigInv, MultiSigTypeOK, OwnersTypeOK, ApprovePaymentProposal
    <3>2. proposals' = [j \in Key |-> proposals'[j]]
      BY DEF MultiSigInv, MultiSigTypeOK, OwnersTypeOK, ApprovePaymentProposal
    <3>3. QED BY <1>2, <3>1, <3>2 DEF MultiSigInv, MultiSigTypeOK, OwnersTypeOK
  <2>2. quorum' \in [Key -> Nat]
    BY <1>1 DEF MultiSigInv, MultiSigTypeOK, OwnersTypeOK, ApprovePaymentProposal, MAX_SIGNERS
  <2>3. endorsed_terms' \in [Key -> SUBSET Terms]
    BY <1>1 DEF MultiSigInv, MultiSigTypeOK, OwnersTypeOK, ApprovePaymentProposal, PaymentProposal
  <2>4. QED
    BY <2>1, <2>2, <2>3 DEF MultiSigInv, MultiSigTypeOK, OwnersTypeOK, ApprovePaymentProposal
<1>4. ASSUME NEW j \in Key PROVE Backed(j)'
  <2>0. Backed(j) /\ Backed(k)
    BY DEF MultiSigInv, AllBacked
  <2>1. CASE j = k
    <3>1. endorsed'[k] = endorsed[k] \cup {sender}
      BY DEF MultiSigInv, MultiSigTypeOK, OwnersTypeOK, ApprovePaymentProposal
    <3>2. sender \notin endorsed[k]
      BY <2>0 DEF Backed, ApprovePaymentProposal
    <3>3. /\ IsFiniteSet(endorsed'[k])
          /\ Cardinality(endorsed'[k]) = Cardinality(endorsed[k]) + 1
      <4>1. IsFiniteSet(endorsed[k])
        BY <2>0 DEF Backed
      <4>2. QED BY <3>1, <3>2, <4>1, AddOne
    <3>4. \A s \in endorsed'[k] : <<k, s>> \in approvals'
      BY <2>0, <3>1 DEF Backed, ApprovePaymentProposal
    <3>5. proposals[k] # null
      BY DEF ApprovePaymentProposal
    <3>6. proposals'[k].approval_count = Cardinality(endorsed'[k])
      BY <1>2, <2>0, <3>3, <3>5 DEF Backed
    <3>7. endorsed_terms'[k] \subseteq {proposals'[k].terms}
      BY <1>2, <2>0, <3>5 DEF Backed, MultiSigInv, MultiSigTypeOK, ApprovePaymentProposal
    <3>8. quorum'[k] = r
      BY DEF MultiSigInv, MultiSigTypeOK, OwnersTypeOK, ApprovePaymentProposal
    <3>9. proposals'[k].status \in {"APPROVED", "EXECUTED"} => c >= r
      BY <1>2
    <3>10. proposals'[k].status \in {"APPROVED", "EXECUTED"} =>
             quorum'[k] >= 1 /\ Cardinality(endorsed'[k]) >= quorum'[k]
      BY <1>1, <1>2, <3>6, <3>8, <3>9
    <3>11. QED BY <2>1, <3>3, <3>4, <3>6, <3>7, <3>10 DEF Backed
  <2>2. CASE j # k
    <3>1. /\ proposals'[j] = proposals[j]
          /\ endorsed'[j] = endorsed[j]
          /\ endorsed_terms'[j] = endorsed_terms[j]
          /\ quorum'[j] = quorum[j]
          /\ approvals \subseteq approvals'
      BY <2>2 DEF MultiSigInv, MultiSigTypeOK, OwnersTypeOK, ApprovePaymentProposal
    <3>2. QED BY <2>0, <3>1 DEF Backed
  <2>3. QED BY <2>1, <2>2
<1>5. QED BY <1>3, <1>4 DEF MultiSigInv, AllBacked

(* A step that leaves counts, terms and endorsements alone and approves    *)
(* nothing new keeps every proposal backed.                                *)
LEMMA OtherProposalsInv ==
  ASSUME MultiSigInv, MultiSigTypeOK',
         UNCHANGED <<approvals, endorsed, endorsed_terms, quorum>>,
         \A k \in Key :
           \/ proposals'[k] = proposals[k]
           \/ /\ proposals[k] # null
              /\ proposals'[k].approval_count = proposals[k].approval_count
              /\ proposals'[k].terms = proposals[k].terms
              /\ \/ proposals'[k].status = "REJECTED"
                 \/ proposals[k].status = "APPROVED"
  PROVE  MultiSigInv'
<1> SUFFICES ASSUME NEW k \in Key PROVE Backed(k)'
  BY DEF MultiSigInv, AllBacked
<1>1. Backed(k)
  BY DEF MultiSigInv, AllBacked
<1>2. CASE proposals'[k] = proposals[k]
  BY <1>1, <1>2 DEF Backed
<1>3. CASE /\ proposals[k] # null
           /\ proposals'[k].approval_count = proposals[k].approval_count
           /\ proposals'[k].terms = proposals[k].terms
           /\ \/ proposals'[k].status = "REJECTED"
              \/ proposals[k].status = "APPROVED"
  BY <1>1, <1>3 DEF Backed
<1>4. QED BY <1>2, <1>3

(* Rejecting a proposal keeps the invariant.                               *)
LEMMA RejectProposalInv ==
  ASSUME MultiSigInv, NEW sender \in Address, NEW k \in Key,
         RejectPaymentProposal(sender, k)
  PROVE  MultiSigInv'
<1>1. MultiSigTypeOK'
  BY DEF MultiSigInv, MultiSigTypeOK, OwnersTypeOK, RejectPaymentProposal, PaymentProposal, historyVars
<1>2. QED
  BY <1>1, OtherProposalsInv DEF MultiSigInv, MultiSigTypeOK, OwnersTypeOK, RejectPaymentProposal,
     PaymentProposal, historyVars

(* Executing an approved proposal keeps the invariant.                     *)
LEMMA ExecuteProposalInv ==
  ASSUME MultiSigInv, NEW sender \in Address, NEW k \in Key, NEW value \in Nat,
         ExecutePaymentProposal(sender, k, value)
  PROVE  MultiSigInv'
<1>1. MultiSigTypeOK'
  BY DEF MultiSigInv, MultiSigTypeOK, OwnersTypeOK, ExecutePaymentProposal, PaymentProposal
<1>2. QED
  BY <1>1, OtherProposalsInv DEF MultiSigInv, MultiSigTypeOK, OwnersTypeOK, ExecutePaymentProposal,
     PaymentProposal

(* Every step keeps the invariant.                                         *)
LEMMA MultiSigStepInv == MultiSigInv /\ [MultiSigNext]_multiSigVars => MultiSigInv'
<1> SUFFICES ASSUME MultiSigInv, [MultiSigNext]_multiSigVars PROVE MultiSigInv'
  OBVIOUS
<1>1. CASE UNCHANGED multiSigVars
  <2>1. MultiSigTypeOK'
    BY <1>1 DEF MultiSigInv, MultiSigTypeOK, OwnersTypeOK, multiSigVars, contractVars, historyVars
  <2>2. QED BY <1>1, <2>1, OtherProposalsInv DEF multiSigVars, contractVars, historyVars
<1>2. CASE \E sender \in Address, n \in NFT :
             \/ RegisterNFTOwnerMultiSig(n, sender)
             \/ \E required \in 0 .. MAX_SIGNERS + 1, s1, s2, s3 \in Address :
                  ConfigureMultiSig(sender, n, required, s1, s2, s3)
             \/ RemoveMultiSig(sender, n)
  <2> PICK sender \in Address, n \in NFT :
             \/ RegisterNFTOwnerMultiSig(n, sender)
             \/ \E required \in 0 .. MAX_SIGNERS + 1, s1, s2, s3 \in Address :
                  ConfigureMultiSig(sender, n, required, s1, s2, s3)
             \/ RemoveMultiSig(sender, n)
    BY <1>2
  <2>1. CASE RegisterNFTOwnerMultiSig(n, sender)
    <3>1. MultiSigTypeOK'
      BY <2>1 DEF MultiSigInv, MultiSigTypeOK, OwnersTypeOK, RegisterNFTOwnerMultiSig,
         RegisterNFTOwner, historyVars
    <3>2. QED BY <2>1, <3>1, OtherProposalsInv DEF RegisterNFTOwnerMultiSig, historyVars
  <2>2. CASE \E required \in 0 .. MAX_SIGNERS + 1, s1, s2, s3 \in Address :
               ConfigureMultiSig(sender, n, required, s1, s2, s3)
    <3> PICK required \in 0 .. MAX_SIGNERS + 1, s1, s2, s3 \in Address :
               ConfigureMultiSig(sender, n, required, s1, s2, s3)
      BY <2>2
    <3>1. [required_signatures |-> required, signers |-> {s1, s2, s3}]
            \in MultiSigConfig
      BY DEF ConfigureMultiSig, MultiSigConfig, MAX_SIGNERS
    <3>2. MultiSigTypeOK'
      BY <3>1 DEF MultiSigInv, MultiSigTypeOK, OwnersTypeOK, ConfigureMultiSig, historyVars
    <3>3. QED BY <3>2, OtherProposalsInv DEF ConfigureMultiSig, historyVars
  <2>3. CASE RemoveMultiSig(sender, n)
    <3>1. MultiSigTypeOK'
      BY <2>3 DEF MultiSigInv, MultiSigTypeOK, OwnersTypeOK, RemoveMultiSig, historyVars
    <3>2. QED BY <2>3, <3>1, OtherProposalsInv DEF RemoveMultiSig, historyVars
  <2>4. QED BY <2>1, <2>2, <2>3
<1>3. CASE \E sender \in Address, k \in Key :
             \/ \E recipient \in Address, amount \in Amounts :
                  SubmitPaymentProposal(sender, k,
                    [recipient |-> recipient, amount |-> amount])
             \/ ApprovePaymentProposal(sender, k)
             \/ RejectPaymentProposal(sender, k)
             \/ \E value \in Amounts : ExecutePaymentProposal(sender, k, value)
  <2>1. \A recipient \in Address, amount \in Amounts :
          [recipient |-> recipient, amount |-> amount] \in Terms
    BY MultiSigAssumption DEF Terms
  <2>2. QED
    BY <1>3, <2>1, MultiSigAssumption, SubmitProposalInv, ApproveProposalInv, RejectProposalInv, ExecuteProposalInv
<1>4. QED BY <1>1, <1>2, <1>3 DEF MultiSigNext

(* A signer is never counted twice for one submission of a proposal, for   *)
(* any number of cards, proposals, signers and reconfigurations.           *)
THEOREM SignersCountOnce == MultiSigSpec => []CountIsDistinctSigners
<1>1. MultiSigInv => CountIsDistinctSigners
  BY DEF MultiSigInv, AllBacked, Backed, CountIsDistinctSigners
<1>2. QED BY MultiSigInitInv, MultiSigStepInv, <1>1, PTL DEF MultiSigSpec

(* A proposal that is approved or was paid met the threshold with          *)
(* different approvers, whatever happened to the configuration since.      *)
THEOREM PaymentsHaveQuorum == MultiSigSpec => []QuorumBacksPayment
<1>1. MultiSigInv => QuorumBacksPayment
  BY DEF MultiSigInv, AllBacked, Backed, QuorumBacksPayment
<1>2. QED BY MultiSigInitInv, MultiSigStepInv, <1>1, PTL DEF MultiSigSpec

-----------------------------------------------------------------------------
(* Recurring payments. What one mandate's record says of its charges: the  *)
(* guards only see the count, the last stamp and the status, so these must *)
(* be the length, the last time and the end of what was charged.           *)
LastCharge(k) == charges[k][Len(charges[k])].timestamp

Recorded(k) ==
  LET m == mandates[k]
      c == charges[k] IN
  /\ Len(c) = m.execution_count
  /\ c = <<>> => m.last_executed_at = 0
  /\ c # <<>> => m.last_executed_at = LastCharge(k) /\ m.last_executed_at > 0
  /\ m.status # "CANCELLED" => charged_at_cancel[k] = null
  /\ m.status = "CANCELLED" => charged_at_cancel[k] = Len(c)

Agreed(k) ==
  LET terms == mandates[k].terms
      c == charges[k] IN
  /\ \A i \in DOMAIN c : /\ c[i].merchant_address = terms.merchant_address
                         /\ c[i].amount = terms.amount_per_period
  /\ terms.max_executions > 0 => Len(c) <= terms.max_executions
  /\ \A i \in 1 .. Len(c) - 1 :
       c[i + 1].timestamp >= c[i].timestamp + terms.period_seconds

Kept(k) == mandates[k] # null => Recorded(k) /\ Agreed(k)

MandateInv == RecurringTypeOK /\ \A k \in mandateKey : Kept(k)

(* Before the first mandate there is nothing to keep.                      *)
LEMMA MandateInitInv == RecurringInit => MandateInv
BY DEF RecurringInit, MandateInv, RecurringTypeOK, Kept, Charge

(* A mandate the step leaves alone is kept.                                *)
LEMMA OtherMandate ==
  ASSUME NEW k \in mandateKey, Kept(k),
         mandates'[k] = mandates[k], charges'[k] = charges[k],
         charged_at_cancel'[k] = charged_at_cancel[k]
  PROVE  Kept(k)'
BY DEF Kept, Recorded, Agreed, LastCharge

(* A new mandate has no charges yet.                                       *)
LEMMA CreateInv ==
  ASSUME MandateInv, NEW sender, NEW k \in mandateKey, NEW terms \in MandateTerms,
         CreateMandate(sender, k, terms)
  PROVE  MandateInv'
<1> DEFINE new == [status |-> "ACTIVE", terms |-> terms, execution_count |-> 0,
                   last_executed_at |-> 0]
<1>1. new \in MandateInfo
  BY DEF MandateInfo
<1>2. /\ mandates' = [mandates EXCEPT ![k] = new]
      /\ charges' = [charges EXCEPT ![k] = <<>>]
      /\ charged_at_cancel' = [charged_at_cancel EXCEPT ![k] = null]
      /\ now' = now
  BY DEF CreateMandate
<1>3. RecurringTypeOK'
  BY <1>1, <1>2 DEF MandateInv, RecurringTypeOK
<1>4. ASSUME NEW j \in mandateKey PROVE Kept(j)'
  <2>1. CASE j = k
    <3>1. mandates'[k] = new /\ charges'[k] = <<>> /\ charged_at_cancel'[k] = null
      BY <1>2 DEF MandateInv, RecurringTypeOK
    <3>2. /\ new.status = "ACTIVE" /\ new.execution_count = 0
          /\ new.last_executed_at = 0 /\ new.terms = terms
          /\ terms.max_executions \in Nat
      BY DEF MandateTerms
    <3> HIDE DEF new
    <3>3. QED BY <2>1, <3>1, <3>2 DEF Kept, Recorded, Agreed
  <2>2. CASE j # k
    <3>1. /\ mandates'[j] = mandates[j] /\ charges'[j] = charges[j]
          /\ charged_at_cancel'[j] = charged_at_cancel[j]
      BY <1>2, <2>2 DEF MandateInv, RecurringTypeOK
    <3>2. QED BY <3>1, OtherMandate DEF MandateInv
  <2>3. QED BY <2>1, <2>2
<1>5. QED BY <1>3, <1>4 DEF MandateInv

(* A cancellation only closes the mandate.                                 *)
LEMMA CancelInv ==
  ASSUME MandateInv, NEW sender, NEW k \in mandateKey, CancelMandate(sender, k)
  PROVE  MandateInv'
<1>1. /\ mandates[k] \in MandateInfo
      /\ mandates' = [mandates EXCEPT ![k].status = "CANCELLED"]
      /\ charged_at_cancel' = [charged_at_cancel EXCEPT ![k] =
           IF charged_at_cancel[k] = null THEN Len(charges[k]) ELSE charged_at_cancel[k]]
      /\ charges' = charges /\ now' = now
  BY DEF CancelMandate, MandateInv, RecurringTypeOK
<1>2. mandates'[k] = [mandates[k] EXCEPT !.status = "CANCELLED"]
  BY <1>1 DEF MandateInv, RecurringTypeOK
<1>3. /\ mandates'[k] \in MandateInfo
      /\ mandates'[k].status = "CANCELLED"
      /\ mandates'[k].terms = mandates[k].terms
      /\ mandates'[k].execution_count = mandates[k].execution_count
      /\ mandates'[k].last_executed_at = mandates[k].last_executed_at
  BY <1>1, <1>2 DEF MandateInfo
<1>4. RecurringTypeOK'
  <2>1. mandates' \in [mandateKey -> MandateInfo \cup {null}]
    BY <1>1, <1>2, <1>3 DEF MandateInv, RecurringTypeOK
  <2>2. Len(charges[k]) \in Nat
    BY DEF MandateInv, RecurringTypeOK
  <2>3. charged_at_cancel' \in [mandateKey -> Nat \cup {null}]
    BY <1>1, <2>2 DEF MandateInv, RecurringTypeOK
  <2>4. QED BY <1>1, <2>1, <2>3 DEF MandateInv, RecurringTypeOK
<1>5. ASSUME NEW j \in mandateKey PROVE Kept(j)'
  <2>1. CASE j = k
    <3>1. Recorded(k) /\ Agreed(k)
      BY DEF MandateInv, Kept, CancelMandate
    <3>2. charged_at_cancel'[k] = Len(charges[k])
      BY <1>1, <3>1 DEF MandateInv, RecurringTypeOK, Recorded
    <3>3. Recorded(k)'
      BY <1>1, <1>3, <3>1, <3>2 DEF Recorded, LastCharge
    <3>4. Agreed(k)'
      BY <1>1, <1>3, <3>1 DEF Agreed
    <3>5. QED BY <2>1, <3>3, <3>4 DEF Kept
  <2>2. CASE j # k
    <3>1. /\ mandates'[j] = mandates[j] /\ charges'[j] = charges[j]
          /\ charged_at_cancel'[j] = charged_at_cancel[j]
      BY <1>1, <2>2 DEF MandateInv, RecurringTypeOK
    <3>2. QED BY <3>1, OtherMandate DEF MandateInv
  <2>3. QED BY <2>1, <2>2
<1>6. QED BY <1>4, <1>5 DEF MandateInv

(* A charge comes a period after the one before and is counted.            *)
LEMMA ExecuteInv ==
  ASSUME MandateInv, NEW sender, NEW k \in mandateKey,
         ExecuteRecurringPayment(sender, k)
  PROVE  MandateInv'
<1> DEFINE m == mandates[k]
           c == charges[k]
           e == [merchant_address |-> m.terms.merchant_address,
                 amount |-> m.terms.amount_per_period, timestamp |-> now]
           status == IF m.terms.max_executions > 0
                          /\ m.execution_count + 1 >= m.terms.max_executions
                     THEN "COMPLETED" ELSE "ACTIVE"
<1>0. /\ m # null /\ m.status = "ACTIVE"
      /\ m.terms.max_executions > 0 => m.execution_count < m.terms.max_executions
      /\ m.last_executed_at > 0 => now >= m.last_executed_at + m.terms.period_seconds
  BY DEF ExecuteRecurringPayment, MayCharge
<1>1. /\ m \in MandateInfo /\ m.terms \in MandateTerms
      /\ m.execution_count \in Nat /\ m.last_executed_at \in Nat
      /\ m.terms.max_executions \in Nat /\ m.terms.period_seconds \in Nat
      /\ m.terms.merchant_address \in Address /\ m.terms.amount_per_period \in Nat
  <2>1. m \in MandateInfo
    BY <1>0 DEF MandateInv, RecurringTypeOK
  <2> HIDE DEF m
  <2>2. m.terms \in MandateTerms /\ m.execution_count \in Nat /\ m.last_executed_at \in Nat
    BY <2>1 DEF MandateInfo
  <2> DEFINE t == m.terms
  <2>3. t \in MandateTerms
    BY <2>2
  <2> HIDE DEF t
  <2>4. /\ t.max_executions \in Nat /\ t.period_seconds \in Nat
        /\ t.merchant_address \in Address /\ t.amount_per_period \in Nat
    BY <2>3 DEF MandateTerms
  <2>5. QED BY <2>1, <2>2, <2>4 DEF t
<1>2. /\ mandates' = [mandates EXCEPT ![k].status = status,
                                      ![k].execution_count = m.execution_count + 1,
                                      ![k].last_executed_at = now]
      /\ charges' = [charges EXCEPT ![k] = Append(c, e)]
      /\ charged_at_cancel' = charged_at_cancel /\ now' = now
  BY DEF ExecuteRecurringPayment, RecordExecution
<1>3. /\ now \in Nat /\ now > 0
      /\ c \in Seq(Charge) /\ e \in Charge
  <2>1. now \in Nat /\ now > 0 /\ c \in Seq(Charge)
    BY DEF MandateInv, RecurringTypeOK
  <2>2. e \in Charge
    BY <1>1, <2>1 DEF Charge
  <2>3. QED BY <2>1, <2>2
<1>4. mandates'[k] = [m EXCEPT !.status = status,
                               !.execution_count = m.execution_count + 1,
                               !.last_executed_at = now]
  BY <1>2 DEF MandateInv, RecurringTypeOK
<1>5. status \in {"ACTIVE", "COMPLETED"}
  OBVIOUS
<1> HIDE DEF status
<1>6. /\ mandates'[k] \in MandateInfo
      /\ mandates'[k].status = status
      /\ mandates'[k].terms = m.terms
      /\ mandates'[k].execution_count = m.execution_count + 1
      /\ mandates'[k].last_executed_at = now
  <2>1. m.execution_count + 1 \in Nat
    BY <1>1
  <2>2. m \in MandateInfo /\ now \in Nat
    BY <1>1, <1>3
  <2> DEFINE n1 == m.execution_count + 1
  <2> HIDE DEF m, n1
  <2>3. mandates'[k] = [m EXCEPT !.status = status, !.execution_count = n1,
                                 !.last_executed_at = now]
    BY <1>4 DEF n1
  <2>4. n1 \in Nat
    BY <2>1 DEF n1
  <2>5. /\ mandates'[k] \in MandateInfo
        /\ mandates'[k].status = status
        /\ mandates'[k].terms = m.terms
        /\ mandates'[k].execution_count = n1
        /\ mandates'[k].last_executed_at = now
    BY <1>5, <2>2, <2>3, <2>4 DEF MandateInfo
  <2>6. QED BY <2>5 DEF n1
<1>7. charges'[k] = Append(c, e)
  BY <1>2 DEF MandateInv, RecurringTypeOK
<1>8. RecurringTypeOK'
  <2>1. mandates' \in [mandateKey -> MandateInfo \cup {null}]
    BY <1>2, <1>4, <1>6 DEF MandateInv, RecurringTypeOK
  <2>2. Append(c, e) \in Seq(Charge)
    BY <1>3
  <2>3. charges' \in [mandateKey -> Seq(Charge)]
    BY <1>2, <2>2 DEF MandateInv, RecurringTypeOK
  <2>4. QED BY <1>2, <2>1, <2>3 DEF MandateInv, RecurringTypeOK
<1>9. ASSUME NEW j \in mandateKey PROVE Kept(j)'
  <2>1. CASE j = k
    <3>1. Recorded(k) /\ Agreed(k)
      BY <1>0, <1>1 DEF MandateInv, Kept
    <3>2. /\ Len(Append(c, e)) = Len(c) + 1
          /\ \A i \in 1 .. Len(c) : Append(c, e)[i] = c[i]
          /\ Append(c, e)[Len(c) + 1] = e
          /\ Append(c, e) # <<>>
          /\ DOMAIN Append(c, e) = 1 .. Len(c) + 1
          /\ DOMAIN c = 1 .. Len(c) /\ Len(c) \in Nat
      BY <1>3
    <3>3. /\ e.timestamp = now
          /\ e.merchant_address = m.terms.merchant_address
          /\ e.amount = m.terms.amount_per_period
      OBVIOUS
    <3> HIDE DEF e
    <3>4. Recorded(k)'
      BY <1>0, <1>1, <1>2, <1>3, <1>5, <1>6, <1>7, <3>1, <3>2, <3>3 DEF Recorded, LastCharge
    <3>5. Agreed(k)'
      <4>1. \A i \in DOMAIN charges'[k] :
              /\ charges'[k][i].merchant_address = mandates'[k].terms.merchant_address
              /\ charges'[k][i].amount = mandates'[k].terms.amount_per_period
        BY <1>6, <1>7, <3>1, <3>2, <3>3 DEF Agreed
      <4>2. mandates'[k].terms.max_executions > 0
              => Len(charges'[k]) <= mandates'[k].terms.max_executions
        BY <1>0, <1>1, <1>6, <1>7, <3>1, <3>2 DEF Recorded
      <4>3. ASSUME NEW i \in 1 .. Len(charges'[k]) - 1
            PROVE  charges'[k][i + 1].timestamp
                     >= charges'[k][i].timestamp + mandates'[k].terms.period_seconds
        <5>1. CASE i < Len(c)
          <6>1. i \in 1 .. Len(c) - 1 /\ i + 1 \in 1 .. Len(c) /\ i \in 1 .. Len(c)
            BY <1>7, <3>2, <5>1
          <6>2. QED BY <1>6, <1>7, <3>1, <3>2, <6>1 DEF Agreed
        <5>2. CASE i = Len(c)
          <6>1. c # <<>> /\ i \in 1 .. Len(c)
            BY <3>2, <5>2
          <6>2. c[i].timestamp = m.last_executed_at /\ m.last_executed_at > 0
            BY <3>1, <5>2, <6>1 DEF Recorded, LastCharge
          <6>3. QED BY <1>0, <1>1, <1>6, <1>7, <3>2, <3>3, <5>2, <6>1, <6>2
        <5>3. QED BY <1>7, <3>2, <5>1, <5>2
      <4>4. QED BY <4>1, <4>2, <4>3 DEF Agreed
    <3>6. QED BY <2>1, <3>4, <3>5 DEF Kept
  <2>2. CASE j # k
    <3>1. /\ mandates'[j] = mandates[j] /\ charges'[j] = charges[j]
          /\ charged_at_cancel'[j] = charged_at_cancel[j]
      BY <1>2, <2>2 DEF MandateInv, RecurringTypeOK
    <3>2. QED BY <3>1, OtherMandate DEF MandateInv
  <2>3. QED BY <2>1, <2>2
<1>10. QED BY <1>8, <1>9 DEF MandateInv

(* Every step keeps the invariant.                                         *)
LEMMA MandateStepInv ==
  MandateInv /\ [RecurringNext]_<<recurringVars, nft_owners>> => MandateInv'
<1> SUFFICES ASSUME MandateInv, [RecurringNext]_<<recurringVars, nft_owners>>
             PROVE  MandateInv'
  OBVIOUS
<1>1. ASSUME UNCHANGED <<mandates, charges, charged_at_cancel>>, now' \in Nat \ {0}
      PROVE  MandateInv'
  BY <1>1 DEF MandateInv, RecurringTypeOK, Kept, Recorded, Agreed, LastCharge
<1>2. now \in Nat \ {0}
  BY DEF MandateInv, RecurringTypeOK
<1>3. CASE BlockTime /\ UNCHANGED <<mandates, mandateHistory, nft_owners>>
  BY <1>1, <1>2, <1>3 DEF BlockTime, mandateHistory
<1>4. CASE UNCHANGED recurringVars
  BY <1>1, <1>2, <1>4 DEF recurringVars, mandateHistory
<1>5. CASE \E sender \in Address, k \in mandateKey :
             \/ \E merchant \in Address, amount \in Sums, period \in 0 .. MaxPeriod,
                   limit \in 0 .. MaxCharges :
                  CreateMandate(sender, k,
                    [merchant_address |-> merchant, amount_per_period |-> amount,
                     period_seconds |-> period, max_executions |-> limit])
             \/ CancelMandate(sender, k)
             \/ ExecuteRecurringPayment(sender, k)
  <2>1. \A merchant \in Address, amount \in Sums, period \in 0 .. MaxPeriod,
           limit \in 0 .. MaxCharges :
          [merchant_address |-> merchant, amount_per_period |-> amount,
           period_seconds |-> period, max_executions |-> limit] \in MandateTerms
    BY RecurringAssumption DEF MandateTerms
  <2>2. QED BY <1>5, <2>1, CreateInv, CancelInv, ExecuteInv
<1>6. QED BY <1>3, <1>4, <1>5 DEF RecurringNext, recurringVars, mandateHistory

(* No sequence of creations, cancellations and charges by the owner and    *)
(* the merchant takes more from a card than its present mandate allows     *)
(* (CreateMandate, CancelMandate, ExecuteRecurringPayment).                *)
THEOREM MandatesBoundCharges == RecurringSpec => []ChargesWithinMandate
<1>1. MandateInv => ChargesWithinMandate
  BY DEF MandateInv, Kept, Recorded, Agreed, ChargesWithinMandate
<1>2. QED BY MandateInitInv, MandateStepInv, <1>1, PTL DEF RecurringSpec

-----------------------------------------------------------------------------
(* Intents. An intent is untouched, open, or ended once in its round with  *)
(* the outcome that is stored.                                             *)
Stored(i) == IF i \in NFT THEN lending_intents[i] ELSE bridge_intents[i]

State(i) == IF i \in NFT THEN Stored(i).intent_state ELSE Stored(i).status

Ended(i) == {o \in outcomes : o[1] = i /\ o[2] = round[i]}

Open(i) == Stored(i) # null /\ State(i) \in {"PENDING", "ACTIVE"}

Settled(i) ==
  /\ round[i] = 0 <=> Stored(i) = null
  /\ Stored(i) = null => Ended(i) = {}
  /\ Open(i) => Ended(i) = {}
  /\ Stored(i) # null /\ ~Open(i) => Ended(i) = {<<i, round[i], State(i)>>}

IntentsInv ==
  /\ IntentsTypeOK
  /\ \A o \in outcomes : o[2] <= round[o[1]]
  /\ \A i \in Intent : Settled(i)

LEMMA IntentsInitInv == IntentsInit => IntentsInv
<1> SUFFICES ASSUME IntentsInit PROVE IntentsInv
  OBVIOUS
<1>1. IntentsTypeOK
  BY DEF IntentsInit, IntentsTypeOK, CollateralSignalInfo, defaultCollateralSignalInfo,
         SignalState
<1>2. \A i \in Intent : Stored(i) = null /\ Ended(i) = {} /\ round[i] = 0
  BY DEF IntentsInit, Stored, Ended, Intent
<1>3. \A i \in Intent : Settled(i)
  BY <1>2 DEF Settled, Open
<1>4. QED BY <1>1, <1>3 DEF IntentsInv, IntentsInit

(* What a step leaves alone stays settled.                                 *)
LEMMA SameIntent ==
  ASSUME NEW i \in Intent, Settled(i), Stored(i)' = Stored(i),
         round'[i] = round[i], Ended(i)' = Ended(i)
  PROVE  Settled(i)'
BY DEF Settled, Open, State

(* A new round of i: the outcomes of earlier rounds do not count in it.    *)
LEMMA RegisteredIntent ==
  ASSUME IntentsInv, IntentsTypeOK', NEW i \in Intent,
         round' = [round EXCEPT ![i] = round[i] + 1], outcomes' = outcomes,
         \A j \in Intent \ {i} : Stored(j)' = Stored(j),
         Open(i)'
  PROVE  IntentsInv'
<1>1. round \in [Intent -> Nat] /\ outcomes \subseteq Intent \X Nat \X {"CONFIRMED", "CANCELLED"}
  BY DEF IntentsInv, IntentsTypeOK
<1>2. round'[i] = round[i] + 1 /\ \A j \in Intent \ {i} : round'[j] = round[j]
  BY <1>1
<1>3. \A o \in outcomes : o[1] \in Intent /\ o[2] \in Nat /\ o[2] <= round[o[1]]
  BY <1>1 DEF IntentsInv
<1>4. \A o \in outcomes' : o[2] <= round'[o[1]]
  BY <1>1, <1>2, <1>3
<1>5. Ended(i)' = {}
  BY <1>1, <1>2, <1>3 DEF Ended
<1>6. Settled(i)'
  BY <1>1, <1>2, <1>5 DEF Settled, Open
<1>7. \A j \in Intent \ {i} : Ended(j)' = Ended(j)
  BY <1>2 DEF Ended
<1>8. \A j \in Intent \ {i} : Settled(j)'
  BY <1>2, <1>7, SameIntent DEF IntentsInv
<1>9. QED BY <1>4, <1>6, <1>8 DEF IntentsInv

(* The end of an open intent's round.                                      *)
LEMMA ClosedIntent ==
  ASSUME IntentsInv, IntentsTypeOK', NEW i \in Intent, Open(i),
         NEW s \in {"CONFIRMED", "CANCELLED"},
         round' = round, outcomes' = outcomes \cup {<<i, round[i], s>>},
         \A j \in Intent \ {i} : Stored(j)' = Stored(j),
         Stored(i)' # null, State(i)' = s
  PROVE  IntentsInv'
<1>1. round \in [Intent -> Nat] /\ round[i] \in Nat
  BY DEF IntentsInv, IntentsTypeOK
<1>2. \A o \in outcomes' : o[2] <= round'[o[1]]
  BY <1>1 DEF IntentsInv
<1>3. Ended(i) = {} /\ round[i] # 0
  BY DEF IntentsInv, Settled, Open
<1>4. Ended(i)' = {<<i, round[i], s>>}
  BY <1>3 DEF Ended
<1>5. Settled(i)'
  BY <1>3, <1>4 DEF Settled, Open
<1>6. \A j \in Intent \ {i} : Ended(j)' = Ended(j)
  BY DEF Ended
<1>7. \A j \in Intent \ {i} : Settled(j)'
  BY <1>6, SameIntent DEF IntentsInv
<1>8. QED BY <1>2, <1>5, <1>7 DEF IntentsInv

(* A step that changes no intent's round, outcome or openness.             *)
LEMMA QuietIntents ==
  ASSUME IntentsInv, IntentsTypeOK', UNCHANGED intentHistory,
         \A j \in Intent : \/ Stored(j)' = Stored(j)
                           \/ Open(j) /\ Open(j)'
  PROVE  IntentsInv'
<1>1. round' = round /\ outcomes' = outcomes
  BY DEF intentHistory
<1>2. \A j \in Intent : Ended(j)' = Ended(j)
  BY <1>1 DEF Ended
<1>3. ASSUME NEW j \in Intent PROVE Settled(j)'
  <2>1. CASE Stored(j)' = Stored(j)
    BY <1>1, <1>2, <2>1, SameIntent DEF IntentsInv
  <2>2. CASE Open(j) /\ Open(j)'
    BY <1>1, <1>2, <2>2 DEF IntentsInv, Settled, Open
  <2>3. QED BY <2>1, <2>2
<1>4. QED BY <1>1, <1>3 DEF IntentsInv

-----------------------------------------------------------------------------
LEMMA BridgeKeys ==
  ASSUME NEW k \in intentKey
  PROVE  /\ k \in Intent /\ k \notin NFT
         /\ Stored(k) = bridge_intents[k]
         /\ State(k) = bridge_intents[k].status
BY IntentKeysAssumption DEF Intent, Stored, State

(* bridge_intents changes at one key k only.                               *)
LEMMA OtherIntentsOfBridge ==
  ASSUME IntentsTypeOK, NEW k \in intentKey, lending_intents' = lending_intents,
         NEW v, bridge_intents' = [bridge_intents EXCEPT ![k] = v]
  PROVE  /\ \A j \in Intent \ {k} : Stored(j)' = Stored(j)
         /\ bridge_intents'[k] = v
BY DEF IntentsTypeOK, Stored, Intent

LEMMA RegisterBridgeInv ==
  ASSUME IntentsInv, NEW sender, NEW k \in intentKey, NEW chain \in Nat, NEW amount \in Nat,
         RegisterBridgeIntent(sender, k, chain, amount)
  PROVE  IntentsInv'
<1> DEFINE new == [status |-> "PENDING", target_chain |-> chain, amount |-> amount]
<1>1. /\ bridge_intents' = [bridge_intents EXCEPT ![k] = new]
      /\ round' = [round EXCEPT ![k] = round[k] + 1] /\ outcomes' = outcomes
      /\ UNCHANGED <<authorized_relayers, lending_intents, collateral_signals>>
  BY DEF RegisterBridgeIntent, NextRound
<1>2. new \in BridgeIntentInfo /\ new.status = "PENDING" /\ new # null
  BY IntentKeysAssumption DEF BridgeIntentInfo
<1> HIDE DEF new
<1>3. IntentsTypeOK' /\ IntentsTypeOK
  BY <1>1, <1>2, BridgeKeys DEF IntentsInv, IntentsTypeOK
<1>4. /\ \A j \in Intent \ {k} : Stored(j)' = Stored(j)
      /\ bridge_intents'[k] = new
  BY <1>1, <1>3, OtherIntentsOfBridge
<1>5. Open(k)'
  BY <1>2, <1>4, BridgeKeys DEF Open, Stored, State
<1>6. QED BY <1>1, <1>3, <1>4, <1>5, BridgeKeys, RegisteredIntent

LEMMA CloseBridgeInv ==
  ASSUME IntentsInv, NEW k \in intentKey, NEW s \in {"CONFIRMED", "CANCELLED"},
         CloseBridgeIntent(k, s)
  PROVE  IntentsInv'
<1> DEFINE old == bridge_intents[k]
           new == [old EXCEPT !.status = s]
<1>1. /\ old # null /\ old.status = "PENDING"
      /\ bridge_intents' = [bridge_intents EXCEPT ![k] = new]
      /\ round' = round /\ outcomes' = outcomes \cup {<<k, round[k], s>>}
      /\ UNCHANGED <<authorized_relayers, lending_intents, collateral_signals>>
  BY DEF CloseBridgeIntent, Ends
<1>2. old \in BridgeIntentInfo
  BY <1>1 DEF IntentsInv, IntentsTypeOK
<1> HIDE DEF old
<1>3. new \in BridgeIntentInfo /\ new.status = s
  BY <1>2 DEF BridgeIntentInfo
<1> HIDE DEF new
<1>4. new # null
  BY <1>3, IntentKeysAssumption
<1>5. <<k, round[k], s>> \in Intent \X Nat \X {"CONFIRMED", "CANCELLED"}
  BY BridgeKeys DEF IntentsInv, IntentsTypeOK
<1>6. IntentsTypeOK' /\ IntentsTypeOK
  BY <1>1, <1>3, <1>5 DEF IntentsInv, IntentsTypeOK
<1>7. /\ \A j \in Intent \ {k} : Stored(j)' = Stored(j)
      /\ bridge_intents'[k] = new
  BY <1>1, <1>6, OtherIntentsOfBridge
<1>8. Open(k)
  BY <1>1, BridgeKeys DEF Open, old
<1>9. Stored(k)' # null /\ State(k)' = s
  BY <1>3, <1>4, <1>7, BridgeKeys DEF Stored, State
<1>10. QED BY <1>1, <1>6, <1>7, <1>8, <1>9, BridgeKeys, ClosedIntent

(* lending_intents changes at one item n only.                             *)
LEMMA OtherIntentsOfLending ==
  ASSUME IntentsTypeOK, NEW n \in NFT, bridge_intents' = bridge_intents,
         NEW v, lending_intents' = [lending_intents EXCEPT ![n] = v]
  PROVE  /\ \A j \in Intent \ {n} : Stored(j)' = Stored(j)
         /\ lending_intents'[n] = v /\ n \in Intent
BY DEF IntentsTypeOK, Stored, Intent

LEMMA RegisterLendingInv ==
  ASSUME IntentsInv, NEW sender, NEW n \in NFT, NEW lender \in Lenders, NEW amount \in Nat,
         \/ RegisterLendingIntent(sender, n, lender, amount)
         \/ UpdateLendingIntent(sender, n, lender, amount)
  PROVE  IntentsInv'
<1> DEFINE new == [intent_state |-> "ACTIVE", target_lender |-> lender,
                   collateral_signal_amount |-> amount]
<1>1. /\ lending_intents' = [lending_intents EXCEPT ![n] = new]
      /\ UNCHANGED <<bridge_intents, authorized_relayers, collateral_signals>>
  BY DEF RegisterLendingIntent, UpdateLendingIntent, bridgeVars
<1>2. new \in LendingIntentInfo /\ new.intent_state = "ACTIVE" /\ new # null
  BY IntentKeysAssumption DEF LendingIntentInfo
<1> HIDE DEF new
<1>3. IntentsTypeOK
  BY DEF IntentsInv
<1>4. /\ \A j \in Intent \ {n} : Stored(j)' = Stored(j)
      /\ lending_intents'[n] = new /\ n \in Intent
  BY <1>1, <1>3, OtherIntentsOfLending
<1>5. Open(n)'
  BY <1>2, <1>4 DEF Open, Stored, State
<1>6. lending_intents' \in [NFT -> LendingIntentInfo \cup {null}]
  BY <1>1, <1>2, <1>3 DEF IntentsTypeOK
<1>7. CASE RegisterLendingIntent(sender, n, lender, amount)
  <2>1. round' = [round EXCEPT ![n] = round[n] + 1] /\ outcomes' = outcomes
    BY <1>7 DEF RegisterLendingIntent, NextRound
  <2>2. IntentsTypeOK'
    BY <1>1, <1>3, <1>4, <1>6, <2>1 DEF IntentsTypeOK
  <2>3. QED BY <1>4, <1>5, <2>1, <2>2, RegisteredIntent
<1>8. CASE UpdateLendingIntent(sender, n, lender, amount)
  <2>1. UNCHANGED intentHistory /\ HasActiveIntent(n)
    BY <1>8 DEF UpdateLendingIntent
  <2>2. Open(n)
    BY <2>1 DEF HasActiveIntent, Open, Stored, State
  <2>3. IntentsTypeOK'
    BY <1>1, <1>3, <1>6, <2>1 DEF IntentsTypeOK, intentHistory
  <2>4. QED BY <1>4, <1>5, <2>1, <2>2, <2>3, QuietIntents
<1>9. QED BY <1>7, <1>8

LEMMA CancelLendingInv ==
  ASSUME IntentsInv, NEW sender, NEW n \in NFT, CancelLendingIntent(sender, n)
  PROVE  IntentsInv'
<1> DEFINE old == lending_intents[n]
           new == [old EXCEPT !.intent_state = "CANCELLED"]
<1>1. /\ old # null /\ old.intent_state = "ACTIVE"
      /\ lending_intents' = [lending_intents EXCEPT ![n] = new]
      /\ round' = round /\ outcomes' = outcomes \cup {<<n, round[n], "CANCELLED">>}
      /\ UNCHANGED <<bridge_intents, authorized_relayers, collateral_signals>>
  BY DEF CancelLendingIntent, HasActiveIntent, Ends, bridgeVars
<1>2. old \in LendingIntentInfo
  BY <1>1 DEF IntentsInv, IntentsTypeOK
<1> HIDE DEF old
<1>3. new \in LendingIntentInfo /\ new.intent_state = "CANCELLED"
  BY <1>2 DEF LendingIntentInfo
<1> HIDE DEF new
<1>4. new # null
  BY <1>3, IntentKeysAssumption
<1>5. IntentsTypeOK
  BY DEF IntentsInv
<1>6. /\ \A j \in Intent \ {n} : Stored(j)' = Stored(j)
      /\ lending_intents'[n] = new /\ n \in Intent
  BY <1>1, <1>5, OtherIntentsOfLending
<1>7. <<n, round[n], "CANCELLED">> \in Intent \X Nat \X {"CONFIRMED", "CANCELLED"}
  BY <1>5, <1>6 DEF IntentsTypeOK
<1>8. IntentsTypeOK'
  BY <1>1, <1>3, <1>5, <1>7 DEF IntentsTypeOK
<1>9. Open(n)
  BY <1>1 DEF Open, Stored, State, old
<1>10. Stored(n)' # null /\ State(n)' = "CANCELLED"
  BY <1>3, <1>4, <1>6 DEF Stored, State
<1>11. QED BY <1>1, <1>6, <1>8, <1>9, <1>10, ClosedIntent

(* Owners, relayers and collateral signals do not touch an intent.         *)
LEMMA OtherStepInv ==
  ASSUME IntentsInv, UNCHANGED <<bridge_intents, lending_intents, intentHistory>>,
         authorized_relayers' \subseteq Address,
         collateral_signals' \in [NFT -> CollateralSignalInfo]
  PROVE  IntentsInv'
<1>1. IntentsTypeOK'
  BY DEF IntentsInv, IntentsTypeOK, intentHistory
<1>2. \A j \in Intent : Stored(j)' = Stored(j)
  BY DEF Stored
<1>3. QED BY <1>1, <1>2, QuietIntents

LEMMA IntentsStepInv ==
  IntentsInv /\ [IntentsNext]_<<intentVars, nft_owners>> => IntentsInv'
<1> SUFFICES ASSUME IntentsInv, [IntentsNext]_<<intentVars, nft_owners>>
             PROVE  IntentsInv'
  OBVIOUS
<1>1. /\ authorized_relayers \subseteq Address
      /\ collateral_signals \in [NFT -> CollateralSignalInfo]
  BY DEF IntentsInv, IntentsTypeOK
<1>2. CASE UNCHANGED intentVars
  BY <1>1, <1>2, OtherStepInv DEF intentVars, bridgeVars
<1>3. CASE BridgeNext
  <2>1. ASSUME NEW relayer \in Relayers, RegisterRelayer(relayer) PROVE IntentsInv'
    BY <1>1, <2>1, IntentsAssumption, OtherStepInv DEF RegisterRelayer
  <2>2. ASSUME NEW sender \in Address, NEW k \in intentKey,
               NEW chain \in 0 .. MAX_SUPPORTED_CHAIN + 1, NEW amount \in Values,
               RegisterBridgeIntent(sender, k, chain, amount)
        PROVE  IntentsInv'
    <3>1. chain \in Nat /\ amount \in Nat
      BY IntentsAssumption
    <3>2. QED BY <2>2, <3>1, RegisterBridgeInv
  <2>3. ASSUME NEW sender \in Address, NEW k \in intentKey,
               ConfirmBridgeExecution(sender, k) \/ CancelBridgeIntent(sender, k)
        PROVE  IntentsInv'
    BY <2>3, CloseBridgeInv DEF ConfirmBridgeExecution, CancelBridgeIntent
  <2>4. QED BY <1>3, <2>1, <2>2, <2>3 DEF BridgeNext
<1>4. CASE LendingNext
  <2>1. Values \subseteq Nat
    BY IntentsAssumption
  <2>2. QED BY <1>4, <2>1, RegisterLendingInv, CancelLendingInv DEF LendingNext
<1>5. CASE SignalNext
  <2>1. ASSUME NEW n \in NFT, NEW state \in SignalState, NEW amount \in Nat,
               StoreSignal(n, state, amount)
        PROVE  IntentsInv'
    <3>1. [signal_state |-> state, collateral_amount_ton |-> amount] \in CollateralSignalInfo
      BY DEF CollateralSignalInfo
    <3>2. collateral_signals' \in [NFT -> CollateralSignalInfo]
      BY <1>1, <2>1, <3>1 DEF StoreSignal
    <3>3. UNCHANGED <<bridge_intents, lending_intents, intentHistory, authorized_relayers>>
      BY <2>1 DEF StoreSignal, bridgeVars
    <3>4. QED BY <1>1, <3>2, <3>3, OtherStepInv
  <2>2. {"ACTIVE", "RELEASED"} \subseteq SignalState /\ Values \subseteq Nat /\ 0 \in Nat
    BY IntentsAssumption DEF SignalState
  <2>3. ASSUME NEW sender \in Address, NEW n \in NFT, NEW amount \in Values,
               \/ SignalCollateral(sender, n, amount)
               \/ \E state \in SignalState : UpdateCollateralSignal(sender, n, state, amount)
        PROVE  IntentsInv'
    BY <2>1, <2>2, <2>3 DEF SignalCollateral, UpdateCollateralSignal
  <2>4. ASSUME NEW sender \in Address, NEW n \in NFT, ReleaseCollateralSignal(sender, n)
        PROVE  IntentsInv'
    BY <2>1, <2>2, <2>4 DEF ReleaseCollateralSignal
  <2>5. ASSUME NEW n \in NFT, NEW owner, ResolveSignalOwner(n, owner)
        PROVE  IntentsInv'
    BY <1>2, <2>5 DEF ResolveSignalOwner
  <2>6. QED BY <1>5, <2>3, <2>4, <2>5 DEF SignalNext
<1>6. CASE HarnessRegisters
  BY <1>2, <1>6 DEF HarnessRegisters
<1>7. QED BY <1>2, <1>3, <1>4, <1>5, <1>6 DEF IntentsNext

(* However confirmations, cancellations, updates and new registrations     *)
(* cross, an intent ends at most once between two registrations and what   *)
(* is stored is how it ended (CrossChainBridge, LendingProtocolCoordinator).*)
THEOREM IntentsEndOnce == IntentsSpec => []OneOutcomePerIntent
<1>1. IntentsInv => OneOutcomePerIntent
  <2> SUFFICES ASSUME IntentsInv, NEW i \in Intent
               PROVE  /\ Cardinality(Ended(i)) <= 1
                      /\ round[i] = 0 <=> Stored(i) = null
                      /\ \A o \in Ended(i) : State(i) = o[3]
                      /\ round[i] > 0 /\ Ended(i) = {} => State(i) \in {"PENDING", "ACTIVE"}
    BY DEF OneOutcomePerIntent, Ended, Stored, State
  <2>1. Settled(i) /\ round[i] \in Nat
    BY DEF IntentsInv, IntentsTypeOK
  <2>2. Cardinality({}) = 0 /\ Cardinality({<<i, round[i], State(i)>>}) = 1
    BY FS_EmptySet, FS_Singleton
  <2>3. \/ Ended(i) = {}
        \/ Ended(i) = {<<i, round[i], State(i)>>} /\ Stored(i) # null
    BY <2>1 DEF Settled, Open
  <2>4. Cardinality(Ended(i)) <= 1
    BY <2>2, <2>3
  <2>5. \A o \in Ended(i) : State(i) = o[3]
    BY <2>3
  <2>6. round[i] > 0 /\ Ended(i) = {} => State(i) \in {"PENDING", "ACTIVE"}
    <3>1. HAVE round[i] > 0 /\ Ended(i) = {}
    <3>2. Stored(i) # null
      BY <2>1, <3>1 DEF Settled
    <3>3. Open(i)
      BY <2>1, <3>1, <3>2 DEF Settled
    <3>4. QED BY <3>3 DEF Open
  <2>7. QED BY <2>1, <2>4, <2>5, <2>6 DEF Settled
<1>2. QED BY IntentsInitInv, IntentsStepInv, <1>1, PTL DEF IntentsSpec
=============================================================================
