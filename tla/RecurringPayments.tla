------------------------- MODULE RecurringPayments -------------------------
(***************************************************************************)
(* contracts/RecurringPayments.tact: mandates that let a merchant charge a *)
(* card once per period. No money moves here; the hub follows the charges  *)
(* this contract emits.                                                    *)
(*                                                                         *)
(* History, which no guard reads: `charges`, the charges emitted under the *)
(* present mandate; `charged_at_cancel`, how many they were when it was    *)
(* first cancelled. created_at, which nothing reads, is left out.          *)
(***************************************************************************)
EXTENDS CardOwners, Sequences

CONSTANTS MandateId,
          Sums,                 \* amounts asked for, 0 among them
          MIN_PERIOD_SECONDS,   \* an hour, in ticks
          MaxPeriod,            \* bound: the longest period asked for
          MaxCharges,           \* bound: the largest max_executions asked for
          MaxTime               \* bound: the last instant

ASSUME RecurringAssumption ==
  /\ Sums \subseteq Nat
  /\ MIN_PERIOD_SECONDS \in Nat \ {0}
  /\ MaxPeriod \in Nat /\ MaxCharges \in Nat /\ MaxTime \in Nat

VARIABLES mandates, now, charges, charged_at_cancel

mandateHistory == <<charges, charged_at_cancel>>
recurringVars == <<mandates, now, mandateHistory>>

mandateKey == NFT \X MandateId

MandateTerms == [merchant_address : Address, amount_per_period : Nat,
                 period_seconds : Nat, max_executions : Nat]
MandateInfo == [status : {"ACTIVE", "CANCELLED", "COMPLETED"}, terms : MandateTerms,
                execution_count : Nat, last_executed_at : Nat]
Charge == [merchant_address : Address, amount : Nat, timestamp : Nat]

RecurringTypeOK ==
  /\ mandates \in [mandateKey -> MandateInfo \cup {null}]
  /\ now \in Nat \ {0}
  /\ charges \in [mandateKey -> Seq(Charge)]
  /\ charged_at_cancel \in [mandateKey -> Nat \cup {null}]

(* Chain time is never 0, the value of last_executed_at before a charge.   *)
RecurringInit ==
  /\ mandates = [k \in mandateKey |-> null]
  /\ now = 1
  /\ charges = [k \in mandateKey |-> <<>>]
  /\ charged_at_cancel = [k \in mandateKey |-> null]

-----------------------------------------------------------------------------
(* Whatever is stored under the id is replaced: count and clock restart.   *)
CreateMandate(sender, k, terms) ==
  /\ validateOwnership(sender, k[1])
  /\ terms.amount_per_period > 0
  /\ terms.period_seconds >= MIN_PERIOD_SECONDS
  /\ mandates' = [mandates EXCEPT ![k] =
       [status |-> "ACTIVE", terms |-> terms, execution_count |-> 0,
        last_executed_at |-> 0]]
  /\ charges' = [charges EXCEPT ![k] = <<>>]
  /\ charged_at_cancel' = [charged_at_cancel EXCEPT ![k] = null]
  /\ UNCHANGED <<now, nft_owners>>

(* In any status, a completed mandate too. *)
CancelMandate(sender, k) ==
  /\ validateOwnership(sender, k[1])
  /\ mandates[k] # null
  /\ mandates' = [mandates EXCEPT ![k].status = "CANCELLED"]
  /\ charged_at_cancel' = [charged_at_cancel EXCEPT ![k] =
       IF @ = null THEN Len(charges[k]) ELSE @]
  /\ UNCHANGED <<now, charges, nft_owners>>

(* Counts the charge, stamps it, and completes the mandate with its last.  *)
RecordExecution(k) ==
  LET m == mandates[k]
      new_count == m.execution_count + 1
      last == m.terms.max_executions > 0 /\ new_count >= m.terms.max_executions IN
  /\ mandates' = [mandates EXCEPT
       ![k].status = IF last THEN "COMPLETED" ELSE "ACTIVE",
       ![k].execution_count = new_count,
       ![k].last_executed_at = now]
  /\ charges' = [charges EXCEPT ![k] = Append(@,
       [merchant_address |-> m.terms.merchant_address,
        amount |-> m.terms.amount_per_period, timestamp |-> now])]
  /\ UNCHANGED <<now, charged_at_cancel, nft_owners>>

MayCharge(sender, k) ==
  /\ mandates[k] # null
  /\ mandates[k].status = "ACTIVE"
  /\ validateOwnership(sender, k[1]) \/ sender = mandates[k].terms.merchant_address
  /\ LET m == mandates[k] IN
       m.terms.max_executions > 0 => m.execution_count < m.terms.max_executions

(* Without the check of the period. *)
ExecuteUntimed(sender, k) == MayCharge(sender, k) /\ RecordExecution(k)

ExecuteRecurringPayment(sender, k) ==
  /\ MayCharge(sender, k)
  /\ LET m == mandates[k] IN
       m.last_executed_at > 0 => now >= m.last_executed_at + m.terms.period_seconds
  /\ RecordExecution(k)

BlockTime == now < MaxTime /\ now' = now + 1

-----------------------------------------------------------------------------
RecurringNext ==
  \/ BlockTime /\ UNCHANGED <<mandates, mandateHistory, nft_owners>>
  \/ \E sender \in Address, n \in NFT :
       RegisterNFTOwner(n, sender) /\ UNCHANGED recurringVars
  \/ \E sender \in Address, k \in mandateKey :
       \/ \E merchant \in Address, amount \in Sums, period \in 0 .. MaxPeriod,
             limit \in 0 .. MaxCharges :
            CreateMandate(sender, k,
              [merchant_address |-> merchant, amount_per_period |-> amount,
               period_seconds |-> period, max_executions |-> limit])
       \/ CancelMandate(sender, k)
       \/ ExecuteRecurringPayment(sender, k)

RecurringSpec ==
  OwnersInit /\ RecurringInit /\ [][RecurringNext]_<<recurringVars, nft_owners>>

-----------------------------------------------------------------------------
(* A mandate bounds what is taken from the card: whoever triggers the      *)
(* charges, in whatever order with cancellations and re-creations, those   *)
(* that ExecuteRecurringPayment emits under the present mandate go to its   *)
(* merchant for its amount, at most max_executions times (0: no limit), a  *)
(* period apart, and none after it was cancelled.                          *)
ChargesWithinMandate ==
  \A k \in mandateKey : mandates[k] # null =>
    LET terms == mandates[k].terms
        c == charges[k] IN
    /\ \A i \in DOMAIN c : /\ c[i].merchant_address = terms.merchant_address
                           /\ c[i].amount = terms.amount_per_period
    /\ terms.max_executions > 0 => Len(c) <= terms.max_executions
    /\ \A i \in 1 .. Len(c) - 1 :
         c[i + 1].timestamp >= c[i].timestamp + terms.period_seconds
    /\ charged_at_cancel[k] # null => Len(c) = charged_at_cancel[k]
=============================================================================
