---------------------------- MODULE PaymentLink ----------------------------
(***************************************************************************)
(* The amounts and the wallet links that the merchant SDK, the dashboard   *)
(* and the mobile app share. A link is the record of what the wallet that  *)
(* opens it is asked to do; its encoding as a URL is left out. An amount   *)
(* as typed is its digits before and after the point.                      *)
(***************************************************************************)
EXTENDS Naturals, SequencesExt

CONSTANTS Account,      \* strings that parse as TON addresses
          DECIMALS,     \* digits of a nanocoin amount after the point: 9
          PLACES        \* digits shown: 2

ASSUME AmountAssumption == {DECIMALS, PLACES} \subseteq Nat /\ PLACES <= DECIMALS

isValidTonAddress(text) == text \in Account

NANOCOINS_PER_TBC == 10 ^ DECIMALS

NoNumber == [digits |-> FALSE]     \* a text that is no decimal number

Value(digits) == FoldLeft(LAMBDA n, d : 10 * n + d, 0, digits)

(* Nanocoins of a decimal amount; more digits than there are, are refused. *)
Nanocoins(whole, digits) ==
  whole * NANOCOINS_PER_TBC + Value(digits) * 10 ^ (DECIMALS - Len(digits))
Parses(text) == text.digits /\ Len(text.fraction) <= DECIMALS
parseDecimalToNanocoins(text) == Nanocoins(text.whole, text.fraction)

(* The amount shown, in units of the last place shown: rounded half up.    *)
formatTBC(nanocoins) ==
  (nanocoins * 10 ^ PLACES + NANOCOINS_PER_TBC \div 2) \div NANOCOINS_PER_TBC

(* Whether a link can be built; the amount is one of nanocoins.            *)
LinkAllowed(hub, merchant, payer, amount) ==
  amount > 0 /\ {hub, merchant, payer} \subseteq Account
buildWalletLink(hub, merchant, payer, amount, memo) ==
  [to |-> hub, merchant |-> merchant, payer |-> payer,
   amount |-> amount, memo |-> memo]
=============================================================================
