----------------------------- MODULE ChainTime -----------------------------
(***************************************************************************)
(* What every contract of the protocol reads from the TON virtual machine: *)
(* now(), the time of the block that holds the running transaction. A      *)
(* contract never sets it. Transactions are atomic: a handler that throws  *)
(* changes nothing, so a failed call is a stuttering step of every module. *)
(* Time is counted in abstract ticks and stops at MaxTime (a bound of the  *)
(* model).                                                                 *)
(***************************************************************************)
EXTENDS Integers

CONSTANTS Address,    \* the accounts (wallets and contracts) that send messages
          NFT,        \* the card NFT items, each one the key of an account
          null,       \* Tact's null: no entry, nothing pending
          MaxTime     \* bound: the last instant of the model

ASSUME NullAssumption == null \notin Address \cup NFT
ASSUME NullRecordAssumption == null \notin [to : Address, since : Int]
ASSUME MaxTimeAssumption == MaxTime \in Nat

VARIABLE now

TimeInit == now = 0

(* A later block: any number of transactions may run between two ticks. *)
PassTime == now < MaxTime /\ now' = now + 1

(* A map entry that may be absent. *)
Opt(S) == S \cup {null}
=============================================================================
