--------------------------- MODULE RegistryConfig ---------------------------
(***************************************************************************)
(* contracts/governance/ProposalRegistry.tact, configuration: the deployer *)
(* installs a set of signers once; from then on the contract that resolves *)
(* owners and the one that verifies snapshots are changed by M of the N    *)
(* signers, after a timelock, and only to a contract whose code has the    *)
(* approved hash.                                                          *)
(*                                                                         *)
(* One change is pending at a time: `config` is null or the fields         *)
(* config_kind .. config_approvers. `governance_configured` is             *)
(* governance_signers # {}. A message refers to code by its hash, and      *)
(* CodeOf gives the hash of the code an address is derived from: the       *)
(* StateInit that ExecuteConfigChange asks for exists for no other hash.   *)
(*                                                                         *)
(* approved_at is history: when each signer approved the pending change.   *)
(***************************************************************************)
EXTENDS ChainTime, FiniteSets

CONSTANTS Deployer,        \* the sender that deployed the registry
          SignerSets,      \* sets of signers the deployer may install
          Resolvers,       \* targets proposed as owner resolver
          Verifiers,       \* targets proposed as snapshot verifier
          CodeHash,        \* code hashes named in proposals
          CodeOf,          \* the hash of the code of each target
          TimelockDelay,   \* CONFIG_TIMELOCK_DELAY, 7 days, in ticks
          MaxChanges       \* bound: configuration changes proposed

MIN_GOV_SIGNERS == 2
MAX_GOV_SIGNERS == 7
MIN_GOV_THRESHOLD == 2

ASSUME RegistryConfigAssumption ==
  /\ SignerSets \subseteq SUBSET Address
  /\ \A S \in SignerSets : IsFiniteSet(S)
  /\ Resolvers \subseteq Address /\ Verifiers \subseteq Address
  /\ CodeOf \in [Resolvers \cup Verifiers -> CodeHash]
  /\ TimelockDelay \in Nat \ {0}
  /\ MaxChanges \in Nat

VARIABLES governance_signers, governance_threshold, config,
          owner_resolver, snapshot_verifier, changes, approved_at

configVars == <<governance_signers, governance_threshold, config,
                owner_resolver, snapshot_verifier, changes, approved_at>>

Targets(kind) == IF kind = "resolver" THEN Resolvers ELSE Verifiers

ConfigChange ==
  [kind : {"resolver", "verifier"}, target : Resolvers \cup Verifiers,
   code_hash : CodeHash, approvers : SUBSET Address, approvals : Nat,
   executable_at : Nat]

ConfigTypeOK ==
  /\ governance_signers \in SUBSET Address
  /\ governance_threshold \in Nat
  /\ config \in Opt(ConfigChange)
  /\ owner_resolver \in Opt(Resolvers)
  /\ snapshot_verifier \in Opt(Verifiers)
  /\ changes \in 0 .. MaxChanges
  /\ approved_at \in [Address -> Opt(Nat)]

ConfigInit ==
  /\ governance_signers = {}
  /\ governance_threshold = 0
  /\ config = null
  /\ owner_resolver = null
  /\ snapshot_verifier = null
  /\ changes = 0
  /\ approved_at = [a \in Address |-> null]

-----------------------------------------------------------------------------
(* The message lists the signers; gaps, duplicates and the zero address    *)
(* are refused, so what is installed is a set of signer_count addresses.   *)
ConfigureGovernance(sender, signers, threshold) ==
  /\ sender = Deployer
  /\ governance_signers = {}
  /\ Cardinality(signers) \in MIN_GOV_SIGNERS .. MAX_GOV_SIGNERS
  /\ threshold \in MIN_GOV_THRESHOLD .. Cardinality(signers)
  /\ governance_signers' = signers
  /\ governance_threshold' = threshold
  /\ UNCHANGED <<config, owner_resolver, snapshot_verifier, changes, approved_at>>

requireGovernanceSigner(sender) == sender \in governance_signers

ProposeConfigChange(sender, kind, target, code_hash) ==
  /\ changes < MaxChanges
  /\ requireGovernanceSigner(sender)
  /\ config = null
  /\ config' = [kind |-> kind, target |-> target, code_hash |-> code_hash,
                approvers |-> {sender}, approvals |-> 1, executable_at |-> 0]
  /\ changes' = changes + 1
  /\ approved_at' = [a \in Address |-> IF a = sender THEN now ELSE null]
  /\ UNCHANGED <<governance_signers, governance_threshold, owner_resolver,
                 snapshot_verifier>>

(* The three handlers that name the pending change compare kind and target.*)
NamesPending(kind, target) ==
  config # null /\ config.kind = kind /\ config.target = target

ApproveAgain(sender, kind, target) ==
  /\ requireGovernanceSigner(sender)
  /\ NamesPending(kind, target)
  /\ config' = [config EXCEPT
       !.approvers = @ \cup {sender},
       !.approvals = @ + 1,
       !.executable_at =
         IF config.approvals + 1 >= governance_threshold /\ @ = 0
         THEN now + TimelockDelay ELSE @]
  /\ approved_at' = [approved_at EXCEPT ![sender] = now]
  /\ UNCHANGED <<governance_signers, governance_threshold, owner_resolver,
                 snapshot_verifier, changes>>

(* Each signer approves once; the timelock starts with the approval that   *)
(* reaches the threshold.                                                  *)
ApproveConfigChange(sender, kind, target) ==
  /\ requireGovernanceSigner(sender)
  /\ NamesPending(kind, target)
  /\ sender \notin config.approvers
  /\ config' = [config EXCEPT
       !.approvers = @ \cup {sender},
       !.approvals = @ + 1,
       !.executable_at =
         IF config.approvals + 1 >= governance_threshold /\ @ = 0
         THEN now + TimelockDelay ELSE @]
  /\ approved_at' = [approved_at EXCEPT ![sender] = now]
  /\ UNCHANGED <<governance_signers, governance_threshold, owner_resolver,
                 snapshot_verifier, changes>>

ExecuteConfigChange(sender, kind, target) ==
  /\ requireGovernanceSigner(sender)
  /\ NamesPending(kind, target)
  /\ config.approvals >= governance_threshold
  /\ config.executable_at # 0 /\ now >= config.executable_at
  /\ CodeOf[target] = config.code_hash
  /\ \/ /\ kind = "resolver"
        /\ owner_resolver' = target
        /\ UNCHANGED snapshot_verifier
     \/ /\ kind = "verifier"
        /\ snapshot_verifier' = target
        /\ UNCHANGED owner_resolver
  /\ config' = null
  /\ UNCHANGED <<governance_signers, governance_threshold, changes, approved_at>>

CancelConfigChange(sender, kind, target) ==
  /\ requireGovernanceSigner(sender)
  /\ NamesPending(kind, target)
  /\ config' = null
  /\ UNCHANGED <<governance_signers, governance_threshold, owner_resolver,
                 snapshot_verifier, changes, approved_at>>

ConfigNext ==
  \E sender \in Address :
    \/ \E signers \in SignerSets, threshold \in 0 .. MAX_GOV_SIGNERS :
         ConfigureGovernance(sender, signers, threshold)
    \/ \E kind \in {"resolver", "verifier"} : \E target \in Targets(kind) :
         \/ \E h \in CodeHash : ProposeConfigChange(sender, kind, target, h)
         \/ ApproveConfigChange(sender, kind, target)
         \/ ExecuteConfigChange(sender, kind, target)
         \/ CancelConfigChange(sender, kind, target)

-----------------------------------------------------------------------------
(* The resolver and the verifier change only when at least `threshold`     *)
(* different signers had each approved that change a full timelock before. *)
ConfigNeedsQuorum ==
  [][(owner_resolver' # owner_resolver \/ snapshot_verifier' # snapshot_verifier)
       => Cardinality({s \in governance_signers :
                         /\ approved_at[s] # null
                         /\ now - approved_at[s] >= TimelockDelay})
            >= governance_threshold]_<<configVars, now>>
=============================================================================
