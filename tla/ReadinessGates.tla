--------------------------- MODULE ReadinessGates ---------------------------
(***************************************************************************)
(* scripts/*/check-*-readiness.ts: five gates over the documents of a      *)
(* feature. A document is the set of the marks a gate looks for in it, one *)
(* mark per group of results (the second part of their ids), or is gone;   *)
(* which words make up a mark is left out. A gate looks at each document   *)
(* alone, then across documents, skipping those that are gone.             *)
(***************************************************************************)
EXTENDS Naturals, FiniteSets

CONSTANTS MaxEdits,     \* edits away from a complete set of documents (a bound)
          MaxGone       \* files missing (a bound)

VARIABLES gate,         \* the gate that is run
          text,         \* the marks in each document
          gone,         \* documents that do not exist
          audit,        \* STATUS.md of the audit the feature waits for
          edits,        \* edits made
          exit          \* how the last run ended

gateVars == <<gate, text, gone, audit, edits, exit>>

-----------------------------------------------------------------------------
(* What each document must hold, one definition per function of the gates. *)
AnalyticsInterface == {"method", "const", "protocolAnalytics"}
AnalyticsSpecification == AnalyticsInterface \cup {"threat", "err", "auth", "privacy", "hardening", "link"}
MerchantEnvelope == {"endpoint", "range", "envelope", "nested"}
MerchantAnalytics == MerchantEnvelope \cup {"idor", "privacy", "perf", "err", "widget", "link"}
ProtocolEnvelope == {"endpoint", "range", "envelope"}
ProtocolAnalytics == ProtocolEnvelope \cup {"indexer", "privacy", "cache", "perf", "err"}
PublicDashboard == {"host", "contract", "refresh", "panel", "perf", "err", "a11y"}
Privacy == {"K", "enforce", "trunc", "optout", "retention", "log"}
AnalyticsMonitoring == {"alert", "severity", "const", "source", "drill", "reporting"}
EndpointHardening ==
  {"preq", "pattern", "heading", "closure", "signoff", "rule", "sibling", "crossref", "ac"}
AnalyticsTestnet ==
  {"ac", "preq", "artefact", "host", "step", "idor", "privacy", "dashboard", "perf"}
BountyRules == {"link", "activation", "asset", "ceiling", "section"}
AnalyticsBugBounty == BountyRules \cup {"critical", "high", "medium", "oos", "disclosure"}

DexInterface == {"method", "const", "swapQuote"}
DexSpecification == DexInterface \cup {"threat", "err", "replay", "hardening", "link"}
AggregatorQuotes == {"surface", "method", "fanout", "const", "tiebreak", "floor", "empty"}
PriceAggregator ==
  AggregatorQuotes \cup {"exec", "fallback", "idempotency", "perf", "demotion", "recovery", "opts"}
SlippageProtection == {"const", "wallet", "persistence", "warn", "revert", "replay"}
LiquidityMonitoring == {"alert", "sev", "ds", "dr", "ci", "link", "const"}
DexNotifications == {"note", "col", "channel", "dedup", "backoff", "optin", "privacy", "link"}
DexWalletUx == {"sheet", "slider", "toast", "modal", "pill", "invariant"}
AdapterHardening == {"item", "closure", "gate", "rule", "sibling", "xref", "ac"}
DexTestnet == {"gate", "artefact", "net", "step", "flow", "err", "perf", "bar", "ac"}
DexBugBounty == {"asset", "sev", "sub", "threat", "activation", "sla", "ac"}

MultiSigSpecification == {"sec", "preset", "ttl", "cooldown", "threat", "hardening"}
MultiSigWalletUx == {"sec", "code", "signer-mgmt", "guardian"}
GuardianRecovery == {"sec", "cooldown", "quorum", "threat", "MS-CH-6"}
MultiSigNotifications == {"sec", "id", "guardian"}
MultiSigMonitoring == {"sec", "alert", "unique", "sev", "ds", "drill"}
MultiSigHardening == {"sec", "item", "rule", "a2-gate"}
MultiSigTestnet == {"sec", "bar", "err", "recovery"}
MultiSigBugBounty == {"sec", "threat", "a2-gate", "pause-rc"}
MultiSigEvidence ==
  {"const", "max-signers", "proposalKey", "approvalKey", "testonly", "approval", "threshold"}

RecurringSpecification == {"sec", "period", "grace", "threat", "hardening"}
DashboardIntegration == {"sec", "status", "mrr"}
RecurringWalletUx == {"sec", "code", "pause"}
RecurringNotifications == {"sec", "id", "t3d"}
RecurringMonitoring == {"sec", "alert", "unique", "sev", "ds", "drill"}
RecurringHardening == {"sec", "item", "rule", "a2-gate"}
RecurringTestnet == {"sec", "bar", "err"}
RecurringBugBounty == {"sec", "threat", "a2-gate", "pause-rc"}
RecurringEvidence == {"const", "min-period", "mandateKey", "testonly", "schedule"}

SupportedChains == {"sec", "chain", "const", "cap"}
Validators == {"sec", "threshold", "canonical-hash", "no-on-chain-slashing"}
ReplayProtection == {"sec", "threat", "canon", "finality"}
CircuitBreakers == {"sec", "param", "ap", "layer", "autopause"}
BridgeHardening == {"sec", "item", "rule", "a2-gate"}
BridgeMonitoring == {"sec", "alert", "unique", "sev", "drill"}
BridgeBugBounty == {"sec", "threat", "a2-gate", "pause-rc"}
BridgeEvidence == {"const", "max-chain", "testonly", "intentKey", "status-check"}

Required ==
  [analytics |-> [SP |-> AnalyticsSpecification, MA |-> MerchantAnalytics, PA |-> ProtocolAnalytics,
                  PD |-> PublicDashboard, PR |-> Privacy, MO |-> AnalyticsMonitoring,
                  EH |-> EndpointHardening, TI |-> AnalyticsTestnet, BB |-> AnalyticsBugBounty],
   dex |-> [SP |-> DexSpecification, PA |-> PriceAggregator, SL |-> SlippageProtection,
            LM |-> LiquidityMonitoring, NF |-> DexNotifications, WX |-> DexWalletUx,
            AH |-> AdapterHardening, TI |-> DexTestnet, BB |-> DexBugBounty],
   multisig |-> [SP |-> MultiSigSpecification, WX |-> MultiSigWalletUx, GR |-> GuardianRecovery,
                 NF |-> MultiSigNotifications, MN |-> MultiSigMonitoring, CH |-> MultiSigHardening,
                 TN |-> MultiSigTestnet, BB |-> MultiSigBugBounty, CT |-> MultiSigEvidence],
   recurring |-> [SP |-> RecurringSpecification, DI |-> DashboardIntegration, WX |-> RecurringWalletUx,
                  NF |-> RecurringNotifications, MN |-> RecurringMonitoring, CH |-> RecurringHardening,
                  TN |-> RecurringTestnet, BB |-> RecurringBugBounty, CT |-> RecurringEvidence],
   bridge |-> [SC |-> SupportedChains, VA |-> Validators, RP |-> ReplayProtection,
               CB |-> CircuitBreakers, CH |-> BridgeHardening, MN |-> BridgeMonitoring,
               BB |-> BridgeBugBounty, CT |-> BridgeEvidence]]

-----------------------------------------------------------------------------
(* Across documents: a citation in one that needs its definition in        *)
(* another, and marks that several documents must share.                   *)
Cites(docs, mark, to, target) == {[from |-> d, mark |-> mark, to |-> to, target |-> target] : d \in docs}
Shares(docs, mark) == {[docs |-> docs, mark |-> mark]}

Floor == UNION {Shares({d}, "floor") : d \in {"SP", "PR", "MA", "PA"}}
Brief == Shares({"BB"}, "brief")
ThreatMap == Shares({"BB"}, "ccb")

AnalyticsOthers == {"MA", "PA", "PD", "PR", "MO", "EH", "TI", "BB"}
AnalyticsCitations ==
       Cites(AnalyticsOthers \ {"EH"}, "cited item", "EH", "heading")
  \cup Cites(AnalyticsOthers, "cited threat", "SP", "threat")
  \cup Cites(AnalyticsOthers \ {"MO"}, "cited alert", "MO", "alert")
AnalyticsParity ==
       (UNION {Shares({d}, "specification") : d \in AnalyticsOthers})
  \cup Floor \cup Brief

DexCitations == Cites({"BB"}, "cited item", "AH", "heading")
DexParity ==
       Shares({"AH"}, "heading") \cup Shares({"SP", "BB", "AH"}, "threat name")
  \cup Shares({"LM"}, "alert in both tables")
DexCodes == Shares({"SP", "WX", "TI"}, "error name")
DexLinks ==
       (UNION {Shares({d}, "specification") : d \in {"PA", "SL", "LM", "NF", "WX", "AH", "TI", "BB"}})
  \cup Shares({"SL", "LM"}, "M07") \cup Shares({"AH", "NF"}, "N08") \cup Brief

MultiSigDocs == {"SP", "WX", "GR", "NF", "MN", "CH", "TN", "BB"}
MultiSigCitations ==
       Cites(MultiSigDocs \ {"CH"}, "cited item", "CH", "heading")
  \cup Cites({"MN"}, "cited note", "NF", "note") \cup Cites(MultiSigDocs \ {"CH"}, "stray item", "CH", "stray heading")
MultiSigParity ==
       Shares({"SP", "BB"}, "threat name") \cup Shares({"MN"}, "matrix")
  \cup Shares({"SP", "TN"}, "error name")
MultiSigLinks == Shares({"SP", "WX"}, "preset name")

RecurringDocs == {"SP", "DI", "WX", "NF", "MN", "CH", "TN", "BB"}
RecurringCitations ==
       Cites(RecurringDocs \ {"CH"}, "cited item", "CH", "heading")
  \cup Cites({"MN"}, "cited note", "NF", "note") \cup Cites(RecurringDocs \ {"CH"}, "stray item", "CH", "stray heading")
RecurringParity ==
       Shares({"SP", "BB"}, "threat name") \cup Shares({"MN"}, "matrix")
  \cup Shares({"SP", "TN"}, "error name") \cup Shares({"SP", "DI"}, "period name")

BridgeDocs == {"SC", "VA", "RP", "CB", "CH", "MN", "BB"}
BridgeCitations ==
       Cites(BridgeDocs \ {"CH"}, "cited item", "CH", "heading")
  \cup Cites(BridgeDocs \ {"CH"}, "stray item", "CH", "stray heading")
BridgeParity ==
       Shares({"RP", "VA"}, "canonical field") \cup Shares({"SC", "RP"}, "chain row")
  \cup Shares({"CB"}, "parameter") \cup ThreatMap

(* Marks one document must hold when another exists.                       *)
DexNeeds == {[if |-> "LM", in |-> "NF", mark |-> "note"], [if |-> "SL", in |-> "WX", mark |-> "slippage"]}
MultiSigNeeds == {[if |-> "NF", in |-> "WX", mark |-> "notifications"],
                  [if |-> "GR", in |-> "WX", mark |-> "recovery"],
                  [if |-> "GR", in |-> "MN", mark |-> "M14"]}
RecurringNeeds == {[if |-> "NF", in |-> "WX", mark |-> "notifications"]}
BridgeNeeds == {[if |-> "CB", in |-> "MN", mark |-> "auto-pause"]}

Needs == [analytics |-> {}, dex |-> DexNeeds, multisig |-> MultiSigNeeds,
          recurring |-> RecurringNeeds, bridge |-> BridgeNeeds]
Citations ==
  [analytics |-> AnalyticsCitations, dex |-> DexCitations, multisig |-> MultiSigCitations,
   recurring |-> RecurringCitations, bridge |-> BridgeCitations]
Parity ==
  [analytics |-> AnalyticsParity, dex |-> DexParity \cup DexCodes \cup DexLinks,
   multisig |-> MultiSigParity \cup MultiSigLinks, recurring |-> RecurringParity,
   bridge |-> BridgeParity]

(* Files outside the feature: those without which a gate fails, those      *)
(* looked at only when they exist.                                         *)
BridgeSigners == {"multisig.bridge"}      \* a threshold of two, no signer a plain account
Registry == [analytics |-> {"error-codes"}, dex |-> {"error-codes"},
             multisig |-> {}, recurring |-> {}, bridge |-> {}]
IfPresent == [analytics |-> {"audit-scope", "INDEX"}, dex |-> {"audit-scope", "INDEX"},
              multisig |-> {}, recurring |-> {}, bridge |-> BridgeSigners]
VerdictCounts == {"multisig", "recurring", "bridge"}

-----------------------------------------------------------------------------
Gate == DOMAIN Required
Docs(g) == DOMAIN Required[g]
Files(g) == Docs(g) \cup Registry[g] \cup IfPresent[g]

(* Every mark a gate looks for in a file.                                  *)
Marks(g, d) ==
  IF d \notin Docs(g) THEN {"listed"} ELSE
    Required[g][d]
    \cup {c.mark : c \in {c \in Citations[g] : c.from = d /\ c.mark # "stray item"}}
    \cup {c.target : c \in {c \in Citations[g] : c.to = d /\ c.mark # "stray item"}}
    \cup {p.mark : p \in {p \in Parity[g] : d \in p.docs}}
    \cup {n.mark : n \in {n \in Needs[g] : n.in = d}}

There(d) == d \notin gone
Holds(d, mark) == There(d) /\ mark \in text[d]

PassWithoutFile(d) == IF There(d) THEN {<<d, x>> : x \in Required[gate][d] \ text[d]} ELSE {}

(* A function of one document: a missing one is one failure.               *)
checkDoc(d) ==
  IF There(d) THEN {<<d, x>> : x \in Required[gate][d] \ text[d]} ELSE {<<d, "exists">>}

checkCrossDocReferences ==
       {<<c.from, c.mark>> : c \in {c \in Citations[gate] :
           Holds(c.from, c.mark) /\ There(c.to) /\ ~ Holds(c.to, c.target)}}
  \cup {<<"parity", p.mark>> : p \in {p \in Parity[gate] :
           (\A d \in p.docs : There(d)) /\ (\E d \in p.docs : ~ Holds(d, p.mark))}}
  \cup {<<n.in, n.mark>> : n \in {n \in Needs[gate] :
           There(n.if) /\ There(n.in) /\ ~ Holds(n.in, n.mark)}}
checkRegistries ==
       {<<f, "listed">> : f \in {f \in Registry[gate] : ~ Holds(f, "listed")}}
  \cup {<<f, "listed">> : f \in {f \in IfPresent[gate] : There(f) /\ ~ Holds(f, "listed")}}

(* The verdict counts as given when its line has the word READY anywhere.  *)
verdictReady == audit \in {"ready", "pending, READY named"}
checkVerdict ==
  IF gate \in VerdictCounts /\ audit # "none" /\ ~ verdictReady THEN {<<"STATUS", "verdict">>} ELSE {}

failures == (UNION {checkDoc(d) : d \in Docs(gate)})
              \cup checkCrossDocReferences \cup checkRegistries \cup checkVerdict

runAllChecks == IF failures = {} THEN 0 ELSE 2

NotRun == [mode |-> "none", code |-> 0]

(* Help and --classify end before anything is read.                        *)
cli(mode) ==
  /\ exit' = [mode |-> mode,
              code |-> CASE mode \in {"help", "classify"} -> 0
                         [] mode = "classify, unknown" -> 1
                         [] OTHER -> runAllChecks]
  /\ UNCHANGED <<gate, text, gone, audit, edits>>

-----------------------------------------------------------------------------
(* The documents, as a branch edits them.                                  *)
GateInit ==
  /\ gate \in Gate
  /\ text = [d \in Files(gate) |-> Marks(gate, d)]
  /\ gone = {}
  /\ audit \in {"none", "ready", "pending", "pending, READY named"}
  /\ edits = 0
  /\ exit = NotRun

Edited(d, marks) ==
  /\ edits < MaxEdits /\ There(d)
  /\ edits' = edits + 1
  /\ text' = [text EXCEPT ![d] = marks]
  /\ exit' = NotRun
  /\ UNCHANGED <<gate, gone, audit>>

DropMark(d) == \E x \in text[d] : Edited(d, text[d] \ {x})
CiteStray(d) ==
  /\ d \in Docs(gate)
  /\ Edited(d, text[d] \cup {"stray item"})
RemoveFile(d) ==
  /\ Cardinality(gone) < MaxGone /\ There(d)
  /\ gone' = gone \cup {d}
  /\ exit' = NotRun
  /\ UNCHANGED <<gate, text, audit, edits>>

GateNext ==
  \/ \E mode \in {"help", "classify", "classify, unknown", "run", "strict"} : cli(mode)
  \/ \E d \in Files(gate) : DropMark(d) \/ CiteStray(d) \/ RemoveFile(d)

GateSpec == GateInit /\ [][GateNext]_gateVars

-----------------------------------------------------------------------------
(* A gate that passes means what its rules promise, although its           *)
(* cross-checks skip every pair with a missing side: all documents of the  *)
(* feature exist and are complete, every citation of a listed id has its   *)
(* definition, shared marks are in every document that must have them      *)
(* (runAllChecks, checkCrossDocReferences).                                *)
PassMeansComplete ==
  exit.mode \in {"run", "strict"} /\ exit.code = 0 =>
    /\ \A d \in Docs(gate) : There(d) /\ Required[gate][d] \subseteq text[d]
    /\ \A c \in Citations[gate] : Holds(c.from, c.mark) => Holds(c.to, c.target)
    /\ \A p \in Parity[gate], d \in Docs(gate) : d \in p.docs => Holds(d, p.mark)
    /\ \A n \in Needs[gate] : Holds(n.in, n.mark)
    /\ \A f \in Registry[gate] : Holds(f, "listed")

(* "Every AN-AH-N referenced from a doc must resolve" (analytics, line     *)
(* 1705). Refuted for analytics and dex: only listed ids are looked up, so *)
(* a citation of an item that no document has goes unseen.                 *)
StrayItemsAreFound ==
  exit.mode = "run" /\ exit.code = 0 => \A d \in Docs(gate) : ~ Holds(d, "stray item")

(* "require it to report verdict before MS-CH-N items are allowed to land" *)
(* (multisig, line 982). Refuted: a pending verdict whose line names READY *)
(* passes.                                                                 *)
PendingVerdictBlocks ==
  exit.mode = "run" /\ exit.code = 0 /\ gate \in VerdictCounts => audit \in {"none", "ready"}
=============================================================================
