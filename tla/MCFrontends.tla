---------------------------- MODULE MCFrontends ----------------------------
(***************************************************************************)
(* The programs a payer and a merchant run: web wallet, mobile app (its    *)
(* payment screen and its connector), dashboard and SDK, and the mock of   *)
(* the SDK, which sees no chain. They share no state, so one behaviour is  *)
(* one of them while the others rest.                                      *)
(***************************************************************************)
EXTENDS WalletUI, MobilePayment, MobileConnector, Dashboard, MerchantSdk

CONSTANTS alice, shop, junk    \* accounts, and a text that is none

VARIABLE part           \* the program at work

MCNamingWallet == {"tonkeeper", "tonhub"}
T(w, f) == [digits |-> TRUE, whole |-> w, fraction |-> f]
MCTypedAmount == {T(0, <<0, 1>>), T(1, <<>>), NoNumber}
MCRequestAmount == T(0, <<1>>)
MCContexts == {[hub |-> alice, account |-> alice, payer |-> nobody],
               [hub |-> shop, account |-> shop, payer |-> alice]}
MCTyped == {0, 1, junk}

Parts == {"wallet", "payment", "connector", "dashboard", "sdk", "mock"}
Rest(p) == part # p

FrontendsInit ==
  /\ part \in Parts
  /\ WalletInit /\ PaymentScreenInit /\ SdkInit
  /\ ConnectorInit /\ (Rest("connector") => kept = nothing)
  /\ DashboardInit /\ (Rest("dashboard") => widget.amount = 0 /\ widget.mode = "button")

FrontendsNext ==
  \/ /\ part = "wallet" /\ WalletNext
     /\ UNCHANGED <<part, paymentVars, connectorVars, dashboardVars, sdkVars>>
  \/ /\ part = "payment" /\ PaymentScreenNext
     /\ UNCHANGED <<part, walletVars, connectorVars, dashboardVars, sdkVars>>
  \/ /\ part = "connector" /\ ConnectorNext
     /\ UNCHANGED <<part, walletVars, paymentVars, dashboardVars, sdkVars>>
  \/ /\ part = "dashboard" /\ DashboardNext
     /\ UNCHANGED <<part, walletVars, paymentVars, connectorVars, sdkVars>>
  \/ /\ part = "sdk" /\ SdkNext /\ mock'.store = <<>> /\ mock'.settlements = <<>>
     /\ UNCHANGED <<part, walletVars, paymentVars, connectorVars, dashboardVars>>
  \/ /\ part = "mock" /\ SdkNext /\ UNCHANGED <<sealed, txs>>
     /\ UNCHANGED <<part, walletVars, paymentVars, connectorVars, dashboardVars>>

frontendsVars == <<part, walletVars, paymentVars, connectorVars, dashboardVars, sdkVars>>
FrontendsSpec == FrontendsInit /\ [][FrontendsNext]_frontendsVars
=============================================================================
