--------------------------- MODULE MobilePayment ---------------------------
(***************************************************************************)
(* mobile-app: the payment screens. A tap on Open in the confirmation      *)
(* dialog starts a hand-off that awaits the availability of the sensor and *)
(* then the prompt; meanwhile the screen stays usable, so the form, the    *)
(* selected account and further hand-offs may all change under it.         *)
(***************************************************************************)
EXTENDS PaymentLink

CONSTANTS Handoff,      \* names of the hand-offs a session makes (a bound)
          TypedText,    \* what is typed as recipient
          TypedAmount,  \* what is typed as amount
          RequestAmount,\* the amount requested when none is typed
          Contexts,     \* payment contexts the host configures
          nobody        \* absent

(* What the dialog of a submitted payment holds, and what its user grants. *)
TypedNanocoins == {parseDecimalToNanocoins(a) : a \in {t \in TypedAmount : Parses(t)}}
Submitted == [context : Contexts, recipient : TypedText \cup {nobody},
              amount : TypedNanocoins, shown : {formatTBC(n) : n \in TypedNanocoins}]
Consent == [to : TypedText \cup {nobody}, shown : {formatTBC(n) : n \in TypedNanocoins},
          from : {c.account : c \in Contexts}]
HandoffState == [step : {"isAvailable", "authenticate", "done"}, asked : Submitted]

ASSUME MobileAssumption == nobody \notin Consent \cup HandoffState

VARIABLES context,      \* paymentContext.ts: the module's context
          form,         \* the fields of SendPaymentScreen
          dialog,       \* the confirmation on screen
          handoffs,     \* the hand-offs in progress
          handedOver,   \* the link each hand-off opened in the wallet
          request,      \* ReceivePaymentScreen: its link and error
          shownError,   \* the error of SendPaymentScreen
          granted       \* what the user saw when confirming and authenticating

paymentVars == <<context, form, dialog, handoffs, handedOver, request, shownError, granted>>

PaymentScreenInit ==
  /\ context = nobody
  /\ form = [recipient |-> nobody, amount |-> NoNumber]
  /\ dialog = nobody
  /\ handoffs = [h \in Handoff |-> nobody]
  /\ handedOver = [h \in Handoff |-> nobody]
  /\ request = [link |-> nobody, error |-> FALSE]
  /\ shownError = FALSE
  /\ granted = [h \in Handoff |-> nobody]

-----------------------------------------------------------------------------
(* configurePaymentContext: refused unless the addresses are valid.        *)
configurePaymentContext(c) ==
  /\ isValidTonAddress(c.hub) /\ isValidTonAddress(c.account)
  /\ c.payer = nobody \/ isValidTonAddress(c.payer)
  /\ context' = c
  /\ UNCHANGED <<form, dialog, handoffs, handedOver, request, shownError, granted>>

edit(f) ==
  /\ dialog = nobody
  /\ form' = f
  /\ UNCHANGED <<context, dialog, handoffs, handedOver, request, shownError, granted>>

(* The dialog shows the amount rounded; the recipient is not yet checked.  *)
onSubmit ==
  /\ dialog = nobody
  /\ IF context # nobody /\ Parses(form.amount)
       THEN LET amount == parseDecimalToNanocoins(form.amount) IN
            /\ dialog' = [context |-> context, recipient |-> form.recipient,
                          amount |-> amount, shown |-> formatTBC(amount)]
            /\ shownError' = FALSE
       ELSE shownError' = TRUE /\ UNCHANGED dialog
  /\ UNCHANGED <<context, form, handoffs, handedOver, request, granted>>

dismiss ==
  /\ dialog # nobody
  /\ dialog' = nobody
  /\ UNCHANGED <<context, form, handoffs, handedOver, request, shownError, granted>>

(* openUrlWithBiometricGate, to its first await.                           *)
openUrlWithBiometricGate(h) ==
  /\ dialog # nobody /\ handoffs[h] = nobody
  /\ handoffs' = [handoffs EXCEPT ![h] = [step |-> "isAvailable", asked |-> dialog]]
  /\ dialog' = nobody
  /\ UNCHANGED <<context, form, handedOver, request, shownError, granted>>

Ended(h) == [handoffs EXCEPT ![h].step = "done"]

requireBiometricAuthentication(h, available) ==
  /\ handoffs[h] # nobody /\ handoffs[h].step = "isAvailable"
  /\ handoffs' = IF available THEN [handoffs EXCEPT ![h].step = "authenticate"] ELSE Ended(h)
  /\ shownError' = (shownError \/ ~ available)
  /\ UNCHANGED <<context, form, dialog, handedOver, request, granted>>

BuildFromContext(asked) ==
  buildWalletLink(context.hub, asked.recipient, context.account,
                  asked.amount, "mobile-payment")

buildUrl(asked) ==
  buildWalletLink(asked.context.hub, asked.recipient, asked.context.account,
                  asked.amount, "mobile-payment")

(* The prompt's answer, then buildUrl and openUrl in the same step.        *)
openUrl(h, authenticated) ==
  LET asked == handoffs[h].asked
      built == authenticated /\ LinkAllowed(asked.context.hub, asked.recipient,
                                            asked.context.account, asked.amount) IN
  /\ handoffs[h] # nobody /\ handoffs[h].step = "authenticate"
  /\ handoffs' = Ended(h)
  /\ granted' = IF authenticated
                  THEN [granted EXCEPT ![h] = [to |-> asked.recipient, shown |-> asked.shown,
                                               from |-> asked.context.account]]
                  ELSE granted
  /\ handedOver' = IF built THEN [handedOver EXCEPT ![h] = buildUrl(asked)] ELSE handedOver
  /\ shownError' = (shownError \/ ~ built)
  /\ UNCHANGED <<context, form, dialog, request>>

-----------------------------------------------------------------------------
(* ReceivePaymentScreen, with what its amount field holds when Generate is *)
(* pressed. The link shown stays when another one is refused.              *)
generate(field) ==
  LET typed == IF field = nobody THEN RequestAmount ELSE field
      allowed == /\ context # nobody /\ context.payer # nobody
                 /\ Parses(typed)
                 /\ LinkAllowed(context.hub, context.account, context.payer,
                                parseDecimalToNanocoins(typed)) IN
  /\ request' = IF allowed
                  THEN [error |-> FALSE,
                        link |-> buildWalletLink(context.hub, context.account, context.payer,
                                                 parseDecimalToNanocoins(typed), "mobile-payment")]
                  ELSE [request EXCEPT !.error = TRUE]
  /\ UNCHANGED <<context, form, dialog, handoffs, handedOver, shownError, granted>>

PaymentScreenNext ==
  \/ \E c \in Contexts : configurePaymentContext(c)
  \/ \E f \in [recipient : TypedText, amount : TypedAmount] : edit(f)
  \/ onSubmit \/ dismiss
  \/ \E h \in Handoff : openUrlWithBiometricGate(h)
  \/ \E h \in Handoff, yes \in BOOLEAN :
        requireBiometricAuthentication(h, yes) \/ openUrl(h, yes)
  \/ \E a \in TypedAmount \cup {nobody} : generate(a)

PaymentScreenSpec == PaymentScreenInit /\ [][PaymentScreenNext]_paymentVars

-----------------------------------------------------------------------------
(* Every link the app opens in a wallet is the payment the user confirmed  *)
(* and authenticated for: its recipient, its amount up to the rounding of  *)
(* the dialog, and the account selected when it was submitted, whatever    *)
(* was typed, selected or confirmed while the prompt was up                *)
(* (SendPaymentScreen.onSubmit, openUrlWithBiometricGate).                 *)
HandoffIsConfirmed ==
  \A h \in Handoff : handedOver[h] # nobody =>
    /\ granted[h] # nobody
    /\ handedOver[h].merchant = granted[h].to
    /\ handedOver[h].payer = granted[h].from
    /\ formatTBC(handedOver[h].amount) = granted[h].shown
    /\ handedOver[h].amount > 0

(* The dialog tells the user of an amount: what it shows is not zero when  *)
(* the link carries one. Refuted: amounts below half of the last place     *)
(* are shown as zero.                                                      *)
ConfirmedAmountIsShown ==
  \A h \in Handoff : handedOver[h] # nobody => granted[h].shown > 0
=============================================================================
