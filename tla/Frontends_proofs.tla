------------------------- MODULE Frontends_proofs -------------------------
(***************************************************************************)
(* The programs a payer and a merchant run. The components share no state, *)
(* so each has a specification and an inductive invariant of its own:      *)
(* the connector of the mobile app, its payment screen, the web wallet,    *)
(* the dashboards and the widget, and the SDK.                             *)
(***************************************************************************)
EXTENDS WalletUI, MobilePayment, MobileConnector, Dashboard, MerchantSdk, TLAPS

-----------------------------------------------------------------------------
(* The connector of the mobile app.                                        *)
Got == {nothing, Unreadable} \cup {On(w) : w \in WalletApp}

Continuation == [step : {"restore", "finish", "disconnect", "dropped"}, got : Got]

IsCall(k) == k.step \in {"finish", "disconnect"}

Target(k) == IF k.step = "finish" THEN k.got ELSE Off

NoCallAfter(i) == \A j \in i + 1 .. Len(waiting) : ~ IsCall(waiting[j])

(* What the queue still holds decides: the last call in it is the last one *)
(* made, a restore behind it has read what that call stored, and without a *)
(* call in it the session is already the one asked for, or waits.          *)
LastCallPending ==
  /\ kept \in {nothing, lastCall} /\ (lastCall = Off => kept = nothing)
  /\ \A i \in 1 .. Len(waiting) : NoCallAfter(i) =>
       /\ IsCall(waiting[i]) => Target(waiting[i]) = lastCall
       /\ waiting[i].step = "restore" => waiting[i].got \in {nothing, lastCall}
  /\ NoCallAfter(0) => live \in {lastCall, Waiting}

ConnectorInv ==
  /\ kept \in Got
  /\ waiting \in Seq(Continuation)
  /\ lastCall # nothing => LastCallPending

LEMMA ConnectorInitInv == ConnectorInit => ConnectorInv
BY DEF ConnectorInit, ConnectorInv, Got

(* A restore joins the queue with what is stored at that moment.           *)
LEMMA RestoreInv ==
  ASSUME ConnectorInv, restore
  PROVE  ConnectorInv'
<1> DEFINE k == [step |-> "restore", got |-> kept]
<1>1. /\ waiting' = Append(waiting, k)
      /\ live' = live /\ kept' = kept /\ lastCall' = lastCall
  BY DEF restore, Await
<1>2. /\ k \in Continuation /\ ~ IsCall(k) /\ k.got = kept
      /\ waiting \in Seq(Continuation)
  BY DEF ConnectorInv, Continuation, IsCall
<1> HIDE DEF k
<1>3. /\ waiting' \in Seq(Continuation) /\ Len(waiting') = Len(waiting) + 1
      /\ \A i \in 1 .. Len(waiting) : waiting'[i] = waiting[i]
      /\ waiting'[Len(waiting) + 1] = k /\ Len(waiting) \in Nat
  BY <1>1, <1>2
<1>4. \A i \in 0 .. Len(waiting) : NoCallAfter(i)' => NoCallAfter(i)
  BY <1>3 DEF NoCallAfter
<1>5. ASSUME lastCall # nothing PROVE LastCallPending'
  <2>1. LastCallPending
    BY <1>5 DEF ConnectorInv
  <2>2. ASSUME NEW i \in 1 .. Len(waiting'), NoCallAfter(i)'
        PROVE  /\ IsCall(waiting'[i]) => Target(waiting'[i]) = lastCall
               /\ waiting'[i].step = "restore" => waiting'[i].got \in {nothing, lastCall}
    <3>1. CASE i = Len(waiting) + 1
      BY <1>2, <1>3, <2>1, <3>1 DEF LastCallPending
    <3>2. CASE i \in 1 .. Len(waiting)
      BY <1>3, <1>4, <2>1, <2>2, <3>2 DEF LastCallPending
    <3>3. QED BY <1>3, <3>1, <3>2
  <2>3. NoCallAfter(0)' => live' \in {lastCall, Waiting}
    BY <1>1, <1>3, <1>4, <2>1 DEF LastCallPending
  <2>4. QED BY <1>1, <2>1, <2>2, <2>3 DEF LastCallPending
<1>6. QED BY <1>1, <1>3, <1>5 DEF ConnectorInv

(* A call joins the queue, stores its session and is now the last.         *)
LEMMA CallInv ==
  ASSUME ConnectorInv, NEW k \in Continuation, IsCall(k),
         waiting' = Append(waiting, k), lastCall' = Target(k),
         kept' \in Got, kept' \in {nothing, Target(k)}, Target(k) = Off => kept' = nothing
  PROVE  ConnectorInv'
<1>1. waiting \in Seq(Continuation)
  BY DEF ConnectorInv
<1>2. /\ waiting' \in Seq(Continuation) /\ Len(waiting') = Len(waiting) + 1
      /\ waiting'[Len(waiting) + 1] = k /\ Len(waiting) \in Nat
  BY <1>1
<1>3. \A i \in 0 .. Len(waiting) : ~ NoCallAfter(i)'
  BY <1>2 DEF NoCallAfter
<1>4. \A i \in 1 .. Len(waiting') : i \in 0 .. Len(waiting) \/ i = Len(waiting) + 1
  BY <1>2
<1>5. k.step # "restore"
  BY DEF IsCall
<1>6. ASSUME NEW i \in 1 .. Len(waiting'), NoCallAfter(i)'
      PROVE  /\ IsCall(waiting'[i]) => Target(waiting'[i]) = lastCall'
             /\ waiting'[i].step = "restore" => waiting'[i].got \in {nothing, lastCall'}
  <2>1. waiting'[i] = k
    BY <1>2, <1>3, <1>4, <1>6
  <2>2. QED BY <1>5, <2>1
<1>7. ~ NoCallAfter(0)'
  BY <1>2, <1>3
<1>8. LastCallPending'
  BY <1>6, <1>7 DEF LastCallPending
<1>9. QED BY <1>2, <1>8 DEF ConnectorInv

(* The oldest leaves the queue; a call or a restore that comes last leaves *)
(* the session asked for, and one that does not is overwritten by a later. *)
LEMMA ContinueInv ==
  ASSUME ConnectorInv, Continue
  PROVE  ConnectorInv'
<1> DEFINE k == Head(waiting)
           dropped == [step |-> "dropped", got |-> nothing]
<1>1. /\ waiting # <<>> /\ lastCall' = lastCall
      /\ \/ kept' = nothing /\ waiting' = Append(Tail(waiting), dropped)
         \/ kept' = kept /\ waiting' = Tail(waiting)
  BY DEF Continue
<1>2. /\ k.step = "finish" => live' = k.got
      /\ k.step = "disconnect" => live' = Off
      /\ k.step = "restore" => live' \in {live, k.got}
      /\ k.step = "restore" /\ k.got = nothing => live' = live
      /\ k.step = "dropped" => live' = live
  BY DEF Continue
<1>3. /\ waiting \in Seq(Continuation) /\ waiting # <<>>
      /\ dropped \in Continuation /\ dropped.step = "dropped"
  BY <1>1 DEF ConnectorInv, Continuation, Got
<1> HIDE DEF dropped
<1>4. k \in Continuation /\ k = waiting[1] /\ 1 \in 1 .. Len(waiting)
  BY <1>3
<1> DEFINE n == Len(waiting)
           n1 == Len(waiting')
           rest == Tail(waiting)
<1>5. /\ rest \in Seq(Continuation) /\ Len(rest) = n - 1
      /\ \A i \in 1 .. n - 1 : rest[i] = waiting[i + 1]
      /\ n \in Nat /\ n > 0
  BY <1>3
<1> HIDE DEF k, rest
<1>6. /\ waiting' \in Seq(Continuation)
      /\ n1 = n - 1 \/ n1 = n
      /\ \A i \in 1 .. n - 1 : waiting'[i] = waiting[i + 1]
      /\ n1 = n => waiting'[n] = dropped
  <2>1. CASE waiting' = Append(rest, dropped)
    <3>1. /\ waiting' \in Seq(Continuation) /\ n1 = Len(rest) + 1
          /\ \A i \in 1 .. Len(rest) : waiting'[i] = rest[i]
          /\ waiting'[Len(rest) + 1] = dropped
      BY <1>3, <1>5, <2>1
    <3>2. n1 = n /\ waiting'[n] = dropped
      BY <1>5, <3>1
    <3>3. QED BY <1>5, <3>1, <3>2
  <2>2. CASE waiting' = rest
    <3>1. n1 = n - 1 /\ n1 # n
      BY <1>5, <2>2
    <3>2. QED BY <1>5, <2>2, <3>1
  <2>3. QED BY <1>1, <2>1, <2>2 DEF rest
<1> HIDE DEF n, n1
<1>7. \A i \in 0 .. n - 1 : NoCallAfter(i)' => NoCallAfter(i + 1)
  <2> SUFFICES ASSUME NEW i \in 0 .. n - 1, NoCallAfter(i)', NEW j \in i + 2 .. n
               PROVE  ~ IsCall(waiting[j])
    BY <1>5 DEF NoCallAfter, n
  <2>1. j - 1 \in i + 1 .. n1 /\ j - 1 \in 1 .. n - 1 /\ (j - 1) + 1 = j
    BY <1>5, <1>6
  <2>2. waiting[j] = waiting'[j - 1]
    BY <1>6, <2>1
  <2>3. QED BY <2>1, <2>2 DEF NoCallAfter, n1
<1>8. ASSUME lastCall # nothing PROVE LastCallPending'
  <2>1. LastCallPending
    BY <1>8 DEF ConnectorInv
  <2>2. ASSUME NEW i \in 1 .. Len(waiting'), NoCallAfter(i)'
        PROVE  /\ IsCall(waiting'[i]) => Target(waiting'[i]) = lastCall
               /\ waiting'[i].step = "restore" => waiting'[i].got \in {nothing, lastCall}
    <3>1. CASE i \in 1 .. n - 1
      <4>1. i + 1 \in 1 .. n /\ NoCallAfter(i + 1) /\ waiting'[i] = waiting[i + 1]
        BY <1>5, <1>6, <1>7, <2>2, <3>1
      <4>2. QED BY <2>1, <4>1 DEF LastCallPending, n
    <3>2. CASE n1 = n /\ i = n
      BY <1>3, <1>6, <3>2 DEF IsCall
    <3>3. i \in 1 .. n - 1 \/ (n1 = n /\ i = n)
      <4>1. i \in 1 .. n1
        BY DEF n1
      <4>2. QED BY <1>5, <1>6, <4>1
    <3>4. QED BY <3>1, <3>2, <3>3
  <2>3. ASSUME NoCallAfter(0)' PROVE live' \in {lastCall, Waiting}
    <3>1. NoCallAfter(1)
      <4>1. 0 \in 0 .. n - 1 /\ 0 + 1 = 1
        BY <1>5
      <4>2. QED BY <1>7, <2>3, <4>1
    <3>2. /\ IsCall(k) => Target(k) = lastCall
          /\ k.step = "restore" => k.got \in {nothing, lastCall}
      BY <1>4, <2>1, <3>1 DEF LastCallPending
    <3>3. CASE IsCall(k)
      BY <1>2, <3>2, <3>3 DEF IsCall, Target
    <3>4. CASE ~ IsCall(k)
      <4>1. NoCallAfter(0)
        BY <1>4, <1>5, <3>1, <3>4 DEF NoCallAfter, n
      <4>2. live \in {lastCall, Waiting}
        BY <2>1, <4>1 DEF LastCallPending
      <4>3. k.step \in {"restore", "dropped"}
        BY <1>4, <3>4 DEF IsCall, Continuation
      <4>4. QED BY <1>2, <3>2, <4>2, <4>3
    <3>5. QED BY <3>3, <3>4
  <2>4. QED BY <1>1, <2>1, <2>2, <2>3 DEF LastCallPending
<1>9. kept' \in Got
  BY <1>1 DEF ConnectorInv, Got
<1>10. QED BY <1>1, <1>6, <1>8, <1>9 DEF ConnectorInv

LEMMA ConnectorStepInv == ConnectorInv /\ [ConnectorNext]_connectorVars => ConnectorInv'
<1> SUFFICES ASSUME ConnectorInv, [ConnectorNext]_connectorVars PROVE ConnectorInv'
  OBVIOUS
<1>1. CASE restore
  BY <1>1, RestoreInv
<1>2. CASE beginConnect
  BY <1>2 DEF beginConnect, ConnectorInv, LastCallPending, NoCallAfter
<1>3. CASE disconnectSession
  <2> DEFINE k == [step |-> "disconnect", got |-> nothing]
  <2>1. k \in Continuation /\ IsCall(k) /\ Target(k) = Off
    BY DEF Continuation, IsCall, Target, Got
  <2>2. /\ waiting' = Append(waiting, k) /\ lastCall' = Off /\ kept' = nothing
        /\ kept' \in Got
    BY <1>3 DEF disconnectSession, Await, Got
  <2> HIDE DEF k
  <2>3. QED BY <2>1, <2>2, CallInv
<1>4. ASSUME NEW w \in WalletApp \cup {BadReply}, finishConnect(w) PROVE ConnectorInv'
  <2> DEFINE k == [step |-> "finish", got |-> On(w)]
  <2>1. On(w) \in Got
    BY <1>4 DEF finishConnect, Got
  <2>2. k \in Continuation /\ IsCall(k) /\ Target(k) = On(w)
    BY <2>1 DEF Continuation, IsCall, Target
  <2>3. waiting' = Append(waiting, k) /\ lastCall' = On(w) /\ kept' = On(w)
    BY <1>4 DEF finishConnect, Await
  <2>4. On(w) # Off
    BY DEF On, Off
  <2> HIDE DEF k
  <2>5. QED BY <2>1, <2>2, <2>3, <2>4, CallInv
<1>5. CASE Continue
  BY <1>5, ContinueInv
<1>6. CASE Relaunch
  BY <1>6 DEF Relaunch, ConnectorInv
<1>7. CASE UNCHANGED connectorVars
  BY <1>7 DEF connectorVars, ConnectorInv, LastCallPending, NoCallAfter
<1>8. QED BY <1>1, <1>2, <1>3, <1>4, <1>5, <1>6, <1>7 DEF ConnectorNext

(* However calls of restore, finishConnect and disconnect overlap, the     *)
(* session they end in is the one the last of them asked for, and a        *)
(* disconnect leaves nothing behind in the store.                          *)
THEOREM LastCallDecides == ConnectorSpec => []LastCallWins
<1>1. ConnectorInv => LastCallWins
  <2> SUFFICES ASSUME ConnectorInv, Settled, lastCall # nothing
               PROVE  live = lastCall /\ (lastCall = Off => kept = nothing)
    BY DEF LastCallWins
  <2>1. LastCallPending /\ Len(waiting) = 0
    BY DEF ConnectorInv, Settled
  <2>2. NoCallAfter(0)
    BY <2>1 DEF NoCallAfter
  <2>3. QED BY <2>1, <2>2 DEF LastCallPending, Settled
<1>2. QED BY ConnectorInitInv, ConnectorStepInv, <1>1, PTL DEF ConnectorSpec

-----------------------------------------------------------------------------
(* The payment screen: a hand-off carries what its dialog held, and opens  *)
(* a link once, in the step in which the user consents to it.              *)
Truthful(asked) == asked \in Submitted /\ asked.shown = formatTBC(asked.amount)

PaymentInv ==
  /\ context \in Contexts \cup {nobody}
  /\ form \in [recipient : TypedText \cup {nobody}, amount : TypedAmount \cup {NoNumber}]
  /\ dialog # nobody => Truthful(dialog)
  /\ handoffs \in [Handoff -> HandoffState \cup {nobody}]
  /\ granted \in [Handoff -> Consent \cup {nobody}]
  /\ handedOver = [h \in Handoff |-> handedOver[h]]
  /\ \A h \in Handoff : handoffs[h] # nobody => Truthful(handoffs[h].asked)
  /\ \A h \in Handoff : handedOver[h] # nobody => handoffs[h] # nobody /\ handoffs[h].step = "done"
  /\ HandoffIsConfirmed

(* A step of a hand-off that opens nothing.                                *)
LEMMA HandoffMoves ==
  ASSUME PaymentInv, NEW h \in Handoff, NEW r \in HandoffState, Truthful(r.asked),
         handedOver[h] = nobody, handoffs' = [handoffs EXCEPT ![h] = r],
         UNCHANGED <<context, form, handedOver>>,
         dialog' # nobody => Truthful(dialog'),
         \/ granted' = granted
         \/ \E g \in Consent : granted' = [granted EXCEPT ![h] = g]
  PROVE  PaymentInv'
<1>1. /\ handoffs' \in [Handoff -> HandoffState \cup {nobody}]
      /\ granted' \in [Handoff -> Consent \cup {nobody}]
  BY DEF PaymentInv
<1>2. /\ \A i \in Handoff \ {h} : handoffs'[i] = handoffs[i] /\ granted'[i] = granted[i]
      /\ handoffs'[h] = r
  BY DEF PaymentInv
<1>3. \A i \in Handoff : handoffs'[i] # nobody => Truthful(handoffs'[i].asked)
  BY <1>2 DEF PaymentInv
<1>4. \A i \in Handoff : handedOver'[i] # nobody => handoffs'[i] # nobody /\ handoffs'[i].step = "done"
  BY <1>2 DEF PaymentInv
<1>5. HandoffIsConfirmed'
  BY <1>2 DEF PaymentInv, HandoffIsConfirmed
<1>6. QED BY <1>1, <1>3, <1>4, <1>5 DEF PaymentInv, Truthful

(* What the dialog and the gate leave of the hand-offs.                    *)
LEMMA ScreenStep ==
  ASSUME PaymentInv, UNCHANGED <<handoffs, granted, handedOver>>,
         context' \in Contexts \cup {nobody},
         form' \in [recipient : TypedText \cup {nobody}, amount : TypedAmount \cup {NoNumber}],
         dialog' # nobody => Truthful(dialog')
  PROVE  PaymentInv'
BY DEF PaymentInv, HandoffIsConfirmed

LEMMA SubmitInv ==
  ASSUME PaymentInv, onSubmit PROVE PaymentInv'
<1>1. UNCHANGED <<handoffs, granted, handedOver, context, form>>
  BY DEF onSubmit
<1>2. ASSUME context # nobody, Parses(form.amount) PROVE dialog' # nobody => Truthful(dialog')
  <2>1. PICK amount : amount = parseDecimalToNanocoins(form.amount)
    OBVIOUS
  <2>2. form.amount \in TypedAmount /\ form.recipient \in TypedText \cup {nobody}
    <3>1. ~ Parses(NoNumber)
      BY DEF Parses, NoNumber
    <3>2. QED BY <1>2, <3>1 DEF PaymentInv
  <2>3. amount \in TypedNanocoins
    BY <1>2, <2>1, <2>2 DEF TypedNanocoins
  <2>4. PICK shown : shown = formatTBC(amount)
    OBVIOUS
  <2>5. shown \in {formatTBC(n) : n \in TypedNanocoins}
    BY <2>3, <2>4
  <2>6. dialog' = [context |-> context, recipient |-> form.recipient,
                   amount |-> amount, shown |-> shown]
    BY <1>2, <2>1, <2>4 DEF onSubmit
  <2>7. context \in Contexts
    BY <1>2 DEF PaymentInv
  <2>8. dialog' \in Submitted /\ dialog'.shown = shown /\ dialog'.amount = amount
    BY <2>2, <2>3, <2>5, <2>6, <2>7 DEF Submitted
  <2>9. QED BY <2>4, <2>8 DEF Truthful
<1>3. dialog' # nobody => Truthful(dialog')
  BY <1>2 DEF onSubmit, PaymentInv
<1>4. QED BY <1>1, <1>3, ScreenStep DEF PaymentInv

LEMMA GateInv ==
  ASSUME PaymentInv, NEW h \in Handoff, openUrlWithBiometricGate(h) PROVE PaymentInv'
<1>1. PICK r : r = [step |-> "isAvailable", asked |-> dialog]
  OBVIOUS
<1>2. dialog # nobody /\ Truthful(dialog) /\ handoffs[h] = nobody
  BY DEF openUrlWithBiometricGate, PaymentInv
<1>3. r \in HandoffState /\ r.asked = dialog
  BY <1>1, <1>2 DEF HandoffState, Truthful
<1>4. handedOver[h] = nobody
  BY <1>2 DEF PaymentInv
<1>5. /\ handoffs' = [handoffs EXCEPT ![h] = r] /\ granted' = granted /\ dialog' = nobody
      /\ UNCHANGED <<context, form, handedOver>>
  BY <1>1 DEF openUrlWithBiometricGate
<1>6. Truthful(r.asked)
  BY <1>2, <1>3
<1>7. QED BY <1>3, <1>4, <1>5, <1>6, HandoffMoves

(* The record of a hand-off whose step changes.                            *)
LEMMA SteppedHandoff ==
  ASSUME PaymentInv, NEW h \in Handoff, handoffs[h] # nobody,
         NEW s \in {"isAvailable", "authenticate", "done"}
  PROVE  \E r \in HandoffState : /\ [handoffs EXCEPT ![h].step = s] = [handoffs EXCEPT ![h] = r]
                                 /\ r.step = s /\ r.asked = handoffs[h].asked /\ Truthful(r.asked)
<1>1. handoffs[h] \in HandoffState /\ Truthful(handoffs[h].asked)
  BY DEF PaymentInv
<1>2. PICK r : r = [handoffs[h] EXCEPT !.step = s]
  OBVIOUS
<1>3. r \in HandoffState /\ r.step = s /\ r.asked = handoffs[h].asked
  BY <1>1, <1>2 DEF HandoffState
<1>4. [handoffs EXCEPT ![h].step = s] = [handoffs EXCEPT ![h] = r]
  BY <1>2
<1>5. QED BY <1>1, <1>3, <1>4

LEMMA SensorInv ==
  ASSUME PaymentInv, NEW h \in Handoff, NEW yes \in BOOLEAN, requireBiometricAuthentication(h, yes)
  PROVE  PaymentInv'
<1>1. /\ handoffs[h] # nobody /\ handoffs[h].step = "isAvailable" /\ dialog' = dialog
      /\ UNCHANGED <<context, form, handedOver, granted>>
  BY DEF requireBiometricAuthentication
<1>2. PICK s \in {"isAvailable", "authenticate", "done"} : handoffs' = [handoffs EXCEPT ![h].step = s]
  BY DEF requireBiometricAuthentication, Ended
<1>3. handedOver[h] = nobody /\ (dialog' # nobody => Truthful(dialog'))
  BY <1>1 DEF PaymentInv
<1>4. PICK r \in HandoffState : handoffs' = [handoffs EXCEPT ![h] = r] /\ Truthful(r.asked)
  BY <1>1, <1>2, SteppedHandoff
<1>5. QED BY <1>1, <1>3, <1>4, HandoffMoves

LEMMA OpenUrlInv ==
  ASSUME PaymentInv, NEW h \in Handoff, NEW yes \in BOOLEAN, openUrl(h, yes)
  PROVE  PaymentInv'
<1>1. PICK asked : asked = handoffs[h].asked
  OBVIOUS
<1>2. /\ handoffs[h] # nobody /\ handoffs[h].step = "authenticate" /\ dialog' = dialog
      /\ UNCHANGED <<context, form>>
      /\ handoffs' = [handoffs EXCEPT ![h].step = "done"]
  BY DEF openUrl, Ended
<1>3. PICK r \in HandoffState : /\ handoffs' = [handoffs EXCEPT ![h] = r]
                                /\ r.step = "done" /\ Truthful(r.asked)
  BY <1>2, SteppedHandoff
<1>4. /\ handedOver[h] = nobody /\ (dialog' # nobody => Truthful(dialog'))
      /\ asked \in Submitted /\ asked.shown = formatTBC(asked.amount)
  BY <1>1, <1>2 DEF PaymentInv, Truthful
<1>5. PICK g : g = [to |-> asked.recipient, shown |-> asked.shown, from |-> asked.context.account]
  OBVIOUS
<1>6. /\ g \in Consent /\ g.to = asked.recipient /\ g.shown = asked.shown
      /\ g.from = asked.context.account
  BY <1>4, <1>5 DEF Consent, Submitted
<1>7. granted' = granted \/ granted' = [granted EXCEPT ![h] = g]
  BY <1>1, <1>5 DEF openUrl
<1>8. CASE handedOver' = handedOver
  BY <1>2, <1>3, <1>4, <1>6, <1>7, <1>8, HandoffMoves
<1>9. CASE handedOver' # handedOver
  <2>1. PICK l : l = buildUrl(asked)
    OBVIOUS
  <2>2. /\ yes /\ LinkAllowed(asked.context.hub, asked.recipient, asked.context.account, asked.amount)
        /\ handedOver' = [handedOver EXCEPT ![h] = l]
        /\ granted' = [granted EXCEPT ![h] = g]
    BY <1>1, <1>5, <1>9, <2>1 DEF openUrl
  <2>3. /\ l.merchant = asked.recipient /\ l.payer = asked.context.account
        /\ l.amount = asked.amount /\ asked.amount > 0
    BY <2>1, <2>2 DEF buildUrl, buildWalletLink, LinkAllowed
  <2>4. formatTBC(l.amount) = g.shown
    BY <1>4, <1>6, <2>3
  <2>5. g # nobody /\ r # nobody
    BY <1>3, <1>6, MobileAssumption
  <2>6. /\ handoffs' \in [Handoff -> HandoffState \cup {nobody}]
        /\ granted' \in [Handoff -> Consent \cup {nobody}]
        /\ handedOver' = [i \in Handoff |-> handedOver'[i]]
    BY <1>3, <1>6, <2>2 DEF PaymentInv
  <2>7. /\ \A i \in Handoff \ {h} : /\ handoffs'[i] = handoffs[i] /\ granted'[i] = granted[i]
                                    /\ handedOver'[i] = handedOver[i]
        /\ handoffs'[h] = r /\ granted'[h] = g /\ handedOver'[h] = l
    BY <1>3, <2>2 DEF PaymentInv
  <2>8. \A i \in Handoff : handoffs'[i] # nobody => Truthful(handoffs'[i].asked)
    BY <1>3, <2>7 DEF PaymentInv
  <2>9. \A i \in Handoff : handedOver'[i] # nobody => handoffs'[i] # nobody /\ handoffs'[i].step = "done"
    BY <1>3, <2>5, <2>7 DEF PaymentInv
  <2>10. HandoffIsConfirmed'
    BY <1>6, <2>3, <2>4, <2>5, <2>7 DEF PaymentInv, HandoffIsConfirmed
  <2>11. QED BY <1>2, <1>4, <2>6, <2>8, <2>9, <2>10 DEF PaymentInv
<1>10. QED BY <1>8, <1>9

(* Every link the app opens is the payment its user saw and consented to,  *)
(* for any number of hand-offs and whatever is typed, selected or          *)
(* confirmed while the prompt is up (onSubmit, openUrlWithBiometricGate).  *)
THEOREM LinksAreConsented == PaymentScreenSpec => []HandoffIsConfirmed
<1>1. PaymentScreenInit => PaymentInv
  BY DEF PaymentScreenInit, PaymentInv, HandoffIsConfirmed
<1>2. PaymentInv /\ [PaymentScreenNext]_paymentVars => PaymentInv'
  <2> SUFFICES ASSUME PaymentInv, [PaymentScreenNext]_paymentVars PROVE PaymentInv'
    OBVIOUS
  <2>1. ASSUME NEW c \in Contexts, configurePaymentContext(c) PROVE PaymentInv'
    BY <2>1, ScreenStep DEF configurePaymentContext, PaymentInv
  <2>2. ASSUME NEW f \in [recipient : TypedText, amount : TypedAmount], edit(f) PROVE PaymentInv'
    BY <2>2, ScreenStep DEF edit, PaymentInv
  <2>3. CASE dismiss
    BY <2>3, ScreenStep DEF dismiss, PaymentInv
  <2>4. ASSUME NEW a \in TypedAmount \cup {nobody}, generate(a) PROVE PaymentInv'
    BY <2>4, ScreenStep DEF generate, PaymentInv
  <2>5. CASE UNCHANGED paymentVars
    BY <2>5, ScreenStep DEF paymentVars, PaymentInv
  <2>6. QED BY <2>1, <2>2, <2>3, <2>4, <2>5, SubmitInv, GateInv, SensorInv, OpenUrlInv
               DEF PaymentScreenNext
<1>3. PaymentInv => HandoffIsConfirmed
  BY DEF PaymentInv
<1>4. QED BY <1>1, <1>2, <1>3, PTL DEF PaymentScreenSpec

-----------------------------------------------------------------------------
(* The web wallet: sessions are those of known wallets, and every page     *)
(* that listens shows the session of its tab.                              *)
Shown == [view : {"balance", "transactions", "settings"}, content : Data \cup {nil},
          button : {"Disconnect", "Waiting for wallet...", "Connect Wallet"},
          badge : [label : Wallet \cup {nil, "pending", "disconnected"}, cancel : BOOLEAN]]

Page == [subscribed : BOOLEAN, mounted : BOOLEAN,
         view : {"balance", "transactions", "settings"},
         account : Data \cup {nil}, transactions : Data \cup {nil}, selector : BOOLEAN,
         shown : Shown \cup {nil}]

Joined == {p \in Wallet \X Wallet : p[2] \in NamingWallet => p[1] = p[2]}

Session == {Disconnected} \cup {Pending(w) : w \in Wallet}
             \cup {Connected(p[1], AddressOf(p[2])) : p \in Joined}

Listens(p, s) == p.mounted /\ p.subscribed => p.shown = render(p, s)

WalletInv ==
  /\ session \in [Tab -> Session] /\ stored \in Session \cup {nil}
  /\ page \in [Tab -> Page] /\ asks \in [Tab -> SUBSET Wallet]
  /\ \A t \in Tab : Listens(page[t], session[t])

LEMMA SessionShape ==
  \A s \in Session : /\ s.status \in {"disconnected", "pending", "connected"}
                     /\ s.status = "pending" => s.walletId \in Wallet
                     /\ s.status = "connected" =>
                          /\ s.walletId \in Wallet /\ s.address \in Wallet
                          /\ s.address \in NamingWallet => s.address = s.walletId
BY DEF Session, Joined, Disconnected, Pending, Connected, AddressOf

(* What a page shows depends neither on what it showed nor on its flags.   *)
LEMMA RenderLemma ==
  ASSUME NEW p \in Page, NEW s \in Session
  PROVE  /\ render(p, s) \in Shown
         /\ \A x : render([p EXCEPT !.shown = x], s) = render(p, s)
<1>1. renderConnectButton(s) \in {"Disconnect", "Waiting for wallet...", "Connect Wallet"}
  BY SessionShape DEF renderConnectButton
<1>2. renderConnectorStatus(s) \in [label : Wallet \cup {nil, "pending", "disconnected"}, cancel : BOOLEAN]
  BY SessionShape DEF renderConnectorStatus
<1>3. render(p, s) \in Shown
  BY <1>1, <1>2 DEF render, Shown, Page, renderBalanceView, renderTransactionsView, renderSettingsView
<1>4. ASSUME NEW x PROVE render([p EXCEPT !.shown = x], s) = render(p, s)
  <2>1. PICK q : q = [p EXCEPT !.shown = x]
    OBVIOUS
  <2>2. q.view = p.view /\ q.account = p.account /\ q.transactions = p.transactions
    BY <2>1 DEF Page
  <2>3. render(q, s) = render(p, s)
    BY <2>2 DEF render, renderBalanceView, renderTransactionsView, renderSettingsView
  <2>4. QED BY <2>1, <2>3
<1>5. QED BY <1>3, <1>4

LEMMA RerenderedLemma ==
  ASSUME NEW p \in Page, NEW s \in Session
  PROVE  /\ Rerendered(p, s) \in Page /\ Listens(Rerendered(p, s), s)
         /\ Handled(p, s) \in Page /\ Listens(Handled(p, s), s)
<1>1. Rerendered(p, s) \in Page /\ Listens(Rerendered(p, s), s)
  <2>1. CASE p.mounted
    <3>1. PICK q : q = [p EXCEPT !.shown = render(p, s)]
      OBVIOUS
    <3>2. q \in Page /\ q.shown = render(p, s)
      BY <3>1, RenderLemma DEF Page
    <3>3. render(q, s) = render(p, s)
      BY <3>1, RenderLemma
    <3>4. Rerendered(p, s) = q
      BY <2>1, <3>1 DEF Rerendered
    <3>5. QED BY <3>2, <3>3, <3>4 DEF Listens
  <2>2. CASE ~ p.mounted
    BY <2>2 DEF Rerendered, Listens
  <2>3. QED BY <2>1, <2>2
<1>2. QED BY <1>1 DEF Handled, Listens

(* A step of a tab that leaves its page current keeps the invariant.       *)
LEMMA TabStep ==
  ASSUME WalletInv, NEW t \in Tab, NEW p \in Page, NEW s \in Session, Listens(p, s),
         NEW a \in SUBSET Wallet,
         session' = [session EXCEPT ![t] = s], page' = [page EXCEPT ![t] = p],
         asks' = [asks EXCEPT ![t] = a], stored' \in Session \cup {nil}
  PROVE  WalletInv'
<1>1. /\ session' \in [Tab -> Session] /\ page' \in [Tab -> Page]
      /\ asks' \in [Tab -> SUBSET Wallet]
  BY DEF WalletInv
<1>2. ASSUME NEW u \in Tab PROVE Listens(page'[u], session'[u])
  <2>1. CASE u = t
    BY <2>1 DEF WalletInv
  <2>2. CASE u # t
    <3>1. page'[u] = page[u] /\ session'[u] = session[u]
      BY <2>2 DEF WalletInv
    <3>2. QED BY <3>1 DEF WalletInv
  <2>3. QED BY <2>1, <2>2
<1>3. QED BY <1>1, <1>2 DEF WalletInv

(* Steps that change the page alone, and steps of the connector.           *)
LEMMA PageStep ==
  ASSUME WalletInv, NEW t \in Tab, NEW p \in Page, Listens(p, session[t]),
         page' = [page EXCEPT ![t] = p], UNCHANGED <<session, stored, asks>>
  PROVE  WalletInv'
<1>1. /\ session[t] \in Session /\ asks[t] \in SUBSET Wallet /\ stored' \in Session \cup {nil}
      /\ session' = [session EXCEPT ![t] = session[t]]
      /\ asks' = [asks EXCEPT ![t] = asks[t]]
  BY DEF WalletInv
<1>2. QED BY <1>1, TabStep

LEMMA ConnectorStep ==
  ASSUME WalletInv, NEW t \in Tab, NEW p \in Page, NEW s \in Session, NEW a \in SUBSET Wallet,
         session' = [session EXCEPT ![t] = s], page' = [page EXCEPT ![t] = Handled(p, s)],
         asks' = [asks EXCEPT ![t] = a], stored' \in Session \cup {nil}
  PROVE  WalletInv'
BY RerenderedLemma, TabStep

LEMMA UpdateStep ==
  ASSUME WalletInv, NEW t \in Tab, NEW s \in Session, NEW a \in SUBSET Wallet,
         updateState(t, s), asks' = [asks EXCEPT ![t] = a]
  PROVE  WalletInv'
<1>1. /\ session' = [session EXCEPT ![t] = s] /\ page' = [page EXCEPT ![t] = Handled(page[t], s)]
      /\ stored' \in Session \cup {nil} /\ page[t] \in Page
  BY DEF updateState, WalletInv
<1>2. QED BY <1>1, ConnectorStep

LEMMA PageActions ==
  ASSUME WalletInv, NEW t \in Tab,
         \/ mount(t) \/ unmount(t) \/ openWalletSelector(t) \/ closeSelector(t)
         \/ \E d \in Data : setAccount(t, d) \/ setTransactions(t, d)
         \/ \E v \in {"balance", "transactions", "settings"} : renderNav(t, v)
  PROVE  WalletInv'
<1>1. page[t] \in Page /\ session[t] \in Session /\ Listens(page[t], session[t])
  BY DEF WalletInv
<1>2. UNCHANGED <<session, stored, asks>>
  BY DEF mount, unmount, openWalletSelector, closeSelector, setAccount, setTransactions, renderNav
<1>3. ASSUME NEW p \in Page, page' = [page EXCEPT ![t] = Rerendered(p, session[t])]
      PROVE  WalletInv'
  BY <1>1, <1>2, <1>3, RerenderedLemma, PageStep
<1>4. ASSUME NEW b \in BOOLEAN, page' = [page EXCEPT ![t].selector = b] PROVE WalletInv'
  <2>1. PICK p : p = [page[t] EXCEPT !.selector = b]
    OBVIOUS
  <2>2. p \in Page /\ p.mounted = page[t].mounted /\ p.subscribed = page[t].subscribed
        /\ p.shown = page[t].shown /\ p.view = page[t].view /\ p.account = page[t].account
        /\ p.transactions = page[t].transactions
    BY <1>1, <2>1 DEF Page
  <2>3. render(p, session[t]) = render(page[t], session[t])
    BY <2>2 DEF render, renderBalanceView, renderTransactionsView, renderSettingsView
  <2>4. Listens(p, session[t])
    BY <1>1, <2>2, <2>3 DEF Listens
  <2>5. page' = [page EXCEPT ![t] = p]
    BY <1>4, <2>1
  <2>6. QED BY <1>2, <2>2, <2>4, <2>5, PageStep
<1>5. CASE mount(t)
  <2>1. [page[t] EXCEPT !.mounted = TRUE] \in Page
    BY <1>1 DEF Page
  <2>2. QED BY <1>3, <1>5, <2>1 DEF mount
<1>6. CASE unmount(t)
  <2>1. PICK p : p = [page[t] EXCEPT !.selector = FALSE, !.subscribed = FALSE,
                                     !.mounted = FALSE, !.shown = nil]
    OBVIOUS
  <2>2. p \in Page /\ p.mounted = FALSE
    BY <1>1, <2>1 DEF Page
  <2>3. page' = [page EXCEPT ![t] = p]
    BY <1>6, <2>1 DEF unmount
  <2>4. Listens(p, session[t])
    BY <2>2 DEF Listens
  <2>5. QED BY <1>2, <2>2, <2>3, <2>4, PageStep
<1>7. ASSUME NEW d \in Data, setAccount(t, d) PROVE WalletInv'
  <2>1. [page[t] EXCEPT !.account = d] \in Page
    BY <1>1 DEF Page
  <2>2. QED BY <1>3, <1>7, <2>1 DEF setAccount
<1>8. ASSUME NEW d \in Data, setTransactions(t, d) PROVE WalletInv'
  <2>1. [page[t] EXCEPT !.transactions = d] \in Page
    BY <1>1 DEF Page
  <2>2. QED BY <1>3, <1>8, <2>1 DEF setTransactions
<1>9. ASSUME NEW v \in {"balance", "transactions", "settings"}, renderNav(t, v)
      PROVE  WalletInv'
  <2>1. [page[t] EXCEPT !.view = v] \in Page
    BY <1>1 DEF Page
  <2>2. QED BY <1>3, <1>9, <2>1 DEF renderNav
<1>10. CASE openWalletSelector(t) \/ closeSelector(t)
  BY <1>4, <1>10 DEF openWalletSelector, closeSelector
<1>11. QED BY <1>5, <1>6, <1>7, <1>8, <1>9, <1>10

LEMMA WalletActions ==
  ASSUME WalletInv, NEW t \in Tab, NEW w \in Wallet,
         onWalletSelected(t, w) \/ applyReply(t, w) \/ refuseReply(t, w)
  PROVE  WalletInv'
<1>1. page[t] \in Page /\ session[t] \in Session /\ asks[t] \in SUBSET Wallet
  BY DEF WalletInv
<1>2. Pending(w) \in Session
  BY DEF Session
<1>3. CASE onWalletSelected(t, w)
  <2>1. PICK p : p = [page[t] EXCEPT !.selector = FALSE]
    OBVIOUS
  <2>2. p \in Page
    BY <1>1, <2>1 DEF Page
  <2>3. /\ session' = [session EXCEPT ![t] = Pending(w)] /\ stored' = Pending(w)
        /\ page' = [page EXCEPT ![t] = Handled(p, Pending(w))]
        /\ asks' = [asks EXCEPT ![t] = asks[t] \cup {w}]
    BY <1>3, <2>1 DEF onWalletSelected
  <2>4. asks[t] \cup {w} \in SUBSET Wallet
    BY <1>1
  <2>5. QED BY <1>2, <2>2, <2>3, <2>4, ConnectorStep
<1>4. CASE applyReply(t, w)
  <2>1. PICK x : x = RepliedWallet(t, w)
    OBVIOUS
  <2>2. /\ session[t].status = "pending" /\ updateState(t, Connected(x, AddressOf(w)))
        /\ asks' = [asks EXCEPT ![t] = asks[t] \ {w}]
    BY <1>4, <2>1 DEF applyReply
  <2>3. x \in Wallet /\ (w \in NamingWallet => x = w)
    BY <1>1, <2>1, <2>2, SessionShape DEF RepliedWallet
  <2>4. <<x, w>> \in Joined
    BY <2>3 DEF Joined
  <2>5. Connected(x, AddressOf(w)) \in Session
    BY <2>4 DEF Session
  <2>6. asks[t] \ {w} \in SUBSET Wallet
    BY <1>1
  <2>7. QED BY <2>2, <2>5, <2>6, UpdateStep
<1>5. CASE refuseReply(t, w)
  <2>1. asks' \in [Tab -> SUBSET Wallet] /\ UNCHANGED <<session, stored, page>>
    BY <1>5 DEF refuseReply, WalletInv
  <2>2. QED BY <2>1 DEF WalletInv
<1>6. QED BY <1>3, <1>4, <1>5

LEMMA WalletStepInv == WalletInv /\ [WalletNext]_walletVars => WalletInv'
<1> SUFFICES ASSUME WalletInv, [WalletNext]_walletVars PROVE WalletInv'
  OBVIOUS
<1>1. CASE UNCHANGED walletVars
  BY <1>1 DEF walletVars, WalletInv
<1>2. ASSUME NEW t \in Tab,
             Open(t) \/ renderQRSection(t) \/ cancel(t) \/ disconnect(t)
      PROVE  WalletInv'
  <2>1. Disconnected \in Session /\ asks[t] \in SUBSET Wallet /\ asks = [asks EXCEPT ![t] = asks[t]]
    BY DEF Session, WalletInv
  <2>2. CASE Open(t)
    <3>1. loadState \in Session
      BY <2>1 DEF loadState, WalletInv
    <3>2. Blank \in Page /\ Listens(Blank, loadState)
      BY DEF Blank, Page, Listens
    <3>3. /\ session' = [session EXCEPT ![t] = loadState] /\ page' = [page EXCEPT ![t] = Blank]
          /\ asks' = [asks EXCEPT ![t] = {}] /\ stored' \in Session \cup {nil}
      BY <2>2 DEF Open, WalletInv
    <3>4. QED BY <3>1, <3>2, <3>3, TabStep
  <2>3. CASE renderQRSection(t)
    <3>1. \A i \in QRWallets : WalletOrder[i] \in Wallet
      BY DEF QRWallets, visibleWallets, walletsForPlatform
    <3>2. asks' \in [Tab -> SUBSET Wallet] /\ UNCHANGED <<session, stored, page>>
      BY <2>3, <3>1 DEF renderQRSection, WalletInv
    <3>3. QED BY <3>2 DEF WalletInv
  <2>4. CASE cancel(t) \/ disconnect(t)
    <3>1. updateState(t, Disconnected) /\ asks' = [asks EXCEPT ![t] = asks[t]]
      BY <2>1, <2>4 DEF cancel, disconnect
    <3>2. QED BY <2>1, <3>1, UpdateStep
  <2>5. QED BY <1>2, <2>2, <2>3, <2>4
<1>3. QED BY <1>1, <1>2, PageActions, WalletActions DEF WalletNext

(* A page that listens to its connector shows the session there is, and a  *)
(* session, in a tab or in storage, joins the address of a wallet that     *)
(* names itself to that wallet, for any number of tabs, whichever wallets  *)
(* name themselves and whatever replies come late (handleConnectorEvent *)
(* and the reply handling of the connector).                               *)
THEOREM PagesShowTheirSession == WalletSpec => []WalletShowsItsSession
<1>1. WalletInit => WalletInv
  <2> SUFFICES ASSUME WalletInit PROVE WalletInv
    OBVIOUS
  <2>1. Disconnected \in Session
    BY DEF Session
  <2>2. Blank \in Page /\ Listens(Blank, Disconnected)
    BY DEF Blank, Page, Listens
  <2>3. QED BY <2>1, <2>2 DEF WalletInit, WalletInv
<1>2. WalletInv => WalletShowsItsSession
  <2> SUFFICES ASSUME WalletInv PROVE WalletShowsItsSession
    OBVIOUS
  <2>1. ViewIsCurrent
    BY DEF WalletInv, ViewIsCurrent, Listens
  <2>2. \A s \in Session : s.address \in {AddressOf(w) : w \in NamingWallet} => JoinsItsAddress(s)
    BY SessionShape DEF AddressOf, buildPaymentLink, JoinsItsAddress
  <2>3. Sessions \subseteq Session
    BY DEF Sessions, WalletInv
  <2>4. AddressBelongsToWallet
    BY <2>2, <2>3 DEF AddressBelongsToWallet
  <2>5. QED BY <2>1, <2>4 DEF WalletShowsItsSession
<1>3. QED BY <1>1, <1>2, WalletStepInv, PTL DEF WalletSpec

-----------------------------------------------------------------------------
(* The dashboards and the widget. What is drawn of a board is drawBoard of *)
(* it, but for what was typed on the page that makes links.                *)
Links == {buildWalletLink(Hub, Merchant, Payer, n, "dashboard-payment") : n \in Nat \ {0}}
Form == [amount : Typed \cup {unset}, link : Links \cup {unset}]
DrawnBoard == [tab : View, content : Items \cup {unset}] \cup [tab : View, content : Form]

Board == [mounted : BOOLEAN, view : View, stats : Items \cup {unset},
          payments : Items \cup {unset}, webhooks : Items \cup {unset},
          drawn : DrawnBoard \cup {unset}]

BoardShown(b) ==
  b.mounted => IF b.view = "generate" THEN b.drawn \in [tab : {"generate"}, content : Form]
                                      ELSE b.drawn = drawBoard(b)

Public == [mounted : BOOLEAN, snapshot : Items \cup {unset},
           drawn : {unset} \cup {drawPublic(p) : p \in [snapshot : Items \cup {unset}]}]
PublicShown(p) == p.mounted => p.drawn = drawPublic(p)

DrawnWidget == {drawWidget(m, a) : m \in {"button", "inline"}, a \in Typed}
Widget == [mounted : BOOLEAN, mode : {"button", "inline"}, amount : Typed,
           drawn : DrawnWidget \cup {unset}]
WidgetShown(w) == w.drawn # unset => w.mounted /\ w.drawn = drawWidget(w.mode, w.amount)

DashboardInv ==
  /\ board \in Board /\ BoardShown(board)
  /\ public \in Public /\ PublicShown(public)
  /\ widget \in Widget /\ WidgetShown(widget)

LEMMA DrawBoardLemma ==
  ASSUME NEW b \in Board
  PROVE  /\ drawBoard(b) \in DrawnBoard
         /\ b.view = "generate" => drawBoard(b) \in [tab : {"generate"}, content : Form]
         /\ \A x, m : drawBoard([b EXCEPT !.mounted = m, !.drawn = x]) = drawBoard(b)
         /\ \A x : drawBoard([b EXCEPT !.drawn = x]) = drawBoard(b)
<1>1. renderGenerate \in Form
  BY DEF renderGenerate, Form
<1>2. b.view # "generate" => renderContent(b) \in Items \cup {unset}
  BY DEF Board, View, renderContent, renderOverview, renderPayments, renderWebhooksView
<1>3. b.view = "generate" => renderContent(b) = renderGenerate
  BY DEF renderContent
<1>4. drawBoard(b) \in DrawnBoard
  BY <1>1, <1>2, <1>3 DEF drawBoard, DrawnBoard, renderNavigation, Board
<1>5. b.view = "generate" => drawBoard(b) \in [tab : {"generate"}, content : Form]
  BY <1>1, <1>3 DEF drawBoard, renderNavigation
<1>6. ASSUME NEW c, c.view = b.view, c.stats = b.stats, c.payments = b.payments, c.webhooks = b.webhooks
      PROVE  drawBoard(c) = drawBoard(b)
  BY <1>6 DEF drawBoard, renderContent, renderNavigation, renderOverview, renderPayments, renderWebhooksView
<1>7. ASSUME NEW x, NEW m PROVE drawBoard([b EXCEPT !.mounted = m, !.drawn = x]) = drawBoard(b)
  <2>1. PICK c : c = [b EXCEPT !.mounted = m, !.drawn = x]
    OBVIOUS
  <2>2. c.view = b.view /\ c.stats = b.stats /\ c.payments = b.payments /\ c.webhooks = b.webhooks
    BY <2>1 DEF Board
  <2>3. QED BY <1>6, <2>1, <2>2
<1>8. ASSUME NEW x PROVE drawBoard([b EXCEPT !.drawn = x]) = drawBoard(b)
  <2>1. PICK c : c = [b EXCEPT !.drawn = x]
    OBVIOUS
  <2>2. c.view = b.view /\ c.stats = b.stats /\ c.payments = b.payments /\ c.webhooks = b.webhooks
    BY <2>1 DEF Board
  <2>3. QED BY <1>6, <2>1, <2>2
<1>9. QED BY <1>4, <1>5, <1>7, <1>8

LEMMA RedrawnLemma ==
  ASSUME NEW b \in Board
  PROVE  redrawn(b) \in Board /\ BoardShown(redrawn(b))
<1>1. CASE b.mounted
  <2>1. PICK x : x = drawBoard(b)
    OBVIOUS
  <2>2. PICK c : c = [b EXCEPT !.drawn = x]
    OBVIOUS
  <2>3. x \in DrawnBoard
    BY <2>1, DrawBoardLemma
  <2>4. c \in Board /\ c.drawn = x /\ c.view = b.view
    BY <2>2, <2>3 DEF Board
  <2>5. drawBoard(c) = x
    BY <2>1, <2>2, DrawBoardLemma
  <2>6. redrawn(b) = c
    BY <1>1, <2>1, <2>2 DEF redrawn
  <2>7. c.view = "generate" => c.drawn \in [tab : {"generate"}, content : Form]
    BY <2>1, <2>4, DrawBoardLemma
  <2>8. QED BY <2>4, <2>5, <2>6, <2>7 DEF BoardShown
<1>2. CASE ~ b.mounted
  BY <1>2 DEF redrawn, BoardShown
<1>3. QED BY <1>1, <1>2

LEMMA BoardStep ==
  ASSUME NEW b, b \in Board, BoardShown(b), DashboardInv, board' = b, UNCHANGED <<public, widget>>
  PROVE  DashboardInv'
BY DEF DashboardInv

(* Typing and making a link change only the form that is drawn.            *)
LEMMA FormStep ==
  ASSUME DashboardInv, OnGenerate, NEW f \in Form,
         board' = [board EXCEPT !.drawn = [board.drawn EXCEPT !.content = f]],
         UNCHANGED <<public, widget>>
  PROVE  DashboardInv'
<1>1. board \in Board /\ board.mounted /\ board.view = "generate"
      /\ board.drawn \in [tab : {"generate"}, content : Form]
  BY DEF DashboardInv, OnGenerate, BoardShown
<1>2. PICK d : d = [board.drawn EXCEPT !.content = f]
  OBVIOUS
<1>3. d \in [tab : {"generate"}, content : Form]
  BY <1>1, <1>2
<1>4. d \in DrawnBoard
  BY <1>3 DEF DrawnBoard, View
<1>5. PICK b : b = [board EXCEPT !.drawn = d]
  OBVIOUS
<1>6. b \in Board /\ b.drawn = d /\ b.view = "generate"
  BY <1>1, <1>4, <1>5 DEF Board
<1>7. BoardShown(b)
  BY <1>3, <1>6 DEF BoardShown
<1>8. board' = b
  BY <1>2, <1>5
<1>9. QED BY <1>6, <1>7, <1>8, BoardStep

LEMMA BoardActions ==
  ASSUME DashboardInv,
         \/ mountBoard \/ unmountBoard
         \/ \E v \in Items : setStats(v) \/ setPayments(v) \/ setWebhooks(v)
         \/ \E v \in View : navigateTo(v)
         \/ \E a \in Typed : typeAmount(a)
         \/ \E m \in Expirations \cup {unset} : generateInvoiceLink(m)
  PROVE  DashboardInv'
<1>1. board \in Board /\ UNCHANGED <<public, widget>>
  BY DEF DashboardInv, mountBoard, unmountBoard, setStats, setPayments, setWebhooks, navigateTo,
         typeAmount, generateInvoiceLink
<1>2. CASE mountBoard
  <2>1. PICK x : x = drawBoard(board)
    OBVIOUS
  <2>2. PICK b : b = [board EXCEPT !.mounted = TRUE, !.drawn = x]
    OBVIOUS
  <2>3. x \in DrawnBoard
    BY <1>1, <2>1, DrawBoardLemma
  <2>4. b \in Board /\ b.drawn = x /\ b.view = board.view
    BY <1>1, <2>2, <2>3 DEF Board
  <2>5. drawBoard(b) = x
    BY <1>1, <2>1, <2>2, DrawBoardLemma
  <2>6. board' = b
    BY <1>2, <2>1, <2>2 DEF mountBoard
  <2>7. b.view = "generate" => b.drawn \in [tab : {"generate"}, content : Form]
    BY <1>1, <2>1, <2>4, DrawBoardLemma
  <2>8. BoardShown(b)
    BY <2>4, <2>5, <2>7 DEF BoardShown
  <2>9. QED BY <1>1, <2>4, <2>6, <2>8, BoardStep
<1>3. CASE unmountBoard
  <2>1. PICK b : b = [board EXCEPT !.mounted = FALSE, !.drawn = unset]
    OBVIOUS
  <2>2. b \in Board /\ b.mounted = FALSE
    BY <1>1, <2>1 DEF Board
  <2>3. QED BY <1>1, <1>3, <2>1, <2>2, BoardStep DEF unmountBoard, BoardShown
<1>4. ASSUME NEW b \in Board, board' = redrawn(b) PROVE DashboardInv'
  BY <1>1, <1>4, RedrawnLemma, BoardStep
<1>5. ASSUME NEW v \in Items, setStats(v) \/ setPayments(v) \/ setWebhooks(v) PROVE DashboardInv'
  <2>1. /\ [board EXCEPT !.stats = v] \in Board /\ [board EXCEPT !.payments = v] \in Board
        /\ [board EXCEPT !.webhooks = v] \in Board
    BY <1>1 DEF Board
  <2>2. QED BY <1>4, <1>5, <2>1 DEF setStats, setPayments, setWebhooks
<1>6. ASSUME NEW v \in View, navigateTo(v) PROVE DashboardInv'
  <2>1. [board EXCEPT !.view = v] \in Board
    BY <1>1 DEF Board
  <2>2. QED BY <1>4, <1>6, <2>1 DEF navigateTo
<1>7. ASSUME OnGenerate PROVE board.drawn.content \in Form
  BY <1>7 DEF OnGenerate, DashboardInv, BoardShown
<1>8. ASSUME NEW a \in Typed, typeAmount(a) PROVE DashboardInv'
  <2>1. PICK f : f = [board.drawn.content EXCEPT !.amount = a]
    OBVIOUS
  <2>2. OnGenerate
    BY <1>8 DEF typeAmount
  <2>3. f \in Form
    BY <1>7, <2>1, <2>2 DEF Form
  <2>4. board' = [board EXCEPT !.drawn = [board.drawn EXCEPT !.content = f]]
    BY <1>8, <2>1 DEF typeAmount
  <2>5. QED BY <1>1, <2>2, <2>3, <2>4, FormStep
<1>9. ASSUME NEW m \in Expirations \cup {unset}, generateInvoiceLink(m) PROVE DashboardInv'
  <2>1. PICK amount : amount = IF board.drawn.content.amount = unset THEN 0 ELSE board.drawn.content.amount
    OBVIOUS
  <2>2. OnGenerate /\ LinkPossible(amount, m)
    BY <1>9, <2>1 DEF generateInvoiceLink
  <2>3. amount \in Nat \ {0}
    BY <2>2 DEF LinkPossible, LinkAllowed, IsNumber
  <2>4. PICK l : l = buildWalletLink(Hub, Merchant, Payer, amount, "dashboard-payment")
    OBVIOUS
  <2>5. l \in Links
    BY <2>3, <2>4 DEF Links
  <2>6. PICK f : f = [board.drawn.content EXCEPT !.link = l]
    OBVIOUS
  <2>7. f \in Form
    BY <1>7, <2>2, <2>5, <2>6 DEF Form
  <2>8. board' = [board EXCEPT !.drawn = [board.drawn EXCEPT !.content = f]]
    BY <1>9, <2>1, <2>4, <2>6 DEF generateInvoiceLink
  <2>9. QED BY <1>1, <2>2, <2>7, <2>8, FormStep
<1>10. QED BY <1>2, <1>3, <1>5, <1>6, <1>8, <1>9

LEMMA PublicActions ==
  ASSUME DashboardInv, mountPublic \/ unmountPublic \/ \E v \in Items : setSnapshot(v)
  PROVE  DashboardInv'
<1>1. public \in Public /\ UNCHANGED <<board, widget>>
  BY DEF DashboardInv, mountPublic, unmountPublic, setSnapshot
<1>2. ASSUME NEW p \in Public, NEW q, q.snapshot = p.snapshot PROVE drawPublic(q) = drawPublic(p)
  BY <1>2 DEF drawPublic, renderPublicHeader, renderProtocolMetricsSection,
              renderLockActivitySection, renderParameterChangesSection
<1>3. ASSUME NEW p \in Public
      PROVE  drawPublic(p) \in {drawPublic(q) : q \in [snapshot : Items \cup {unset}]}
  <2>1. PICK q : q = [snapshot |-> p.snapshot]
    OBVIOUS
  <2>2. q \in [snapshot : Items \cup {unset}] /\ q.snapshot = p.snapshot
    BY <2>1 DEF Public
  <2>3. drawPublic(q) = drawPublic(p)
    BY <1>2, <2>2
  <2>4. QED BY <2>2, <2>3
<1>4. ASSUME NEW p \in Public, NEW m \in BOOLEAN, public' = [p EXCEPT !.mounted = m, !.drawn = drawPublic(p)]
      PROVE  DashboardInv'
  <2>1. PICK x : x = drawPublic(p)
    OBVIOUS
  <2>2. x \in {drawPublic(q) : q \in [snapshot : Items \cup {unset}]}
    BY <1>3, <2>1
  <2>3. public' = [p EXCEPT !.mounted = m, !.drawn = x]
    BY <1>4, <2>1
  <2>4. public' \in Public /\ public'.drawn = x /\ public'.snapshot = p.snapshot
    BY <2>2, <2>3 DEF Public
  <2>5. drawPublic(public') = x
    BY <1>2, <2>1, <2>4
  <2>6. QED BY <1>1, <2>4, <2>5 DEF DashboardInv, PublicShown
<1>5. ASSUME NEW p \in Public, p.mounted = FALSE, public' = p PROVE DashboardInv'
  BY <1>1, <1>5 DEF DashboardInv, PublicShown
<1>6. CASE mountPublic
  BY <1>1, <1>4, <1>6 DEF mountPublic
<1>7. CASE unmountPublic
  <2>1. PICK p : p = [public EXCEPT !.mounted = FALSE, !.drawn = unset]
    OBVIOUS
  <2>2. p \in Public /\ p.mounted = FALSE
    BY <1>1, <2>1 DEF Public
  <2>3. QED BY <1>5, <1>7, <2>1, <2>2 DEF unmountPublic
<1>8. ASSUME NEW v \in Items, setSnapshot(v) PROVE DashboardInv'
  <2>1. PICK p : p = [public EXCEPT !.snapshot = v]
    OBVIOUS
  <2>2. p \in Public /\ p.mounted \in BOOLEAN
    BY <1>1, <2>1 DEF Public
  <2>3. public' = IF p.mounted THEN [p EXCEPT !.drawn = drawPublic(p)] ELSE p
    BY <1>8, <2>1 DEF setSnapshot
  <2>4. CASE p.mounted
    <3>1. [p EXCEPT !.drawn = drawPublic(p)] = [p EXCEPT !.mounted = TRUE, !.drawn = drawPublic(p)]
      BY <2>2, <2>4 DEF Public
    <3>2. QED BY <1>4, <2>2, <2>3, <2>4, <3>1
  <2>5. QED BY <1>5, <2>2, <2>3, <2>4
<1>9. QED BY <1>6, <1>7, <1>8

LEMMA WidgetActions ==
  ASSUME DashboardInv, mountWidget \/ unmountWidget \/ \E a \in Typed : updateAmount(a)
  PROVE  DashboardInv'
<1>1. widget \in Widget /\ UNCHANGED <<board, public>>
  BY DEF DashboardInv, mountWidget, unmountWidget, updateAmount
<1>2. ASSUME NEW w, w \in Widget, WidgetShown(w), widget' = w PROVE DashboardInv'
  BY <1>1, <1>2 DEF DashboardInv
<1>3. CASE mountWidget
  <2>1. PICK x : x = drawWidget(widget.mode, widget.amount)
    OBVIOUS
  <2>2. PICK w : w = [widget EXCEPT !.mounted = TRUE, !.drawn = x]
    OBVIOUS
  <2>3. x \in DrawnWidget
    BY <1>1, <2>1 DEF Widget, DrawnWidget
  <2>4. w \in Widget /\ w.mounted = TRUE /\ w.drawn = x /\ w.mode = widget.mode /\ w.amount = widget.amount
    BY <1>1, <2>2, <2>3 DEF Widget
  <2>5. WidgetShown(w)
    BY <2>1, <2>4 DEF WidgetShown
  <2>6. QED BY <1>2, <1>3, <2>1, <2>2, <2>4, <2>5 DEF mountWidget
<1>4. CASE unmountWidget
  <2>1. PICK w : w = [widget EXCEPT !.mounted = FALSE, !.drawn = unset]
    OBVIOUS
  <2>2. w \in Widget /\ w.drawn = unset
    BY <1>1, <2>1 DEF Widget
  <2>3. QED BY <1>2, <1>4, <2>1, <2>2 DEF unmountWidget, WidgetShown
<1>5. ASSUME NEW a \in Typed, updateAmount(a) PROVE DashboardInv'
  <2>1. PICK x : x = IF widget.mounted /\ IsNumber(a) THEN drawWidget(widget.mode, a) ELSE unset
    OBVIOUS
  <2>2. PICK w : w = [widget EXCEPT !.amount = a, !.drawn = x]
    OBVIOUS
  <2>3. x \in DrawnWidget \cup {unset}
    BY <1>1, <2>1 DEF Widget, DrawnWidget
  <2>4. /\ w \in Widget /\ w.mounted = widget.mounted /\ w.drawn = x /\ w.mode = widget.mode
        /\ w.amount = a
    BY <1>1, <2>2, <2>3 DEF Widget
  <2>5. WidgetShown(w)
    BY <2>1, <2>4 DEF WidgetShown
  <2>6. QED BY <1>2, <1>5, <2>1, <2>2, <2>4, <2>5 DEF updateAmount
<1>6. QED BY <1>3, <1>4, <1>5

LEMMA DashboardInvImplies == DashboardInv => PagesAreCurrent
<1> SUFFICES ASSUME DashboardInv PROVE PagesAreCurrent
  OBVIOUS
<1>1. ASSUME board.mounted
      PROVE  /\ board.drawn.tab = board.view
             /\ board.view # "generate" => board.drawn = drawBoard(board)
  BY <1>1 DEF DashboardInv, BoardShown, drawBoard, renderNavigation
<1>2. ASSUME OnGenerate, board.drawn.content.link # unset
      PROVE  /\ board.drawn.content.link.to = Hub
             /\ board.drawn.content.link.merchant = Merchant
             /\ board.drawn.content.link.amount > 0
  <2>1. board.drawn.content \in Form
    BY <1>2 DEF DashboardInv, BoardShown, OnGenerate
  <2>2. board.drawn.content.link \in Links
    BY <1>2, <2>1 DEF Form
  <2>3. QED BY <2>2 DEF Links, buildWalletLink
<1>3. public.mounted => public.drawn = drawPublic(public)
  BY DEF DashboardInv, PublicShown
<1>4. ASSUME widget.drawn # unset
      PROVE  /\ widget.mounted /\ widget.drawn.link.amount = widget.amount
             /\ formatTBC(widget.amount) = IF widget.mode = "inline" THEN widget.drawn.total
                                                                     ELSE widget.drawn.label
  <2>1. widget.mounted /\ widget.drawn = drawWidget(widget.mode, widget.amount)
    BY <1>4 DEF DashboardInv, WidgetShown
  <2>2. \A m, a : /\ drawWidget(m, a).link = generatePaymentLink(a)
                  /\ IF m = "inline" THEN drawWidget(m, a).total = formatTBC(a)
                                     ELSE drawWidget(m, a).label = formatTBC(a)
    BY DEF drawWidget, renderInline, renderButton, formatAmount
  <2>3. \A a : generatePaymentLink(a).amount = a
    BY DEF generatePaymentLink
  <2>4. QED BY <2>1, <2>2, <2>3
<1>5. QED BY <1>1, <1>2, <1>3, <1>4 DEF PagesAreCurrent

(* A mounted dashboard shows its present state, a link on it is one to the *)
(* merchant through the hub, and the widget offers its own amount or none, *)
(* after any sequence of mounting, navigation, typing and new data         *)
(* (rerender of both dashboards, updateAmount of the widget).              *)
THEOREM PagesStayCurrent == DashboardSpec => []PagesAreCurrent
<1>1. DashboardInit => DashboardInv
  BY DEF DashboardInit, DashboardInv, Board, BoardShown, Public, PublicShown, Widget, WidgetShown, View
<1>2. DashboardInv /\ [DashboardNext]_dashboardVars => DashboardInv'
  <2>1. DashboardInv /\ UNCHANGED dashboardVars => DashboardInv'
    BY DEF dashboardVars, DashboardInv
  <2>2. QED BY <2>1, BoardActions, PublicActions, WidgetActions DEF DashboardNext
<1>3. QED BY <1>1, <1>2, DashboardInvImplies, PTL DEF DashboardSpec

-----------------------------------------------------------------------------
(* The SDK: the chain and the API only grow, and a call carries what it    *)
(* has read of them.                                                       *)
Outs == {<<m>> : m \in Messages} \cup {<<[kind |-> "other"], m>> : m \in Messages}
Tx == [now : Nat, block : Nat \cup {absent}, out : Outs, aborted : BOOLEAN]
Ids == Sums \X Seller \X Order \X Nat
Expiry == {absent} \cup {s + l : s \in Nat, l \in Lifetimes}
ApiRow == [id : Ids, expiresAt : Expiry, settled : BOOLEAN]

Paid(k, expected, depth) ==
  /\ k \in 1..Len(txs)
  /\ ~ txs[k].aborted
  /\ \E e \in ToSet(txs[k].out) : /\ e.kind = "payment"
                                  /\ e.merchant = expected.merchant /\ e.amount = expected.amount
  /\ SealedSince(depth, txs[k])

CheckInv(r) ==
  /\ r.step \in {"getMasterchainInfo", "lookupBlock"} => r.tx \in 1..Len(txs)
  /\ r.step = "lookupBlock" => r.head \in Nat /\ r.head <= blocks
  /\ r.step = "verified" /\ r.got.isValid /\ r.got.matchesInvoice
       => /\ r.got.confirmations \in Nat /\ r.got.confirmations <= blocks
          /\ Paid(r.tx, r.expected, r.got.confirmations)
  /\ r.step = "getSettlement" => r.of \in 1..Len(api)
  /\ r.step = "answered" /\ r.status = "settled" => r.of \in 1..Len(api) /\ api[r.of].settled

SdkData ==
  /\ seconds \in Nat
  /\ sealed \in Seq(Nat)
  /\ \A b \in 1..blocks : sealed[b] <= seconds /\ \A d \in 1..b : sealed[d] <= sealed[b]
  /\ txs \in Seq(Tx) /\ \A k \in 1..Len(txs) : txs[k].now <= seconds
  /\ api \in Seq(ApiRow)

SdkInv ==
  /\ SdkData
  /\ checks = [c \in Check |-> checks[c]]
  /\ \A c \in Check : CheckInv(checks[c])

LEMMA TxShape == \A tx \in Tx : tx.now \in Nat /\ tx.out \in Outs
BY DEF Tx

(* The world goes on: what a call has read stays true. Blocks are only     *)
(* added, and not before the transactions there are.                       *)
LEMMA WorldStep ==
  ASSUME SdkInv, SdkData', checks' = checks,
         \/ sealed' = sealed
         \/ sealed' = Append(sealed, seconds),
         Len(txs') >= Len(txs),
         \A k \in 1..Len(txs) : /\ txs'[k].now = txs[k].now /\ txs'[k].out = txs[k].out
                                /\ txs'[k].aborted = txs[k].aborted,
         Len(api') >= Len(api), \A k \in 1..Len(api) : api[k].settled => api'[k].settled
  PROVE  SdkInv'
<1>1. /\ sealed \in Seq(Nat) /\ seconds \in Nat /\ Len(txs) \in Nat /\ Len(txs') \in Nat
      /\ Len(api) \in Nat /\ Len(api') \in Nat
      /\ \A k \in 1..Len(txs) : txs[k].now \in Nat /\ txs[k].now <= seconds
  BY TxShape DEF SdkInv, SdkData
<1>2. /\ 1..Len(txs) \subseteq 1..Len(txs') /\ 1..Len(api) \subseteq 1..Len(api')
  BY <1>1
<1>3. /\ blocks \in Nat /\ blocks' \in Nat /\ blocks <= blocks'
      /\ \A b \in 1..blocks : sealed'[b] = sealed[b]
      /\ \A b \in 1..blocks' : b \in 1..blocks \/ sealed'[b] = seconds
  <2>1. CASE sealed' = sealed
    BY <1>1, <2>1 DEF blocks
  <2>2. CASE sealed' = Append(sealed, seconds)
    BY <1>1, <2>2 DEF blocks
  <2>3. QED BY <2>1, <2>2
<1>4. ASSUME NEW k, NEW e, NEW d \in Nat, d <= blocks, Paid(k, e, d) PROVE Paid(k, e, d)'
  <2>1. /\ k \in 1..Len(txs) /\ k \in 1..Len(txs') /\ txs'[k].now = txs[k].now
        /\ txs'[k].out = txs[k].out /\ txs'[k].aborted = txs[k].aborted
        /\ txs[k].now \in Nat /\ txs[k].now <= seconds
    BY <1>1, <1>2, <1>4 DEF Paid
  <2>2. \A b \in (blocks - d + 1)..blocks : sealed[b] >= txs[k].now
    BY <1>4 DEF Paid, SealedSince
  <2>3. ASSUME NEW b \in (blocks' - d + 1)..blocks' PROVE sealed'[b] >= txs'[k].now
    <3>1. b \in Int /\ b >= blocks - d + 1 /\ b <= blocks' /\ b >= 1
      <4>1. PICK m, n : m = blocks /\ n = blocks'
        OBVIOUS
      <4>2. m \in Nat /\ n \in Nat /\ m <= n /\ d \in Nat /\ d <= m /\ b \in (n - d + 1)..n
        BY <1>3, <1>4, <2>3, <4>1
      <4>3. b \in Int /\ b >= m - d + 1 /\ b <= n /\ b >= 1
        BY <4>2
      <4>4. QED BY <4>1, <4>3
    <3>2. b \in 1..blocks'
      BY <1>3, <3>1
    <3>3. CASE b \in 1..blocks
      <4>1. b \in (blocks - d + 1)..blocks
        BY <1>3, <3>1, <3>3
      <4>2. QED BY <1>3, <2>1, <2>2, <3>3, <4>1
    <3>4. CASE b \notin 1..blocks
      <4>1. sealed'[b] = seconds
        BY <1>3, <3>2, <3>4
      <4>2. QED BY <1>1, <2>1, <4>1
    <3>5. QED BY <3>3, <3>4
  <2>4. SealedSince(d, txs[k])'
    BY <2>3 DEF SealedSince
  <2>5. QED BY <1>4, <2>1, <2>4 DEF Paid
<1>5. ASSUME NEW c \in Check PROVE CheckInv(checks[c])'
  <2>1. CheckInv(checks[c]) /\ checks'[c] = checks[c]
    BY DEF SdkInv
  <2>2. QED BY <1>1, <1>2, <1>3, <1>4, <2>1 DEF CheckInv
<1>6. QED BY <1>5 DEF SdkInv

(* A call goes to its next step.                                           *)
LEMMA CheckStep ==
  ASSUME SdkInv, NEW c \in Check, NEW v, CheckInv(v), Goes(c, v)
  PROVE  SdkInv'
<1>1. /\ checks' = [checks EXCEPT ![c] = v]
      /\ UNCHANGED <<sealed, txs, seconds, api>>
  BY DEF Goes
<1>2. checks' = [d \in Check |-> checks'[d]] /\ \A d \in Check : checks'[d] = v \/ checks'[d] = checks[d]
  BY <1>1 DEF SdkInv
<1>3. \A r : CheckInv(r) => CheckInv(r)'
  BY <1>1 DEF CheckInv, Paid, SealedSince, blocks
<1>4. ASSUME NEW d \in Check PROVE CheckInv(checks[d])'
  BY <1>2, <1>3 DEF SdkInv
<1>5. SdkData'
  BY <1>1 DEF SdkInv, SdkData, blocks
<1>6. QED BY <1>2, <1>4, <1>5 DEF SdkInv

(* What is found of a transaction is one of its messages, and a payment.   *)
LEMMA ExtractLemma ==
  ASSUME NEW tx \in Tx, extractMerchantPayment(tx) # absent
  PROVE  /\ extractMerchantPayment(tx) \in ToSet(tx.out)
         /\ extractMerchantPayment(tx).kind = "payment"
<1> DEFINE events == {i \in DOMAIN tx.out : tx.out[i].kind = "payment"}
<1>1. events # {} /\ extractMerchantPayment(tx) = tx.out[CHOOSE i \in events : \A j \in events : i <= j]
  BY DEF extractMerchantPayment
<1>2. DOMAIN tx.out \subseteq {1, 2}
  BY TxShape DEF Outs
<1>3. \E i \in events : \A j \in events : i <= j
  <2>1. events \subseteq {1, 2}
    BY <1>2
  <2>2. CASE 1 \in events
    BY <2>1, <2>2
  <2>3. CASE 1 \notin events
    <3>1. events = {2} /\ 2 <= 2
      BY <1>1, <2>1, <2>3
    <3>2. QED BY <3>1
  <2>4. QED BY <2>2, <2>3
<1>4. PICK i : i = CHOOSE k \in events : \A j \in events : k <= j
  OBVIOUS
<1> HIDE DEF events
<1>5. i \in events
  BY <1>3, <1>4
<1>6. extractMerchantPayment(tx) = tx.out[i]
  BY <1>1, <1>4
<1>7. QED BY <1>5, <1>6 DEF events, ToSet

(* Whichever block lookupBlock has for a moment, the later ones were       *)
(* sealed since.                                                           *)
LEMMA LookupLemma ==
  ASSUME SdkData, NEW u \in Nat, NEW i \in lookupBlock(u)
  PROVE  i \in 1..blocks /\ \A b \in 1..blocks : b > i => sealed[b] >= u
<1>1. /\ blocks \in Nat /\ \A b \in 1..blocks : sealed[b] \in Nat
      /\ \A b \in 1..blocks : \A d \in 1..b : sealed[d] <= sealed[b]
  BY DEF SdkData, blocks
<1>2. i \in 1..blocks
  BY DEF lookupBlock
<1>3. ASSUME NEW b \in 1..blocks, b > i PROVE sealed[b] >= u
  <2>1. CASE sealed[i] <= u /\ \A d \in 1..blocks : sealed[d] <= u => d <= i
    <3>1. ~ (sealed[b] <= u)
      BY <1>1, <1>2, <1>3, <2>1
    <3>2. sealed[b] \in Nat
      BY <1>1
    <3>3. QED BY <3>1, <3>2
  <2>2. CASE sealed[i] >= u
    <3>1. i \in 1..b
      BY <1>1, <1>2, <1>3
    <3>2. sealed[i] <= sealed[b] /\ sealed[i] \in Nat /\ sealed[b] \in Nat
      BY <1>1, <1>2, <3>1
    <3>3. QED BY <2>2, <3>2
  <2>3. QED BY <2>1, <2>2 DEF lookupBlock
<1>4. QED BY <1>2, <1>3

LEMMA ResolveInv ==
  ASSUME SdkInv, NEW c \in Check, resolveTransactionSeqno(c)
  PROVE  SdkInv'
<1>1. PICK r : r = checks[c]
  OBVIOUS
<1>2. PICK tx : tx = txs[r.tx]
  OBVIOUS
<1>3. PICK seqno \in lookupBlock(tx.now) \cup {absent} :
        Goes(c, [step |-> "verified", tx |-> r.tx, expected |-> r.expected,
                 got |-> [isValid |-> ~ tx.aborted,
                          confirmations |-> computeConfirmations(r.head, seqno),
                          matchesInvoice |-> MatchesInvoice(extractMerchantPayment(tx), r.expected)]])
  BY <1>1, <1>2 DEF resolveTransactionSeqno
<1>4. PICK n : n = computeConfirmations(r.head, seqno)
  OBVIOUS
<1>5. PICK m : m = MatchesInvoice(extractMerchantPayment(tx), r.expected)
  OBVIOUS
<1>6. PICK g : g = [isValid |-> ~ tx.aborted, confirmations |-> n, matchesInvoice |-> m]
  OBVIOUS
<1>7. PICK v : v = [step |-> "verified", tx |-> r.tx, expected |-> r.expected, got |-> g]
  OBVIOUS
<1>8. r.step = "lookupBlock" /\ Goes(c, v)
  BY <1>1, <1>3, <1>4, <1>5, <1>6, <1>7 DEF resolveTransactionSeqno
<1>9. r.tx \in 1..Len(txs) /\ r.head \in Nat /\ r.head <= blocks
  BY <1>1, <1>8 DEF SdkInv, CheckInv
<1>10. tx \in Tx /\ tx.now \in Nat /\ blocks \in Nat /\ SdkData
  BY <1>2, <1>9, TxShape DEF SdkInv, SdkData, blocks
<1>11. n \in Nat /\ n <= blocks /\ SealedSince(n, tx)
  <2>1. CASE n = 0
    BY <1>10, <2>1 DEF SealedSince
  <2>2. CASE n # 0
    <3>1. seqno # absent /\ ~ (r.head <= seqno) /\ n = r.head - seqno
      BY <1>4, <2>2 DEF computeConfirmations
    <3>2. seqno \in 1..blocks /\ \A b \in 1..blocks : b > seqno => sealed[b] >= tx.now
      BY <1>3, <1>10, <3>1, LookupLemma
    <3>3. n \in Nat /\ n <= blocks
      BY <1>9, <1>10, <3>1, <3>2
    <3>4. \A b \in (blocks - n + 1)..blocks : b \in 1..blocks /\ b > seqno
      BY <1>9, <1>10, <3>1, <3>2
    <3>5. QED BY <3>2, <3>3, <3>4 DEF SealedSince
  <2>3. QED BY <2>1, <2>2
<1>12. ASSUME m, ~ tx.aborted PROVE Paid(r.tx, r.expected, n)
  <2>1. PICK e : e = extractMerchantPayment(tx)
    OBVIOUS
  <2>2. e # absent /\ e.merchant = r.expected.merchant /\ e.amount = r.expected.amount
    BY <1>5, <1>12, <2>1 DEF MatchesInvoice
  <2>3. e \in ToSet(tx.out) /\ e.kind = "payment"
    BY <1>10, <2>1, <2>2, ExtractLemma
  <2>4. QED BY <1>2, <1>9, <1>11, <1>12, <2>2, <2>3 DEF Paid
<1>13. /\ v.step = "verified" /\ v.tx = r.tx /\ v.expected = r.expected /\ v.got = g
       /\ g.isValid = (~ tx.aborted) /\ g.confirmations = n /\ g.matchesInvoice = m
  BY <1>6, <1>7
<1>14. v.got.isValid /\ v.got.matchesInvoice => Paid(v.tx, v.expected, v.got.confirmations)
  BY <1>12, <1>13
<1>15. CheckInv(v)
  BY <1>11, <1>13, <1>14 DEF CheckInv
<1>16. QED BY <1>8, <1>15, CheckStep

LEMMA VerifyInv ==
  ASSUME SdkInv, NEW c \in Check,
         \/ \E k \in 1..MaxTx, e \in Expected : verifySettlement(c, k, e)
         \/ \E ok \in BOOLEAN : readHead(c, ok)
  PROVE  SdkInv'
<1>1. \A t, e : CheckInv([step |-> "verified", tx |-> t, expected |-> e, got |-> Invalid])
  BY DEF CheckInv, Invalid
<1>2. ASSUME NEW k \in 1..MaxTx, NEW e \in Expected, verifySettlement(c, k, e) PROVE SdkInv'
  <2>1. CASE k \in 1..Len(txs)
    <3>1. Goes(c, [step |-> "getMasterchainInfo", tx |-> k, expected |-> e])
      BY <1>2, <2>1 DEF verifySettlement
    <3>2. CheckInv([step |-> "getMasterchainInfo", tx |-> k, expected |-> e])
      BY <2>1 DEF CheckInv
    <3>3. QED BY <3>1, <3>2, CheckStep
  <2>2. CASE k \notin 1..Len(txs)
    BY <1>1, <1>2, <2>2, CheckStep DEF verifySettlement
  <2>3. QED BY <2>1, <2>2
<1>3. ASSUME NEW ok \in BOOLEAN, readHead(c, ok) PROVE SdkInv'
  <2>1. PICK r : r = checks[c]
    OBVIOUS
  <2>2. r.tx \in 1..Len(txs) /\ blocks \in Nat
    BY <1>3, <2>1 DEF readHead, SdkInv, SdkData, CheckInv, blocks
  <2>3. CASE ok
    <3>1. Goes(c, [step |-> "lookupBlock", tx |-> r.tx, expected |-> r.expected, head |-> blocks])
      BY <1>3, <2>1, <2>3 DEF readHead
    <3>2. CheckInv([step |-> "lookupBlock", tx |-> r.tx, expected |-> r.expected, head |-> blocks])
      BY <2>2 DEF CheckInv
    <3>3. QED BY <3>1, <3>2, CheckStep
  <2>4. CASE ~ ok
    BY <1>1, <1>3, <2>1, <2>4, CheckStep DEF readHead
  <2>5. QED BY <2>3, <2>4
<1>4. QED BY <1>2, <1>3

LEMMA StatusInv ==
  ASSUME SdkInv, NEW c \in Check,
         \/ \E k \in 1..MaxLocal, s \in {200, 404, 429, 500} : get_invoice_status(c, k, s)
         \/ \E ok \in BOOLEAN : \/ getSettlement(c, ok)
                                \/ \E k \in 1..MaxLocal : getInvoiceStatus(c, k, ok)
  PROVE  SdkInv'
<1>1. ASSUME NEW k, NEW s, s = "settled" => k \in 1..Len(api) /\ api[k].settled
      PROVE  CheckInv([step |-> "answered", of |-> k, status |-> s])
  BY <1>1 DEF CheckInv
<1>2. ASSUME NEW k \in 1..MaxLocal, NEW h \in {200, 404, 429, 500}, get_invoice_status(c, k, h)
      PROVE  SdkInv'
  <2>1. PICK code : code = IF h = 200 /\ k \notin 1..Len(api) THEN 404 ELSE h
    OBVIOUS
  <2>2. PICK s : s = IF code = 200 THEN StatusOfRow(api[k]) ELSE ErrorClass(code)
    OBVIOUS
  <2>3. code \in {404, 429, 500} => ErrorClass(code) # "settled"
    BY DEF ErrorClass
  <2>4. code \in {404, 429, 500} \/ (code = 200 /\ k \in 1..Len(api))
    BY <2>1
  <2>5. s = "settled" => k \in 1..Len(api) /\ api[k].settled
    BY <2>2, <2>3, <2>4 DEF StatusOfRow
  <2>6. Goes(c, [step |-> "answered", of |-> k, status |-> s])
    BY <1>2, <2>1, <2>2 DEF get_invoice_status
  <2>7. QED BY <1>1, <2>5, <2>6, CheckStep
<1>3. ASSUME NEW ok \in BOOLEAN, getSettlement(c, ok) PROVE SdkInv'
  <2>1. PICK r : r = checks[c]
    OBVIOUS
  <2>2. r.of \in 1..Len(api)
    BY <1>3, <2>1 DEF getSettlement, SdkInv, CheckInv
  <2>3. PICK s : s = IF ok /\ api[r.of].settled THEN "settled" ELSE "pending"
    OBVIOUS
  <2>4. Goes(c, [step |-> "answered", of |-> r.of, status |-> s])
    BY <1>3, <2>1, <2>3 DEF getSettlement
  <2>5. s = "settled" => r.of \in 1..Len(api) /\ api[r.of].settled
    BY <2>2, <2>3
  <2>6. QED BY <1>1, <2>4, <2>5, CheckStep
<1>4. ASSUME NEW ok \in BOOLEAN, NEW k \in 1..MaxLocal, getInvoiceStatus(c, k, ok) PROVE SdkInv'
  <2>1. \/ Goes(c, [step |-> "answered", of |-> k, status |-> "error"])
        \/ Goes(c, [step |-> "answered", of |-> k, status |-> "expired"])
        \/ k \in 1..Len(api) /\ Goes(c, [step |-> "getSettlement", of |-> k])
    <3>1. CASE ~ ok \/ k \notin 1..Len(api)
      BY <1>4, <3>1 DEF getInvoiceStatus
    <3>2. CASE ok /\ k \in 1..Len(api) /\ isExpired(api[k].expiresAt)
      BY <1>4, <3>2 DEF getInvoiceStatus
    <3>3. CASE ok /\ k \in 1..Len(api) /\ ~ isExpired(api[k].expiresAt)
      BY <1>4, <3>3 DEF getInvoiceStatus
    <3>4. QED BY <3>1, <3>2, <3>3
  <2>2. k \in 1..Len(api) => CheckInv([step |-> "getSettlement", of |-> k])
    BY DEF CheckInv
  <2>3. QED BY <1>1, <2>1, <2>2, CheckStep
<1>5. QED BY <1>2, <1>3, <1>4

LEMMA WorldInv ==
  ASSUME SdkInv,
         \/ \E s \in Seller, n \in Sums, o \in Order, l \in Lifetimes \cup {absent} : createInvoice(s, n, o, l)
         \/ \E m \in Messages, early \in BOOLEAN, aborted \in BOOLEAN :
              HubTransaction(IF early THEN <<[kind |-> "other"], m>> ELSE <<m>>, aborted)
         \/ PassSecond \/ \E includes \in BOOLEAN : SealBlock(includes)
         \/ \E k \in 1..MaxLocal : ApiSettles(k)
  PROVE  SdkInv'
<1>0. checks' = checks
  BY DEF createInvoice, HubTransaction, SealBlock, PassSecond, ApiSettles
<1>1. /\ seconds \in Nat /\ Len(txs) \in Nat /\ Len(api) \in Nat /\ sealed \in Seq(Nat)
      /\ txs \in Seq(Tx) /\ api \in Seq(ApiRow) /\ checks' = checks
      /\ \A k \in 1..Len(txs) : txs[k].now <= seconds /\ txs[k].now \in Nat
      /\ \A b \in 1..blocks : /\ sealed[b] \in Nat /\ sealed[b] <= seconds
                              /\ \A d \in 1..b : sealed[d] <= sealed[b]
  BY <1>0, TxShape DEF SdkInv, SdkData, blocks
<1>2. ASSUME NEW s \in Seller, NEW n \in Sums, NEW o \in Order, NEW l \in Lifetimes \cup {absent},
             createInvoice(s, n, o, l)
      PROVE  SdkInv'
  <2>1. PICK x : x = IF l = absent THEN absent ELSE seconds + l
    OBVIOUS
  <2>2. x \in Expiry
    BY <1>1, <2>1 DEF Expiry
  <2>3. PICK row : row = [id |-> <<n, s, o, seconds>>, expiresAt |-> x, settled |-> FALSE]
    OBVIOUS
  <2>4. row \in ApiRow
    BY <1>1, <2>2, <2>3 DEF ApiRow, Ids
  <2>5. api' = Append(api, row) /\ UNCHANGED <<sealed, txs, seconds>>
    BY <1>2, <2>1, <2>3 DEF createInvoice, NewInvoice, generateInvoiceId
  <2>6. /\ api' \in Seq(ApiRow) /\ Len(api') = Len(api) + 1
        /\ \A k \in 1..Len(api) : api'[k] = api[k]
    BY <1>1, <2>4, <2>5
  <2>7. SdkData'
    BY <1>1, <2>5, <2>6 DEF SdkData, blocks
  <2>8. QED BY <1>1, <2>5, <2>6, <2>7, WorldStep
<1>3. ASSUME NEW m \in Messages, NEW early \in BOOLEAN, NEW aborted \in BOOLEAN,
             HubTransaction(IF early THEN <<[kind |-> "other"], m>> ELSE <<m>>, aborted)
      PROVE  SdkInv'
  <2>1. PICK out : out = IF early THEN <<[kind |-> "other"], m>> ELSE <<m>>
    OBVIOUS
  <2>2. PICK tx : tx = [now |-> seconds, block |-> absent, out |-> out, aborted |-> aborted]
    OBVIOUS
  <2>3. out \in Outs
    BY <2>1 DEF Outs
  <2>4. tx \in Tx /\ tx.now = seconds
    BY <1>1, <2>2, <2>3 DEF Tx
  <2>5. txs' = Append(txs, tx) /\ UNCHANGED <<sealed, seconds, api>>
    BY <1>3, <2>1, <2>2 DEF HubTransaction
  <2>6. /\ txs' \in Seq(Tx) /\ Len(txs') = Len(txs) + 1 /\ txs'[Len(txs) + 1] = tx
        /\ \A k \in 1..Len(txs) : txs'[k] = txs[k]
    BY <1>1, <2>4, <2>5
  <2>7. ASSUME NEW k \in 1..Len(txs') PROVE txs'[k].now <= seconds
    <3>1. k \in 1..Len(txs) \/ k = Len(txs) + 1
      BY <1>1, <2>6
    <3>2. QED BY <1>1, <2>4, <2>6, <3>1
  <2>8. SdkData'
    BY <1>1, <2>5, <2>6, <2>7 DEF SdkData, blocks
  <2>9. QED BY <1>1, <2>5, <2>6, <2>8, WorldStep
<1>4. ASSUME NEW includes \in BOOLEAN, SealBlock(includes) PROVE SdkInv'
  <2>1. sealed' = Append(sealed, seconds) /\ UNCHANGED <<seconds, api>>
    BY <1>4 DEF SealBlock
  <2>2. txs' = [k \in 1..Len(txs) |-> IF includes /\ txs[k].block = absent
                                       THEN [txs[k] EXCEPT !.block = blocks + 1] ELSE txs[k]]
    BY <1>1, <1>4 DEF SealBlock
  <2>3. ASSUME NEW k \in 1..Len(txs)
        PROVE  /\ txs'[k] \in Tx /\ txs'[k].now = txs[k].now /\ txs'[k].out = txs[k].out
               /\ txs'[k].aborted = txs[k].aborted
    <3>1. txs[k] \in Tx /\ blocks + 1 \in Nat
      BY <1>1 DEF blocks
    <3>2. txs'[k] = txs[k] \/ txs'[k] = [txs[k] EXCEPT !.block = blocks + 1]
      BY <2>2
    <3>3. QED BY <3>1, <3>2 DEF Tx
  <2>4. txs' \in Seq(Tx) /\ Len(txs') = Len(txs)
    BY <1>1, <2>2, <2>3
  <2>5. /\ blocks' = blocks + 1 /\ blocks \in Nat /\ sealed' \in Seq(Nat)
        /\ \A b \in 1..blocks' : \/ b \in 1..blocks /\ sealed'[b] = sealed[b]
                                 \/ b = blocks + 1 /\ sealed'[b] = seconds
    BY <1>1, <2>1 DEF blocks
  <2>6. ASSUME NEW b \in 1..blocks'
        PROVE  sealed'[b] <= seconds /\ \A d \in 1..b : sealed'[d] <= sealed'[b]
    <3>1. CASE b \in 1..blocks
      <4>1. \A d \in 1..b : d \in 1..blocks /\ sealed'[d] = sealed[d]
        BY <2>1, <2>5, <3>1, <1>1 DEF blocks
      <4>2. b \in 1..b
        BY <3>1, <2>5
      <4>3. QED BY <1>1, <3>1, <4>1, <4>2
    <3>2. CASE b = blocks + 1
      <4>1. sealed'[b] = seconds
        BY <2>5, <3>2
      <4>2. \A d \in 1..b : d \in 1..blocks'
        BY <2>5, <3>2
      <4>3. ASSUME NEW d \in 1..b PROVE sealed'[d] <= seconds
        <5>1. CASE d \in 1..blocks /\ sealed'[d] = sealed[d]
          BY <1>1, <5>1
        <5>2. CASE sealed'[d] = seconds
          BY <1>1, <5>2
        <5>3. QED BY <2>5, <4>2, <5>1, <5>2
      <4>4. QED BY <1>1, <4>1, <4>3
    <3>3. QED BY <2>5, <3>1, <3>2
  <2>7. SdkData'
    BY <1>1, <2>1, <2>3, <2>4, <2>5, <2>6 DEF SdkData
  <2>8. QED BY <1>1, <2>1, <2>3, <2>4, <2>7, WorldStep
<1>5. CASE PassSecond
  <2>1. seconds' = seconds + 1 /\ UNCHANGED <<txs, sealed, api>>
    BY <1>5 DEF PassSecond
  <2>2. SdkData'
    BY <1>1, <2>1 DEF SdkData, blocks
  <2>3. QED BY <1>1, <2>1, <2>2, WorldStep
<1>6. ASSUME NEW k \in 1..MaxLocal, ApiSettles(k) PROVE SdkInv'
  <2>1. k \in 1..Len(api) /\ UNCHANGED <<sealed, txs, seconds>>
    BY <1>6 DEF ApiSettles
  <2>2. PICK row : row = [api[k] EXCEPT !.settled = TRUE]
    OBVIOUS
  <2>3. row \in ApiRow /\ row.settled = TRUE
    <3>1. api[k] \in ApiRow
      BY <1>1, <2>1
    <3>2. QED BY <2>2, <3>1 DEF ApiRow
  <2>4. api' = [api EXCEPT ![k] = row]
    BY <1>6, <2>2 DEF ApiSettles
  <2>5. /\ api' \in Seq(ApiRow) /\ Len(api') = Len(api)
        /\ \A j \in 1..Len(api) : api'[j] = IF j = k THEN row ELSE api[j]
    BY <1>1, <2>1, <2>3, <2>4
  <2>6. SdkData'
    BY <1>1, <2>1, <2>5 DEF SdkData, blocks
  <2>7. QED BY <1>1, <2>1, <2>3, <2>5, <2>6, WorldStep
<1>7. QED BY <1>2, <1>3, <1>4, <1>5, <1>6

LEMMA SdkStepInv == SdkInv /\ [SdkNext]_sdkVars => SdkInv'
<1> SUFFICES ASSUME SdkInv, [SdkNext]_sdkVars PROVE SdkInv'
  OBVIOUS
<1>1. CASE UNCHANGED sdkVars
  BY <1>1 DEF sdkVars, SdkInv, SdkData, CheckInv, Paid, SealedSince, blocks
<1>2. ASSUME NEW v, MockOnly(v) PROVE SdkInv'
  BY <1>2 DEF MockOnly, SdkInv, SdkData, CheckInv, Paid, SealedSince, blocks
<1>3. ASSUME NEW k \in 1..MaxLocal, settle(k) \/ simulateSettlement(k) \/ registerSettlement(k)
      PROVE  SdkInv'
  BY <1>2, <1>3 DEF settle, simulateSettlement, registerSettlement
<1>4. CASE createMockSDK \/ reset \/ clear
  BY <1>2, <1>4 DEF createMockSDK, reset, clear
<1>5. ASSUME NEW c \in Check,
             \/ Forget(c)
             \/ \E k \in 1..MaxLocal, e \in Expected, auto \in BOOLEAN : MockAnswers(c, k, e, auto)
      PROVE  SdkInv'
  <2>1. CheckInv(NoCheck)
    BY DEF CheckInv, NoCheck
  <2>2. \A k, s, g : CheckInv([step |-> "mocked", of |-> k, status |-> s, got |-> g])
    BY DEF CheckInv
  <2>3. QED BY <1>5, <2>1, <2>2, CheckStep DEF Forget, MockAnswers
<1>6. QED BY <1>1, <1>3, <1>4, <1>5, WorldInv, VerifyInv, ResolveInv, StatusInv DEF SdkNext

(* A positive verdict of verifySettlement is true of the chain when it is  *)
(* given and ever after, and settled is only said of an invoice the API    *)
(* has settled, whatever happens between the requests of a call and        *)
(* however many calls run (verifySettlement, getInvoiceStatus).            *)
THEOREM VerdictsAreSound == SdkSpec => []VerdictIsSound
<1>1. SdkInit => SdkInv
  <2> SUFFICES ASSUME SdkInit PROVE SdkInv
    OBVIOUS
  <2>1. SdkData
    BY DEF SdkInit, SdkData, blocks
  <2>2. CheckInv(NoCheck)
    BY DEF CheckInv, NoCheck
  <2>3. QED BY <2>1, <2>2 DEF SdkInit, SdkInv
<1>2. SdkInv => VerdictIsSound
  BY DEF SdkInv, CheckInv, Paid, VerdictIsSound
<1>3. QED BY <1>1, <1>2, SdkStepInv, PTL DEF SdkSpec
=============================================================================
