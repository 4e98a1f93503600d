------------------------------ MODULE WalletUI ------------------------------
(***************************************************************************)
(* wallet-ui: the TON Connect connector and the wallet page around it, in  *)
(* every browser tab that has the page open. The tabs share one entry of   *)
(* localStorage (`stored`), which a tab reads when it is opened and never  *)
(* again; everything else is the tab's own.                                *)
(*                                                                         *)
(* What the page displays is abstracted to what render() reads: the view,  *)
(* the account and the transactions the host gave it, and the session. The *)
(* wallet apps are external: a wallet whose link was opened may approve,   *)
(* late or never. The walletId of a reply is optional: some wallets name   *)
(* themselves there, the others leave it to the session.                   *)
(***************************************************************************)
EXTENDS Naturals, Sequences

CONSTANTS Tab,          \* browser tabs with the page open
          BusyTab,      \* the tabs where the page is displayed
          Platform,     \* the platform detectPlatform sees
          NamingWallet, \* the wallets whose replies carry their walletId
          Data,         \* values the host passes to setAccount, setTransactions
          nil           \* absent

ASSUME WalletAssumption == BusyTab \subseteq Tab /\ nil \notin Data

VARIABLES session,      \* the connector's state in each tab
          stored,       \* the shared localStorage entry, nil when removed
          page,         \* the WalletApp of each tab
          asks          \* wallets with a connection link opened from a tab

walletVars == <<session, stored, page, asks>>

-----------------------------------------------------------------------------
(* KNOWN_WALLETS: the links each wallet has and the platforms it runs on.  *)
Desktop == {"macos", "windows", "linux"}
KNOWN_WALLETS ==
  [tonkeeper |-> [links |-> {"universal", "deep"},
                  platforms |-> {"ios", "android"} \cup Desktop],
   tonhub |-> [links |-> {"universal"}, platforms |-> {"ios", "android"}],
   openmask |-> [links |-> {}, platforms |-> {"browser-extension"}],
   mytonwallet |-> [links |-> {"universal", "deep"},
                    platforms |-> {"ios", "android", "web"} \cup Desktop]]
Wallet == DOMAIN KNOWN_WALLETS
ASSUME NamingAssumption == NamingWallet \subseteq Wallet

WalletOrder == <<"tonkeeper", "tonhub", "openmask", "mytonwallet">>

walletsForPlatform(p) ==
  {w \in Wallet : p = "unknown" \/ p \in KNOWN_WALLETS[w].platforms}
visibleWallets == walletsForPlatform(Platform)

(* buildWalletConnectLink takes either link, buildWalletTransferLink only  *)
(* the universal one; without one, the page falls back to ton://transfer.  *)
HasConnectLink(w) == KNOWN_WALLETS[w].links # {}
HasTransferLink(w) == "universal" \in KNOWN_WALLETS[w].links

(* The QR code of the selector is the link of the first such wallet.       *)
QRWallets == {i \in DOMAIN WalletOrder : /\ WalletOrder[i] \in visibleWallets
                                         /\ HasTransferLink(WalletOrder[i])}

(* The account in a wallet app: one per wallet.                            *)
AddressOf(w) == w

Disconnected == [status |-> "disconnected", walletId |-> nil, address |-> nil]
Pending(w) == [status |-> "pending", walletId |-> w, address |-> nil]
Connected(w, a) == [status |-> "connected", walletId |-> w, address |-> a]

loadState == IF stored = nil THEN Disconnected ELSE stored

buildPaymentLink(s) ==
  IF s.status = "connected" /\ HasTransferLink(s.walletId)
    THEN s.walletId ELSE "ton"

-----------------------------------------------------------------------------
(* What the page shows of its state. *)
renderBalanceView(p) == p.account
renderTransactionsView(p) == p.transactions
renderSettingsView(p) == p.account
renderConnectButton(s) ==
  CASE s.status = "connected" -> "Disconnect"
    [] s.status = "pending" -> "Waiting for wallet..."
    [] OTHER -> "Connect Wallet"
renderConnectorStatus(s) ==
  [label |-> IF s.status = "connected" THEN s.address ELSE s.status,
   cancel |-> s.status = "pending"]

render(p, s) ==
  [view |-> p.view,
   content |-> CASE p.view = "balance" -> renderBalanceView(p)
                 [] p.view = "transactions" -> renderTransactionsView(p)
                 [] p.view = "settings" -> renderSettingsView(p),
   button |-> renderConnectButton(s),
   badge |-> renderConnectorStatus(s)]

Blank == [subscribed |-> TRUE, mounted |-> FALSE, view |-> "balance",
          account |-> nil, transactions |-> nil, selector |-> FALSE,
          shown |-> nil]

(* A change of the page's own state: a mounted page is rendered again.     *)
Rerendered(p, s) == IF p.mounted THEN [p EXCEPT !.shown = render(p, s)] ELSE p

(* updateState of the connector: memory, storage, then the events, on      *)
(* which handleConnectorEvent renders again while the page is subscribed.  *)
Handled(p, s) == IF p.subscribed THEN Rerendered(p, s) ELSE p
updateState(t, s) ==
  /\ session' = [session EXCEPT ![t] = s]
  /\ stored' = IF s.status = "disconnected" THEN nil ELSE s
  /\ page' = [page EXCEPT ![t] = Handled(@, s)]

-----------------------------------------------------------------------------
WalletInit ==
  /\ session = [t \in Tab |-> Disconnected]
  /\ stored = nil
  /\ page = [t \in Tab |-> Blank]
  /\ asks = [t \in Tab |-> {}]

(* Opening or reloading the page in a tab: the constructors of the page    *)
(* and of its connector.                                                   *)
Open(t) ==
  /\ session' = [session EXCEPT ![t] = loadState]
  /\ page' = [page EXCEPT ![t] = Blank]
  /\ asks' = [asks EXCEPT ![t] = {}]
  /\ UNCHANGED stored

mount(t) ==
  /\ ~ page[t].mounted
  /\ page' = [page EXCEPT ![t] = Rerendered([@ EXCEPT !.mounted = TRUE], session[t])]
  /\ UNCHANGED <<session, stored, asks>>

unmount(t) ==
  /\ page' = [page EXCEPT ![t] =
       [@ EXCEPT !.selector = FALSE, !.subscribed = FALSE,
                 !.mounted = FALSE, !.shown = nil]]
  /\ UNCHANGED <<session, stored, asks>>

setAccount(t, a) ==
  /\ page' = [page EXCEPT ![t] = Rerendered([@ EXCEPT !.account = a], session[t])]
  /\ UNCHANGED <<session, stored, asks>>

setTransactions(t, txs) ==
  /\ page' = [page EXCEPT ![t] = Rerendered([@ EXCEPT !.transactions = txs], session[t])]
  /\ UNCHANGED <<session, stored, asks>>

renderNav(t, view) ==
  /\ page[t].mounted
  /\ page' = [page EXCEPT ![t] = Rerendered([@ EXCEPT !.view = view], session[t])]
  /\ UNCHANGED <<session, stored, asks>>

openWalletSelector(t) ==
  /\ ~ page[t].selector
  /\ page' = [page EXCEPT ![t].selector = TRUE]
  /\ UNCHANGED <<session, stored, asks>>

closeSelector(t) ==
  /\ page[t].selector
  /\ page' = [page EXCEPT ![t].selector = FALSE]
  /\ UNCHANGED <<session, stored, asks>>

(* A click on a wallet's row: the browser follows the link, the connector  *)
(* goes to pending, whatever it was, and the selector closes.              *)
onWalletSelected(t, w) ==
  /\ page[t].selector
  /\ w \in visibleWallets
  /\ HasConnectLink(w)
  /\ session' = [session EXCEPT ![t] = Pending(w)]
  /\ stored' = Pending(w)
  /\ page' = [page EXCEPT ![t] = Handled([@ EXCEPT !.selector = FALSE], Pending(w))]
  /\ asks' = [asks EXCEPT ![t] = @ \cup {w}]

(* The user scans the code with a phone: the wallet is asked, and the      *)
(* connector knows nothing of it.                                          *)
renderQRSection(t) ==
  /\ page[t].selector
  /\ \E i \in QRWallets : /\ \A j \in QRWallets : i <= j
                          /\ asks' = [asks EXCEPT ![t] = @ \cup {WalletOrder[i]}]
  /\ UNCHANGED <<session, stored, page>>

(* The wallet the reply names, else the one the session waits for.         *)
ReplyForSession(t, w) ==
  /\ session[t].status = "pending"
  /\ w \in asks[t]
  /\ asks' = [asks EXCEPT ![t] = @ \ {w}]
  /\ updateState(t, Connected(session[t].walletId, AddressOf(w)))

RepliedWallet(t, w) == IF w \in NamingWallet THEN w ELSE session[t].walletId

applyReply(t, w) ==
  /\ session[t].status = "pending"
  /\ w \in asks[t]
  /\ asks' = [asks EXCEPT ![t] = @ \ {w}]
  /\ updateState(t, Connected(RepliedWallet(t, w), AddressOf(w)))

(* A reply that finds the connector not waiting is refused.                *)
refuseReply(t, w) ==
  /\ session[t].status # "pending"
  /\ w \in asks[t]
  /\ asks' = [asks EXCEPT ![t] = @ \ {w}]
  /\ UNCHANGED <<session, stored, page>>

cancel(t) ==
  /\ session[t].status # "disconnected"
  /\ updateState(t, Disconnected)
  /\ UNCHANGED asks

disconnect(t) ==
  /\ session[t].status # "disconnected"
  /\ updateState(t, Disconnected)
  /\ UNCHANGED asks

WalletNext ==
  \E t \in Tab :
    \/ Open(t)
    \/ /\ t \in BusyTab
       /\ \/ mount(t) \/ unmount(t)
          \/ \E d \in Data : setAccount(t, d) \/ setTransactions(t, d)
          \/ \E v \in {"balance", "transactions", "settings"} : renderNav(t, v)
    \/ openWalletSelector(t) \/ closeSelector(t) \/ renderQRSection(t)
    \/ \E w \in Wallet :
         onWalletSelected(t, w) \/ applyReply(t, w) \/ refuseReply(t, w)
    \/ cancel(t) \/ disconnect(t)

WalletSpec == WalletInit /\ [][WalletNext]_walletVars

-----------------------------------------------------------------------------
(* "Re-renders the UI on every status change so the badge and button       *)
(* reflect the latest session state" (handleConnectorEvent): while the     *)
(* page listens to its connector, what it shows is what render() would     *)
(* show now, whichever of its setters, tabs and connector events came      *)
(* last.                                                                   *)
ViewIsCurrent ==
  \A t \in Tab : page[t].mounted /\ page[t].subscribed
    => page[t].shown = render(page[t], session[t])

(* The same for every mounted page. unmount() drops the subscription and   *)
(* mount() does not take it up again, so a page mounted a second time      *)
(* keeps showing the session of that moment.                               *)
MountedViewIsCurrent ==
  \A t \in Tab : page[t].mounted => page[t].shown = render(page[t], session[t])

(* The sessions of the tabs, and the one in the storage they share.        *)
Sessions == {session[t] : t \in Tab} \cup ({stored} \ {nil})

JoinsItsAddress(s) ==
  s.status = "connected" => /\ s.address = AddressOf(s.walletId)
                            /\ buildPaymentLink(s) \in {s.address, "ton"}

(* The address of a wallet that names itself is joined to that wallet,     *)
(* although its reply to an attempt given up may come in the middle of the *)
(* next one, a reload may restore a pending attempt of another tab, and    *)
(* either may be cancelled; and the payment link opens the wallet that     *)
(* holds the address.                                                      *)
AddressBelongsToWallet ==
  \A s \in Sessions :
    s.address \in {AddressOf(w) : w \in NamingWallet} => JoinsItsAddress(s)

(* The same for every wallet. The reply of a wallet that does not name     *)
(* itself is taken for that of the wallet the session waits for, so a late *)
(* one joins its address to the wallet chosen since.                       *)
EveryAddressBelongsToWallet == \A s \in Sessions : JoinsItsAddress(s)

(* WalletApp and its connector agree: a listening page shows the session   *)
(* there is, and joins the address of a naming wallet to that wallet.      *)
WalletShowsItsSession == ViewIsCurrent /\ AddressBelongsToWallet

(* The wallet a tab is connected to is the one its user chose last. A late *)
(* reply of an earlier choice refutes this.                                *)
ConnectedToLastChoice ==
  [][\A t \in Tab : session[t].status = "pending" /\ session'[t].status = "connected"
       => session'[t].walletId = session[t].walletId]_walletVars
=============================================================================
