----------------------------- MODULE Dashboard -----------------------------
(***************************************************************************)
(* The embeddable pages: the merchant dashboard, the transparency          *)
(* dashboard and the SDK's payment widget. Each keeps its state apart from *)
(* what it has drawn into its container, and draws everything anew on a    *)
(* change; what the merchant typed lives only in what is drawn.            *)
(***************************************************************************)
EXTENDS PaymentLink

CONSTANTS Items,        \* what the host passes to the setters
          Typed,        \* amounts typed or passed, in nanocoins, and nonsense
          Expirations,  \* minutes typed: a number or none
          Merchant, Hub, Payer,  \* the configuration; Hub or Payer may be missing
          unset         \* absent

VARIABLES board,        \* TonbankcardDashboard
          public,       \* TonbankcardTransparencyDashboard
          widget        \* TonbankcardPaymentWidget

dashboardVars == <<board, public, widget>>

View == {"overview", "payments", "generate", "webhooks"}

-----------------------------------------------------------------------------
(* What the pages draw of their state. *)
renderNavigation(b) == b.view
renderOverview(b) == b.stats
renderPayments(b) == b.payments
renderGenerate == [amount |-> unset, link |-> unset]
renderWebhooksView(b) == b.webhooks
renderContent(b) ==
  CASE b.view = "overview" -> renderOverview(b)
    [] b.view = "payments" -> renderPayments(b)
    [] b.view = "generate" -> renderGenerate
    [] b.view = "webhooks" -> renderWebhooksView(b)
drawBoard(b) ==
  [tab |-> renderNavigation(b), content |-> renderContent(b)]
redrawn(b) == IF b.mounted THEN [b EXCEPT !.drawn = drawBoard(b)] ELSE b

(* The header's stamp and each section show the same snapshot.             *)
renderPublicHeader(p) == p.snapshot
renderProtocolMetricsSection(p) == p.snapshot
renderLockActivitySection(p) == p.snapshot
renderParameterChangesSection(p) == p.snapshot
drawPublic(p) ==
  IF p.snapshot = unset
    THEN [stamp |-> unset, empty |-> TRUE]
    ELSE [stamp |-> renderPublicHeader(p), metrics |-> renderProtocolMetricsSection(p),
          locks |-> renderLockActivitySection(p), changes |-> renderParameterChangesSection(p)]

(* The widget's link asks for a plain transfer to the merchant's account;  *)
(* building it throws unless the amount is a number.                       *)
IsNumber(a) == a \in Nat
generatePaymentLink(a) == [to |-> Merchant, amount |-> a]
formatAmount(a) == formatTBC(a)
renderButton(a) == [label |-> formatAmount(a), link |-> generatePaymentLink(a)]
renderInline(a) == [label |-> "Pay", link |-> generatePaymentLink(a), total |-> formatAmount(a)]
drawWidget(mode, a) == IF mode = "inline" THEN renderInline(a) ELSE renderButton(a)

DashboardInit ==
  /\ board = [mounted |-> FALSE, view |-> "overview", stats |-> unset,
              payments |-> unset, webhooks |-> unset, drawn |-> unset]
  /\ public = [mounted |-> FALSE, snapshot |-> unset, drawn |-> unset]
  /\ \E a \in Typed, mode \in {"button", "inline"} :
       widget = [mounted |-> FALSE, mode |-> mode, amount |-> a, drawn |-> unset]

-----------------------------------------------------------------------------
mountBoard ==
  /\ ~ board.mounted
  /\ board' = [board EXCEPT !.mounted = TRUE, !.drawn = drawBoard(board)]
  /\ UNCHANGED <<public, widget>>

unmountBoard ==
  /\ board.mounted
  /\ board' = [board EXCEPT !.mounted = FALSE, !.drawn = unset]
  /\ UNCHANGED <<public, widget>>

setStats(v) == board' = redrawn([board EXCEPT !.stats = v]) /\ UNCHANGED <<public, widget>>
setPayments(v) == board' = redrawn([board EXCEPT !.payments = v]) /\ UNCHANGED <<public, widget>>
setWebhooks(v) == board' = redrawn([board EXCEPT !.webhooks = v]) /\ UNCHANGED <<public, widget>>
navigateTo(v) == board' = redrawn([board EXCEPT !.view = v]) /\ UNCHANGED <<public, widget>>

OnGenerate == board.mounted /\ board.view = "generate"

typeAmount(a) ==
  /\ OnGenerate
  /\ board' = [board EXCEPT !.drawn.content.amount = a]
  /\ UNCHANGED <<public, widget>>

(* generateInvoiceLink throws on a missing address, a bad amount or a bad  *)
(* expiration; the click then changes nothing.                             *)
LinkPossible(amount, minutes) ==
  /\ Hub # unset /\ Payer # unset /\ IsNumber(amount)
  /\ LinkAllowed(Hub, Merchant, Payer, amount)
  /\ minutes # unset => minutes > 0

generateInvoiceLink(minutes) ==
  LET typed == board.drawn.content.amount
      amount == IF typed = unset THEN 0 ELSE typed IN
  /\ OnGenerate
  /\ LinkPossible(amount, minutes)
  /\ board' = [board EXCEPT !.drawn.content.link =
                 buildWalletLink(Hub, Merchant, Payer, amount, "dashboard-payment")]
  /\ UNCHANGED <<public, widget>>

-----------------------------------------------------------------------------
mountPublic ==
  /\ ~ public.mounted
  /\ public' = [public EXCEPT !.mounted = TRUE, !.drawn = drawPublic(public)]
  /\ UNCHANGED <<board, widget>>

unmountPublic ==
  /\ public.mounted
  /\ public' = [public EXCEPT !.mounted = FALSE, !.drawn = unset]
  /\ UNCHANGED <<board, widget>>

setSnapshot(v) ==
  LET p == [public EXCEPT !.snapshot = v] IN
  /\ public' = IF p.mounted THEN [p EXCEPT !.drawn = drawPublic(p)] ELSE p
  /\ UNCHANGED <<board, widget>>

-----------------------------------------------------------------------------
(* Drawing throws on a bad amount: a widget being mounted stays unmounted. *)
mountWidget ==
  /\ ~ widget.mounted /\ IsNumber(widget.amount)
  /\ widget' = [widget EXCEPT !.mounted = TRUE, !.drawn = drawWidget(widget.mode, widget.amount)]
  /\ UNCHANGED <<board, public>>

unmountWidget ==
  /\ widget.mounted
  /\ widget' = [widget EXCEPT !.mounted = FALSE, !.drawn = unset]
  /\ UNCHANGED <<board, public>>

ClearOnlyWhenDrawn(a) ==
  /\ widget' = IF widget.mounted /\ IsNumber(a)
                 THEN [widget EXCEPT !.amount = a, !.drawn = drawWidget(widget.mode, a)]
                 ELSE [widget EXCEPT !.amount = a]
  /\ UNCHANGED <<board, public>>

(* The container is cleared before it is drawn, so a bad amount leaves it  *)
(* empty.                                                                  *)
updateAmount(a) ==
  /\ widget' = [widget EXCEPT !.amount = a,
                  !.drawn = IF widget.mounted /\ IsNumber(a) THEN drawWidget(widget.mode, a) ELSE unset]
  /\ UNCHANGED <<board, public>>

DashboardNext ==
  \/ mountBoard \/ unmountBoard \/ mountPublic \/ unmountPublic
  \/ mountWidget \/ unmountWidget
  \/ \E v \in Items : setStats(v) \/ setPayments(v) \/ setWebhooks(v) \/ setSnapshot(v)
  \/ \E v \in View : navigateTo(v)
  \/ \E a \in Typed : typeAmount(a) \/ updateAmount(a)
  \/ \E m \in Expirations \cup {unset} : generateInvoiceLink(m)

DashboardSpec == DashboardInit /\ [][DashboardNext]_dashboardVars

-----------------------------------------------------------------------------
(* A mounted page shows its present state and nothing older, through any   *)
(* order of mounting, navigation and new data, before or after mounting;   *)
(* the widget never offers to pay another amount than its own, and a link  *)
(* on the dashboard is one to this merchant through the hub                *)
(* (rerender of both dashboards, updateAmount of the widget).              *)
PagesAreCurrent ==
  /\ board.mounted => /\ board.drawn.tab = board.view
                      /\ board.view # "generate" => board.drawn = drawBoard(board)
                      /\ OnGenerate /\ board.drawn.content.link # unset =>
                            /\ board.drawn.content.link.to = Hub
                            /\ board.drawn.content.link.merchant = Merchant
                            /\ board.drawn.content.link.amount > 0
  /\ public.mounted => public.drawn = drawPublic(public)
  /\ widget.drawn # unset => /\ widget.mounted
                             /\ widget.drawn.link.amount = widget.amount
                             /\ formatTBC(widget.amount) =
                                  IF widget.mode = "inline" THEN widget.drawn.total
                                                            ELSE widget.drawn.label

(* A mounted widget offers a payment. Refuted: updateAmount with a bad     *)
(* amount empties the container and leaves the widget mounted.             *)
MountedWidgetOffersPayment == widget.mounted => widget.drawn # unset
=============================================================================
