---------------------------- MODULE PortalBilling ----------------------------
(***************************************************************************)
(* The billing page of the customer site: it creates payment orders, shows *)
(* one of them with its QR code, asks every three seconds whether that one *)
(* is paid, and lists the orders and the balance adjustments. Nothing      *)
(* numbers the requests: an answer is written whatever is on the screen by *)
(* then. Identical requests in flight at the same time are kept as one.    *)
(***************************************************************************)
EXTENDS Naturals, FiniteSets

CONSTANTS Orders, NoOrder,
          HistoryPages,     \* the pages of the order history
          MaxSyncs,         \* status requests in flight at a time
          MaxBillingActs    \* clicks that send a request

ASSUME BillingAssumption ==
    /\ NoOrder \notin Orders
    /\ Orders \intersect {"idle", "sent", "failed", "asking", "again", "reload",
                          "absent", "pending", "paid", "closed"} = {}
    /\ HistoryPages \in Nat \ {0} /\ MaxSyncs \in Nat /\ MaxBillingActs \in Nat

VARIABLES orders,        \* server: each order absent, pending, paid or closed
          plan,          \* server: whether an order buys a subscription plan
          enabledPlans,  \* subscriptionEnabled: the plans or the subscription were read
          summaryLoads,  \* loads of the summary in flight, by whether they are silent
          summaryLoading, userLoaded,
          tab,           \* activeTab
          payingFor,     \* the payment being created: "", balance or plan
          payment,       \* its request: idle, sent, failed, or the order created
          reopening, reopenStep,
          order,         \* paymentOrder: the order shown, with the status last told
          paymentOpen,
          syncs,         \* status requests in flight: [order, status]
          syncing,
          historyPage, historyLoading, historyLoads,
          billingActs

billingVars == <<orders, plan, enabledPlans, summaryLoads, summaryLoading, userLoaded, tab,
                 payingFor, payment, reopening, reopenStep, order, paymentOpen, syncs, syncing,
                 historyPage, historyLoading, historyLoads, billingActs>>
orderTable == <<orders, plan>>
summary == <<enabledPlans, summaryLoads, summaryLoading, userLoaded>>
create == <<payingFor, payment>>
reopen == <<reopening, reopenStep>>
shownPayment == <<order, paymentOpen>>
polling == <<syncs, syncing>>
history == <<historyPage, historyLoading, historyLoads>>

None == [id |-> NoOrder, status |-> "none"]
FinalAnswered(s) == s # "none"
Final(s) == s \in {"paid", "closed"}      \* paidStatus, failedStatus
BillingClick == billingActs < MaxBillingActs /\ billingActs' = billingActs + 1
\* The orders that are listed, each with the status it had when the list was read:
\* the button to go on paying may be there whatever the order is by now.
ListedOrders == {o \in Orders : orders[o] # "absent"}

-----------------------------------------------------------------------------
\* Loads that several handlers start. A silent one touches no spinner.
StartSummary(silent) ==
    /\ summaryLoads' = summaryLoads \union {silent}
    /\ enabledPlans' = FALSE
    /\ summaryLoading' = (summaryLoading \/ ~silent)
StartHistory(p, silent) ==
    /\ historyPage' = p
    /\ historyLoads' = historyLoads \union {[page |-> p, silent |-> silent]}
    /\ historyLoading' = (historyLoading \/ ~silent)

BillingInit ==
    /\ orders = [o \in Orders |-> "absent"] /\ plan = [o \in Orders |-> FALSE]
    /\ enabledPlans = FALSE /\ summaryLoading = TRUE /\ userLoaded = FALSE
    /\ summaryLoads = {}
    /\ tab = "closed" /\ payingFor = "" /\ payment = "idle"
    /\ reopening = NoOrder /\ reopenStep = "idle"
    /\ order = None /\ paymentOpen = FALSE /\ syncs = {} /\ syncing = FALSE
    /\ historyPage = 1 /\ historyLoading = TRUE
    /\ historyLoads = {}
    /\ billingActs = 0

\* The page is mounted: both lists are loaded.
OpenBilling ==
    /\ tab = "closed" /\ tab' = "balance"
    /\ StartSummary(FALSE) /\ StartHistory(1, FALSE)
    /\ UNCHANGED <<orderTable, userLoaded, create, reopen, shownPayment, polling, billingActs>>

\* The four reads of the summary are settled; a plan list and a subscription that
\* were refused mean that the account has no subscriptions.
ShowSummary(silent) ==
    /\ silent \in summaryLoads
    /\ summaryLoads' = summaryLoads \ {silent}
    /\ userLoaded' = TRUE
    /\ enabledPlans' \in {enabledPlans, TRUE}
    /\ summaryLoading' = (summaryLoading /\ silent)
    /\ UNCHANGED <<orderTable, tab, create, reopen, shownPayment, polling, history, billingActs>>

\* A page of the orders arrives, or its error: either ends the spinner.
HistoryAnswer(l) ==
    /\ l \in historyLoads
    /\ historyLoads' = historyLoads \ {l}
    /\ historyPage' \in {historyPage, l.page}
    /\ historyLoading' = (historyLoading /\ l.silent)
    /\ UNCHANGED <<orderTable, summary, tab, create, reopen, shownPayment, polling,
                   billingActs>>

\* The refresh buttons and the page buttons of the order history.
TurnHistory(p) ==
    /\ BillingClick /\ ~historyLoading
    /\ StartHistory(p, FALSE)
    /\ UNCHANGED <<orderTable, summary, tab, create, reopen, shownPayment, polling>>

PickTab(t) ==
    /\ tab \notin {t, "closed"}
    /\ t = "subscription" => enabledPlans
    /\ tab' = t
    /\ UNCHANGED <<orderTable, summary, create, reopen, shownPayment, polling, history,
                   billingActs>>

-----------------------------------------------------------------------------
\* createPayment. The buttons are disabled while a payment is being created; the
\* plans are shown, and accepted, only while subscriptions are enabled.
StartBalancePayment ==
    /\ BillingClick
    /\ userLoaded /\ payingFor = "" /\ (tab = "balance" \/ ~enabledPlans)
    /\ payingFor' = "balance" /\ payment' = "sent"
    /\ UNCHANGED <<orderTable, summary, tab, reopen, shownPayment, polling, history>>
StartPlanPayment ==
    /\ BillingClick
    /\ userLoaded /\ payingFor = "" /\ tab = "subscription" /\ enabledPlans
    /\ payingFor' = "plan" /\ payment' = "sent"
    /\ UNCHANGED <<orderTable, summary, tab, reopen, shownPayment, polling, history>>

NewOrder(o, isPlan) ==
    /\ orders[o] = "absent"
    /\ orders' = [orders EXCEPT ![o] = "pending"]
    /\ plan' = [plan EXCEPT ![o] = isPlan]
ServePayment ==
    /\ payment = "sent"
    /\ \/ \E o \in Orders : NewOrder(o, payingFor = "plan") /\ payment' = o
       \/ payment' = "failed" /\ UNCHANGED orderTable
    /\ UNCHANGED <<summary, tab, payingFor, reopen, shownPayment, polling, history,
                   billingActs>>
\* The new order replaces the one on the screen and the dialog opens.
ShowPayment ==
    /\ payment \notin {"idle", "sent"}
    /\ payingFor' = "" /\ payment' = "idle"
    /\ IF payment = "failed" THEN UNCHANGED <<shownPayment, history>>
       ELSE /\ order' = [id |-> payment, status |-> "pending"]
            /\ paymentOpen' = TRUE
            /\ StartHistory(1, FALSE)
    /\ UNCHANGED <<orderTable, summary, tab, reopen, polling, billingActs>>

\* reopenPayment: the old order is asked about first. A pending one is replaced
\* by a new order for the same amount or plan; a final one is only reported.
Reopen(o) ==
    /\ BillingClick
    /\ userLoaded /\ reopening = NoOrder /\ o \in ListedOrders
    /\ reopening' = o /\ reopenStep' = "asking"
    /\ UNCHANGED <<orderTable, summary, tab, create, shownPayment, polling, history>>
ServeReopen ==
    /\ \/ /\ reopenStep = "asking"
          /\ reopenStep' \in {orders[reopening], "failed"}
          /\ UNCHANGED orderTable
       \/ /\ reopenStep = "again"
          /\ \/ \E o \in Orders : NewOrder(o, plan[reopening]) /\ reopenStep' = o
             \/ reopenStep' = "failed" /\ UNCHANGED orderTable
    /\ UNCHANGED <<reopening, summary, tab, create, shownPayment, polling, history,
                   billingActs>>
ReopenAnswer ==
    /\ reopenStep \notin {"idle", "asking", "again", "reload"}
    /\ CASE reopenStep = "pending" ->
              reopenStep' = "again" /\ UNCHANGED <<reopening, summary, shownPayment, history>>
         [] reopenStep = "paid" ->
              /\ reopenStep' = "reload"
              /\ StartSummary(TRUE) /\ StartHistory(historyPage, TRUE)
              /\ UNCHANGED <<reopening, shownPayment, userLoaded>>
         [] reopenStep = "closed" ->
              /\ reopenStep' = "reload"
              /\ StartHistory(historyPage, TRUE)
              /\ UNCHANGED <<reopening, shownPayment, summary>>
         [] reopenStep = "failed" ->
              /\ reopening' = NoOrder /\ reopenStep' = "idle"
              /\ UNCHANGED <<shownPayment, summary, history>>
         [] OTHER ->
              /\ reopening' = NoOrder /\ reopenStep' = "idle"
              /\ order' = [id |-> reopenStep, status |-> "pending"] /\ paymentOpen' = TRUE
              /\ StartHistory(1, TRUE)
              /\ UNCHANGED summary
    /\ UNCHANGED <<orderTable, tab, create, polling, billingActs>>
\* The loads that a final order started are awaited before the row is enabled.
Reloaded ==
    /\ TRUE \notin summaryLoads
    /\ ~\E l \in historyLoads : l.silent
ReopenEnds ==
    /\ reopenStep = "reload" /\ Reloaded
    /\ reopening' = NoOrder /\ reopenStep' = "idle"
    /\ UNCHANGED <<orderTable, summary, tab, create, shownPayment, polling, history,
                   billingActs>>

-----------------------------------------------------------------------------
\* The interval of three seconds, or the button of the dialog: the status of
\* the order on the screen is asked for, even while an earlier request is out.
Sync(feedback) ==
    /\ userLoaded /\ order # None /\ ~Final(order.status)
    /\ Cardinality(syncs) < MaxSyncs
    /\ feedback => paymentOpen /\ ~syncing
    /\ syncs' = syncs \union {[order |-> order.id, status |-> "asked"]}
    /\ syncing' = TRUE
    /\ UNCHANGED <<orderTable, summary, tab, create, reopen, shownPayment, history,
                   billingActs>>
ServeSync(c) ==
    /\ c \in syncs /\ c.status = "asked"
    /\ syncs' = (syncs \ {c}) \union {[c EXCEPT !.status = orders[c.order]]}
    /\ UNCHANGED <<orderTable, summary, tab, create, reopen, shownPayment, syncing, history, billingActs>>
\* The answer becomes the order on the screen, whichever is there; a paid one
\* loads the summary and the orders again.
SyncAnswer(c) ==
    /\ c \in syncs /\ c.status \notin {"asked", "reload"}
    /\ syncs' = (syncs \ {c}) \union
                  (IF c.status = "paid" THEN {[c EXCEPT !.status = "reload"]} ELSE {})
    /\ syncing' = (c.status = "paid" /\ syncing)
    /\ order' = [id |-> c.order, status |-> c.status]
    /\ IF c.status = "paid"
       THEN StartSummary(TRUE) /\ StartHistory(1, TRUE) /\ UNCHANGED userLoaded
       ELSE UNCHANGED <<summary, history>>
    /\ UNCHANGED <<orderTable, tab, create, reopen, paymentOpen, billingActs>>

\* The request fails, or what it started has been loaded.
SyncEnds(c) ==
    /\ c \in syncs
    /\ c.status = "asked" \/ (c.status = "reload" /\ Reloaded)
    /\ syncs' = syncs \ {c}
    /\ syncing' = FALSE
    /\ UNCHANGED <<orderTable, summary, tab, create, reopen, shownPayment, history,
                   billingActs>>

\* The dialog is closed by a button, or 1.2 seconds after the order is paid.
CloseDialog ==
    /\ paymentOpen /\ paymentOpen' = FALSE
    /\ UNCHANGED <<orderTable, summary, tab, create, reopen, order, polling, history,
                   billingActs>>

\* The payment provider reports a payment, or the order expires.
Settle(o) ==
    /\ orders[o] = "pending"
    /\ \E s \in {"paid", "closed"} : orders' = [orders EXCEPT ![o] = s]
    /\ UNCHANGED <<plan, summary, tab, create, reopen, shownPayment, polling, history,
                   billingActs>>

LoadStep ==
    \/ \E silent \in BOOLEAN : ShowSummary(silent)
    \/ \E l \in historyLoads : HistoryAnswer(l)
OrderStep == ServePayment \/ ShowPayment \/ ServeReopen \/ ReopenAnswer \/ ReopenEnds

BillingNext ==
    \/ OpenBilling
    \/ \E p \in 1..HistoryPages : TurnHistory(p)
    \/ \E t \in {"balance", "subscription"} : PickTab(t)
    \/ StartBalancePayment \/ StartPlanPayment
    \/ \E o \in Orders : Reopen(o) \/ Settle(o)
    \/ \E f \in BOOLEAN : Sync(f)
    \/ \E c \in syncs : ServeSync(c) \/ SyncAnswer(c) \/ SyncEnds(c)
    \/ CloseDialog
    \/ LoadStep \/ OrderStep

\* Requests are answered and the interval keeps firing while the page is open; a
\* status request may fail, but not every time.
BillingFairness ==
    /\ WF_billingVars(Sync(FALSE))
    /\ SF_billingVars(\E c \in syncs : ServeSync(c))
    /\ WF_billingVars(\E c \in syncs : SyncAnswer(c))

-----------------------------------------------------------------------------
BillingTypeOK ==
    /\ orders \in [Orders -> {"absent", "pending", "paid", "closed"}]
    /\ order \in {None} \union [id : Orders, status : {"pending", "paid", "closed"}]
    /\ payment \in {"idle", "sent", "failed"} \union Orders
    /\ historyPage \in 1..HistoryPages /\ tab \in {"closed", "balance", "subscription"}
    /\ paymentOpen => order # None

\* No button stays disabled and no spinner turns without a request that will end
\* it, although silent loads, status requests and orders end in any order.
BillingFreed ==
    /\ summaryLoading => tab = "closed" \/ FALSE \in summaryLoads
    /\ historyLoading => tab = "closed" \/ \E l \in historyLoads : ~l.silent
    /\ syncing => syncs # {}
    /\ payingFor # "" <=> payment # "idle"
    /\ reopening # NoOrder <=> reopenStep # "idle"

\* A payment of the order on the screen ends up shown as made and stays so: a
\* pending answer that arrives after the paid one starts the interval again.
PaidSettles ==
    <>[](order # None /\ orders[order.id] = "paid") => <>[](order.status = "paid")

=============================================================================
