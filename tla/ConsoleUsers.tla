----------------------------- MODULE ConsoleUsers -----------------------------
(***************************************************************************)
(* The user page of the administration console: the paged list with its    *)
(* search and filters, whose superseded requests are aborted; the forms    *)
(* that edit an account, its balance, quota or subscription behind one     *)
(* `saving` flag; the row's switches; the selection and its bulk deletion; *)
(* and three panels: credit logs, consumption ranking, who sees plans.     *)
(* Every dialog covers the page, so at most one is open and the page under *)
(* it is not operated; an answer may still open or close one. An account   *)
(* is reduced to what the page decides on: present, disabled, verified; its *)
(* role stays what it is. A request may fail, or do its work and lose its   *)
(* answer.                                                                  *)
(***************************************************************************)
EXTENDS Naturals, FiniteSets, ConsoleRoutes

CONSTANTS Accounts, NoAccount,
          NewAccounts,   \* accounts that may not have been created yet
          Paying,        \* accounts with a paid subscription in force
          AdminAccounts,        \* accounts with the role admin, which cannot be selected
          Terms,         \* what can be searched for, with "" (nothing)
          UserPages,     \* pages of the list
          MaxUserActs    \* clicks of the administrator, but those that submit a form

ASSUME ConsoleUsersAssumption ==
    Paying \subseteq Accounts /\ NewAccounts \subseteq Accounts /\ "" \in Terms /\ UserPages \in Nat \ {0}

VARIABLES present, disabled, verified,   \* server: the accounts
          uncreated,     \* server: what accounts may be created
          access,        \* server: subscriptionAccessUserIds
          initialized,   \* server: subscriptionAccessInitialized
          typed, query,  \* the search box; what the list is of
          listing,       \* the request for the list that was not aborted
          usersLoading,  \* no request for the list has ended yet
          rows, rowsOf,  \* the rows shown, and the query they answer
          lastList,      \* the query of the last request sent
          selected,      \* selectedUserIds
          dialog, about, \* the dialog that is open, and the account it is about
          saving, actionId, verifyingId,
          works,         \* handlers between their request and their end
          logs,          \* credit logs shown: whose they are
          logsLoad,      \* their request: whose it is, and whether its effect lives
          ranked, days, rankLoads, rankLoading,
          chosen, saved, \* the accounts chosen in the dialog, and stored last
          accessLoads, accessLoading, accessSaving,
          userActs

accounts == <<present, disabled, verified, uncreated>>
list == <<typed, query, listing, usersLoading, rows, rowsOf, lastList, selected>>
open == <<dialog, about>>
latches == <<saving, actionId, verifyingId, works>>
logPanel == <<logs, logsLoad>>
rankPanel == <<ranked, days, rankLoads, rankLoading>>
accessPanel == <<access, initialized, chosen, saved, accessLoads, accessLoading, accessSaving>>
usersVars == <<accounts, list, open, latches, logPanel, rankPanel, accessPanel, userActs>>

Query == [term: Terms, filter: {"all", "active"}, page: 1..UserPages]
FirstQuery == [term |-> "", filter |-> "all", page |-> 1]
NoList == [by |-> "nobody"]
NotSaving == [ids |-> {}, step |-> "none"]
ByPage == [op |-> "page", id |-> NoAccount]
SavingOps == {"save", "grant", "quota", "balance", "bulk"}
ReloadingOps == {"save", "grant", "bulk", "toggle", "delete"}
Row(a) == [id |-> a, active |-> a \notin disabled, verified |-> a \in verified]
RowIds == {r.id : r \in rows}
Days == {"all", "month"}
subscriptionActive(a) == a \in Paying

Click == userActs < MaxUserActs /\ userActs' = userActs + 1
Free == dialog = "none"
Refreshing == listing # NoList

\* The cells and buttons of a row: what it can be asked for at the moment.
rowActions(r) ==
    {"logs", "grant", "save", "balance", "delete"}
        \union (IF ~r.verified /\ verifyingId = NoAccount THEN {"verify"} ELSE {})
        \union (IF subscriptionActive(r.id) THEN {"quota"} ELSE {})
        \union (IF actionId # r.id THEN {"toggle"} ELSE {})
\* The buttons of the page's head and the controls of the table; nothing of them is
\* reached under a dialog, and there is no table before the first list.
headControls ==
    IF dialog # "none" THEN {}
    ELSE {"access", "ranking", "create"}
             \union (IF usersLoading \/ Refreshing THEN {} ELSE {"refresh"})
tableControls ==
    IF dialog # "none" \/ usersLoading THEN {}
    ELSE {"search", "filter", "select"}
             \union (IF Refreshing THEN {} ELSE {"page"})
             \union (IF selected # {} /\ ~saving THEN {"bulk"} ELSE {})
\* Every form has a button that closes it and one that submits it.
formControlsAlways ==
    IF dialog \notin {"save", "grant", "quota", "balance"} THEN {} ELSE {"close", "submit"}
formControls ==
    IF dialog \notin {"save", "grant", "quota", "balance"} THEN {}
    ELSE {"close"} \union (IF saving THEN {} ELSE {"submit"})
\* The dialog about who sees plans: its shortcuts are always there, its list when it
\* is loaded.
accessDialog ==
    IF dialog # "access" THEN {}
    ELSE {"all"} \union (IF accessSaving = NotSaving THEN {"close"} ELSE {})
                 \union (IF accessLoading THEN {} ELSE {"one"})
                 \union (IF accessLoading \/ accessSaving # NotSaving \/ chosen = saved THEN {}
                         ELSE {"save"})
rankingDialog ==
    IF dialog # "ranking" THEN {}
    ELSE {"close", "days"} \union (IF rankLoading THEN {} ELSE {"refresh"})
logsDialog == IF dialog # "logs" THEN {} ELSE {"close", "filter", "page"}
Offered(op, a) == \E r \in rows : r.id = a /\ op \in rowActions(r)

\* load: the request before it, if any, is aborted; nothing of it arrives.
Load(q, by) == /\ listing' = [query |-> q, by |-> by]
               /\ lastList' = q

-----------------------------------------------------------------------------
UsersInit ==
    /\ uncreated \in SUBSET NewAccounts /\ present = Accounts \ uncreated
    /\ disabled = {} /\ verified \in {{}, present}
    /\ initialized \in BOOLEAN /\ access \in IF initialized THEN {{}} ELSE {{}, Accounts \ Paying}
    /\ typed = "" /\ query = FirstQuery /\ lastList = FirstQuery
    /\ listing = [query |-> FirstQuery, by |-> ByPage]
    /\ usersLoading = TRUE /\ rows = {} /\ rowsOf = FirstQuery /\ selected = {}
    /\ dialog = "none" /\ about = NoAccount
    /\ saving = FALSE /\ actionId = NoAccount /\ verifyingId = NoAccount /\ works = {}
    /\ logs = NoAccount /\ logsLoad = [id |-> NoAccount, active |-> FALSE]
    /\ ranked = "none" /\ days = "month" /\ rankLoads = {} /\ rankLoading = FALSE
    /\ chosen = {} /\ saved = {}
    /\ accessLoads = 0 /\ accessLoading = FALSE /\ accessSaving = NotSaving
    /\ userActs = 0

-----------------------------------------------------------------------------
(* The list.                                                                *)

Type(t) ==
    /\ Click /\ "search" \in tableControls
    /\ typed # t /\ typed' = t
    /\ UNCHANGED <<accounts, query, listing, usersLoading, rows, rowsOf, lastList, selected,
                   open, latches, logPanel, rankPanel, accessPanel>>

\* What changes the list: a new query, nothing selected, and a request for it.
Ask(q) ==
    /\ query' = q /\ selected' = {}
    /\ Load(q, ByPage)
    /\ UNCHANGED <<accounts, typed, usersLoading, rows, rowsOf, open, latches, logPanel,
                   rankPanel, accessPanel>>
\* The search box was left alone for 350 ms, whatever is open by then.
Search ==
    /\ typed # query.term
    /\ Ask([query EXCEPT !.term = typed, !.page = 1])
    /\ UNCHANGED userActs
Filter(f) ==
    /\ Click /\ "filter" \in tableControls
    /\ query.filter # f
    /\ Ask([query EXCEPT !.filter = f, !.page = 1])
TurnPage(p) ==
    /\ Click /\ "page" \in tableControls
    /\ query.page # p
    /\ Ask([query EXCEPT !.page = p])
RefreshUsers ==
    /\ Click /\ "refresh" \in headControls
    /\ Load(query, ByPage)
    /\ UNCHANGED <<accounts, typed, query, usersLoading, rows, rowsOf, selected, open, latches,
                   logPanel, rankPanel, accessPanel>>

\* The rows arrive, or an error that leaves the rows as they are.
ListAnswer ==
    /\ Refreshing
    /\ \/ /\ \E s \in SUBSET present : rows' = {Row(a) : a \in s}
          /\ rowsOf' = listing.query
       \/ UNCHANGED <<rows, rowsOf>>
    /\ listing' = NoList /\ usersLoading' = FALSE
    /\ UNCHANGED <<accounts, typed, query, lastList, selected, open, latches, logPanel,
                   rankPanel, accessPanel, userActs>>

\* toggleUserSelection and toggleCurrentPageSelection.
SelectableAll == RowIds
Selectable == RowIds \ AdminAccounts
Select(s) ==
    /\ Click /\ "select" \in tableControls
    /\ s = Selectable \/ \E a \in Selectable : s = {a}
    /\ selected' = IF s \subseteq selected THEN selected \ s ELSE selected \union s
    /\ UNCHANGED <<accounts, typed, query, listing, usersLoading, rows, rowsOf, lastList, open,
                   latches, logPanel, rankPanel, accessPanel>>

-----------------------------------------------------------------------------
(* The dialogs and the forms in them.                                       *)

Show(d, a) ==
    /\ dialog' = d /\ about' = a
    /\ UNCHANGED <<accounts, list, latches>>

\* openCreate, openEdit, openBalance, openQuota, openGrant, and the questions
\* before one account or the selected ones are deleted.
OpenForm(d, a) ==
    /\ Click /\ Free
    /\ \/ Offered(d, a)
       \/ a = NoAccount /\ d = "save" /\ "create" \in headControls
       \/ a = NoAccount /\ d = "bulk" /\ d \in tableControls
    /\ Show(d, a)
    /\ UNCHANGED <<logPanel, rankPanel, accessPanel>>

\* A dialog is dismissed, even while its request is in flight; the one about who
\* sees plans stays while it saves. The effect of the credit logs is cleaned up.
Dismiss ==
    /\ "close" \in formControls \union accessDialog \union rankingDialog \union logsDialog
           \/ dialog \in {"delete", "bulk"}
    /\ Show("none", about)
    /\ logsLoad' = [logsLoad EXCEPT !.active = FALSE]
    /\ UNCHANGED <<logs, rankPanel, accessPanel, userActs>>

Start(op, a, to) ==
    works' = works \union {[op |-> op, id |-> a, ids |-> selected, query |-> query,
                            step |-> "sent", to |-> to, row |-> NoAccount]}

\* A form that is filled in properly is submitted: the buttons are disabled while
\* `saving`, whichever form is being saved. That of an account sets its status, and
\* creates an account when it is about none.
SubmitForm(op) ==
    /\ dialog = op /\ "submit" \in formControls
    /\ saving' = TRUE
    /\ \E to \in IF op = "save" THEN BOOLEAN ELSE {TRUE} : Start(op, about, to)
    /\ UNCHANGED <<accounts, list, open, actionId, verifyingId, logPanel, rankPanel,
                   accessPanel, userActs>>
saveUser == SubmitForm("save")
grantSubscription == SubmitForm("grant")
updateSubscriptionQuota == SubmitForm("quota")
updateBalance == SubmitForm("balance")
\* bulkDeleteUsers and deleteUser: the question closes as soon as it is answered.
Confirm ==
    /\ dialog \in {"delete", "bulk"}
    /\ dialog = "bulk" => selected # {}
    /\ saving' = (saving \/ dialog = "bulk")
    /\ Start(dialog, about, TRUE)
    /\ dialog' = "none" /\ UNCHANGED about
    /\ UNCHANGED <<accounts, list, actionId, verifyingId, logPanel, rankPanel, accessPanel,
                   userActs>>
\* toggleStatus sends the opposite of what the row shows.
Toggle(r) ==
    /\ Click /\ Free
    /\ "toggle" \in rowActions(r)
    /\ actionId' = r.id
    /\ Start("toggle", r.id, ~r.active)
    /\ UNCHANGED <<accounts, list, open, saving, verifyingId, logPanel, rankPanel, accessPanel>>
Verify(r) ==
    /\ Click /\ Free
    /\ "verify" \in rowActions(r)
    /\ verifyingId' = r.id
    /\ Start("verify", r.id, TRUE)
    /\ UNCHANGED <<accounts, list, open, saving, actionId, logPanel, rankPanel, accessPanel>>

\* What the server does with a request. The proxy refuses the one of the bulk
\* deletion, DELETE /api/admin/users, which ADMIN_ROUTES does not list; what is about
\* an account that is gone is refused, but for its deletion; administrators stay.
Goes(w, v) == works' = (works \ {w}) \union {v}
Creates(w) == w.op = "save" /\ w.id = NoAccount
Removed(w) == IF w.op = "bulk" THEN w.ids ELSE IF w.op = "delete" THEN {w.id} ELSE {}
Granted(w) ==
    /\ w.op = "bulk" => <<"/admin/users", "DELETE">> \in ADMIN_ROUTES
    /\ w.op \notin {"bulk", "delete"} => w.id \in present
\* The answer holds the row as it is then.
Answered(w) == [w EXCEPT !.step = "ok",
                         !.row = IF w.op \in {"verify", "quota"}
                                 THEN [Row(w.id) EXCEPT !.verified = @ \/ w.op = "verify"]
                                 ELSE NoAccount]
Failed(w) == [w EXCEPT !.step = "failed"]
ServeWork(w) ==
    /\ w \in works /\ w.step \in {"sent", "created"}
    /\ \/ Goes(w, Failed(w)) /\ UNCHANGED accounts
       \/ /\ Granted(w)
          /\ Goes(w, Answered(w)) \/ Goes(w, Failed(w))
          /\ present' = present \ (Removed(w) \ AdminAccounts)
          /\ verified' = IF w.op = "verify" THEN verified \union {w.id} ELSE verified
          /\ disabled' = IF w.op \notin {"toggle", "save"} THEN disabled
                         ELSE IF w.to THEN disabled \ {w.id} ELSE disabled \union {w.id}
          /\ UNCHANGED uncreated
    /\ UNCHANGED <<list, open, saving, actionId, verifyingId, logPanel, rankPanel, accessPanel,
                   userActs>>
\* createUser: the account is active and verified; when the form wants it disabled a
\* second request says so, which may fail by itself.
ServeCreation(w) ==
    /\ w \in works /\ w.step = "sent" /\ Creates(w)
    /\ \E a \in uncreated :
          /\ uncreated' = uncreated \ {a} /\ present' = present \union {a}
          /\ verified' = verified \union {a} /\ UNCHANGED disabled
          /\ \/ Goes(w, Failed(w))
             \/ Goes(w, [w EXCEPT !.id = a, !.step = IF w.to THEN "ok" ELSE "created"])
    /\ UNCHANGED <<list, open, saving, actionId, verifyingId, logPanel, rankPanel, accessPanel,
                   userActs>>

\* The finally of each handler: it clears its flag, whoever set it last.
ClearFlag(w) ==
    /\ saving' = (saving /\ w.op \notin SavingOps)
    /\ actionId' = IF w.op = "toggle" THEN NoAccount ELSE actionId
    /\ verifyingId' = IF w.op = "verify" THEN NoAccount ELSE verifyingId
    /\ works' = works \ {w}

\* The answer: a form that was saved closes, whichever account it is about by
\* now; then the handler loads the list of the query it was started under.
Succeeded(w) ==
    /\ w \in works /\ w.step = "ok"
    /\ dialog' = IF dialog = w.op THEN "none" ELSE dialog
    /\ selected' = IF w.op = "bulk" THEN {} ELSE selected
    /\ IF w.op \in ReloadingOps
       THEN /\ Load(w.query, [op |-> w.op, id |-> w.id])
            /\ works' = (works \ {w}) \union {[w EXCEPT !.step = "loading"]}
            /\ UNCHANGED <<rows, saving, actionId, verifyingId>>
       ELSE /\ rows' = IF w.op = "balance" THEN rows
                       ELSE {IF r.id = w.id THEN w.row ELSE r : r \in rows}
            /\ ClearFlag(w)
            /\ UNCHANGED <<listing, lastList>>
    /\ UNCHANGED <<accounts, typed, query, usersLoading, rowsOf, about, logPanel, rankPanel,
                   accessPanel, userActs>>
\* It failed, or its list arrived or was aborted.
Finished(w) ==
    /\ w \in works
    /\ \/ w.step = "failed"
       \/ w.step = "loading" /\ (Refreshing => listing.by # [op |-> w.op, id |-> w.id])
    /\ ClearFlag(w)
    /\ UNCHANGED <<accounts, list, open, logPanel, rankPanel, accessPanel, userActs>>

-----------------------------------------------------------------------------
(* Credit logs: nothing is shown of the account before; the effect's cleanup *)
(* makes the answer of an earlier request void.                              *)
AskLogs(a) == logsLoad' = [id |-> a, active |-> TRUE]
OpenLogs(a) ==
    /\ Click /\ Free /\ Offered("logs", a)
    /\ Show("logs", a)
    /\ logs' = NoAccount
    /\ AskLogs(a)
    /\ UNCHANGED <<rankPanel, accessPanel>>
TurnLogs ==
    /\ Click /\ {"filter", "page"} \subseteq logsDialog
    /\ AskLogs(about)
    /\ UNCHANGED <<accounts, list, open, latches, logs, rankPanel, accessPanel>>
LogsAnswer ==
    /\ logsLoad.id # NoAccount
    /\ logs' \in IF logsLoad.active THEN {logsLoad.id, NoAccount} ELSE {logs}
    /\ logsLoad' = [id |-> NoAccount, active |-> FALSE]
    /\ UNCHANGED <<accounts, list, open, latches, rankPanel, accessPanel, userActs>>

(* Consumption ranking: nothing numbers or aborts its requests.              *)
AskRanking(d) == rankLoads' = rankLoads \union {d} /\ rankLoading' = TRUE
OpenRanking ==
    /\ Click /\ "ranking" \in headControls
    /\ Show("ranking", NoAccount)
    /\ AskRanking(days)
    /\ UNCHANGED <<ranked, days, logPanel, accessPanel>>
PickDays(d) ==
    /\ Click /\ "days" \in rankingDialog /\ days # d
    /\ days' = d /\ AskRanking(d)
    /\ UNCHANGED <<accounts, list, open, latches, ranked, logPanel, accessPanel>>
RefreshRanking ==
    /\ Click /\ "refresh" \in rankingDialog
    /\ AskRanking(days)
    /\ UNCHANGED <<accounts, list, open, latches, ranked, days, logPanel, accessPanel>>
RankingArrives(d) ==
    /\ d \in rankLoads
    /\ rankLoads' = rankLoads \ {d}
    /\ ranked' \in {d, "none"} /\ rankLoading' = FALSE
    /\ UNCHANGED <<accounts, list, open, latches, days, logPanel, accessPanel, userActs>>

(* Who sees subscription plans. The dialog may be closed while it loads, and *)
(* opened again: the answers are not numbered.                               *)
OpenAccess ==
    /\ Click /\ "access" \in headControls /\ accessLoads < 2
    /\ Show("access", NoAccount)
    /\ accessLoads' = accessLoads + 1 /\ accessLoading' = TRUE
    /\ UNCHANGED <<access, initialized, chosen, saved, accessSaving, logPanel, rankPanel>>
\* Before the setting was stored by this dialog, whoever pays is chosen, too.
AccessAnswer ==
    /\ accessLoads > 0 /\ accessLoads' = accessLoads - 1
    /\ accessLoading' = FALSE
    /\ \/ /\ chosen' = IF initialized THEN access ELSE access \union Paying
          /\ saved' = chosen'
          /\ UNCHANGED dialog
       \/ /\ dialog' = IF dialog = "access" THEN "none" ELSE dialog
          /\ UNCHANGED <<chosen, saved>>
    /\ UNCHANGED <<accounts, list, about, latches, access, initialized, accessSaving,
                   logPanel, rankPanel, userActs>>
\* One account in the list, which is there when it is loaded, or the shortcuts
\* for everyone and for nobody, which are always there.
Choose(s) ==
    /\ Click
    /\ (s \in {{}, Accounts} /\ "all" \in accessDialog) \/ "one" \in accessDialog
    /\ chosen' = s
    /\ UNCHANGED <<accounts, list, open, latches, access, initialized, saved, accessLoads,
                   accessLoading, accessSaving, logPanel, rankPanel>>
SaveAccess ==
    /\ Click /\ "save" \in accessDialog
    /\ accessSaving' = [ids |-> chosen, step |-> "sent"]
    /\ UNCHANGED <<accounts, list, open, latches, access, initialized, chosen, saved, accessLoads,
                   accessLoading, logPanel, rankPanel>>
ServeAccess ==
    /\ accessSaving.step = "sent"
    /\ \E step \in {"ok", "failed"} : accessSaving' = [accessSaving EXCEPT !.step = step]
    /\ \/ access' = accessSaving.ids /\ initialized' = TRUE
       \/ accessSaving'.step = "failed" /\ UNCHANGED <<access, initialized>>
    /\ UNCHANGED <<accounts, list, open, latches, chosen, saved, accessLoads, accessLoading,
                   logPanel, rankPanel, userActs>>
AccessSaved ==
    /\ accessSaving.step \in {"ok", "failed"} /\ accessSaving' = NotSaving
    /\ IF accessSaving.step = "ok"
       THEN /\ saved' = accessSaving.ids
            /\ dialog' = IF dialog = "access" THEN "none" ELSE dialog
       ELSE UNCHANGED <<saved, dialog>>
    /\ UNCHANGED <<accounts, list, about, latches, access, initialized, chosen, accessLoads,
                   accessLoading, logPanel, rankPanel, userActs>>

UsersAnswer ==
    \/ Search \/ ListAnswer \/ LogsAnswer \/ AccessAnswer \/ ServeAccess \/ AccessSaved
    \/ \E w \in works : ServeWork(w) \/ ServeCreation(w) \/ Succeeded(w) \/ Finished(w)
    \/ \E d \in Days : RankingArrives(d)

UsersNext ==
    \/ \E t \in Terms : Type(t)
    \/ \E f \in {"all", "active"} : Filter(f)
    \/ \E p \in 1..UserPages : TurnPage(p)
    \/ RefreshUsers
    \/ \E s \in SUBSET Accounts : Select(s) \/ Choose(s)
    \/ \E d \in SavingOps \union {"delete"}, a \in Accounts \union {NoAccount} : OpenForm(d, a)
    \/ Dismiss \/ Confirm
    \/ saveUser \/ grantSubscription \/ updateSubscriptionQuota \/ updateBalance
    \/ \E r \in rows : Toggle(r) \/ Verify(r)
    \/ \E a \in Accounts : OpenLogs(a)
    \/ TurnLogs \/ OpenRanking \/ RefreshRanking \/ OpenAccess \/ SaveAccess
    \/ \E d \in Days : PickDays(d)
    \/ UsersAnswer

-----------------------------------------------------------------------------
UsersTypeOK ==
    /\ present \subseteq Accounts /\ disabled \subseteq Accounts /\ verified \subseteq Accounts
    /\ query \in Query /\ rowsOf \in Query /\ typed \in Terms
    /\ RowIds \subseteq Accounts /\ selected \subseteq Accounts \ AdminAccounts
    /\ saving \in BOOLEAN /\ logs \in Accounts \union {NoAccount} /\ ranked \in Days \union {"none"}
    /\ uncreated \subseteq Accounts \ present /\ access \subseteq Accounts /\ chosen \subseteq Accounts

\* One flag, five forms: while a form or a bulk deletion is being saved no other
\* can be sent, though dialogs are dismissed and opened under the request.
SavingLatch ==
    /\ \A v, w \in works : {v.op, w.op} \subseteq SavingOps => v = w
    /\ saving <=> \E w \in works : w.op \in SavingOps

\* The credit logs of one customer are never shown under the name of another,
\* although their requests are answered in any order.
LogsOfAccount == dialog = "logs" => logs \in {about, NoAccount}
=============================================================================
