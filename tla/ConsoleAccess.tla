------------------------------ MODULE ConsoleAccess ------------------------------
(***************************************************************************)
(* The page of API keys and API calls: two tabs, each with a list that is  *)
(* searched after a pause, numbered requests of which only the last counts,*)
(* and the actions on a row. A list is asked for with what the page's      *)
(* closure held: the handler of an action loads the list of the query and  *)
(* the page it was started under, and lowers its flag when that request is *)
(* answered or replaced by a newer one. One key makes a page of keys.      *)
(***************************************************************************)
EXTENDS Naturals, FiniteSets

CONSTANTS ApiKeyRows, NoRow, Calls,
          Searches,      \* what both lists can be searched for or filtered by
          AccessPages, MaxAccessActs

ASSUME ConsoleAccessAssumption ==
    "" \in Searches /\ AccessPages \in Nat \ {0} /\ IsFiniteSet(ApiKeyRows)

VARIABLES tab,
          search, page,  \* per list: the filter, and the page number shown
          timer,         \* per list: the pause before it is asked for runs
          loads,         \* per list: requests that count
          shownOf,       \* per list: the filter and page its rows answer
          asked,         \* per list: the last request sent
          failedLoad,    \* per list: that request failed
          keyTotal,      \* how many keys there are, by the last answer
          limits,        \* server: the basic concurrency of each key; 0: deleted
          draft,         \* concurrencyDraft
          rowAction,     \* actionId
          canceling,     \* cancelingTaskId
          panelOpen,     \* the dialog that is open, and its row
          accessWorks,   \* handlers between their request and their end
          callStatus,    \* server: "running", "canceled" or "ended", per call
          accessActs

lists == <<search, page, timer, loads, shownOf, asked, failedLoad>>
flags == <<rowAction, canceling, accessWorks>>
accessVars == <<tab, lists, keyTotal, limits, draft, flags, panelOpen, callStatus, accessActs>>

Lists == {"keys", "logs"}
NoPanel == [kind |-> "none", row |-> NoRow]
AskFor(l) == [of |-> search[l], page |-> page[l]]
NotAsked == [of |-> NoRow, page |-> 1]
Loading(l) == loads[l] # {} \/ asked[l] = NotAsked
KeyPages == IF keyTotal < 1 THEN 1 ELSE keyTotal
AccessAct == accessActs < MaxAccessActs /\ accessActs' = accessActs + 1
Uncovered == panelOpen = NoPanel
\* What the two tables offer for a row. The one of the keys is not there while it
\* loads; the one of the calls, once it has rows, stays, but its pages cannot be turned.
keyTable(k) ==
    IF tab # "keys" \/ ~Uncovered \/ Loading("keys") THEN {}
    ELSE {"filter", "turn", "draft", "delete"}
             \union (IF rowAction # k THEN {"toggle"} ELSE {})
             \union (IF rowAction # k /\ draft[k] >= 1 THEN {"limit"} ELSE {})
logTable(c) ==
    IF tab # "logs" \/ ~Uncovered \/ (Loading("logs") /\ shownOf["logs"] = NotAsked) THEN {}
    ELSE {"filter", "detail"} \union (IF Loading("logs") THEN {} ELSE {"turn"})
                              \union (IF canceling # c THEN {"cancel"} ELSE {})
Offers(l, op) == IF l = "keys" THEN \E k \in ApiKeyRows : op \in keyTable(k)
                 ELSE \E c \in Calls : op \in logTable(c)

AccessInit ==
    /\ tab = "keys"
    /\ search = [l \in Lists |-> ""] /\ page = [l \in Lists |-> 1]
    /\ timer = [l \in Lists |-> l = "keys"] /\ loads = [l \in Lists |-> {}]
    /\ shownOf = [l \in Lists |-> NotAsked] /\ asked = [l \in Lists |-> NotAsked]
    /\ failedLoad = [l \in Lists |-> FALSE] /\ keyTotal = 0
    /\ limits = [k \in ApiKeyRows |-> 1] /\ draft = [k \in ApiKeyRows |-> 1]
    /\ rowAction = NoRow /\ canceling = NoRow /\ panelOpen = NoPanel
    /\ accessWorks = {} /\ callStatus = [c \in Calls |-> "running"] /\ accessActs = 0

-----------------------------------------------------------------------------
\* loadKeys and loadLogs: a new number, and the request before it is aborted.
AskingToo(l, ask) ==
    /\ loads' = [loads EXCEPT ![l] = @ \union {ask}]
    /\ asked' = [asked EXCEPT ![l] = ask]
    /\ page' = [page EXCEPT ![l] = ask.page]
    /\ failedLoad' = [failedLoad EXCEPT ![l] = FALSE]
Asking(l, ask) ==
    /\ loads' = [loads EXCEPT ![l] = {ask}]
    /\ asked' = [asked EXCEPT ![l] = ask]
    /\ page' = [page EXCEPT ![l] = ask.page]
    /\ failedLoad' = [failedLoad EXCEPT ![l] = FALSE]
\* Handlers of actions end, each lowering its flag, whatever row is there by then; so do
\* those that wait for a list whose request is answered, or aborted by a newer one.
ListOf(w) == IF w.op = "cancel" THEN "logs" ELSE "keys"
Reloading(l) == {w \in accessWorks : w.step = "loading" /\ ListOf(w) = l}
Lowered(over) ==
    /\ rowAction' = IF \E w \in over : w.op \in {"toggle", "limit"} THEN NoRow ELSE rowAction
    /\ canceling' = IF \E w \in over : w.op = "cancel" THEN NoRow ELSE canceling
Ended(over) == accessWorks' = accessWorks \ over /\ Lowered(over)

\* A filter was chosen or typed: the first page, after the pause.
SetFilter(l, s) ==
    /\ AccessAct /\ Offers(l, "filter")
    /\ search[l] # s
    /\ search' = [search EXCEPT ![l] = s] /\ page' = [page EXCEPT ![l] = 1]
    /\ timer' = [timer EXCEPT ![l] = TRUE]
    /\ UNCHANGED <<tab, loads, shownOf, asked, failedLoad, keyTotal, limits, draft, flags,
                   panelOpen, callStatus>>
PauseOver(l) ==
    /\ timer[l] /\ timer' = [timer EXCEPT ![l] = FALSE]
    /\ Asking(l, [of |-> search[l], page |-> 1]) /\ Ended(Reloading(l))
    /\ UNCHANGED <<tab, search, shownOf, keyTotal, limits, draft, panelOpen, callStatus, accessActs>>
\* The tab of the calls asks for them anew whenever it is chosen.
ChooseTab(l) ==
    /\ AccessAct /\ Uncovered
    /\ tab # l /\ tab' = l
    /\ timer' = [timer EXCEPT !["logs"] = l = "logs"]
    /\ UNCHANGED <<search, page, loads, shownOf, asked, failedLoad, keyTotal, limits, draft, flags,
                   panelOpen, callStatus>>
TurnTo(l, p) ==
    /\ AccessAct /\ Offers(l, "turn")
    /\ page[l] # p /\ (l = "keys" => p <= KeyPages)
    /\ Asking(l, [of |-> search[l], page |-> p]) /\ Ended(Reloading(l))
    /\ UNCHANGED <<tab, search, timer, shownOf, keyTotal, limits, draft, panelOpen, callStatus>>
RefreshAll ==
    /\ AccessAct /\ Uncovered
    /\ ~Loading("keys") /\ (tab = "logs" => ~Loading("logs"))
    /\ LET which == IF tab = "logs" THEN Lists ELSE {"keys"} IN
       /\ loads' = [l \in Lists |-> IF l \in which THEN {AskFor(l)} ELSE loads[l]]
       /\ asked' = [l \in Lists |-> IF l \in which THEN AskFor(l) ELSE asked[l]]
       /\ failedLoad' = [l \in Lists |-> failedLoad[l] /\ l \notin which]
    /\ UNCHANGED <<tab, search, page, timer, shownOf, keyTotal, limits, draft, flags, panelOpen,
                   callStatus>>

\* The answer: the drafts of the keys are what the server holds now, the total is of what
\* was searched for. A failed list of calls goes back to the number of the page whose rows
\* are shown.
Restore(l) == IF l = "logs" THEN [page EXCEPT ![l] = shownOf[l].page] ELSE page
Existing == Cardinality({k \in ApiKeyRows : limits[k] # 0})
Found(ask) == IF ask.of = "" THEN {Existing} ELSE 0..Existing
ListArrives(l, ask) ==
    /\ ask \in loads[l] /\ loads' = [loads EXCEPT ![l] = @ \ {ask}]
    /\ \/ /\ shownOf' = [shownOf EXCEPT ![l] = ask]
          /\ page' = [page EXCEPT ![l] = ask.page]
          /\ draft' = IF l = "keys" THEN limits ELSE draft
          /\ keyTotal' \in IF l = "keys" THEN Found(ask) ELSE {keyTotal}
          /\ UNCHANGED failedLoad
       \/ /\ failedLoad' = [failedLoad EXCEPT ![l] = TRUE]
          /\ page' = Restore(l)
          /\ UNCHANGED <<shownOf, draft, keyTotal>>
    /\ Ended(Reloading(l))
    /\ UNCHANGED <<tab, search, timer, asked, limits, panelOpen, callStatus, accessActs>>

-----------------------------------------------------------------------------
\* The number typed into a row, which may be no valid limit.
DraftLimit(k, n) ==
    /\ AccessAct /\ "draft" \in keyTable(k)
    /\ draft' = [draft EXCEPT ![k] = n]
    /\ UNCHANGED <<tab, lists, keyTotal, limits, flags, panelOpen, callStatus>>
\* An action starts, with what it will ask for: after a deletion no page past the last.
ReloadOf(op) ==
    IF op = "cancel" THEN AskFor("logs")
    ELSE LET last == IF keyTotal > 1 THEN keyTotal - 1 ELSE 1
         IN  IF op = "delete" /\ page["keys"] > last THEN [AskFor("keys") EXCEPT !.page = last]
             ELSE AskFor("keys")
Begin(op, row, n) ==
    accessWorks' = accessWorks \union
        {[op |-> op, row |-> row, limit |-> n, ask |-> ReloadOf(op), step |-> "sent",
          n |-> accessActs]}
\* toggleKey and saveConcurrency: the row's buttons are disabled while it is the last
\* one an action was started on. A limit below one is refused on the page.
RowAct(op, k) ==
    /\ AccessAct /\ op \in keyTable(k)
    /\ rowAction' = k
    /\ Begin(op, k, draft[k])
    /\ UNCHANGED <<tab, lists, keyTotal, limits, draft, canceling, panelOpen, callStatus>>
\* The questions before a key is deleted or a call canceled, and a call's details.
OpenPanel(kind, row) ==
    /\ AccessAct
    /\ kind \in IF row \in Calls THEN logTable(row) ELSE keyTable(row)
    /\ panelOpen' = [kind |-> kind, row |-> row]
    /\ UNCHANGED <<tab, lists, keyTotal, limits, draft, flags, callStatus>>
ClosePanel ==
    /\ ~Uncovered /\ panelOpen' = NoPanel
    /\ \/ UNCHANGED <<canceling, accessWorks>>
       \/ /\ panelOpen.kind \in {"delete", "cancel"}
          /\ canceling' = IF panelOpen.kind = "cancel" THEN panelOpen.row ELSE canceling
          /\ Begin(panelOpen.kind, panelOpen.row, 0)
    /\ UNCHANGED <<tab, lists, keyTotal, limits, draft, rowAction, callStatus, accessActs>>

\* The server: what is gone or over is refused, and any request may fail before it is done
\* or lose its answer after.
Stepped(w, step) == accessWorks' = (accessWorks \ {w}) \union {[w EXCEPT !.step = step]}
Possible(w) == IF w.op = "cancel" THEN callStatus[w.row] # "ended" ELSE limits[w.row] # 0
ServeRow(w) ==
    /\ w \in accessWorks /\ w.step = "sent"
    /\ \/ Stepped(w, "failed") /\ UNCHANGED <<limits, callStatus>>
       \/ /\ Possible(w) /\ (Stepped(w, "ok") \/ Stepped(w, "failed"))
          /\ limits' = IF w.op \notin {"limit", "delete"} THEN limits
                       ELSE [limits EXCEPT ![w.row] = w.limit]
          /\ callStatus' = IF w.op # "cancel" THEN callStatus
                           ELSE [callStatus EXCEPT ![w.row] = "canceled"]
    /\ UNCHANGED <<tab, lists, keyTotal, draft, rowAction, canceling, panelOpen, accessActs>>
\* The answer: a failed handler ends; the others ask for their list, and a deletion, which
\* has no flag, ends and closes whatever question about a key is open by then.
WorkServed(w) ==
    /\ w \in accessWorks /\ w.step = "ok"
    /\ Asking(ListOf(w), w.ask)
    /\ accessWorks' = (accessWorks \ (Reloading(ListOf(w)) \union {w})) \union
                          (IF w.op = "delete" THEN {} ELSE {[w EXCEPT !.step = "loading"]})
    /\ Lowered(Reloading(ListOf(w)))
    /\ panelOpen' = IF w.op = "delete" /\ panelOpen.kind = "delete" THEN NoPanel ELSE panelOpen
    /\ UNCHANGED <<tab, search, timer, shownOf, keyTotal, limits, draft, callStatus, accessActs>>
WorkRefused(w) ==
    /\ w \in accessWorks /\ w.step = "failed"
    /\ Ended({w})
    /\ UNCHANGED <<tab, lists, keyTotal, limits, draft, panelOpen, callStatus, accessActs>>
\* A call ends by itself.
CallEnds ==
    /\ \E c \in Calls : /\ callStatus[c] = "running"
                        /\ callStatus' = [callStatus EXCEPT ![c] = "ended"]
    /\ UNCHANGED <<tab, lists, keyTotal, limits, draft, flags, panelOpen, accessActs>>

AccessNext ==
    \/ \E l \in Lists : \/ ChooseTab(l) \/ PauseOver(l)
                        \/ \E s \in Searches : SetFilter(l, s)
                        \/ \E p \in 1..AccessPages : TurnTo(l, p)
                        \/ \E ask \in loads[l] : ListArrives(l, ask)
    \/ RefreshAll \/ ClosePanel \/ CallEnds
    \/ \E k \in ApiKeyRows : \/ \E n \in {0, 2} : DraftLimit(k, n)
                             \/ RowAct("toggle", k) \/ RowAct("limit", k)
                             \/ OpenPanel("delete", k)
    \/ \E c \in Calls : OpenPanel("cancel", c) \/ OpenPanel("detail", c)
    \/ \E w \in accessWorks : ServeRow(w) \/ WorkServed(w) \/ WorkRefused(w)

-----------------------------------------------------------------------------
AccessTypeOK ==
    /\ tab \in Lists /\ \A l \in Lists : page[l] \in 1..AccessPages /\ search[l] \in Searches
    /\ rowAction \in ApiKeyRows \union {NoRow} /\ canceling \in Calls \union {NoRow}
    /\ keyTotal \in Nat /\ \A k \in ApiKeyRows : limits[k] \in {0, 1, 2}

\* Of all the requests for a list only the last one decides what is shown: when none is
\* under way the rows answer it, unless it failed.
LastRequestShown ==
    \A l \in Lists : loads[l] = {} /\ ~failedLoad[l] => shownOf[l] = asked[l]
\* The list of calls, once nothing is under way, never numbers its rows wrongly.
LogPageOfRows ==
    tab = "logs" /\ loads["logs"] = {} /\ ~timer["logs"] => page["logs"] = shownOf["logs"].page
\* A row is disabled only while a handler of that very row is under way, at the server or
\* waiting for its list: no row stays disabled after the last action on it ended.
RowFreed ==
    /\ rowAction # NoRow => \E w \in accessWorks : w.row = rowAction /\ w.op \in {"toggle", "limit"}
    /\ canceling # NoRow => \E w \in accessWorks : w.row = canceling /\ w.op = "cancel"
=============================================================================
