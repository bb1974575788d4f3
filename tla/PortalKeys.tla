------------------------------ MODULE PortalKeys ------------------------------
(***************************************************************************)
(* The API key page of the customer site: one page of the account's keys,  *)
(* dialogs that create, reveal and delete a key, and a switch on each row. *)
(* Loads are not numbered: two may be in flight and be answered in either  *)
(* order; every other request writes the part of the page it belongs to.   *)
(* Requests that ask for the same at the same time are kept as one.         *)
(***************************************************************************)
EXTENDS Naturals, Sequences

CONSTANTS AccountKeys,       \* keys that exist or may be created
          Existing,   \* the keys there are when the page opens, newest first
          NoRow,
          PageSize,
          MaxActs     \* clicks that send a request

ASSUME KeysAssumption ==
    /\ NoRow \notin AccountKeys
    /\ Existing \in Seq(AccountKeys)
    /\ \A i, j \in DOMAIN Existing : Existing[i] = Existing[j] => i = j
    /\ PageSize \in Nat \ {0} /\ MaxActs \in Nat

VARIABLES keysAtServer,  \* server: the account's keys, newest first
          status,        \* server: each key's status
          list,          \* rows shown: key and status
          keyTotal, keyPage, keysLoading,
          keyLoads,      \* list requests in flight: [page, rows, total, access, done]
          access,        \* subscriptionEnabled
          mode,          \* newBillingMode
          form,          \* the create dialog: closed, open
          creating,      \* the create request: idle, sent, failed, or the key it made
          created,       \* the credential the dialog shows
          pendingId,     \* the row whose switch and delete are disabled
          changes,       \* row requests in flight: [op, key, to, done]
          revealing, revealed, toDelete,
          keyActs

keyVars == <<keysAtServer, status, list, keyTotal, keyPage, keysLoading, keyLoads, access,
             mode, form, creating, created, pendingId, changes, revealing, revealed,
             toDelete, keyActs>>
atServer == <<keysAtServer, status>>
table == <<list, keyTotal, keysLoading, keyLoads, access>>
createDialog == <<form, creating, created, mode>>
rowState == <<pendingId, changes, revealing, revealed, toDelete>>

Row == [key: AccountKeys, status: {"active", "disabled"}]
Load == [page: Nat, rows: Seq(Row), total: Nat, access: BOOLEAN, done: BOOLEAN]
Change == [op: {"toggle", "delete", "reveal"}, key: AccountKeys,
           to: {"active", "disabled"}, done: {"sent", "ok", "failed"}]

Flip(s) == IF s = "active" THEN "disabled" ELSE "active"
Shown(k) == \E i \in DOMAIN list : list[i].key = k
Click == keyActs < MaxActs /\ keyActs' = keyActs + 1
\* The three buttons of a row that is shown; the first also waits for `revealing`.
RowFree(k) == Shown(k) /\ pendingId # k
\* No dialog covers the page: neither the form, nor a question, nor a secret.
Plain == form = "closed" /\ toDelete = NoRow /\ revealed = NoRow

\* The rows of page p as the server would list them now.
ServerPage(p) ==
    LET first == (p - 1) * PageSize
        size == IF Len(keysAtServer) < first THEN 0
                ELSE IF Len(keysAtServer) - first < PageSize
                     THEN Len(keysAtServer) - first ELSE PageSize
    IN  [i \in 1..size |-> [key |-> keysAtServer[first + i],
                            status |-> status[keysAtServer[first + i]]]]
\* Math.max(1, Math.ceil(keyTotal / API_KEY_PAGE_SIZE))
KeyPages == IF keyTotal = 0 THEN 1 ELSE (keyTotal + PageSize - 1) \div PageSize

SendLoad(p) ==
    /\ keyLoads' = keyLoads \union
         {[page |-> p, rows |-> <<>>, total |-> 0, access |-> FALSE, done |-> FALSE]}
    /\ keysLoading' = TRUE
    /\ access' = FALSE

-----------------------------------------------------------------------------
\* The page is mounted and its effect loads the first page.
KeysInit ==
    /\ keysAtServer = Existing
    /\ status = [k \in AccountKeys |-> "active"]
    /\ list = <<>> /\ keyTotal = 0 /\ keyPage = 1 /\ keysLoading = TRUE
    /\ keyLoads = {[page |-> 1, rows |-> <<>>, total |-> 0, access |-> FALSE, done |-> FALSE]}
    /\ access = FALSE /\ mode = "balance"
    /\ form = "closed" /\ creating = "idle" /\ created = NoRow
    /\ pendingId = NoRow /\ changes = {} /\ revealing = NoRow /\ revealed = NoRow
    /\ toDelete = NoRow /\ keyActs = 0

\* The refresh button, disabled while the list loads.
RefreshKeys ==
    /\ Click /\ Plain /\ ~keysLoading
    /\ SendLoad(keyPage)
    /\ UNCHANGED <<atServer, list, keyTotal, keyPage, createDialog, rowState>>

\* The buttons under the table: previous, a number, next; disabled while it loads.
TurnPage(p) ==
    /\ Click /\ Plain /\ ~keysLoading
    /\ p # keyPage
    /\ keyPage' = p
    /\ SendLoad(p)
    /\ UNCHANGED <<atServer, list, keyTotal, createDialog, rowState>>

\* The list and the subscription are read; a subscription that cannot be read is none.
ServeLoad(l) ==
    /\ l \in keyLoads /\ ~l.done
    /\ \E a \in BOOLEAN :
         keyLoads' = (keyLoads \ {l}) \union
            {[l EXCEPT !.rows = ServerPage(l.page), !.total = Len(keysAtServer),
                       !.access = a, !.done = TRUE]}
    /\ UNCHANGED <<atServer, list, keyTotal, keyPage, keysLoading, access,
                   createDialog, rowState, keyActs>>

\* Any answer of the list replaces the rows, whichever page it was asked for.
ShowLoad(l) ==
    /\ l \in keyLoads /\ l.done
    /\ list' = l.rows /\ keyTotal' = l.total
    /\ access' = l.access
    /\ mode' = IF l.access THEN mode ELSE "balance"
    /\ keysLoading' = FALSE
    /\ keyLoads' = keyLoads \ {l}
    /\ UNCHANGED <<atServer, keyPage, form, creating, created, rowState, keyActs>>

\* The list cannot be read: the rows stay, an error is shown above them.
FailLoad(l) ==
    /\ l \in keyLoads
    /\ keysLoading' = FALSE
    /\ keyLoads' = keyLoads \ {l}
    /\ UNCHANGED <<atServer, list, keyTotal, keyPage, access, createDialog, rowState, keyActs>>

-----------------------------------------------------------------------------
\* openCreateModal, closeCreateModal, and the two buttons of the billing mode. The
\* account's address is verified, without which there is no form.
OpenForm ==
    /\ Plain /\ form' = "open"
    /\ UNCHANGED <<atServer, table, keyPage, mode, creating, created, rowState, keyActs>>
CloseForm ==
    /\ form = "open" /\ form' = "closed"
    /\ mode' = "balance" /\ created' = NoRow
    /\ UNCHANGED <<atServer, table, keyPage, creating, rowState, keyActs>>
PickMode(m) ==
    /\ form = "open" /\ created = NoRow /\ m # mode
    /\ m = "subscription" => access
    /\ mode' = m
    /\ UNCHANGED <<atServer, table, keyPage, form, creating, created, rowState, keyActs>>

\* handleCreate: the dialog is closed instead when the mode is no longer allowed.
Create ==
    /\ Click
    /\ form = "open" /\ created = NoRow /\ creating = "idle"
    /\ IF mode = "subscription" /\ ~access
       THEN form' = "closed" /\ mode' = "balance" /\ UNCHANGED creating
       ELSE creating' = "sent" /\ UNCHANGED <<form, mode>>
    /\ UNCHANGED <<atServer, table, keyPage, created, rowState>>

ServeCreate ==
    /\ creating = "sent"
    /\ \/ \E k \in AccountKeys :
            /\ \A i \in DOMAIN keysAtServer : keysAtServer[i] # k
            /\ status[k] # "gone"
            /\ keysAtServer' = <<k>> \o keysAtServer
            /\ creating' \in {k, "failed"}
       \/ creating' = "failed" /\ UNCHANGED keysAtServer
    /\ UNCHANGED <<status, table, keyPage, form, created, mode, rowState, keyActs>>

\* The secret is shown and the first page becomes current: the list is loaded
\* again by the effect of the page number, that is, if it was another page.
ShowCreated ==
    /\ creating \in AccountKeys
    /\ creating' = "idle"
    /\ created' = creating
    /\ keyPage' = 1
    /\ IF keyPage = 1 THEN UNCHANGED <<keysLoading, keyLoads, access>> ELSE SendLoad(1)
    /\ UNCHANGED <<atServer, list, keyTotal, form, mode, rowState, keyActs>>
FailCreate ==
    /\ creating = "failed" /\ creating' = "idle"
    /\ UNCHANGED <<atServer, table, keyPage, form, created, mode, rowState, keyActs>>

-----------------------------------------------------------------------------
SendChange(op, k, to) ==
    changes' = changes \union {[op |-> op, key |-> k, to |-> to, done |-> "sent"]}

\* The buttons of a row: reveal, switch, delete (which asks first).
Reveal(k) ==
    /\ Click
    /\ Plain /\ RowFree(k) /\ revealing = NoRow
    /\ revealing' = k
    /\ SendChange("reveal", k, "active")
    /\ UNCHANGED <<atServer, table, keyPage, createDialog, pendingId, revealed, toDelete>>
Toggle(i) ==
    /\ Click
    /\ Plain /\ i \in DOMAIN list /\ RowFree(list[i].key)
    /\ pendingId' = list[i].key
    /\ SendChange("toggle", list[i].key, Flip(list[i].status))
    /\ UNCHANGED <<atServer, table, keyPage, createDialog, revealing, revealed, toDelete>>
AskDelete(k) ==
    /\ Plain /\ RowFree(k)
    /\ toDelete' = k
    /\ UNCHANGED <<atServer, table, keyPage, createDialog, pendingId, changes, revealing,
                   revealed, keyActs>>
CancelDelete ==
    /\ toDelete # NoRow /\ toDelete' = NoRow
    /\ UNCHANGED <<atServer, table, keyPage, createDialog, pendingId, changes, revealing,
                   revealed, keyActs>>
\* The dialog closes as soon as the deletion is asked for.
ConfirmDelete ==
    /\ Click
    /\ toDelete # NoRow
    /\ pendingId' = toDelete
    /\ SendChange("delete", toDelete, "active")
    /\ toDelete' = NoRow
    /\ UNCHANGED <<atServer, table, keyPage, createDialog, revealing, revealed>>

Exists(k) == \E i \in DOMAIN keysAtServer : keysAtServer[i] = k
\* The keys that are left without k, which is listed once.
KeysWithout(k) ==
    LET at == CHOOSE i \in DOMAIN keysAtServer : keysAtServer[i] = k
    IN  [i \in 1..(Len(keysAtServer) - 1) |-> keysAtServer[IF i < at THEN i ELSE i + 1]]
\* A key that is gone cannot be changed; any request, and any answer, may be lost.
ServeChange(c) ==
    /\ c \in changes /\ c.done = "sent"
    /\ \/ /\ Exists(c.key)
          /\ \E d \in {"ok", "failed"} :
                changes' = (changes \ {c}) \union {[c EXCEPT !.done = d]}
          /\ status' = CASE c.op = "toggle" -> [status EXCEPT ![c.key] = c.to]
                         [] c.op = "delete" -> [status EXCEPT ![c.key] = "gone"]
                         [] OTHER -> status
          /\ keysAtServer' = IF c.op = "delete"
                             THEN KeysWithout(c.key) ELSE keysAtServer
       \/ /\ changes' = (changes \ {c}) \union {[c EXCEPT !.done = "failed"]}
          /\ UNCHANGED <<status, keysAtServer>>
    /\ UNCHANGED <<table, keyPage, createDialog, pendingId, revealing, revealed, toDelete,
                   keyActs>>

\* The answer of a row's request. The switch writes its row, the deletion only
\* the total, and it closes whatever question is open by then; pendingId is cleared whichever row it names.
ChangeDone(c) ==
    /\ c \in changes /\ c.done # "sent"
    /\ changes' = changes \ {c}
    /\ list' = IF c.op = "toggle" /\ c.done = "ok"
               THEN [i \in DOMAIN list |-> IF list[i].key = c.key
                        THEN [list[i] EXCEPT !.status = c.to] ELSE list[i]]
               ELSE list
    /\ keyTotal' = IF c.op = "delete" /\ c.done = "ok" /\ keyTotal > 0
                   THEN keyTotal - 1 ELSE keyTotal
    /\ toDelete' = IF c.op = "delete" /\ c.done = "ok" THEN NoRow ELSE toDelete
    /\ revealed' = IF c.op = "reveal" /\ c.done = "ok" THEN c.key ELSE revealed
    /\ revealing' = IF c.op = "reveal" THEN NoRow ELSE revealing
    /\ pendingId' = IF c.op = "reveal" THEN pendingId ELSE NoRow
    /\ UNCHANGED <<atServer, keysLoading, keyLoads, access, keyPage, createDialog, keyActs>>
CloseReveal ==
    /\ revealed # NoRow /\ revealed' = NoRow
    /\ UNCHANGED <<atServer, table, keyPage, createDialog, pendingId, changes, revealing,
                   toDelete, keyActs>>

KeysAnswer ==
    \/ \E l \in keyLoads : ServeLoad(l) \/ ShowLoad(l) \/ FailLoad(l)
    \/ ServeCreate \/ ShowCreated \/ FailCreate
    \/ \E c \in changes : ServeChange(c) \/ ChangeDone(c)

KeysNext ==
    \/ RefreshKeys
    \/ \E p \in 1..KeyPages : TurnPage(p)
    \/ OpenForm \/ CloseForm \/ Create
    \/ \E m \in {"balance", "subscription"} : PickMode(m)
    \/ \E i \in DOMAIN list : Toggle(i)
    \/ \E k \in AccountKeys : Reveal(k) \/ AskDelete(k)
    \/ CancelDelete \/ ConfirmDelete \/ CloseReveal
    \/ KeysAnswer

-----------------------------------------------------------------------------
KeysTypeOK ==
    /\ status \in [AccountKeys -> {"active", "disabled", "gone"}]
    /\ list \in Seq(Row) /\ keyLoads \subseteq Load /\ changes \subseteq Change
    /\ keyTotal \in Nat /\ keyPage \in Nat \ {0} /\ access \in BOOLEAN
    /\ mode = "subscription" => form = "open"
    /\ {created, pendingId, revealing, revealed, toDelete} \subseteq AccountKeys \union {NoRow}

\* No button stays disabled, and no spinner turns, after the last request that
\* justifies it was answered, although rows share one pendingId and the loads are
\* not numbered; and one secret at a time is asked for.
KeysFreed ==
    /\ keysLoading => keyLoads # {}
    /\ pendingId # NoRow => \E c \in changes : c.op # "reveal"
    /\ \A c \in changes : c.op = "reveal" => revealing = c.key
    /\ revealing # NoRow => \E c \in changes : c.op = "reveal"
=============================================================================
