------------------------------ MODULE MCConsole ------------------------------
(* The administration console, and the server that credits what customers paid: *)
(* each behaviour is that of one part, the `scene`; the sign-in of several tabs, *)
(* one page in one tab, or the recharge orders.                                 *)
EXTENDS ConsoleSession, ConsoleUsers, ConsoleSettings, ConsoleUpdate, ConsoleAccess,
        ConsoleOperations, RechargeOrders, TLC

CONSTANTS Scenes, c1, c2, x1
ASSUME MCConsoleAssumption ==
    Scenes \subseteq {"session", "users", "settings", "update", "access", "operations", "recharge"}
VARIABLE scene

\* Tabs and API keys can be exchanged for one another.
Symmetric == Permutations(Frames) \union Permutations(ApiKeyRows)

\* What may run: nothing, the calls with an account in any order, those without a key in
\* any order; the oldest first, all but the last are slow.
RunningCall(u, e, k, t, s) ==
    [user |-> u, email |-> e, key |-> k, label |-> "l1", task |-> t, status |-> s,
     elapsedSeconds |-> 60, createdAt |-> 1, activeForKey |-> 0, concurrencyLimit |-> 1]
MailOnly == RunningCall("", "e1", "", "t3", "queued")
OwnedCalls == {RunningCall("u1", "e1", "k1", "t1", "queued"),
               RunningCall("u1", "e1", "k1", "t2", "processing"), MailOnly}
LooseCalls == {MailOnly, RunningCall("", "", "", "t4", "queued")}
Orders(set, n) == {s \in [1..n -> set] : \A c \in set : \E i \in 1..n : s[i] = c}
InOrder(s) == [i \in DOMAIN s |-> [s[i] EXCEPT !.createdAt = i,
                                      !.elapsedSeconds = IF i < Len(s) THEN 120 ELSE 60]]
SomeSnapshots == {<< >>} \union {InOrder(s) : s \in Orders(OwnedCalls, 3) \union Orders(LooseCalls, 2)}

\* One customer, invited by the other, pays the first order; the other pays the second.
Payers == [t \in Trades |-> IF t = x1 THEN c1 ELSE c2]
Inviters == [t \in Trades |-> IF t = x1 THEN c2 ELSE NoCustomer]
Amounts == [t \in Trades |-> IF t = x1 THEN 2 ELSE 1]
Shares == [t \in Trades |-> 1]

siteVars == <<scene, sessionVars, usersVars, settingsVars, updateVars, accessVars, opsVars,
              rechargeVars>>

\* Where a page starts in several ways it does so in its own scene.
SiteInit ==
    /\ scene \in Scenes
    /\ ConsoleSessionInit /\ UsersInit /\ SettingsInit /\ UpdateInit /\ AccessInit /\ OpsInit
    /\ RechargeInit
    /\ scene # "session" => jar = NoAdmin
    /\ scene # "users" => uncreated = {} /\ verified = {} /\ access = {} /\ ~initialized
    /\ scene # "settings" => stored.value = "unset" /\ stored.key = NoKey
SiteNext ==
    /\ UNCHANGED scene
    /\ \/ /\ scene = "session" /\ ConsoleSessionNext
          /\ UNCHANGED <<usersVars, settingsVars, updateVars, accessVars, opsVars, rechargeVars>>
       \/ /\ scene = "users" /\ UsersNext
          /\ UNCHANGED <<sessionVars, settingsVars, updateVars, accessVars, opsVars, rechargeVars>>
       \/ /\ scene = "settings" /\ SettingsNext
          /\ UNCHANGED <<sessionVars, usersVars, updateVars, accessVars, opsVars, rechargeVars>>
       \/ /\ scene = "update" /\ UpdateNext
          /\ UNCHANGED <<sessionVars, usersVars, settingsVars, accessVars, opsVars, rechargeVars>>
       \/ /\ scene = "access" /\ AccessNext
          /\ UNCHANGED <<sessionVars, usersVars, settingsVars, updateVars, opsVars, rechargeVars>>
       \/ /\ scene = "operations" /\ OpsNext
          /\ UNCHANGED <<sessionVars, usersVars, settingsVars, updateVars, accessVars, rechargeVars>>
       \/ /\ scene = "recharge" /\ RechargeNext
          /\ UNCHANGED <<sessionVars, usersVars, settingsVars, updateVars, accessVars, opsVars>>
SiteSpec ==
    SiteInit /\ [][SiteNext]_siteVars /\ (scene = "update" => UpdateFairness)
    /\ RechargeFairness

\* Every variable of every page has its type.
ConsoleTypeOK ==
    /\ ConsoleSessionTypeOK /\ UsersTypeOK /\ SettingsTypeOK
    /\ UpdateTypeOK /\ AccessTypeOK /\ OpsTypeOK
    /\ RechargeTypeOK

\* No form and no row stays disabled without a request in flight that will free it,
\* and no two forms are saved at the same time, on the users and the API access page.
FormsFreed == SavingLatch /\ RowFreed
\* What is on the screen when requests are over answers the last request, or belongs to
\* the row or the range that is chosen, in whatever order the answers came.
AnswersBelong == LastRequestShown /\ LogPageOfRows /\ RankingOfRange /\ LogsOfAccount
=============================================================================
