---------------------------- MODULE ConsoleProofs ----------------------------
(* Theorems about the administration console, for any accounts, keys, calls,  *)
(* tabs and bounds, and about MCConsole as a whole, with the recharge orders.  *)
EXTENDS MCConsole, RechargeProofs, WellFoundedInduction

-----------------------------------------------------------------------------
(* The sign-in.                                                             *)

Pages == {"login", "console"}
Tokens == Admins \union {NoAdmin}
Checks == [tab: Frames, from: Pages, token: Tokens, active: BOOLEAN,
           answer: {"none", "ok", "cleared", "lost"}]

\* A request with a good answer carries a token, and one a console listens to has it
\* vouched for.
Heard ==
    \A c \in checks : c.answer = "ok" =>
        /\ c.token # NoAdmin
        /\ c.from = "console" /\ c.active => c.token \in vouched[c.tab]
TabsInv ==
    /\ place \in [Frames -> {"closed", "login", "console"}]
    /\ identity \in [Frames -> Tokens] /\ ready \in [Frames -> BOOLEAN]
    /\ vouched \in [Frames -> SUBSET Admins]
    /\ checks \subseteq Checks /\ Heard /\ ConsoleSessionSound
CookiesInv ==
    /\ jar \in Tokens /\ accepted \subseteq Admins
    /\ go \in {"up", "failing", "down"} /\ sameOrigin \in BOOLEAN
    /\ logins \subseteq [tab: Frames, admin: Admins] /\ logouts \subseteq Frames
    /\ OnlyBulkDeleteUnrouted
    /\ steps \in 0..MaxSteps /\ outages \in 0..MaxOutages
SignInInv == TabsInv /\ CookiesInv

LEMMA SignInTyped == SignInInv => ConsoleSessionTypeOK
BY DEF SignInInv, TabsInv, CookiesInv, ConsoleSessionTypeOK, Checks, Pages, Tokens

\* Of what the console's own client asks for, its proxy has one call not in its list.
LEMMA OneCallUnrouted ==
    ASSUME NEW call \in ConsoleCalls, ~Allowed(call)
    PROVE  call = <<"/admin/users", "DELETE">>
<1>1. CASE call \in ConsoleReads
  BY <1>1 DEF ConsoleReads, Allowed, ADMIN_ROUTES
<1>2. CASE call \in ConsoleWrites
  BY <1>2 DEF ConsoleWrites, Allowed, ADMIN_ROUTES
<1> QED
  BY <1>1, <1>2 DEF ConsoleCalls

Asked(f) == \E c \in checks : c.tab = f /\ c.from = "console" /\ c.active

LEMMA SignInInit == ConsoleSessionInit => SignInInv
BY ConsoleSessionAssumption
   DEF ConsoleSessionInit, SignInInv, TabsInv, CookiesInv, Heard, Tokens,
       ConsoleSessionSound, OnlyBulkDeleteUnrouted

\* What leaves the tabs or the cookies alone leaves their part as it was.
LEMMA SignInQuiet ==
    ASSUME SignInInv
    PROVE  /\ UNCHANGED <<tabs, checks, vouched>> => TabsInv'
           /\ UNCHANGED <<jar, accepted, go, sameOrigin, logins, logouts, unrouted, steps, outages>>
                  => CookiesInv'
BY DEF SignInInv, TabsInv, CookiesInv, tabs, Heard, ConsoleSessionSound, OnlyBulkDeleteUnrouted

\* A new request of a tab makes the answers void that its console waited for, and
\* leaves those of the other tabs alone.
LEMMA AskingKeeps ==
    ASSUME SignInInv, NEW f \in Frames, NEW from \in Pages, NEW token \in Tokens,
           NEW others \in SUBSET checks, AskSession(f, from, token, others)
    PROVE  /\ checks' \subseteq Checks /\ NewCheck(f, from, token) \in checks'
           /\ \A c \in others : c.tab # f => c \in checks'
           /\ \A c \in checks' : c.answer = "ok" =>
                  /\ c.token # NoAdmin
                  /\ c.from = "console" /\ c.active => c.tab # f /\ c \in others
<1>1. /\ NewCheck(f, from, token) \in Checks /\ NewCheck(f, from, token).answer # "ok"
  BY DEF NewCheck, Checks
<1>2. ASSUME NEW c \in others
      PROVE  /\ Unheard(f, c) \in Checks
             /\ c.tab # f => Unheard(f, c) = c
             /\ Unheard(f, c).answer = "ok" => c.token # NoAdmin /\ Unheard(f, c).token = c.token
             /\ Unheard(f, c).from = "console" /\ Unheard(f, c).active
                    => c.tab # f /\ Unheard(f, c) = c
  <2>1. c \in Checks /\ (c.answer = "ok" => c.token # NoAdmin)
    BY DEF SignInInv, TabsInv, Heard
  <2> QED
    BY <2>1 DEF Unheard, Checks
<1>3. checks' = {Unheard(f, c) : c \in others} \union {NewCheck(f, from, token)}
  BY DEF AskSession
<1>4. \A c \in others : c.tab # f => c \in checks'
  BY <1>2, <1>3
<1>5. ASSUME NEW c \in checks', c.answer = "ok"
      PROVE  /\ c.token # NoAdmin
             /\ c.from = "console" /\ c.active => c.tab # f /\ c \in others
  <2>1. PICK b \in others : c = Unheard(f, b)
    BY <1>1, <1>3, <1>5
  <2> QED
    BY <1>2, <1>5, <2>1
<1> QED
  BY <1>1, <1>2, <1>3, <1>4, <1>5

\* What is shown stays right if only one tab changes, no other tab loses its request,
\* and that tab shows whom Go accepted, or has a request under way or the login page.
LEMMA OneTabChanged ==
    ASSUME SignInInv, NEW f \in Frames,
           \A g \in Frames \ {f} : /\ place'[g] = place[g] /\ identity'[g] = identity[g]
                                   /\ ready'[g] = ready[g] /\ vouched[g] \subseteq vouched'[g]
                                   /\ Asked(g) => Asked(g)',
           identity'[f] # NoAdmin => place'[f] = "console" /\ ready'[f]
                                     /\ identity'[f] \in vouched'[f],
           place'[f] = "console" /\ identity'[f] = NoAdmin => Asked(f)'
    PROVE  ConsoleSessionSound'
BY DEF SignInInv, TabsInv, ConsoleSessionSound, Asked

\* A page that is mounted and asks again keeps what is known of every tab.
LEMMA MountKeeps ==
    ASSUME SignInInv, NEW f \in Frames, NEW shown \in Pages, NEW token \in Tokens,
           NEW others \in SUBSET checks, \A c \in checks : c.tab # f => c \in others,
           Mount(f, shown, token, others)
    PROVE  TabsInv'
<1>1. /\ checks' \subseteq Checks /\ NewCheck(f, shown, token) \in checks'
      /\ \A c \in others : c.tab # f => c \in checks'
      /\ \A c \in checks' : c.answer = "ok" =>
             /\ c.token # NoAdmin
             /\ c.from = "console" /\ c.active => c.tab # f /\ c \in others
  BY AskingKeeps DEF Mount
<1>2. /\ place' \in [Frames -> {"closed", "login", "console"}] /\ place'[f] = shown
      /\ identity' \in [Frames -> Tokens] /\ identity'[f] = NoAdmin
      /\ ready' \in [Frames -> BOOLEAN] /\ vouched' \in [Frames -> SUBSET Admins]
      /\ \A g \in Frames \ {f} : /\ place'[g] = place[g] /\ identity'[g] = identity[g]
                                 /\ ready'[g] = ready[g] /\ vouched'[g] = vouched[g]
  BY DEF Mount, SignInInv, TabsInv, Pages, Tokens
<1>3. Heard'
  <2>1. \A c \in checks' : c \in Checks
    BY <1>1
  <2>2. \A c \in others : c.answer = "ok" /\ c.from = "console" /\ c.active
                              => c.token \in vouched[c.tab]
    BY DEF SignInInv, TabsInv, Heard
  <2>3. \A c \in checks' : c.tab \in Frames
    BY <2>1 DEF Checks
  <2> QED
    BY <1>1, <1>2, <2>2, <2>3 DEF Heard
<1>4. ConsoleSessionSound'
  <2>1. \A g \in Frames \ {f} : Asked(g) => Asked(g)'
    BY <1>1 DEF Asked
  <2>2. shown = "console" => Asked(f)'
    <3>1. /\ NewCheck(f, shown, token).tab = f /\ NewCheck(f, shown, token).from = shown
          /\ NewCheck(f, shown, token).active
      BY DEF NewCheck
    <3> QED
      BY <1>1, <3>1 DEF Asked
  <2> QED
    BY <1>2, <2>1, <2>2, OneTabChanged
<1> QED
  BY <1>1, <1>2, <1>3, <1>4 DEF TabsInv

LEMMA OpenKeeps ==
    ASSUME SignInInv, NEW f \in Frames, Open(f)
    PROVE  SignInInv'
<1>1. Mount(f, HomePage, jar, checks) /\ HomePage \in Pages /\ jar \in Tokens
  BY DEF Open, HomePage, Pages, SignInInv, CookiesInv
<1>2. TabsInv'
  BY <1>1, MountKeeps
<1>3. CookiesInv'
  BY ConsoleSessionAssumption DEF Open, Step, SignInInv, CookiesInv, OnlyBulkDeleteUnrouted
<1> QED
  BY <1>2, <1>3 DEF SignInInv

LEMMA NavigateKeeps ==
    ASSUME SignInInv, NEW f \in Frames, Navigate(f)
    PROVE  SignInInv'
<1>1. AskSession(f, "console", jar, checks) /\ UNCHANGED <<tabs, vouched>>
      /\ jar \in Tokens /\ "console" \in Pages
  BY DEF Navigate, Pages, SignInInv, CookiesInv
<1>2. /\ checks' \subseteq Checks /\ \A c \in checks : c.tab # f => c \in checks'
      /\ \A c \in checks' : c.answer = "ok" =>
             /\ c.token # NoAdmin
             /\ c.from = "console" /\ c.active => c.tab # f /\ c \in checks
  BY <1>1, AskingKeeps
<1>3. Heard'
  BY <1>1, <1>2 DEF Heard, SignInInv, TabsInv
<1>4. ConsoleSessionSound'
  <2>1. \A g \in Frames \ {f} : Asked(g) => Asked(g)'
    BY <1>2 DEF Asked
  <2>2. identity[f] # NoAdmin
    BY DEF Navigate
  <2> QED
    BY <1>1, <2>1, <2>2 DEF ConsoleSessionSound, Asked, tabs, SignInInv, TabsInv
<1>5. CookiesInv'
  BY ConsoleSessionAssumption DEF Navigate, Step, SignInInv, CookiesInv, OnlyBulkDeleteUnrouted
<1> QED
  BY <1>1, <1>2, <1>3, <1>4, <1>5 DEF SignInInv, TabsInv, tabs

\* Go serves a request: its answer is good only for a token it accepts.
LEMMA ServeSessionKeeps ==
    ASSUME SignInInv, NEW c \in checks, ServeSession(c)
    PROVE  SignInInv'
<1> DEFINE reply == SessionReply(c.token)
           new == [c EXCEPT !.answer = reply]
<1>1. c \in Checks /\ c.tab \in Frames /\ c.token \in Tokens
  BY DEF SignInInv, TabsInv, Checks
<1>2. /\ reply \in {"ok", "cleared", "lost"}
      /\ reply = "ok" => c.token \in Admins /\ c.token # NoAdmin
  BY DEF SessionReply, SignInInv, CookiesInv
<1> HIDE DEF reply
<1>3. /\ new \in Checks /\ new.answer = reply /\ new.tab = c.tab /\ new.from = c.from
      /\ new.token = c.token /\ new.active = c.active
  BY <1>1, <1>2 DEF Checks
<1>4. /\ checks' = (checks \ {c}) \union {new}
      /\ vouched' = IF reply = "ok" THEN [vouched EXCEPT ![c.tab] = @ \union {c.token}]
                    ELSE vouched
      /\ UNCHANGED tabs
  BY DEF ServeSession, reply
<1> HIDE DEF new
<1>5. /\ vouched' \in [Frames -> SUBSET Admins]
      /\ \A g \in Frames : vouched[g] \subseteq vouched'[g]
      /\ reply = "ok" => c.token \in vouched'[c.tab]
  BY <1>1, <1>2, <1>4 DEF SignInInv, TabsInv
<1>6. Heard'
  <2>1. ASSUME NEW b \in checks', b.answer = "ok"
        PROVE  b.token # NoAdmin /\ (b.from = "console" /\ b.active => b.token \in vouched'[b.tab])
    <3>1. CASE b = new
      BY <1>2, <1>3, <1>5, <2>1, <3>1
    <3>2. CASE b # new
      <4>1. b \in checks /\ b.tab \in Frames
        BY <1>4, <3>2 DEF SignInInv, TabsInv, Checks
      <4> QED
        BY <1>5, <2>1, <4>1 DEF SignInInv, TabsInv, Heard
    <3> QED
      BY <3>1, <3>2
  <2> QED
    BY <2>1 DEF Heard
<1>7. ConsoleSessionSound'
  <2>1. \A g \in Frames : Asked(g) => Asked(g)'
    BY <1>3, <1>4 DEF Asked
  <2> QED
    BY <1>4, <1>5, <2>1 DEF ConsoleSessionSound, Asked, tabs, SignInInv, TabsInv
<1>8. TabsInv'
  BY <1>3, <1>4, <1>5, <1>6, <1>7 DEF SignInInv, TabsInv, tabs
<1>9. CookiesInv'
  BY SignInQuiet DEF ServeSession
<1> QED
  BY <1>8, <1>9 DEF SignInInv

\* The answer about the session: it moves its tab, gives it an identity, or is void.
LEMMA SessionAnswerKeeps ==
    ASSUME SignInInv, NEW c \in checks, SessionAnswer(c)
    PROVE  SignInInv'
<1> DEFINE shown == IF SessionOk(c) THEN "console" ELSE "login"
           moves == Listens(c) /\ c.from # shown /\ place[c.tab] # shown
           shows == Listens(c) /\ c.from = "console" /\ shown = "console"
<1>1. c \in Checks /\ c.tab \in Frames /\ c.from \in Pages /\ c.token \in Tokens
  BY DEF SignInInv, TabsInv, Checks
<1>2. /\ jar' \in Tokens
      /\ UNCHANGED <<accepted, go, sameOrigin, logins, logouts, unrouted, steps, outages>>
  BY DEF SessionAnswer, SignInInv, CookiesInv, Tokens
<1>3. CookiesInv'
  BY <1>2 DEF SignInInv, CookiesInv, OnlyBulkDeleteUnrouted
<1>4. CASE moves
  <2>1. Mount(c.tab, shown, jar', checks \ {c})
    BY <1>4 DEF SessionAnswer
  <2>2. shown \in Pages /\ (\A b \in checks : b.tab # c.tab => b \in checks \ {c})
    BY DEF Pages
  <2> HIDE DEF shown
  <2>3. TabsInv'
    BY <1>1, <1>2, <2>1, <2>2, MountKeeps
  <2> QED
    BY <1>3, <2>3 DEF SignInInv
<1>5. CASE ~moves
  <2>1. /\ checks' = checks \ {c} /\ UNCHANGED <<place, vouched>>
        /\ ready' = IF shows THEN [ready EXCEPT ![c.tab] = TRUE] ELSE ready
        /\ identity' = IF shows THEN [identity EXCEPT ![c.tab] = c.token] ELSE identity
    BY <1>5 DEF SessionAnswer
  <2>2. shows => /\ place[c.tab] = "console" /\ c.token # NoAdmin
                 /\ c.token \in vouched[c.tab]
    BY DEF Listens, SessionOk, SignInInv, TabsInv, Heard
  <2>3. place[c.tab] = "console" /\ ~shows /\ c.from = "console" => ~c.active
    BY <1>5 DEF Listens
  <2> HIDE DEF shows
  <2>4. identity' \in [Frames -> Tokens] /\ ready' \in [Frames -> BOOLEAN]
    BY <1>1, <2>1 DEF SignInInv, TabsInv
  <2>5. Heard' /\ checks' \subseteq Checks
    BY <2>1 DEF Heard, SignInInv, TabsInv
  <2>6. ConsoleSessionSound'
    <3>1. \A g \in Frames \ {c.tab} : Asked(g) => Asked(g)'
      BY <2>1 DEF Asked
    <3>2. place[c.tab] = "console" /\ ~shows /\ Asked(c.tab) => Asked(c.tab)'
      BY <2>1, <2>3 DEF Asked
    <3>3. \A g \in Frames \ {c.tab} : /\ place'[g] = place[g] /\ identity'[g] = identity[g]
                                      /\ ready'[g] = ready[g] /\ vouched[g] \subseteq vouched'[g]
      BY <1>1, <2>1 DEF SignInInv, TabsInv
    <3>4. CASE shows
      <4>1. identity'[c.tab] = c.token /\ ready'[c.tab] = TRUE /\ place'[c.tab] = "console"
            /\ c.token \in vouched'[c.tab] /\ c.token # NoAdmin
        BY <1>1, <2>1, <2>2, <3>4 DEF SignInInv, TabsInv
      <4> QED
        BY <1>1, <3>1, <3>3, <4>1, OneTabChanged
    <3>5. CASE ~shows
      <4>1. UNCHANGED <<place, identity, ready, vouched>>
        BY <2>1, <3>5
      <4>2. /\ identity[c.tab] # NoAdmin => place[c.tab] = "console" /\ ready[c.tab]
                                            /\ identity[c.tab] \in vouched[c.tab]
            /\ place[c.tab] = "console" /\ identity[c.tab] = NoAdmin => Asked(c.tab)
        BY <1>1 DEF SignInInv, TabsInv, ConsoleSessionSound, Asked
      <4> QED
        BY <1>1, <3>1, <3>2, <3>3, <3>5, <4>1, <4>2, OneTabChanged
    <3> QED
      BY <3>4, <3>5
  <2>7. TabsInv'
    BY <2>1, <2>4, <2>5, <2>6 DEF SignInInv, TabsInv
  <2> QED
    BY <1>3, <2>7 DEF SignInInv
<1> QED
  BY <1>4, <1>5

\* Signing in shows the console with a request for its session; signing out the login
\* page.
LEMMA LoginKeeps ==
    ASSUME SignInInv, NEW l \in logins, LoginAnswer(l)
    PROVE  SignInInv'
<1>1. l.tab \in Frames /\ l.admin \in Admins /\ l.admin \in Tokens /\ "console" \in Pages
  BY DEF SignInInv, CookiesInv, Tokens, Pages
<1>2. CookiesInv'
  BY <1>1 DEF LoginAnswer, SignInInv, CookiesInv, OnlyBulkDeleteUnrouted
<1>3. UNCHANGED <<tabs, checks, vouched>> \/ Mount(l.tab, "console", l.admin, checks)
  BY DEF LoginAnswer
<1>4. TabsInv'
  BY <1>1, <1>3, SignInQuiet, MountKeeps
<1> QED
  BY <1>2, <1>4 DEF SignInInv

LEMMA LogoutKeeps ==
    ASSUME SignInInv, NEW f \in Frames, LogoutAnswer(f)
    PROVE  SignInInv'
<1>1. jar' \in Tokens /\ "login" \in Pages
  BY DEF LogoutAnswer, SignInInv, CookiesInv, Tokens, Pages
<1>2. CookiesInv'
  BY <1>1 DEF LogoutAnswer, SignInInv, CookiesInv, OnlyBulkDeleteUnrouted
<1>3. UNCHANGED <<tabs, checks, vouched>> \/ Mount(f, "login", jar', checks)
  BY DEF LogoutAnswer
<1>4. TabsInv'
  BY <1>1, <1>3, SignInQuiet, MountKeeps
<1> QED
  BY <1>2, <1>4 DEF SignInInv

LEMMA SignInNext ==
    ASSUME SignInInv, [ConsoleSessionNext]_sessionVars
    PROVE  SignInInv'
<1>1. CASE UNCHANGED sessionVars
  BY <1>1, SignInQuiet DEF sessionVars, requests, SignInInv
<1>2. ASSUME NEW f \in Frames, NEW call \in ConsoleCalls, Call(f, call)
      PROVE  SignInInv'
  <2>1. unrouted' \in {NoRoute, <<"/admin/users", "DELETE">>}
    BY <1>2, OneCallUnrouted DEF Call, ProxyAnswer
  <2>2. CookiesInv'
    BY <1>2, <2>1 DEF Call, requests, SignInInv, CookiesInv, OnlyBulkDeleteUnrouted
  <2> QED
    BY <1>2, <2>2, SignInQuiet DEF Call, requests, SignInInv
<1>3. ASSUME NEW f \in Frames, (\E a \in Admins : Submit(f, a)) \/ Logout(f)
      PROVE  SignInInv'
  <2>1. CookiesInv'
    BY <1>3, ConsoleSessionAssumption
       DEF Submit, Logout, Step, SignInInv, CookiesInv, OnlyBulkDeleteUnrouted
  <2> QED
    BY <1>3, <2>1, SignInQuiet DEF Submit, Logout, SignInInv
<1>4. CASE Outage \/ Recover
  <2>1. CookiesInv'
    BY <1>4, ConsoleSessionAssumption
       DEF Outage, Recover, requests, SignInInv, CookiesInv, OnlyBulkDeleteUnrouted
  <2> QED
    BY <1>4, <2>1, SignInQuiet DEF Outage, Recover, requests, SignInInv
<1> QED
  BY <1>1, <1>2, <1>3, <1>4, OpenKeeps, NavigateKeeps, ServeSessionKeeps, SessionAnswerKeeps,
     LoginKeeps, LogoutKeeps
     DEF ConsoleSessionNext, SessionStep

-----------------------------------------------------------------------------
(* The page of users: the list, the forms behind one flag, the panels.      *)

RowsOfUsers == [id: Accounts, active: BOOLEAN, verified: BOOLEAN]
WorkOps == SavingOps \union {"toggle", "delete", "verify"}
Works == [op: WorkOps, id: Accounts \union {NoAccount}, ids: SUBSET Accounts, query: Query,
          step: {"sent", "created", "ok", "failed", "loading"}, to: BOOLEAN,
          row: RowsOfUsers \union {NoAccount}]

AccountsInv ==
    /\ present \subseteq Accounts /\ disabled \subseteq Accounts /\ verified \subseteq Accounts
    /\ uncreated \subseteq Accounts \ present
ListInv ==
    /\ typed \in Terms /\ query \in Query /\ rowsOf \in Query
    /\ rows \subseteq RowsOfUsers /\ selected \subseteq Accounts \ AdminAccounts
    /\ Refreshing => listing.query \in Query
FormsInv ==
    /\ SavingLatch /\ saving \in BOOLEAN
    /\ works \subseteq Works
    /\ \A w \in works : w.step = "ok" /\ w.op \in {"verify", "quota"} => w.row \in RowsOfUsers
    /\ about \in Accounts \union {NoAccount}
    /\ dialog = "bulk" => ~saving
LogsInv ==
    /\ LogsOfAccount /\ logs \in Accounts \union {NoAccount}
    /\ logsLoad \in [id: Accounts \union {NoAccount}, active: BOOLEAN]
    /\ logsLoad.active => dialog = "logs" /\ logsLoad.id = about
PanelsInv ==
    /\ ranked \in Days \union {"none"} /\ days \in Days /\ rankLoads \subseteq Days
    /\ access \subseteq Accounts /\ initialized \in BOOLEAN /\ chosen \subseteq Accounts
    /\ saved \subseteq Accounts
    /\ accessSaving \in [ids: SUBSET Accounts, step: {"none", "sent", "ok", "failed"}]
UsersInv == AccountsInv /\ ListInv /\ FormsInv /\ LogsInv /\ PanelsInv

LEMMA UsersTyped == UsersInv => UsersTypeOK /\ SavingLatch /\ LogsOfAccount
<1> SUFFICES ASSUME UsersInv PROVE UsersTypeOK /\ SavingLatch /\ LogsOfAccount
  OBVIOUS
<1>1. RowIds \subseteq Accounts
  BY DEF RowIds, UsersInv, ListInv, RowsOfUsers
<1> QED
  BY <1>1 DEF UsersInv, AccountsInv, ListInv, FormsInv, LogsInv, PanelsInv, UsersTypeOK

LEMMA FirstQueryTyped == FirstQuery \in Query /\ "" \in Terms /\ Paying \subseteq Accounts
<1>1. "" \in Terms /\ Paying \subseteq Accounts
  BY ConsoleUsersAssumption
<1>2. UserPages \in Nat \ {0}
  BY ConsoleUsersAssumption
<1>3. 1 \in 1..UserPages
  BY <1>2
<1> QED
  BY <1>1, <1>3 DEF FirstQuery, Query

LEMMA UsersStarts == UsersInit => UsersInv
<1> SUFFICES ASSUME UsersInit PROVE UsersInv
  OBVIOUS
<1>1. ListInv
  <2>1. listing.query = FirstQuery
    BY DEF UsersInit
  <2> QED
    BY <2>1, FirstQueryTyped DEF UsersInit, ListInv
<1>2. FormsInv
  <2>1. works = {} /\ saving = FALSE /\ about = NoAccount /\ dialog = "none"
    BY DEF UsersInit
  <2>2. SavingLatch
    BY <2>1 DEF SavingLatch
  <2> QED
    BY <2>1, <2>2 DEF FormsInv
<1>3. LogsInv
  BY DEF UsersInit, LogsInv, LogsOfAccount
<1>4. PanelsInv
  BY DEF UsersInit, PanelsInv, Days, NotSaving
<1>5. AccountsInv
  BY ConsoleUsersAssumption DEF UsersInit, AccountsInv
<1> QED
  BY <1>1, <1>2, <1>3, <1>4, <1>5 DEF UsersInv

\* What leaves the variables of a part alone leaves the part as it was.
LEMMA PartsQuiet ==
    ASSUME UsersInv
    PROVE  /\ UNCHANGED accounts => AccountsInv'
           /\ UNCHANGED list => ListInv'
           /\ UNCHANGED <<open, saving, works>> => FormsInv'
           /\ UNCHANGED <<open, logPanel>> => LogsInv'
           /\ UNCHANGED <<ranked, days, rankLoads, access, initialized, chosen, saved,
                           accessSaving>>
                  => PanelsInv'
<1>1. UNCHANGED accounts => AccountsInv'
  BY DEF UsersInv, accounts, AccountsInv
<1>2. UNCHANGED list => ListInv'
  BY DEF UsersInv, list, ListInv, Refreshing
<1>3. UNCHANGED <<open, saving, works>> => FormsInv'
  BY DEF UsersInv, open, FormsInv, SavingLatch
<1>4. UNCHANGED <<open, logPanel>> => LogsInv'
  BY DEF UsersInv, open, logPanel, LogsInv, LogsOfAccount
<1>5. UNCHANGED <<ranked, days, rankLoads, access, initialized, chosen, saved,
                           accessSaving>> => PanelsInv'
  BY DEF UsersInv, PanelsInv
<1> QED
  BY <1>1, <1>2, <1>3, <1>4, <1>5

\* A step of the list alone.
LEMMA ListStep ==
    ASSUME UsersInv, ListInv', UNCHANGED <<accounts, open, latches, logPanel, rankPanel, accessPanel>>
    PROVE  UsersInv'
<1>1. UNCHANGED <<saving, works, ranked, days, rankLoads, access, initialized, chosen, saved,
                           accessSaving>>
  BY DEF latches, rankPanel, accessPanel
<1> QED
  BY <1>1, PartsQuiet DEF UsersInv

LEMMA AskKeeps ==
    ASSUME UsersInv, NEW q \in Query, Ask(q)
    PROVE  UsersInv'
<1>1. listing'.query = q /\ query' = q /\ selected' = {} /\ UNCHANGED <<typed, rows, rowsOf>>
  BY DEF Ask, Load
<1>2. ListInv'
  BY <1>1 DEF UsersInv, ListInv
<1> QED
  BY <1>2, ListStep DEF Ask

LEMMA ListKept ==
    ASSUME UsersInv,
           \/ \E t \in Terms : Type(t)
           \/ \E f \in {"all", "active"} : Filter(f)
           \/ \E p \in 1..UserPages : TurnPage(p)
           \/ RefreshUsers \/ Search \/ ListAnswer
           \/ \E s \in SUBSET Accounts : Select(s)
    PROVE  UsersInv'
<1>1. query \in Query /\ typed \in Terms /\ 1 \in 1..UserPages
  <2>1. UserPages \in Nat \ {0}
    BY ConsoleUsersAssumption
  <2>2. 1 \in 1..UserPages
    BY <2>1
  <2> QED
    BY <2>2 DEF UsersInv, ListInv
<1>2. ASSUME NEW t \in Terms, Type(t) PROVE UsersInv'
  <2>1. ListInv'
    BY <1>2 DEF Type, UsersInv, ListInv, Refreshing
  <2> QED
    BY <1>2, <2>1, ListStep DEF Type
<1>3. ASSUME NEW f \in {"all", "active"}, Filter(f) PROVE UsersInv'
  <2>1. [query EXCEPT !.filter = f, !.page = 1] \in Query
    BY <1>1 DEF Query
  <2> QED
    BY <1>3, <2>1, AskKeeps DEF Filter
<1>4. ASSUME NEW p \in 1..UserPages, TurnPage(p) PROVE UsersInv'
  <2>1. [query EXCEPT !.page = p] \in Query
    BY <1>1 DEF Query
  <2> QED
    BY <1>4, <2>1, AskKeeps DEF TurnPage
<1>5. CASE Search
  <2>1. [query EXCEPT !.term = typed, !.page = 1] \in Query
    BY <1>1 DEF Query
  <2> QED
    BY <1>5, <2>1, AskKeeps DEF Search
<1>6. CASE RefreshUsers
  <2>1. listing'.query = query
    BY <1>6 DEF RefreshUsers, Load
  <2>2. ListInv'
    BY <1>6, <2>1 DEF RefreshUsers, UsersInv, ListInv
  <2> QED
    BY <1>6, <2>2, ListStep DEF RefreshUsers
<1>7. CASE ListAnswer
  <2>1. \A a \in present : Row(a) \in RowsOfUsers
    BY DEF Row, RowsOfUsers, UsersInv, AccountsInv
  <2>2. rows' \subseteq RowsOfUsers /\ rowsOf' \in Query
    BY <1>7, <2>1 DEF ListAnswer, UsersInv, ListInv
  <2>3. ListInv'
    BY <1>7, <2>2 DEF ListAnswer, UsersInv, ListInv, Refreshing
  <2> QED
    BY <1>7, <2>3, ListStep DEF ListAnswer
<1>8. ASSUME NEW s \in SUBSET Accounts, Select(s) PROVE UsersInv'
  <2>1. Selectable \subseteq Accounts \ AdminAccounts
    BY DEF Selectable, RowIds, UsersInv, ListInv, RowsOfUsers
  <2>2. s \subseteq Selectable
    BY <1>8 DEF Select
  <2>3. selected' \subseteq Accounts \ AdminAccounts
    BY <1>8, <2>1, <2>2 DEF Select, UsersInv, ListInv
  <2>4. ListInv'
    BY <1>8, <2>3 DEF Select, UsersInv, ListInv, Refreshing
  <2> QED
    BY <1>8, <2>4, ListStep DEF Select
<1> QED
  BY <1>2, <1>3, <1>4, <1>5, <1>6, <1>7, <1>8

\* A dialog is opened or closed: the question about several accounts is asked only while
\* nothing is being saved, and credit logs belong to their dialog.
LEMMA OpenFormKept ==
    ASSUME UsersInv, NEW d \in SavingOps \union {"delete"},
           NEW a \in Accounts \union {NoAccount}, OpenForm(d, a)
    PROVE  UsersInv'
<1>1. dialog' = d /\ about' = a /\ dialog = "none"
      /\ UNCHANGED <<accounts, list, latches, logPanel, rankPanel, accessPanel>>
  BY DEF OpenForm, Show, Free
<1>2. d = "bulk" => ~saving
  <2>1. ASSUME NEW r \in rows PROVE "bulk" \notin rowActions(r)
    BY DEF rowActions
  <2>2. d = "bulk" => d \in tableControls
    BY <2>1 DEF OpenForm, Offered
  <2> QED
    BY <2>2 DEF tableControls
<1>3. d # "logs" /\ ~logsLoad.active
  BY <1>1 DEF UsersInv, LogsInv, SavingOps
<1>4. FormsInv'
  BY <1>1, <1>2 DEF UsersInv, FormsInv, SavingLatch, latches
<1>5. LogsInv'
  BY <1>1, <1>3 DEF UsersInv, LogsInv, LogsOfAccount, logPanel
<1> QED
  BY <1>1, <1>4, <1>5, PartsQuiet DEF UsersInv, rankPanel, accessPanel

\* A dialog that closes leaves no request for credit logs that counts.
LEMMA ClosedKeeps ==
    ASSUME UsersInv, dialog' \in {"none", dialog}, about' = about,
           UNCHANGED <<saving, works>>, logs' = logs,
           \/ logsLoad' = [logsLoad EXCEPT !.active = FALSE]
           \/ logsLoad' = logsLoad /\ (dialog' # dialog => dialog # "logs")
    PROVE  FormsInv' /\ LogsInv'
<1>1. FormsInv'
  BY DEF UsersInv, FormsInv, SavingLatch
<1>2. LogsInv'
  BY DEF UsersInv, LogsInv, LogsOfAccount
<1> QED
  BY <1>1, <1>2

LEMMA DismissKept ==
    ASSUME UsersInv, Dismiss
    PROVE  UsersInv'
<1>1. /\ dialog' = "none" /\ about' = about /\ logs' = logs
      /\ logsLoad' = [logsLoad EXCEPT !.active = FALSE]
      /\ UNCHANGED <<accounts, list, latches, rankPanel, accessPanel>>
  BY DEF Dismiss, Show
<1>2. FormsInv' /\ LogsInv'
  BY <1>1, ClosedKeeps DEF latches
<1> QED
  BY <1>1, <1>2, PartsQuiet DEF UsersInv, rankPanel, accessPanel

\* What a handler starts with.
LEMMA WorkTyped ==
    ASSUME UsersInv, NEW op \in WorkOps, NEW a \in Accounts \union {NoAccount}, NEW to \in BOOLEAN,
           Start(op, a, to)
    PROVE  \E w \in Works : works' = works \union {w} /\ w.op = op /\ w.step = "sent"
<1> DEFINE new == [op |-> op, id |-> a, ids |-> selected, query |-> query, step |-> "sent",
                   to |-> to, row |-> NoAccount]
<1>1. query \in Query /\ selected \in SUBSET Accounts
  BY DEF UsersInv, ListInv
<1>2. new \in Works
  BY <1>1 DEF Works
<1>3. works' = works \union {new} /\ new.op = op /\ new.step = "sent"
  BY DEF Start
<1> HIDE DEF new
<1> QED
  BY <1>2, <1>3

\* A form is sent while no other is under way.
LEMMA SavingStarts ==
    ASSUME UsersInv, NEW op \in SavingOps, NEW to \in BOOLEAN, ~saving, Start(op, about, to),
           saving' = TRUE, about' = about, dialog' \in {dialog, "none"}, dialog' # "bulk"
    PROVE  FormsInv'
<1>1. about \in Accounts \union {NoAccount} /\ op \in WorkOps
  BY DEF UsersInv, FormsInv, WorkOps
<1>2. PICK new \in Works : works' = works \union {new} /\ new.op = op /\ new.step = "sent"
  BY <1>1, WorkTyped
<1>3. \A w \in works : w.op \notin SavingOps
  BY DEF UsersInv, FormsInv, SavingLatch
<1>4. SavingLatch'
  BY <1>2, <1>3 DEF SavingLatch
<1> QED
  BY <1>2, <1>4 DEF UsersInv, FormsInv

LEMMA SubmitKept ==
    ASSUME UsersInv, NEW op \in {"save", "grant", "quota", "balance"}, SubmitForm(op)
    PROVE  UsersInv'
<1>1. /\ dialog = op /\ saving' = TRUE
      /\ UNCHANGED <<accounts, list, open, logPanel, rankPanel, accessPanel>>
  BY DEF SubmitForm
<1>2. ~saving /\ op \in SavingOps /\ op # "bulk"
  BY DEF SubmitForm, formControls, SavingOps
<1>3. PICK to \in BOOLEAN : Start(op, about, to)
  BY DEF SubmitForm
<1>4. FormsInv'
  BY <1>1, <1>2, <1>3, SavingStarts DEF open
<1> QED
  BY <1>1, <1>4, PartsQuiet DEF UsersInv, rankPanel, accessPanel

\* A handler that holds the flag of the forms no more than before: an action on one row
\* or a deletion.
LEMMA OtherStarts ==
    ASSUME UsersInv, NEW op \in WorkOps \ SavingOps, NEW a \in Accounts \union {NoAccount},
           NEW to \in BOOLEAN, Start(op, a, to), saving' = saving, about' = about,
           dialog' = dialog \/ dialog' = "none"
    PROVE  FormsInv'
<1>1. PICK new \in Works : works' = works \union {new} /\ new.op = op /\ new.step = "sent"
  BY WorkTyped
<1>2. SavingLatch'
  BY <1>1 DEF UsersInv, FormsInv, SavingLatch
<1> QED
  BY <1>1, <1>2 DEF UsersInv, FormsInv

LEMMA ConfirmKept ==
    ASSUME UsersInv, Confirm
    PROVE  UsersInv'
<1>1. /\ dialog \in {"delete", "bulk"} /\ Start(dialog, about, TRUE) /\ dialog' = "none"
      /\ saving' = (saving \/ dialog = "bulk")
      /\ UNCHANGED <<about, accounts, list, logPanel, rankPanel, accessPanel>>
  BY DEF Confirm
<1>2. ASSUME dialog = "bulk" PROVE FormsInv'
  <2>1. ~saving /\ saving' = TRUE /\ dialog \in SavingOps
    BY <1>1, <1>2 DEF UsersInv, FormsInv, SavingOps
  <2> QED
    BY <1>1, <2>1, SavingStarts
<1>3. ASSUME dialog = "delete" PROVE FormsInv'
  <2>1. about \in Accounts \union {NoAccount} /\ dialog \in WorkOps \ SavingOps
    BY <1>3 DEF UsersInv, FormsInv, WorkOps, SavingOps
  <2>2. saving' = saving
    BY <1>1, <1>3 DEF UsersInv, FormsInv
  <2> QED
    BY <1>1, <2>1, <2>2, OtherStarts
<1>4. FormsInv'
  BY <1>1, <1>2, <1>3
<1>5. LogsInv'
  BY <1>1 DEF UsersInv, LogsInv, LogsOfAccount, logPanel
<1> QED
  BY <1>1, <1>4, <1>5, PartsQuiet DEF UsersInv, rankPanel, accessPanel

LEMMA RowActionKept ==
    ASSUME UsersInv, NEW r \in rows, Toggle(r) \/ Verify(r)
    PROVE  UsersInv'
<1>1. r.id \in Accounts \union {NoAccount} /\ (~r.active) \in BOOLEAN
  BY DEF UsersInv, ListInv, RowsOfUsers
<1>2. UNCHANGED <<accounts, list, open, saving, logPanel, rankPanel, accessPanel>>
  BY DEF Toggle, Verify
<1>3. {"toggle", "verify"} \subseteq WorkOps \ SavingOps
  BY DEF WorkOps, SavingOps
<1>4. CASE Toggle(r)
  <2>1. Start("toggle", r.id, ~r.active)
    BY <1>4 DEF Toggle
  <2> QED
    BY <1>1, <1>2, <1>3, <2>1, OtherStarts, PartsQuiet DEF open, UsersInv, rankPanel, accessPanel
<1>5. CASE Verify(r)
  <2>1. Start("verify", r.id, TRUE)
    BY <1>5 DEF Verify
  <2> QED
    BY <1>1, <1>2, <1>3, <2>1, OtherStarts, PartsQuiet DEF open, UsersInv, rankPanel, accessPanel
<1> QED
  BY <1>4, <1>5

\* A handler goes on, or ends and lowers the flag if it is one of a form.
LEMMA WorkGoesOn ==
    ASSUME UsersInv, NEW w \in works, NEW v \in Works, v.op = w.op,
           v.step = "ok" /\ v.op \in {"verify", "quota"} => v.row \in RowsOfUsers,
           works' = (works \ {w}) \union {v},
           saving' = saving, about' = about, dialog' \in {dialog, "none"}
    PROVE  FormsInv'
<1>1. SavingLatch'
  BY DEF UsersInv, FormsInv, SavingLatch
<1> QED
  BY <1>1 DEF UsersInv, FormsInv

LEMMA WorkEnds ==
    ASSUME UsersInv, NEW w \in works, ClearFlag(w), about' = about, dialog' \in {dialog, "none"}
    PROVE  FormsInv'
<1>1. works' = works \ {w} /\ saving' = (saving /\ w.op \notin SavingOps)
  BY DEF ClearFlag
<1>2. saving' <=> \E v \in works' : v.op \in SavingOps
  BY <1>1 DEF UsersInv, FormsInv, SavingLatch
<1>3. SavingLatch'
  BY <1>1, <1>2 DEF UsersInv, FormsInv, SavingLatch
<1> QED
  BY <1>1, <1>3 DEF UsersInv, FormsInv

\* What the server leaves of a handler, its answer or a failure.
LEMMA AnswerTyped ==
    ASSUME UsersInv, NEW w \in works
    PROVE  /\ Failed(w) \in Works /\ Failed(w).op = w.op /\ Failed(w).step = "failed"
           /\ Granted(w) => /\ Answered(w) \in Works /\ Answered(w).op = w.op
                            /\ w.op \in {"verify", "quota"} => Answered(w).row \in RowsOfUsers
<1>1. w \in Works
  BY DEF UsersInv, FormsInv
<1>2. Failed(w) \in Works /\ Failed(w).op = w.op /\ Failed(w).step = "failed"
  BY <1>1 DEF Failed, Works
<1>3. ASSUME Granted(w)
      PROVE  /\ Answered(w) \in Works /\ Answered(w).op = w.op
             /\ w.op \in {"verify", "quota"} => Answered(w).row \in RowsOfUsers
  <2> DEFINE told == IF w.op \in {"verify", "quota"}
                     THEN [Row(w.id) EXCEPT !.verified = @ \/ w.op = "verify"] ELSE NoAccount
  <2>1. ASSUME w.op \in {"verify", "quota"} PROVE told \in RowsOfUsers
    <3>1. w.id \in Accounts
      BY <1>3, <2>1 DEF Granted, UsersInv, AccountsInv
    <3> QED
      BY <2>1, <3>1 DEF Row, RowsOfUsers
  <2>2. told \in RowsOfUsers \union {NoAccount}
    BY <2>1
  <2>3. Answered(w) = [w EXCEPT !.step = "ok", !.row = told]
    BY DEF Answered
  <2> HIDE DEF told
  <2> QED
    BY <1>1, <2>1, <2>2, <2>3 DEF Works
<1> QED
  BY <1>2, <1>3

LEMMA ServeWorkKept ==
    ASSUME UsersInv, NEW w \in works, ServeWork(w)
    PROVE  UsersInv'
<1>1. UNCHANGED <<list, open, saving, logPanel, rankPanel, accessPanel>>
  BY DEF ServeWork
<1>2. CASE Goes(w, Failed(w)) /\ UNCHANGED accounts
  <2>1. FormsInv'
    BY <1>1, <1>2, AnswerTyped, WorkGoesOn DEF open, Goes
  <2> QED
    BY <1>1, <1>2, <2>1, PartsQuiet DEF UsersInv, rankPanel, accessPanel
<1>3. CASE /\ Granted(w)
           /\ Goes(w, Answered(w)) \/ Goes(w, Failed(w))
           /\ present' = present \ (Removed(w) \ AdminAccounts)
           /\ verified' = IF w.op = "verify" THEN verified \union {w.id} ELSE verified
           /\ disabled' = IF w.op \notin {"toggle", "save"} THEN disabled
                          ELSE IF w.to THEN disabled \ {w.id} ELSE disabled \union {w.id}
           /\ UNCHANGED uncreated
  <2>1. w.op \in {"verify", "toggle", "save"} => w.id \in Accounts
    BY <1>3 DEF Granted, UsersInv, AccountsInv
  <2>2. AccountsInv'
    BY <1>3, <2>1 DEF UsersInv, AccountsInv
  <2>3. FormsInv'
    BY <1>1, <1>3, AnswerTyped, WorkGoesOn DEF open, Goes
  <2> QED
    BY <1>1, <2>2, <2>3, PartsQuiet DEF UsersInv, rankPanel, accessPanel
<1> QED
  BY <1>2, <1>3 DEF ServeWork

LEMMA ServeCreationKept ==
    ASSUME UsersInv, NEW w \in works, ServeCreation(w)
    PROVE  UsersInv'
<1>1. UNCHANGED <<list, open, saving, logPanel, rankPanel, accessPanel>> /\ w \in Works
      /\ w.op = "save"
  BY DEF ServeCreation, Creates, UsersInv, FormsInv
<1>2. PICK a \in uncreated :
          /\ uncreated' = uncreated \ {a} /\ present' = present \union {a}
          /\ verified' = verified \union {a} /\ UNCHANGED disabled
          /\ \/ Goes(w, Failed(w))
             \/ Goes(w, [w EXCEPT !.id = a, !.step = IF w.to THEN "ok" ELSE "created"])
  BY DEF ServeCreation
<1>3. AccountsInv'
  BY <1>2 DEF UsersInv, AccountsInv
<1> DEFINE new == [w EXCEPT !.id = a, !.step = IF w.to THEN "ok" ELSE "created"]
<1>4. new \in Works /\ new.op = w.op
  BY <1>1 DEF Works, UsersInv, AccountsInv
<1>5. Goes(w, Failed(w)) \/ Goes(w, new)
  BY <1>2
<1> HIDE DEF new
<1>6. FormsInv'
  BY <1>1, <1>4, <1>5, AnswerTyped, WorkGoesOn DEF open, Goes
<1> QED
  BY <1>1, <1>3, <1>6, PartsQuiet DEF UsersInv, rankPanel, accessPanel

LEMMA SucceededKept ==
    ASSUME UsersInv, NEW w \in works, Succeeded(w)
    PROVE  UsersInv'
<1>1. /\ w \in Works /\ w.query \in Query
      /\ dialog' \in {dialog, "none"} /\ about' = about /\ (dialog' # dialog => dialog = w.op)
      /\ selected' \in {selected, {}}
      /\ UNCHANGED <<accounts, typed, query, rowsOf, logPanel, rankPanel, accessPanel>>
  BY DEF Succeeded, UsersInv, FormsInv, Works
<1>2. w.op # "logs"
  BY <1>1 DEF Works, WorkOps, SavingOps
<1>3. LogsInv'
  BY <1>1, <1>2 DEF UsersInv, LogsInv, LogsOfAccount, logPanel
<1>4. CASE w.op \in ReloadingOps
  <2>1. /\ Load(w.query, [op |-> w.op, id |-> w.id])
        /\ works' = (works \ {w}) \union {[w EXCEPT !.step = "loading"]}
        /\ UNCHANGED <<rows, saving>>
    BY <1>4 DEF Succeeded
  <2>2. /\ [w EXCEPT !.step = "loading"] \in Works
        /\ [w EXCEPT !.step = "loading"].op = w.op
        /\ [w EXCEPT !.step = "loading"].step = "loading"
    BY <1>1 DEF Works
  <2>3. FormsInv'
    BY <1>1, <2>1, <2>2, WorkGoesOn
  <2>4. listing'.query = w.query
    BY <2>1 DEF Load
  <2>5. ListInv'
    BY <1>1, <2>1, <2>4 DEF UsersInv, ListInv
  <2> QED
    BY <1>1, <1>3, <2>3, <2>5, PartsQuiet DEF UsersInv, rankPanel, accessPanel
<1>5. CASE w.op \notin ReloadingOps
  <2>1. /\ rows' = IF w.op = "balance" THEN rows
                   ELSE {IF r.id = w.id THEN w.row ELSE r : r \in rows}
        /\ ClearFlag(w) /\ UNCHANGED listing
    BY <1>5 DEF Succeeded
  <2>2. FormsInv'
    BY <1>1, <2>1, WorkEnds
  <2>3. w.op # "balance" => w.row \in RowsOfUsers
    <3>1. w.step = "ok" /\ w.op \in {"balance", "quota", "verify"}
      BY <1>1, <1>5 DEF Succeeded, Works, WorkOps, SavingOps, ReloadingOps
    <3> QED
      BY <3>1 DEF UsersInv, FormsInv
  <2>4. rows' \subseteq RowsOfUsers
    BY <2>1, <2>3 DEF UsersInv, ListInv
  <2>5. ListInv'
    BY <1>1, <2>1, <2>4 DEF UsersInv, ListInv, Refreshing
  <2> QED
    BY <1>1, <1>3, <2>2, <2>5, PartsQuiet DEF UsersInv, rankPanel, accessPanel
<1> QED
  BY <1>4, <1>5

LEMMA FinishedKept ==
    ASSUME UsersInv, NEW w \in works, Finished(w)
    PROVE  UsersInv'
<1>1. ClearFlag(w) /\ UNCHANGED <<accounts, list, open, logPanel, rankPanel, accessPanel>>
  BY DEF Finished
<1>2. FormsInv'
  BY <1>1, WorkEnds DEF open
<1> QED
  BY <1>1, <1>2, PartsQuiet DEF UsersInv, rankPanel, accessPanel

\* The credit logs: only the last request of an open dialog counts.
LEMMA LogsKept ==
    ASSUME UsersInv, (\E a \in Accounts : OpenLogs(a)) \/ TurnLogs \/ LogsAnswer
    PROVE  UsersInv'
<1>1. UNCHANGED <<accounts, list, latches, rankPanel, accessPanel>>
  BY DEF OpenLogs, TurnLogs, LogsAnswer, Show
<1>2. ASSUME NEW a \in Accounts, OpenLogs(a) PROVE FormsInv' /\ LogsInv'
  <2>1. dialog' = "logs" /\ about' = a /\ logs' = NoAccount
        /\ logsLoad' = [id |-> a, active |-> TRUE]
    BY <1>2 DEF OpenLogs, Show, AskLogs
  <2>2. FormsInv'
    BY <1>1, <2>1 DEF UsersInv, FormsInv, SavingLatch, latches
  <2>3. LogsInv'
    BY <2>1 DEF LogsInv, LogsOfAccount
  <2> QED
    BY <2>2, <2>3
<1>3. ASSUME TurnLogs PROVE FormsInv' /\ LogsInv'
  <2>1. dialog = "logs" /\ logsLoad' = [id |-> about, active |-> TRUE]
        /\ UNCHANGED <<open, logs>>
    BY <1>3 DEF TurnLogs, logsDialog, AskLogs
  <2>2. about \in Accounts \union {NoAccount}
    BY DEF UsersInv, FormsInv
  <2>3. LogsInv'
    BY <2>1, <2>2 DEF UsersInv, LogsInv, LogsOfAccount, open
  <2> QED
    BY <1>1, <2>1, <2>3, PartsQuiet DEF latches
<1>4. ASSUME LogsAnswer PROVE FormsInv' /\ LogsInv'
  <2>1. /\ logs' \in IF logsLoad.active THEN {logsLoad.id, NoAccount} ELSE {logs}
        /\ logsLoad' = [id |-> NoAccount, active |-> FALSE] /\ UNCHANGED open
    BY <1>4 DEF LogsAnswer
  <2>2. logsLoad' \in [id: Accounts \union {NoAccount}, active: BOOLEAN] /\ ~logsLoad'.active
    BY <2>1
  <2>3. LogsInv'
    BY <2>1, <2>2 DEF UsersInv, LogsInv, LogsOfAccount, open
  <2> QED
    BY <1>1, <2>1, <2>3, PartsQuiet DEF latches
<1> QED
  BY <1>1, <1>2, <1>3, <1>4, PartsQuiet DEF UsersInv, rankPanel, accessPanel

\* The ranking and who sees plans.
LEMMA PanelsKept ==
    ASSUME UsersInv,
           \/ OpenRanking \/ RefreshRanking \/ OpenAccess \/ AccessAnswer
           \/ SaveAccess \/ ServeAccess \/ AccessSaved
           \/ \E d \in Days : PickDays(d) \/ RankingArrives(d)
           \/ \E s \in SUBSET Accounts : Choose(s)
    PROVE  UsersInv'
<1>1. UNCHANGED <<accounts, list, latches, logPanel>>
  BY DEF OpenRanking, RefreshRanking, OpenAccess, AccessAnswer, SaveAccess, ServeAccess,
         AccessSaved, PickDays, RankingArrives, Choose, Show
<1>2. PanelsInv'
  <2>1. CASE OpenRanking \/ RefreshRanking \/ \E d \in Days : PickDays(d) \/ RankingArrives(d)
    BY <2>1 DEF OpenRanking, RefreshRanking, PickDays, RankingArrives, AskRanking, accessPanel,
                UsersInv, PanelsInv
  <2>2. CASE OpenAccess \/ SaveAccess \/ \E s \in SUBSET Accounts : Choose(s)
    BY <2>2 DEF OpenAccess, SaveAccess, Choose, rankPanel, UsersInv, PanelsInv
  <2>3. CASE AccessAnswer
    BY <2>3, ConsoleUsersAssumption DEF AccessAnswer, rankPanel, UsersInv, PanelsInv
  <2>4. CASE ServeAccess
    BY <2>4 DEF ServeAccess, rankPanel, UsersInv, PanelsInv
  <2>5. CASE AccessSaved
    <3>1. NotSaving \in [ids: SUBSET Accounts, step: {"none", "sent", "ok", "failed"}]
      BY DEF NotSaving
    <3>2. accessSaving' = NotSaving /\ saved' \in {saved, accessSaving.ids}
          /\ UNCHANGED <<ranked, days, rankLoads, access, initialized, chosen>>
      BY <2>5 DEF AccessSaved, rankPanel
    <3> QED
      BY <3>1, <3>2 DEF UsersInv, PanelsInv
  <2> QED
    BY <2>1, <2>2, <2>3, <2>4, <2>5
<1>3. FormsInv' /\ LogsInv'
  <2>1. CASE UNCHANGED open
    BY <1>1, <2>1, PartsQuiet DEF latches
  <2>2. CASE OpenRanking \/ OpenAccess
    <3>1. dialog = "none" /\ dialog' \in {"ranking", "access"} /\ about' = NoAccount
      BY <2>2 DEF OpenRanking, OpenAccess, Show, headControls
    <3>2. FormsInv'
      BY <1>1, <3>1 DEF UsersInv, FormsInv, SavingLatch, latches
    <3>3. LogsInv'
      BY <1>1, <3>1 DEF UsersInv, LogsInv, LogsOfAccount, logPanel
    <3> QED
      BY <3>2, <3>3
  <2>3. CASE AccessAnswer \/ AccessSaved
    <3>1. dialog' \in {"none", dialog} /\ about' = about /\ (dialog' # dialog => dialog = "access")
      BY <2>3 DEF AccessAnswer, AccessSaved
    <3> QED
      BY <1>1, <3>1, ClosedKeeps DEF latches, logPanel
  <2> QED
    BY <2>1, <2>2, <2>3
       DEF RefreshRanking, SaveAccess, ServeAccess, PickDays, RankingArrives, Choose
<1> QED
  BY <1>1, <1>2, <1>3, PartsQuiet DEF UsersInv

LEMMA UsersKept ==
    ASSUME UsersInv, [UsersNext]_usersVars
    PROVE  UsersInv'
<1>1. CASE UNCHANGED usersVars
  BY <1>1, PartsQuiet DEF usersVars, latches, rankPanel, accessPanel, UsersInv
<1>2. CASE saveUser \/ grantSubscription \/ updateSubscriptionQuota \/ updateBalance
  BY <1>2, SubmitKept DEF saveUser, grantSubscription, updateSubscriptionQuota, updateBalance
<1> QED
  BY <1>1, <1>2, ListKept, OpenFormKept, DismissKept, ConfirmKept, RowActionKept,
     ServeWorkKept, ServeCreationKept, SucceededKept, FinishedKept, LogsKept, PanelsKept
     DEF UsersNext, UsersAnswer

-----------------------------------------------------------------------------
(* The settings: whoever may enable Bark knows of a stored key.             *)

Stores == [value: Held, bark: BOOLEAN, key: DeviceKeys \union {NoKey},
           hidden: {"kept", "changed"}]
Patches == [value: Held, bark: BOOLEAN, key: DeviceKeys \union {NoKey}]
\* What an answer says of the key stays true: a key is replaced, never removed.
KeyHeld(answer) == answer \in Stores /\ (answer.key # NoKey => stored.key # NoKey)
SettingsInv ==
    /\ SettingsTypeOK
    /\ stored \in Stores /\ settingsSave \in Patches \union {NoSave}
    /\ configured \/ stored.bark => stored.key # NoKey
    /\ settingsSave # NoSave /\ settingsSave.bark
           => settingsSave.key # NoKey \/ stored.key # NoKey
    /\ loadReply \in {Waiting, Lost} \/ KeyHeld(loadReply)
    /\ saveReply \in {Waiting, Lost} \/ KeyHeld(saveReply)

LEMMA SettingsStarts == SettingsInit => SettingsInv
<1> SUFFICES ASSUME SettingsInit PROVE SettingsInv
  OBVIOUS
<1>1. stored \in Stores /\ stored.bark = FALSE
  BY DEF SettingsInit, Held, Stores
<1>2. form \in [value: Held \ {"unset"}, bark: BOOLEAN]
  BY DEF SettingsInit, emptySettings, Held
<1>3. edits \in 0..MaxEdits
  BY ConsoleSettingsAssumption DEF SettingsInit
<1>4. stored.value \in Held /\ stored.key \in DeviceKeys \union {NoKey}
  BY <1>1 DEF Stores
<1> QED
  BY <1>1, <1>2, <1>3, <1>4 DEF SettingsInit, SettingsInv, SettingsTypeOK

\* What the form is filled with.
LEMMA AcceptKeeps ==
    ASSUME NEW s, KeyHeld(s), Accept(s), UNCHANGED stored
    PROVE  /\ form' \in [value: Held \ {"unset"}, bark: BOOLEAN]
           /\ typedKey' = NoKey /\ configured' \in BOOLEAN /\ (configured' => stored'.key # NoKey)
<1>1. form' = [value |-> Normalize(s.value), bark |-> s.bark]
  BY DEF Accept, Shown
<1>2. s.value \in Held /\ s.bark \in BOOLEAN
  BY DEF KeyHeld, Stores
<1>3. Normalize(s.value) \in Held \ {"unset"}
  BY <1>2 DEF Normalize, Held
<1>4. typedKey' = NoKey /\ configured' = (s.key # NoKey)
  BY DEF Accept
<1>5. s.key # NoKey => stored'.key # NoKey
  BY DEF KeyHeld
<1>6. form' \in [value: Held \ {"unset"}, bark: BOOLEAN]
  BY <1>1, <1>2, <1>3
<1> QED
  BY <1>4, <1>5, <1>6

\* What the server stores of a form.
LEMMA MergeKeeps ==
    ASSUME SettingsInv, settingsSave # NoSave
    PROVE  /\ Merge(stored, settingsSave) \in Stores
           /\ Merge(stored, settingsSave).bark => Merge(stored, settingsSave).key # NoKey
           /\ stored.key # NoKey => Merge(stored, settingsSave).key # NoKey
           /\ Merge(stored, settingsSave).hidden = stored.hidden
           /\ settingsSave.key # NoKey \/ stored.key # NoKey
                  => Merge(stored, settingsSave).key # NoKey
<1>1. settingsSave \in Patches /\ stored \in Stores
  BY DEF SettingsInv
<1>2. settingsSave.bark => settingsSave.key # NoKey \/ stored.key # NoKey
  BY DEF SettingsInv
<1> QED
  BY <1>1, <1>2 DEF Merge, Patches, Stores

SecretsStep ==
    /\ stored'.bark => stored'.key # NoKey
    /\ stored.key # NoKey => stored'.key # NoKey
    /\ saveReply = Waiting /\ saveReply' # Waiting => stored'.hidden = stored.hidden

\* What leaves the server's settings alone, and every answer under way.
LEMMA SettingsQuiet ==
    ASSUME SettingsInv, UNCHANGED <<stored, loadReply, settingsSave, saveReply>>,
           form' \in [value: Held \ {"unset"}, bark: BOOLEAN],
           typedKey' \in DeviceKeys \union {NoKey}, configured' \in BOOLEAN,
           configured' => stored.key # NoKey,
           settingsLoading' \in BOOLEAN, edits' \in 0..MaxEdits
    PROVE  SettingsInv' /\ SecretsStep
<1>1. (loadReply' \in {Waiting, Lost} \/ KeyHeld(loadReply)')
      /\ (saveReply' \in {Waiting, Lost} \/ KeyHeld(saveReply)')
  BY DEF SettingsInv, KeyHeld
<1> QED
  BY <1>1 DEF SettingsInv, SettingsTypeOK, SecretsStep

LEMMA SettingsKept ==
    ASSUME SettingsInv, [SettingsNext]_settingsVars
    PROVE  SettingsInv' /\ SecretsStep
<1>0. /\ form \in [value: Held \ {"unset"}, bark: BOOLEAN]
      /\ typedKey \in DeviceKeys \union {NoKey} /\ configured \in BOOLEAN
      /\ configured => stored.key # NoKey
      /\ settingsLoading \in BOOLEAN /\ edits \in 0..MaxEdits
      /\ Edit => edits' \in 0..MaxEdits
  BY ConsoleSettingsAssumption DEF SettingsInv, SettingsTypeOK, Edit
<1>1. CASE UNCHANGED settingsVars
  BY <1>0, <1>1, SettingsQuiet DEF settingsVars, settingsCalls
<1>2. CASE Reload
  BY <1>0, <1>2, SettingsQuiet DEF Reload
<1>3. CASE UpdateField
  <2>1. PICK v \in Held \ {"unset"}, b \in BOOLEAN : form' = [value |-> v, bark |-> b]
    BY <1>3 DEF UpdateField
  <2> QED
    BY <1>0, <1>3, <2>1, SettingsQuiet DEF UpdateField, settingsCalls
<1>4. CASE TypeSecret
  BY <1>0, <1>4, SettingsQuiet DEF TypeSecret, settingsCalls
<1>5. CASE TestBark \/ Export \/ ToolAnswer
  BY <1>0, <1>5, SettingsQuiet DEF TestBark, Export, ToolAnswer, settingsCalls
<1>6. CASE ServeLoad
  <2>1. loadReply' \in {stored, Lost}
        /\ UNCHANGED <<stored, form, typedKey, configured, settingsLoading, settingsSave,
                       saveReply, edits>>
    BY <1>6 DEF ServeLoad
  <2>2. KeyHeld(stored)' /\ (saveReply' \in {Waiting, Lost} \/ KeyHeld(saveReply)')
    BY <2>1 DEF SettingsInv, KeyHeld
  <2>3. loadReply' \in {Waiting, Lost} \/ KeyHeld(loadReply)'
    BY <2>1, <2>2 DEF KeyHeld
  <2> QED
    BY <2>1, <2>2, <2>3 DEF SettingsInv, SettingsTypeOK, SecretsStep
<1>7. CASE SettingsAnswer
  <2>1. /\ loadReply # Waiting /\ loadReply' = Waiting /\ settingsLoading' = FALSE
        /\ UNCHANGED <<stored, settingsSave, saveReply, edits>>
        /\ (Accept(loadReply) /\ loadReply # Lost) \/ UNCHANGED <<form, typedKey, configured>>
    BY <1>7 DEF SettingsAnswer
  <2>2. /\ form' \in [value: Held \ {"unset"}, bark: BOOLEAN]
        /\ typedKey' \in DeviceKeys \union {NoKey} /\ configured' \in BOOLEAN
        /\ configured' => stored'.key # NoKey
    BY <1>0, <2>1, AcceptKeeps DEF SettingsInv
  <2>3. saveReply' \in {Waiting, Lost} \/ KeyHeld(saveReply)'
    BY <2>1 DEF SettingsInv, KeyHeld
  <2> QED
    BY <1>0, <2>1, <2>2, <2>3 DEF SettingsInv, SettingsTypeOK, SecretsStep
<1>8. CASE SaveSettings
  <2>1. /\ settingsSave = NoSave
        /\ settingsSave' = [value |-> form.value, bark |-> form.bark, key |-> typedKey]
        /\ form.bark => typedKey # NoKey \/ configured
        /\ UNCHANGED <<stored, form, typedKey, configured, settingsLoading, loadReply, saveReply>>
        /\ edits' \in 0..MaxEdits
    BY <1>0, <1>8 DEF SaveSettings, Complete
  <2>2. settingsSave' \in Patches /\ settingsSave'.bark = form.bark /\ settingsSave'.key = typedKey
    BY <1>0, <2>1 DEF Patches
  <2>3. (loadReply' \in {Waiting, Lost} \/ KeyHeld(loadReply)')
        /\ (saveReply' \in {Waiting, Lost} \/ KeyHeld(saveReply)')
    BY <2>1 DEF SettingsInv, KeyHeld
  <2> QED
    BY <1>0, <2>1, <2>2, <2>3 DEF SettingsInv, SettingsTypeOK, SecretsStep
<1>9. CASE ServeSave
  <2>1. /\ settingsSave # NoSave /\ saveReply = Waiting
        /\ UNCHANGED <<form, typedKey, configured, settingsLoading, loadReply, settingsSave, edits>>
        /\ \/ stored' = Merge(stored, settingsSave) /\ saveReply' \in {stored', Lost}
           \/ saveReply' = Lost /\ UNCHANGED stored
    BY <1>9 DEF ServeSave
  <2>2. /\ stored' \in Stores /\ stored'.hidden = stored.hidden
        /\ stored'.bark => stored'.key # NoKey
        /\ stored.key # NoKey => stored'.key # NoKey
    BY <2>1, MergeKeeps DEF SettingsInv
  <2>3. loadReply' \in {Waiting, Lost} \/ KeyHeld(loadReply)'
    BY <2>1, <2>2 DEF SettingsInv, KeyHeld
  <2>4. saveReply' \in {Waiting, Lost} \/ KeyHeld(saveReply)'
    BY <2>1, <2>2 DEF KeyHeld
  <2>5. stored'.value \in Held /\ stored'.key \in DeviceKeys \union {NoKey}
    BY <2>2 DEF Stores
  <2> QED
    BY <1>0, <2>1, <2>2, <2>3, <2>4, <2>5 DEF SettingsInv, SettingsTypeOK, SecretsStep
<1>10. CASE SettingsSaved
  <2>1. /\ saveReply # Waiting /\ saveReply' = Waiting /\ settingsSave' = NoSave
        /\ UNCHANGED <<stored, settingsLoading, loadReply, edits>>
        /\ (Accept(saveReply) /\ saveReply # Lost) \/ UNCHANGED <<form, typedKey, configured>>
    BY <1>10 DEF SettingsSaved
  <2>2. /\ form' \in [value: Held \ {"unset"}, bark: BOOLEAN]
        /\ typedKey' \in DeviceKeys \union {NoKey} /\ configured' \in BOOLEAN
        /\ configured' => stored'.key # NoKey
    BY <1>0, <2>1, AcceptKeeps DEF SettingsInv
  <2>3. loadReply' \in {Waiting, Lost} \/ KeyHeld(loadReply)'
    BY <2>1 DEF SettingsInv, KeyHeld
  <2> QED
    BY <1>0, <2>1, <2>2, <2>3 DEF SettingsInv, SettingsTypeOK, SecretsStep
<1>11. CASE OtherSaves
  <2>1. PICK v \in {"default", "other"}, b \in BOOLEAN, h \in {"kept", "changed"} :
            /\ b => stored.key # NoKey
            /\ stored' = [stored EXCEPT !.value = v, !.bark = b, !.hidden = h]
    BY <1>11 DEF OtherSaves
  <2>2. UNCHANGED <<form, typedKey, configured, settingsLoading, loadReply, settingsSave, saveReply>>
        /\ edits' \in 0..MaxEdits
    BY <1>0, <1>11 DEF OtherSaves, settingsCalls
  <2>3. stored' \in Stores /\ stored'.key = stored.key /\ stored'.bark = b
    BY <2>1 DEF SettingsInv, Held, Stores
  <2>4. (loadReply' \in {Waiting, Lost} \/ KeyHeld(loadReply)')
        /\ (saveReply' \in {Waiting, Lost} \/ KeyHeld(saveReply)')
    BY <2>2, <2>3 DEF SettingsInv, KeyHeld
  <2>5. stored'.value \in Held /\ stored'.key \in DeviceKeys \union {NoKey}
    BY <2>3 DEF Stores
  <2> QED
    BY <1>0, <2>1, <2>2, <2>3, <2>4, <2>5 DEF SettingsInv, SettingsTypeOK, SecretsStep
<1> QED
  BY <1>1, <1>2, <1>3, <1>4, <1>5, <1>6, <1>7, <1>8, <1>9, <1>10, <1>11 DEF SettingsNext

-----------------------------------------------------------------------------
(* The update panel: one request that starts an update at a time.           *)

PanelCalls ==
    [kind: {"first", "check", "poll", "build", "wait", "force"}, n: Numbers,
     step: {"sent", "ok", "failed"},
     view: [status: Statuses \union {"none"}, available: BOOLEAN], version: Nat]
Starting(c) == c.kind \in {"wait", "force"}
UpdateInv ==
    /\ UpdateTypeOK
    /\ built \in Nat /\ released \in Nat /\ built <= released
    /\ checking \in BOOLEAN /\ submitting \in BOOLEAN /\ reloading \in BOOLEAN
    /\ confirming \in {"no", "wait", "force"}
    /\ confirming # "no" => ~submitting
    /\ updateCalls \subseteq PanelCalls
    /\ \A c \in updateCalls : c.step = "ok" /\ c.kind # "build" => c.view.status \in Statuses
    /\ \A c, d \in updateCalls : Starting(c) /\ Starting(d) => c = d

LEMMA RequestTyped ==
    ASSUME NEW kind \in {"first", "check", "poll", "build", "wait", "force"}, NEW n \in Numbers
    PROVE  /\ Request(kind, n) \in PanelCalls
           /\ Request(kind, n).step = "sent" /\ Request(kind, n).kind = kind
BY DEF Request, NoInfo, PanelCalls

LEMMA OneNumber == 1 \in Numbers
<1>1. MaxUnanswered \in Nat \ {0}
  BY ConsoleUpdateAssumption
<1> QED
  BY <1>1 DEF Numbers

LEMMA UpdateStarts == UpdateInit => UpdateInv
<1> SUFFICES ASSUME UpdateInit PROVE UpdateInv
  OBVIOUS
<1>1. /\ updateCalls = {Request("first", 1)} /\ Request("first", 1).kind = "first"
      /\ Request("first", 1).step = "sent"
      /\ Request("first", 1) \in PanelCalls
  BY OneNumber, RequestTyped DEF UpdateInit
<1>2. ~\E c \in updateCalls : c.kind \in {"wait", "force"}
  BY <1>1
<1>3. /\ worker = "idle" /\ built = 0 /\ released = 1 /\ pageBuild = 0 /\ info = NoInfo
      /\ checking = FALSE /\ submitting = FALSE /\ reloading = FALSE /\ confirming = "no"
  BY DEF UpdateInit
<1>4. UpdateTypeOK
  <2>1. worker \in Statuses /\ pageBuild \in 0..built
    BY <1>3 DEF Statuses
  <2>2. {checking, submitting, reloading} \subseteq BOOLEAN
    BY <1>3
  <2>3. submitting <=> \E c \in updateCalls : c.kind \in {"wait", "force"}
    BY <1>2, <1>3
  <2> QED
    BY <1>3, <2>1, <2>2, <2>3 DEF UpdateTypeOK
<1>5. \A c \in updateCalls : ~Starting(c) /\ c.step = "sent" /\ c \in PanelCalls
  BY <1>1, <1>2 DEF Starting
<1>6. /\ checking \in BOOLEAN /\ submitting \in BOOLEAN /\ reloading \in BOOLEAN
      /\ confirming \in {"no", "wait", "force"} /\ (confirming # "no" => ~submitting)
  BY <1>3
<1>7. built \in Nat /\ released \in Nat /\ built <= released
  BY <1>3
<1> QED
  BY <1>4, <1>5, <1>6, <1>7 DEF UpdateInv

\* A request that starts nothing, one answered or one dropped.
LEMMA CallsChange ==
    ASSUME UpdateInv, UNCHANGED <<worker, built, released, pageBuild, info>>,
           NEW kind \in {"first", "check", "poll", "build"},
           Send(kind),
           UNCHANGED <<submitting, confirming>>, checking' \in BOOLEAN, reloading' \in BOOLEAN
    PROVE  UpdateInv'
<1>1. PICK n \in Numbers : updateCalls' = updateCalls \union {Request(kind, n)}
  BY DEF Send
<1>2. /\ Request(kind, n) \in PanelCalls
      /\ Request(kind, n).step = "sent" /\ Request(kind, n).kind = kind
  BY RequestTyped
<1>3. UpdateTypeOK'
  BY <1>1, <1>2 DEF UpdateInv, UpdateTypeOK
<1> QED
  BY <1>1, <1>2, <1>3 DEF UpdateInv, Starting

LEMMA StartUpdateKept ==
    ASSUME UpdateInv, StartUpdate
    PROVE  UpdateInv'
<1>1. confirming \in {"wait", "force"} /\ ~submitting /\ confirming' = "no"
      /\ UNCHANGED <<worker, built, released, pageBuild, info, reloading, checking>>
  BY DEF StartUpdate, UpdateInv, server, panel
<1>2. CASE UNCHANGED <<submitting, updateCalls>>
  BY <1>1, <1>2 DEF UpdateInv, UpdateTypeOK
<1>3. CASE submitting' = TRUE /\ updateCalls' = updateCalls \union {Request(confirming, 1)}
  <2>1. /\ Request(confirming, 1) \in PanelCalls
        /\ Request(confirming, 1).step = "sent" /\ Starting(Request(confirming, 1))
    BY <1>1, OneNumber, RequestTyped DEF Starting
  <2>2. \A c \in updateCalls : ~Starting(c)
    BY <1>1 DEF UpdateInv, UpdateTypeOK, Starting
  <2>3. UpdateTypeOK'
    BY <1>1, <1>3, <2>1 DEF UpdateInv, UpdateTypeOK, Starting
  <2> QED
    BY <1>1, <1>3, <2>1, <2>2, <2>3 DEF UpdateInv
<1> QED
  BY <1>2, <1>3 DEF StartUpdate

LEMMA ServeKept ==
    ASSUME UpdateInv, NEW c \in updateCalls, Serve(c)
    PROVE  UpdateInv'
<1>1. /\ UNCHANGED <<built, released, pageBuild, info, reloading, checking, submitting, confirming>>
      /\ worker' \in Statuses
  BY DEF Serve, panel, UpdateInv, UpdateTypeOK, Statuses, activeStatuses
<1>2. c \in PanelCalls /\ built \in Nat /\ worker \in Statuses
  BY DEF UpdateInv, UpdateTypeOK
<1>3. ASSUME NEW view \in [status: Statuses \union {"none"}, available: BOOLEAN],
             NEW version \in Nat, c.kind = "build" \/ view.status \in Statuses,
             Told(c, view, version)
      PROVE  \E d \in PanelCalls :
                 /\ updateCalls' = (updateCalls \ {c}) \union {d} /\ d.kind = c.kind
                 /\ d.step = "ok" /\ d.kind # "build" => d.view.status \in Statuses
  <2> DEFINE e == [c EXCEPT !.step = "ok", !.view = view, !.version = version]
  <2>1. e \in PanelCalls /\ e.kind = c.kind /\ e.view = view
    BY <1>2 DEF PanelCalls
  <2>2. updateCalls' = (updateCalls \ {c}) \union {e}
    BY <1>3 DEF Told
  <2> HIDE DEF e
  <2> QED
    BY <1>3, <2>1, <2>2
<1>4. PICK d \in PanelCalls :
          /\ updateCalls' = (updateCalls \ {c}) \union {d} /\ d.kind = c.kind
          /\ d.step = "ok" /\ d.kind # "build" => d.view.status \in Statuses
  <2>1. CASE c.kind = "build" /\ Told(c, NoInfo, built)
    BY <1>2, <1>3, <2>1 DEF NoInfo
  <2>2. CASE Told(c, View, 0)
    <3>1. View \in [status: Statuses \union {"none"}, available: BOOLEAN] /\ View.status \in Statuses
      BY <1>2 DEF View
    <3> QED
      BY <1>3, <2>2, <3>1
  <2>3. CASE Told(c, [status |-> worker', available |-> TRUE], 0)
    <3> DEFINE view == [status |-> worker', available |-> TRUE]
    <3>1. view \in [status: Statuses \union {"none"}, available: BOOLEAN] /\ view.status \in Statuses
      BY <1>1
    <3>2. Told(c, view, 0)
      BY <2>3
    <3> HIDE DEF view
    <3> QED
      BY <1>3, <3>1, <3>2
  <2>4. CASE updateCalls' = (updateCalls \ {c}) \union {[c EXCEPT !.step = "failed"]}
    <3>1. [c EXCEPT !.step = "failed"] \in PanelCalls
      BY <1>2 DEF PanelCalls
    <3>2. /\ [c EXCEPT !.step = "failed"].kind = c.kind
          /\ [c EXCEPT !.step = "failed"].step = "failed"
      BY <1>2 DEF PanelCalls
    <3> QED
      BY <2>4, <3>1, <3>2
  <2> QED
    BY <2>1, <2>2, <2>3, <2>4 DEF Serve
<1>5. UpdateTypeOK'
  BY <1>1, <1>2, <1>4 DEF UpdateInv, UpdateTypeOK
<1>6. Starting(d) <=> Starting(c)
  BY <1>4 DEF Starting
<1> QED
  BY <1>1, <1>2, <1>4, <1>5, <1>6 DEF UpdateInv

LEMMA CallAnswerKept ==
    ASSUME UpdateInv, NEW c \in updateCalls, CallAnswer(c)
    PROVE  UpdateInv'
<1>1. /\ updateCalls' = updateCalls \ {c} /\ c.step # "sent"
      /\ checking' \in BOOLEAN /\ reloading' \in BOOLEAN
      /\ submitting' = (submitting /\ ~Starting(c))
      /\ UNCHANGED <<worker, built, released, pageBuild, confirming>>
  BY DEF CallAnswer, Seen, Starting, server, UpdateInv
<1>2. info' = info \/ (info' = c.view /\ c.step = "ok" /\ c.kind # "build")
  BY DEF CallAnswer, Seen
<1>3. info' = NoInfo \/ info'.status \in Statuses
  BY <1>2 DEF UpdateInv, UpdateTypeOK
<1>4. submitting' <=> \E d \in updateCalls' : Starting(d)
  BY <1>1 DEF UpdateInv, UpdateTypeOK, Starting
<1>5. UpdateTypeOK'
  BY <1>1, <1>3, <1>4 DEF UpdateInv, UpdateTypeOK, Starting
<1> QED
  BY <1>1, <1>5 DEF UpdateInv

LEMMA UpdateKept ==
    ASSUME UpdateInv, [UpdateNext]_updateVars
    PROVE  UpdateInv'
<1>1. CASE UNCHANGED updateVars
  BY <1>1 DEF updateVars, UpdateInv, UpdateTypeOK
<1>2. CASE CheckVersion \/ Poll \/ checkBuild
  BY <1>2, CallsChange DEF CheckVersion, Poll, checkBuild, server, panel, UpdateInv
<1>3. ASSUME NEW mode \in {"wait", "force"}, OpenConfirm(mode)
      PROVE  UpdateInv'
  BY <1>3 DEF OpenConfirm, CanStart, server, panel, UpdateInv, UpdateTypeOK
<1>4. CASE NewRelease
  BY <1>4 DEF NewRelease, panel, UpdateInv, UpdateTypeOK
<1>5. CASE Work
  <2>1. /\ worker' \in Statuses /\ (built' = built \/ built' = released)
        /\ UNCHANGED <<released, pageBuild, info, reloading, updateCalls, checking, submitting,
                       confirming>>
    BY <1>5 DEF Work, panel, Statuses, activeStatuses
  <2>2. pageBuild \in 0..built'
    BY <2>1 DEF UpdateInv, UpdateTypeOK
  <2> QED
    BY <2>1, <2>2 DEF UpdateInv, UpdateTypeOK
<1>6. CASE ReloadPage
  <2>1. /\ pageBuild' = built /\ info' = NoInfo /\ reloading' = FALSE
        /\ updateCalls' = {Request("first", 1)} /\ checking' = FALSE /\ submitting' = FALSE
        /\ confirming' = "no" /\ UNCHANGED <<worker, built, released>>
    BY <1>6 DEF ReloadPage, server
  <2>2. /\ Request("first", 1).kind = "first" /\ Request("first", 1).step = "sent"
        /\ Request("first", 1) \in PanelCalls
    BY OneNumber, RequestTyped
  <2>3. ~\E c \in updateCalls' : c.kind \in {"wait", "force"}
    BY <2>1, <2>2
  <2>4. UpdateTypeOK'
    <3>1. {checking', submitting', reloading'} \subseteq BOOLEAN
      BY <2>1
    <3>2. submitting' <=> \E c \in updateCalls' : c.kind \in {"wait", "force"}
      BY <2>1, <2>3
    <3>3. worker' \in Statuses /\ pageBuild' \in 0..built'
      BY <2>1 DEF UpdateInv, UpdateTypeOK
    <3> QED
      BY <2>1, <3>1, <3>2, <3>3 DEF UpdateTypeOK
  <2> QED
    BY <2>1, <2>2, <2>3, <2>4 DEF UpdateInv, Starting
<1> QED
  BY <1>1, <1>2, <1>3, <1>4, <1>5, <1>6, StartUpdateKept, ServeKept, CallAnswerKept
     DEF UpdateNext, UpdateStep

-----------------------------------------------------------------------------
(* The page of API keys and calls.                                          *)

Asks == [of: Searches, page: 1..AccessPages]
AccessOps == {"toggle", "limit", "delete", "cancel"}
RowWorks == [op: AccessOps, row: ApiKeyRows \union Calls, limit: {0, 1, 2}, ask: Asks,
             step: {"sent", "ok", "failed", "loading"}, n: Nat]
\* The variables of the lists: a request under way is the last one sent.
ListsInv ==
    /\ tab \in Lists /\ LastRequestShown /\ LogPageOfRows
    /\ search \in [Lists -> Searches] /\ page \in [Lists -> 1..AccessPages]
    /\ timer \in [Lists -> BOOLEAN] /\ failedLoad \in [Lists -> BOOLEAN]
    /\ loads \in [Lists -> SUBSET Asks] /\ asked \in [Lists -> Asks \union {NotAsked}]
    /\ shownOf \in [Lists -> Asks \union {NotAsked}]
    /\ \A l \in Lists : \A ask \in loads[l] : ask = asked[l]
\* The flags of the rows and the handlers that lower them.
FlagsInv ==
    /\ RowFreed /\ accessWorks \subseteq RowWorks
    /\ rowAction \in ApiKeyRows \union {NoRow} /\ canceling \in Calls \union {NoRow}
\* The server's keys, and the dialog.
KeysInv ==
    /\ limits \in [ApiKeyRows -> {0, 1, 2}] /\ draft \in [ApiKeyRows -> {0, 1, 2}]
    /\ keyTotal \in Nat /\ accessActs \in Nat
    /\ panelOpen.kind = "cancel" => panelOpen.row \in Calls
    /\ panelOpen.kind = "delete" => panelOpen.row \in ApiKeyRows \union Calls
AccessInv == ListsInv /\ FlagsInv /\ KeysInv

LEMMA AccessTyped == AccessInv => AccessTypeOK
BY DEF AccessInv, ListsInv, FlagsInv, KeysInv, AccessTypeOK

LEMMA FirstPage == 1 \in 1..AccessPages /\ "" \in Searches
<1>1. AccessPages \in Nat \ {0}
  BY ConsoleAccessAssumption
<1>2. 1 \in 1..AccessPages
  BY <1>1
<1>3. "" \in Searches
  BY ConsoleAccessAssumption
<1> QED
  BY <1>2, <1>3

LEMMA AccessStarts == AccessInit => AccessInv
<1> SUFFICES ASSUME AccessInit PROVE AccessInv
  OBVIOUS
<1>1. timer \in [Lists -> BOOLEAN]
  BY DEF AccessInit
<1>2. LastRequestShown /\ LogPageOfRows
  BY DEF AccessInit, LastRequestShown, LogPageOfRows, Lists
<1>3. ListsInv
  BY <1>1, <1>2, FirstPage DEF AccessInit, ListsInv, Lists
<1>4. FlagsInv
  BY DEF AccessInit, FlagsInv, RowFreed
<1>5. KeysInv
  BY DEF AccessInit, KeysInv, NoPanel
<1> QED
  BY <1>3, <1>4, <1>5 DEF AccessInv

LEMMA AccessQuiet ==
    ASSUME AccessInv
    PROVE  /\ UNCHANGED <<tab, lists>> => ListsInv'
           /\ UNCHANGED flags => FlagsInv'
           /\ UNCHANGED <<keyTotal, limits, draft, panelOpen>> /\ accessActs' \in Nat => KeysInv'
BY DEF AccessInv, ListsInv, FlagsInv, KeysInv, lists, flags, LastRequestShown, LogPageOfRows,
       RowFreed

LEMMA ActCounted == ASSUME AccessInv, AccessAct PROVE accessActs' \in Nat
BY DEF AccessInv, KeysInv, AccessAct

\* What is asked for is typed, and so is what a handler will ask for.
LEMMA AskTyped ==
    ASSUME AccessInv, NEW l \in Lists
    PROVE  AskFor(l) \in Asks /\ \A op \in AccessOps : ReloadOf(op) \in Asks
<1>1. \A m \in Lists : AskFor(m) \in Asks
  BY DEF AccessInv, ListsInv, AskFor, Asks
<1>2. "keys" \in Lists /\ "logs" \in Lists
  BY DEF Lists
<1>3. page["keys"] \in Nat /\ page["keys"] <= AccessPages /\ AccessPages \in Nat
      /\ search["keys"] \in Searches /\ keyTotal \in Nat
  <2>1. AccessPages \in Nat /\ page["keys"] \in 1..AccessPages
    BY <1>2, ConsoleAccessAssumption DEF AccessInv, ListsInv
  <2> QED
    BY <1>2, <2>1 DEF AccessInv, ListsInv, KeysInv
<1> DEFINE last == IF keyTotal > 1 THEN keyTotal - 1 ELSE 1
<1>4. last \in Nat /\ last >= 1
  BY <1>3
<1> HIDE DEF last
<1>5. page["keys"] > last => [AskFor("keys") EXCEPT !.page = last] \in Asks
  <2>1. page["keys"] > last => last \in 1..AccessPages
    BY <1>3, <1>4
  <2>2. AskFor("keys") = [of |-> search["keys"], page |-> page["keys"]]
    BY DEF AskFor
  <2>3. [AskFor("keys") EXCEPT !.page = last] = [of |-> search["keys"], page |-> last]
    BY <2>2
  <2> QED
    BY <1>3, <2>1, <2>3 DEF Asks
<1>6. ReloadOf("cancel") = AskFor("logs")
  BY DEF ReloadOf
<1>7. \A op \in AccessOps \ {"cancel"} :
          \/ ReloadOf(op) = AskFor("keys")
          \/ page["keys"] > last /\ ReloadOf(op) = [AskFor("keys") EXCEPT !.page = last]
  BY DEF ReloadOf, AccessOps, last
<1> QED
  BY <1>1, <1>2, <1>5, <1>6, <1>7

\* A request sent for a list.
LEMMA AskingKeepsLists ==
    ASSUME AccessInv, NEW l \in Lists, NEW ask \in Asks, Asking(l, ask),
           UNCHANGED <<search, shownOf, tab>>,
           timer' = timer \/ timer' = [timer EXCEPT ![l] = FALSE]
    PROVE  ListsInv'
<1>1. ask.page \in 1..AccessPages
  BY DEF Asks
<1> QED
  BY <1>1 DEF AccessInv, Asking, ListsInv, LastRequestShown, LogPageOfRows, Lists

\* Handlers that end lower the flags of their kind; the others go on, so that a flag that
\* is up has its handler.
LEMMA LoweredFrees ==
    ASSUME AccessInv, NEW over, Lowered(over), accessWorks' \subseteq RowWorks,
           \A w \in accessWorks \ over : \E v \in accessWorks' : v.op = w.op /\ v.row = w.row
    PROVE  FlagsInv'
<1>1. rowAction' # NoRow => \E v \in accessWorks' : v.row = rowAction' /\ v.op \in {"toggle", "limit"}
  <2>1. SUFFICES ASSUME rowAction' # NoRow
                 PROVE  \E v \in accessWorks' : v.row = rowAction' /\ v.op \in {"toggle", "limit"}
    OBVIOUS
  <2>2. rowAction' = rowAction /\ ~\E w \in over : w.op \in {"toggle", "limit"}
    BY <2>1 DEF Lowered
  <2>3. PICK w \in accessWorks : w.row = rowAction /\ w.op \in {"toggle", "limit"}
    BY <2>1, <2>2 DEF AccessInv, FlagsInv, RowFreed
  <2> QED
    BY <2>2, <2>3
<1>2. canceling' # NoRow => \E v \in accessWorks' : v.row = canceling' /\ v.op = "cancel"
  <2>1. SUFFICES ASSUME canceling' # NoRow
                 PROVE  \E v \in accessWorks' : v.row = canceling' /\ v.op = "cancel"
    OBVIOUS
  <2>2. canceling' = canceling /\ ~\E w \in over : w.op = "cancel"
    BY <2>1 DEF Lowered
  <2>3. PICK w \in accessWorks : w.row = canceling /\ w.op = "cancel"
    BY <2>1, <2>2 DEF AccessInv, FlagsInv, RowFreed
  <2> QED
    BY <2>2, <2>3
<1>3. rowAction' \in ApiKeyRows \union {NoRow} /\ canceling' \in Calls \union {NoRow}
  BY DEF Lowered, AccessInv, FlagsInv
<1> QED
  BY <1>1, <1>2, <1>3 DEF FlagsInv, RowFreed

LEMMA EndedFrees ==
    ASSUME AccessInv, NEW over, Ended(over)
    PROVE  FlagsInv'
<1>1. Lowered(over) /\ accessWorks' = accessWorks \ over
  BY DEF Ended
<1>2. accessWorks \subseteq RowWorks
  BY DEF AccessInv, FlagsInv
<1> QED
  BY <1>1, <1>2, LoweredFrees

\* The lists: what is shown answers the last request once nothing is under way.
LEMMA ListsKept ==
    ASSUME AccessInv, NEW l \in Lists,
           \/ ChooseTab(l) \/ PauseOver(l)
           \/ \E s \in Searches : SetFilter(l, s)
           \/ \E p \in 1..AccessPages : TurnTo(l, p)
    PROVE  AccessInv'
<1>1. UNCHANGED <<keyTotal, limits, draft, panelOpen>> /\ accessActs' \in Nat
  BY ActCounted DEF ChooseTab, PauseOver, SetFilter, TurnTo, AccessInv, KeysInv
<1>2. KeysInv'
  BY <1>1, AccessQuiet
<1>3. CASE ChooseTab(l)
  <2>1. /\ UNCHANGED <<search, page, loads, shownOf, asked, failedLoad, flags>> /\ tab' = l
        /\ timer' = [timer EXCEPT !["logs"] = l = "logs"]
    BY <1>3 DEF ChooseTab
  <2>2. timer' \in [Lists -> BOOLEAN] /\ (l = "logs" => timer'["logs"])
    BY <2>1 DEF AccessInv, ListsInv, Lists
  <2>3. ListsInv'
    BY <2>1, <2>2 DEF AccessInv, ListsInv, LastRequestShown, LogPageOfRows, Lists
  <2> QED
    BY <1>2, <2>1, <2>3, AccessQuiet DEF AccessInv
<1>4. CASE PauseOver(l)
  <2>1. [of |-> search[l], page |-> 1] \in Asks
    BY FirstPage DEF AccessInv, ListsInv, Asks
  <2>2. ListsInv'
    BY <1>4, <2>1, AskingKeepsLists DEF PauseOver
  <2>3. FlagsInv'
    BY <1>4, EndedFrees DEF PauseOver
  <2> QED
    BY <1>2, <2>2, <2>3 DEF AccessInv
<1>5. ASSUME NEW s \in Searches, SetFilter(l, s)
      PROVE  AccessInv'
  <2>1. ListsInv'
    BY <1>5, FirstPage
       DEF SetFilter, AccessInv, ListsInv, LastRequestShown, LogPageOfRows, Lists
  <2>2. UNCHANGED flags
    BY <1>5 DEF SetFilter
  <2> QED
    BY <1>2, <2>1, <2>2, AccessQuiet DEF AccessInv
<1>6. ASSUME NEW p \in 1..AccessPages, TurnTo(l, p)
      PROVE  AccessInv'
  <2>1. [of |-> search[l], page |-> p] \in Asks
    BY DEF AccessInv, ListsInv, Asks
  <2>2. ListsInv'
    BY <1>6, <2>1, AskingKeepsLists DEF TurnTo
  <2>3. FlagsInv'
    BY <1>6, EndedFrees DEF TurnTo
  <2> QED
    BY <1>2, <2>2, <2>3 DEF AccessInv
<1> QED
  BY <1>3, <1>4, <1>5, <1>6

LEMMA RefreshKept ==
    ASSUME AccessInv, RefreshAll
    PROVE  AccessInv'
<1> DEFINE which == IF tab = "logs" THEN Lists ELSE {"keys"}
<1>1. /\ loads' = [l \in Lists |-> IF l \in which THEN {AskFor(l)} ELSE loads[l]]
      /\ asked' = [l \in Lists |-> IF l \in which THEN AskFor(l) ELSE asked[l]]
      /\ failedLoad' = [l \in Lists |-> failedLoad[l] /\ l \notin which]
      /\ UNCHANGED <<tab, search, page, timer, shownOf, keyTotal, limits, draft, flags, panelOpen>>
  BY DEF RefreshAll
<1>2. \A l \in Lists : AskFor(l) \in Asks
  BY AskTyped
<1>3. /\ loads' \in [Lists -> SUBSET Asks] /\ asked' \in [Lists -> Asks \union {NotAsked}]
      /\ failedLoad' \in [Lists -> BOOLEAN]
  BY <1>1, <1>2 DEF AccessInv, ListsInv
<1>4. tab = "logs" => loads'["logs"] # {}
  BY <1>1 DEF Lists
<1>5. \A l \in Lists : \A ask \in loads'[l] : ask = asked'[l]
  BY <1>1 DEF AccessInv, ListsInv
<1>6. LastRequestShown'
  BY <1>1 DEF AccessInv, ListsInv, LastRequestShown
<1>7. LogPageOfRows'
  BY <1>1, <1>4 DEF AccessInv, ListsInv, LogPageOfRows
<1>8. ListsInv'
  BY <1>1, <1>3, <1>5, <1>6, <1>7 DEF AccessInv, ListsInv
<1>9. FlagsInv' /\ KeysInv'
  BY <1>1, AccessQuiet, ActCounted DEF RefreshAll
<1> QED
  BY <1>8, <1>9 DEF AccessInv

LEMMA ListArrivalKept ==
    ASSUME AccessInv, NEW l \in Lists, NEW ask \in loads[l], ListArrives(l, ask)
    PROVE  AccessInv'
<1>1. ask \in Asks /\ ask = asked[l] /\ ask.page \in 1..AccessPages
  BY DEF AccessInv, ListsInv, Asks
<1>2. loads' = [loads EXCEPT ![l] = {}]
  <2>1. loads[l] \ {ask} = {}
    BY <1>1 DEF AccessInv, ListsInv
  <2>2. loads' = [loads EXCEPT ![l] = loads[l] \ {ask}]
    BY DEF ListArrives
  <2> QED
    BY <2>1, <2>2
<1>3. UNCHANGED <<tab, search, timer, asked, limits, panelOpen, accessActs>>
  BY DEF ListArrives
<1>4. Restore(l) \in [Lists -> 1..AccessPages]
      /\ (l = "logs" => Restore(l)["logs"] = shownOf["logs"].page)
      /\ (l # "logs" => Restore(l) = page)
  <2>1. shownOf["logs"].page \in 1..AccessPages
    <3>1. shownOf["logs"] \in Asks \/ shownOf["logs"] = NotAsked
      BY DEF AccessInv, ListsInv, Lists
    <3>2. NotAsked.page = 1
      BY DEF NotAsked
    <3>3. CASE shownOf["logs"] \in Asks
      BY <3>3 DEF Asks
    <3>4. CASE shownOf["logs"] = NotAsked
      BY <3>2, <3>4, FirstPage
    <3> QED
      BY <3>1, <3>3, <3>4
  <2> QED
    BY <2>1 DEF Restore, AccessInv, ListsInv, Lists
<1>5. ListsInv'
  <2>1. CASE shownOf' = [shownOf EXCEPT ![l] = ask] /\ page' = [page EXCEPT ![l] = ask.page]
             /\ UNCHANGED failedLoad
    BY <1>1, <1>2, <1>3, <2>1 DEF AccessInv, ListsInv, LastRequestShown, LogPageOfRows, Lists
  <2>2. CASE failedLoad' = [failedLoad EXCEPT ![l] = TRUE] /\ page' = Restore(l)
             /\ UNCHANGED <<shownOf, draft>>
    <3>1. failedLoad' \in [Lists -> BOOLEAN] /\ failedLoad'[l]
          /\ \A m \in Lists \ {l} : failedLoad'[m] = failedLoad[m] /\ loads'[m] = loads[m]
      BY <1>2, <2>2 DEF AccessInv, ListsInv
    <3>2. LogPageOfRows'
      BY <1>2, <1>3, <1>4, <2>2 DEF AccessInv, ListsInv, LogPageOfRows, Lists
    <3>3. LastRequestShown'
      BY <1>3, <2>2, <3>1 DEF AccessInv, ListsInv, LastRequestShown
    <3>4. loads' \in [Lists -> SUBSET Asks] /\ \A m \in Lists : loads'[m] \subseteq loads[m]
      BY <1>2 DEF AccessInv, ListsInv
    <3> HIDE DEF Restore
    <3> QED
      BY <1>3, <1>4, <2>2, <3>1, <3>2, <3>3, <3>4 DEF AccessInv, ListsInv
  <2> QED
    BY <2>1, <2>2 DEF ListArrives
<1>6. KeysInv'
  <2>1. Existing \in Nat
    BY ConsoleAccessAssumption, FS_Subset, FS_CardinalityType DEF Existing
  <2>2. draft' \in [ApiKeyRows -> {0, 1, 2}]
    BY DEF ListArrives, AccessInv, KeysInv
  <2>3. keyTotal' \in Nat
    <3>1. keyTotal' = keyTotal \/ keyTotal' \in Found(ask)
      <4>1. CASE l = "keys"
        BY <4>1 DEF ListArrives
      <4>2. CASE l # "keys"
        BY <4>2 DEF ListArrives
      <4> QED
        BY <4>1, <4>2
    <3>2. ASSUME NEW e \in Found(ask)
          PROVE  e \in Nat
      <4>1. CASE ask.of = ""
        BY <2>1, <3>2, <4>1 DEF Found
      <4>2. CASE ask.of # ""
        <5>1. e \in 0..Existing
          BY <3>2, <4>2 DEF Found
        <5> QED
          BY <2>1, <5>1
      <4> QED
        BY <4>1, <4>2
    <3>3. keyTotal \in Nat
      BY DEF AccessInv, KeysInv
    <3> QED
      BY <3>1, <3>2, <3>3
  <2> QED
    BY <1>3, <2>2, <2>3 DEF AccessInv, KeysInv
<1>7. FlagsInv'
  BY EndedFrees DEF ListArrives
<1> QED
  BY <1>5, <1>6, <1>7 DEF AccessInv

\* The rows: a flag that is raised has a new handler that will lower it.
LEMMA BeginTyped ==
    ASSUME AccessInv, NEW op \in AccessOps, NEW row \in ApiKeyRows \union Calls,
           NEW n \in {0, 1, 2}, Begin(op, row, n)
    PROVE  /\ accessWorks' \subseteq RowWorks /\ accessWorks \subseteq accessWorks'
           /\ \E v \in accessWorks' : v.op = op /\ v.row = row
<1> DEFINE new == [op |-> op, row |-> row, limit |-> n, ask |-> ReloadOf(op), step |-> "sent",
                   n |-> accessActs]
<1>1. ReloadOf(op) \in Asks /\ accessActs \in Nat
  BY AskTyped DEF AccessInv, KeysInv, Lists
<1>2. new \in RowWorks /\ new.op = op /\ new.row = row
  BY <1>1 DEF RowWorks
<1>3. accessWorks' = accessWorks \union {new}
  BY DEF Begin
<1> HIDE DEF new
<1> QED
  BY <1>2, <1>3 DEF AccessInv, FlagsInv

LEMMA RowActKept ==
    ASSUME AccessInv, NEW k \in ApiKeyRows, NEW op \in {"toggle", "limit"}, RowAct(op, k)
    PROVE  AccessInv'
<1>1. /\ rowAction' = k /\ Begin(op, k, draft[k]) /\ op \in AccessOps /\ draft[k] \in {0, 1, 2}
      /\ UNCHANGED <<tab, lists, keyTotal, limits, draft, canceling, panelOpen>>
  BY DEF RowAct, AccessInv, KeysInv, AccessOps
<1>2. /\ accessWorks' \subseteq RowWorks /\ accessWorks \subseteq accessWorks'
      /\ \E v \in accessWorks' : v.op = op /\ v.row = k
  BY <1>1, BeginTyped
<1>3. FlagsInv'
  BY <1>1, <1>2 DEF AccessInv, FlagsInv, RowFreed
<1>4. ListsInv' /\ KeysInv'
  BY <1>1, AccessQuiet, ActCounted DEF RowAct
<1> QED
  BY <1>3, <1>4 DEF AccessInv

LEMMA PanelKept ==
    ASSUME AccessInv,
           \/ \E k \in ApiKeyRows : OpenPanel("delete", k)
           \/ \E c \in Calls : OpenPanel("cancel", c) \/ OpenPanel("detail", c)
    PROVE  AccessInv'
<1>1. PICK kind \in {"delete", "cancel", "detail"}, row \in ApiKeyRows \union Calls :
          /\ OpenPanel(kind, row) /\ (kind = "cancel" => row \in Calls)
  OBVIOUS
<1>2. /\ panelOpen' = [kind |-> kind, row |-> row]
      /\ UNCHANGED <<tab, lists, keyTotal, limits, draft, flags>>
  BY <1>1 DEF OpenPanel
<1>3. panelOpen'.kind = kind /\ panelOpen'.row = row
  BY <1>2
<1>4. accessActs' \in Nat
  BY <1>1, ActCounted DEF OpenPanel
<1>5. KeysInv'
  BY <1>1, <1>2, <1>3, <1>4 DEF AccessInv, KeysInv
<1> QED
  BY <1>2, <1>5, AccessQuiet DEF AccessInv

LEMMA ClosePanelKept ==
    ASSUME AccessInv, ClosePanel
    PROVE  AccessInv'
<1>1. /\ panelOpen' = NoPanel
      /\ UNCHANGED <<tab, lists, keyTotal, limits, draft, rowAction, accessActs>>
  BY DEF ClosePanel
<1>2. panelOpen'.kind = "none"
  BY <1>1 DEF NoPanel
<1>3. ListsInv' /\ KeysInv'
  BY <1>1, <1>2, AccessQuiet DEF AccessInv, KeysInv
<1>4. CASE UNCHANGED <<canceling, accessWorks>>
  BY <1>1, <1>3, <1>4, AccessQuiet DEF AccessInv, flags
<1>5. CASE /\ panelOpen.kind \in {"delete", "cancel"}
           /\ canceling' = IF panelOpen.kind = "cancel" THEN panelOpen.row ELSE canceling
           /\ Begin(panelOpen.kind, panelOpen.row, 0)
  <2>1. panelOpen.row \in ApiKeyRows \union Calls /\ panelOpen.kind \in AccessOps
        /\ (panelOpen.kind = "cancel" => panelOpen.row \in Calls)
    BY <1>5 DEF AccessInv, KeysInv, AccessOps
  <2>2. /\ accessWorks' \subseteq RowWorks /\ accessWorks \subseteq accessWorks'
        /\ \E v \in accessWorks' : v.op = panelOpen.kind /\ v.row = panelOpen.row
    BY <1>5, <2>1, BeginTyped
  <2>3. RowFreed'
    BY <1>1, <1>5, <2>2 DEF AccessInv, FlagsInv, RowFreed
  <2>4. canceling' \in Calls \union {NoRow} /\ rowAction' \in ApiKeyRows \union {NoRow}
    BY <1>1, <1>5, <2>1 DEF AccessInv, FlagsInv
  <2> QED
    BY <1>3, <2>2, <2>3, <2>4 DEF AccessInv, FlagsInv
<1> QED
  BY <1>4, <1>5 DEF ClosePanel

\* The server's part of an action, and its answer.
LEMMA RowStepTyped ==
    ASSUME AccessInv, NEW w \in accessWorks, NEW step \in {"ok", "failed", "loading"}
    PROVE  LET new == [w EXCEPT !.step = step]
           IN  new \in RowWorks /\ new.op = w.op /\ new.row = w.row
<1>1. w \in RowWorks
  BY DEF AccessInv, FlagsInv
<1> QED
  BY <1>1 DEF RowWorks

LEMMA ServeRowKept ==
    ASSUME AccessInv, NEW w \in accessWorks, ServeRow(w)
    PROVE  AccessInv'
<1>1. PICK step \in {"ok", "failed"} : Stepped(w, step)
  BY DEF ServeRow
<1> DEFINE new == [w EXCEPT !.step = step]
<1>2. new \in RowWorks /\ new.op = w.op /\ new.row = w.row
  BY RowStepTyped
<1>3. accessWorks' = (accessWorks \ {w}) \union {new}
  BY <1>1 DEF Stepped
<1>4. UNCHANGED <<tab, lists, keyTotal, draft, rowAction, canceling, panelOpen, accessActs>>
  BY DEF ServeRow
<1> HIDE DEF new
<1>5. FlagsInv'
  <2>1. Lowered({})
    BY <1>4 DEF Lowered
  <2> QED
    BY <1>2, <1>3, <2>1, LoweredFrees DEF AccessInv, FlagsInv
<1>6. KeysInv'
  <2>1. w.limit \in {0, 1, 2}
    BY DEF AccessInv, FlagsInv, RowWorks
  <2>2. limits' = limits \/ limits' = [limits EXCEPT ![w.row] = w.limit]
    BY DEF ServeRow
  <2> QED
    BY <1>4, <2>1, <2>2 DEF AccessInv, KeysInv
<1> QED
  BY <1>4, <1>5, <1>6, AccessQuiet DEF AccessInv

LEMMA WorkKept ==
    ASSUME AccessInv, NEW w \in accessWorks, WorkServed(w) \/ WorkRefused(w)
    PROVE  AccessInv'
<1>1. CASE WorkServed(w)
  <2> DEFINE new == [w EXCEPT !.step = "loading"]
             over == Reloading(ListOf(w))
             more == IF w.op = "delete" THEN {} ELSE {new}
  <2>1. /\ w.step = "ok" /\ Asking(ListOf(w), w.ask) /\ Lowered(over)
        /\ accessWorks' = (accessWorks \ (over \union {w})) \union more
        /\ (panelOpen' = NoPanel \/ panelOpen' = panelOpen)
        /\ UNCHANGED <<tab, search, timer, shownOf, keyTotal, limits, draft, accessActs>>
    BY <1>1 DEF WorkServed
  <2>2. ListOf(w) \in Lists /\ w.ask \in Asks
    BY DEF ListOf, Lists, AccessInv, FlagsInv, RowWorks
  <2>3. ListsInv'
    BY <2>1, <2>2, AskingKeepsLists
  <2>4. KeysInv'
    <3>1. NoPanel.kind = "none"
      BY DEF NoPanel
    <3> QED
      BY <2>1, <3>1 DEF AccessInv, KeysInv
  <2>5. new \in RowWorks /\ new.op = w.op /\ new.row = w.row
    BY RowStepTyped
  <2> HIDE DEF new, over
  <2>6. CASE w.op # "delete"
    <3>1. accessWorks' = (accessWorks \ (over \union {w})) \union {new}
      BY <2>1, <2>6
    <3>2. accessWorks' \subseteq RowWorks
      BY <2>5, <3>1 DEF AccessInv, FlagsInv
    <3>3. \A v \in accessWorks \ over : \E u \in accessWorks' : u.op = v.op /\ u.row = v.row
      BY <2>5, <3>1
    <3> QED
      BY <2>1, <2>3, <2>4, <3>2, <3>3, LoweredFrees DEF AccessInv
  <2>7. CASE w.op = "delete"
    <3>1. accessWorks' = accessWorks \ (over \union {w})
      BY <2>1, <2>7
    <3>2. Lowered(over \union {w})
      BY <2>1, <2>7 DEF Lowered
    <3>3. FlagsInv'
      BY <3>1, <3>2, EndedFrees DEF Ended
    <3> QED
      BY <2>3, <2>4, <3>3 DEF AccessInv
  <2> QED
    BY <2>6, <2>7
<1>2. CASE WorkRefused(w)
  <2>1. UNCHANGED <<tab, lists, keyTotal, limits, draft, panelOpen, accessActs>> /\ Ended({w})
    BY <1>2 DEF WorkRefused
  <2>2. accessActs' \in Nat
    BY <2>1 DEF AccessInv, KeysInv
  <2> QED
    BY <2>1, <2>2, AccessQuiet, EndedFrees DEF AccessInv
<1> QED
  BY <1>1, <1>2

LEMMA AccessKept ==
    ASSUME AccessInv, [AccessNext]_accessVars
    PROVE  AccessInv'
<1>1. CASE UNCHANGED accessVars
  <2>1. accessActs' \in Nat
    BY <1>1 DEF accessVars, AccessInv, KeysInv
  <2> QED
    BY <1>1, <2>1, AccessQuiet DEF accessVars, AccessInv
<1>2. ASSUME NEW k \in ApiKeyRows, NEW n \in {0, 2}, DraftLimit(k, n)
      PROVE  AccessInv'
  <2>1. draft' \in [ApiKeyRows -> {0, 1, 2}] /\ UNCHANGED <<tab, lists, keyTotal, limits, flags, panelOpen>>
    BY <1>2 DEF DraftLimit, AccessInv, KeysInv
  <2>2. accessActs' \in Nat
    BY <1>2, ActCounted DEF DraftLimit
  <2> QED
    BY <2>1, <2>2, AccessQuiet DEF AccessInv, KeysInv
<1>3. CASE CallEnds
  <2>1. UNCHANGED <<tab, lists, keyTotal, limits, draft, flags, panelOpen, accessActs>>
    BY <1>3 DEF CallEnds
  <2>2. accessActs' \in Nat
    BY <2>1 DEF AccessInv, KeysInv
  <2> QED
    BY <2>1, <2>2, AccessQuiet DEF AccessInv
<1> QED
  BY <1>1, <1>2, <1>3, ListsKept, RefreshKept, ListArrivalKept, RowActKept, PanelKept,
     ClosePanelKept, ServeRowKept, WorkKept
     DEF AccessNext

-----------------------------------------------------------------------------
(* The groups of the running calls: what the loop over the calls has counted, *)
(* by induction on how many of them it is through with.                      *)

\* Induction over the naturals, by their smallest element outside a set.
LEMMA NatInd ==
    ASSUME NEW S \in SUBSET Nat, 0 \in S, \A n \in S : n + 1 \in S
    PROVE  S = Nat
<1> DEFINE R == OpToRel(<, Nat)
           T == Nat \ S
<1>1. IsWellFoundedOn(R, Nat)
  BY NatLessThanWellFounded
<1>2. SUFFICES ASSUME T # {} PROVE FALSE
  OBVIOUS
<1>3. \A x, y \in Nat : x < y => <<x, y>> \in R
  BY DEF OpToRel
<1> HIDE DEF R
<1>4. PICK x \in T : \A y \in T : ~ (<<y, x>> \in R)
  BY <1>1, <1>2, WFMin
<1> QED
  <2>1. x - 1 \in Nat /\ x - 1 < x /\ x = (x - 1) + 1
    BY <1>4
  <2>2. x - 1 \in S
    BY <1>3, <1>4, <2>1
  <2> QED
    BY <1>4, <2>1, <2>2

\* The loop over the calls has a result after each of them.
Loop(calls, n, g) ==
    g = [m \in 0..n |-> IF m = 0 THEN << >> ELSE AddCall(g[m - 1], calls[m])]

LEMMA LoopRuns ==
    ASSUME NEW calls \in Seq(RunningCalls)
    PROVE  \A n \in Nat : \E g : Loop(calls, n, g)
<1> DEFINE S == {n \in Nat : \E g : Loop(calls, n, g)}
<1>1. 0 \in S
  <2>1. Loop(calls, 0, [m \in {0} |-> << >>])
    BY DEF Loop
  <2> QED
    BY <2>1
<1>2. ASSUME NEW n \in S PROVE n + 1 \in S
  <2>1. PICK g : Loop(calls, n, g)
    OBVIOUS
  <2> DEFINE h == [m \in 0..(n + 1) |-> IF m = n + 1 THEN AddCall(g[n], calls[n + 1]) ELSE g[m]]
  <2>2. n \in Nat /\ \A m \in 0..n : g[m] = IF m = 0 THEN << >> ELSE AddCall(g[m - 1], calls[m])
    BY <2>1 DEF Loop
  <2>3. ASSUME NEW m \in 0..(n + 1), m # 0
        PROVE  m - 1 \in 0..n /\ h[m - 1] = g[m - 1] /\ (m # n + 1 => m \in 0..n)
    BY <2>2, <2>3
  <2>4. ASSUME NEW m \in 0..(n + 1)
        PROVE  h[m] = IF m = 0 THEN << >> ELSE AddCall(h[m - 1], calls[m])
    <3>1. CASE m = 0
      BY <2>2, <3>1
    <3>2. CASE m = n + 1
      BY <2>2, <2>3, <3>2
    <3>3. CASE m # 0 /\ m # n + 1
      BY <2>2, <2>3, <3>3
    <3> QED
      BY <3>1, <3>2, <3>3
  <2>5. h = [m \in 0..(n + 1) |-> h[m]]
    OBVIOUS
  <2> HIDE DEF h
  <2>6. Loop(calls, n + 1, h)
    BY <2>4, <2>5 DEF Loop
  <2> QED
    BY <2>2, <2>6
<1> HIDE DEF S
<1>3. S = Nat
  BY <1>1, <1>2, NatInd DEF S
<1> QED
  BY <1>3 DEF S

LEMMA LoopStep ==
    ASSUME NEW calls \in Seq(RunningCalls)
    PROVE  /\ groupsAfter(calls)[0] = << >>
           /\ \A n \in 1..Len(calls) :
                  groupsAfter(calls)[n] = AddCall(groupsAfter(calls)[n - 1], calls[n])
<1> DEFINE g == groupsAfter(calls)
<1>1. Len(calls) \in Nat
  OBVIOUS
<1>2. g = CHOOSE f : Loop(calls, Len(calls), f)
  BY DEF groupsAfter, Loop
<1>3. Loop(calls, Len(calls), g)
  BY <1>1, <1>2, LoopRuns
<1> HIDE DEF g
<1>4. \A m \in 0..Len(calls) : g[m] = IF m = 0 THEN << >> ELSE AddCall(g[m - 1], calls[m])
  BY <1>3 DEF Loop
<1>5. g[0] = << >>
  BY <1>1, <1>4
<1>6. \A n \in 1..Len(calls) : g[n] = AddCall(g[n - 1], calls[n])
  BY <1>1, <1>4
<1> QED
  BY <1>5, <1>6 DEF g

Uses == [used : Nat, limit : Nat]
KeyIds == Seq(STRING)
Usages == UNION {[D -> Uses] : D \in SUBSET KeyIds}
\* (No prover knows that a literal is a STRING.)
SaidStatuses == STRING \union {"processing"}
Groups == [taskCount : Nat, queuedCount : Nat, processingCount : Nat, slowCount : Nat,
           representativeStatus : SaidStatuses, firstCreatedAt : Nat, keys : Usages,
           calls : Seq(RunningCalls)]
\* A group counts, covers and bounds the calls at these places.
Sums(group, calls, of) ==
    /\ group \in Groups
    /\ group.taskCount = Cardinality(of)
    /\ group.taskCount = group.processingCount + group.queuedCount
    /\ \A i \in of : /\ calls[i].status # "processing" => group.queuedCount > 0
                     /\ calls[i].elapsedSeconds >= 120 => group.slowCount > 0
                     /\ group.firstCreatedAt <= calls[i].createdAt
                     /\ keyId(calls[i]) \in DOMAIN group.keys
                     /\ group.keys[keyId(calls[i])].used >= calls[i].activeForKey
SomeProcessing(calls, of) == \E i \in of : calls[i].status = "processing"

LEMMA UsageTyped ==
    ASSUME NEW keys \in Usages
    PROVE  \A k \in DOMAIN keys : keys[k] \in Uses /\ keys[k].used \in Nat /\ keys[k].limit \in Nat
<1>1. \A k \in DOMAIN keys : keys[k] \in Uses
  BY DEF Usages
<1> QED
  BY <1>1 DEF Uses

LEMMA KeyIdTyped ==
    ASSUME NEW call \in RunningCalls
    PROVE  groupKey(call) \in STRING /\ keyId(call) \in KeyIds
<1>1. /\ call.user \in STRING /\ call.email \in STRING /\ call.key \in STRING
      /\ call.task \in STRING /\ call.label \in STRING
  BY DEF RunningCalls
<1>2. groupKey(call) \in STRING
  BY <1>1 DEF groupKey
<1>3. <<call.key>> \in Seq(STRING) /\ <<groupKey(call), call.label>> \in Seq(STRING)
  BY <1>1, <1>2
<1> QED
  BY <1>2, <1>3 DEF keyId, KeyIds

\* Calls counted under one id are calls with one key.
LEMMA OneIdOneKey ==
    ASSUME NEW a \in RunningCalls, NEW b \in RunningCalls, keyId(a) = keyId(b)
    PROVE  a.key = b.key
<1>1. \A u, v, w : <<u>> # <<v, w>> /\ (<<u>> = <<v>> => u = v)
  OBVIOUS
<1> QED
  BY <1>1 DEF keyId

LEMMA CallTyped ==
    ASSUME NEW calls \in Seq(RunningCalls), NEW n \in 1..Len(calls)
    PROVE  /\ calls[n] \in RunningCalls
           /\ calls[n].status \in STRING /\ calls[n].elapsedSeconds \in Nat /\ calls[n].createdAt \in Nat
           /\ calls[n].activeForKey \in Nat /\ calls[n].concurrencyLimit \in Nat
           /\ groupKey(calls[n]) \in STRING /\ keyId(calls[n]) \in KeyIds
<1>1. calls[n] \in RunningCalls
  OBVIOUS
<1>2. /\ calls[n].status \in STRING /\ calls[n].elapsedSeconds \in Nat
      /\ calls[n].createdAt \in Nat
      /\ calls[n].activeForKey \in Nat /\ calls[n].concurrencyLimit \in Nat
  BY <1>1 DEF RunningCalls
<1>3. groupKey(calls[n]) \in STRING /\ keyId(calls[n]) \in KeyIds
  BY <1>1, KeyIdTyped
<1> QED
  BY <1>1, <1>2, <1>3

\* A key's use and limit never shrink, and are at least those of the call.
LEMMA ConcurrencyGrows ==
    ASSUME NEW keys \in Usages, NEW call \in RunningCalls
    PROVE  /\ Concurrency(keys, call) \in Usages
           /\ DOMAIN Concurrency(keys, call) = DOMAIN keys \union {keyId(call)}
           /\ \A k \in DOMAIN keys : Concurrency(keys, call)[k].used >= keys[k].used
           /\ Concurrency(keys, call)[keyId(call)].used >= call.activeForKey
<1> DEFINE id == keyId(call)
           old == IF id \in DOMAIN keys THEN keys[id] ELSE [used |-> 0, limit |-> 0]
           new == [used |-> Larger(old.used, AtLeastOne(call.activeForKey)),
                   limit |-> Larger(old.limit, AtLeastOne(call.concurrencyLimit))]
           all == Concurrency(keys, call)
<1>1. /\ call.activeForKey \in Nat /\ call.concurrencyLimit \in Nat /\ id \in KeyIds
  BY KeyIdTyped DEF RunningCalls
<1>2. PICK D \in SUBSET KeyIds : keys \in [D -> Uses]
  BY DEF Usages
<1>3. \A k \in DOMAIN keys : keys[k] \in Uses /\ keys[k].used \in Nat /\ keys[k].limit \in Nat
  BY <1>2 DEF Uses
<1>4. old \in Uses /\ old.used \in Nat /\ old.limit \in Nat
  BY <1>3 DEF Uses
<1>5. all = [k \in DOMAIN keys \union {id} |-> IF k = id THEN new ELSE keys[k]]
  BY DEF Concurrency
<1> HIDE DEF id, old
<1>6. /\ new.used \in Nat /\ new.limit \in Nat
      /\ new.used >= old.used /\ new.used >= call.activeForKey
  BY <1>1, <1>4 DEF Larger, AtLeastOne
<1>7. new \in Uses
  BY <1>6 DEF Uses
<1> HIDE DEF new, all
<1>8. all \in [D \union {id} -> Uses] /\ D \union {id} \in SUBSET KeyIds
  BY <1>1, <1>2, <1>3, <1>5, <1>7
<1>12. all \in Usages
  BY <1>8 DEF Usages
<1>9. \A k \in DOMAIN keys : all[k].used >= keys[k].used
  BY <1>3, <1>5, <1>6 DEF old
<1>10. all[id].used >= call.activeForKey
  BY <1>5, <1>6
<1>11. DOMAIN all = DOMAIN keys \union {id}
  BY <1>5
<1> QED
  BY <1>9, <1>10, <1>11, <1>12 DEF all, id

LEMMA CountedFields ==
    ASSUME NEW group \in Groups, NEW call \in RunningCalls
    PROVE  /\ Counted(group, call) \in Groups
           /\ Counted(group, call).taskCount = group.taskCount + 1
           /\ Counted(group, call).processingCount =
                  group.processingCount + (IF call.status = "processing" THEN 1 ELSE 0)
           /\ Counted(group, call).queuedCount =
                  group.queuedCount + (IF call.status = "processing" THEN 0 ELSE 1)
           /\ Counted(group, call).slowCount =
                  group.slowCount + (IF call.elapsedSeconds >= 120 THEN 1 ELSE 0)
           /\ Counted(group, call).representativeStatus =
                  (IF call.status = "processing" THEN "processing" ELSE group.representativeStatus)
           /\ Counted(group, call).firstCreatedAt =
                  (IF call.createdAt < group.firstCreatedAt THEN call.createdAt
                   ELSE group.firstCreatedAt)
           /\ Counted(group, call).keys = Concurrency(group.keys, call)
<1> DEFINE new == Counted(group, call)
<1>1. /\ group.taskCount \in Nat /\ group.queuedCount \in Nat /\ group.processingCount \in Nat
      /\ group.slowCount \in Nat /\ group.representativeStatus \in SaidStatuses
      /\ group.firstCreatedAt \in Nat /\ group.calls \in Seq(RunningCalls)
      /\ group.keys \in Usages
  BY DEF Groups
<1>2. /\ call.elapsedSeconds \in Nat /\ call.createdAt \in Nat
  BY DEF RunningCalls
<1>3. Concurrency(group.keys, call) \in Usages
  BY <1>1, ConcurrencyGrows
<1>4. Append(group.calls, call) \in Seq(RunningCalls)
  BY <1>1
<1> DEFINE fields == {"taskCount", "queuedCount", "processingCount", "slowCount",
                      "representativeStatus", "firstCreatedAt", "keys", "calls"}
           processing == IF call.status = "processing" THEN group.processingCount + 1
                         ELSE group.processingCount
           queued == IF call.status = "processing" THEN group.queuedCount
                     ELSE group.queuedCount + 1
           slow == IF call.elapsedSeconds >= 120 THEN group.slowCount + 1 ELSE group.slowCount
           says == IF call.status = "processing" THEN "processing" ELSE group.representativeStatus
           first == IF call.createdAt < group.firstCreatedAt THEN call.createdAt
                    ELSE group.firstCreatedAt
           used == Concurrency(group.keys, call)
           more == Append(group.calls, call)
           total == group.taskCount + 1
<1>9. DOMAIN group = fields
  BY DEF Groups
<1>10. new = [group EXCEPT !.taskCount = total, !.processingCount = processing,
                  !.queuedCount = queued, !.representativeStatus = says, !.slowCount = slow,
                  !.firstCreatedAt = first, !.keys = used, !.calls = more]
  BY Zenon DEF Counted
<1>11. /\ total \in Nat /\ processing \in Nat /\ queued \in Nat /\ slow \in Nat
       /\ says \in SaidStatuses /\ first \in Nat /\ used \in Usages /\ more \in Seq(RunningCalls)
  <2>1. total \in Nat /\ processing \in Nat /\ queued \in Nat /\ slow \in Nat
    BY <1>1
  <2>2. says \in SaidStatuses
    BY <1>1 DEF SaidStatuses
  <2>4. first \in Nat
    BY <1>1, <1>2
  <2>3. used \in Usages /\ more \in Seq(RunningCalls)
    BY <1>3, <1>4
  <2> HIDE DEF total, processing, queued, slow, says, first, used, more
  <2> QED
    BY <2>1, <2>2, <2>3, <2>4
<1>12. /\ processing = group.processingCount + (IF call.status = "processing" THEN 1 ELSE 0)
       /\ queued = group.queuedCount + (IF call.status = "processing" THEN 0 ELSE 1)
       /\ slow = group.slowCount + (IF call.elapsedSeconds >= 120 THEN 1 ELSE 0)
  BY <1>1
<1> HIDE DEF new, total, processing, queued, slow, says, first, used, more
<1>13. new = [x \in fields |-> IF x = "calls" THEN more ELSE IF x = "keys" THEN used
                  ELSE IF x = "firstCreatedAt" THEN first ELSE IF x = "slowCount" THEN slow
                  ELSE IF x = "representativeStatus" THEN says
                  ELSE IF x = "queuedCount" THEN queued
                  ELSE IF x = "processingCount" THEN processing ELSE total]
  BY <1>9, <1>10
<1>14. new = [taskCount |-> total, queuedCount |-> queued, processingCount |-> processing,
              slowCount |-> slow, representativeStatus |-> says, firstCreatedAt |-> first,
              keys |-> used, calls |-> more]
  BY <1>13
<1>6. new \in Groups
  BY <1>11, <1>14 DEF Groups
<1>7. /\ new.taskCount = group.taskCount + 1
      /\ new.processingCount = group.processingCount + (IF call.status = "processing" THEN 1 ELSE 0)
      /\ new.queuedCount = group.queuedCount + (IF call.status = "processing" THEN 0 ELSE 1)
      /\ new.slowCount = group.slowCount + (IF call.elapsedSeconds >= 120 THEN 1 ELSE 0)
  BY <1>12, <1>14 DEF total
<1>8. /\ new.representativeStatus =
             (IF call.status = "processing" THEN "processing" ELSE group.representativeStatus)
      /\ new.firstCreatedAt = (IF call.createdAt < group.firstCreatedAt THEN call.createdAt
                               ELSE group.firstCreatedAt)
      /\ new.keys = Concurrency(group.keys, call)
  BY <1>14 DEF says, first, used
<1> QED
  BY <1>6, <1>7, <1>8 DEF new

\* One more call counted.
LEMMA CountedSums ==
    ASSUME NEW calls \in Seq(RunningCalls), NEW n \in 1..Len(calls), NEW group,
           NEW of \in SUBSET (1..(n - 1)), Sums(group, calls, of),
           SomeProcessing(calls, of) => group.representativeStatus = "processing",
           group.representativeStatus = "processing"
               => SomeProcessing(calls, of) \/ calls[n].status = "processing"
    PROVE  /\ Sums(Counted(group, calls[n]), calls, of \union {n})
           /\ Counted(group, calls[n]).representativeStatus = "processing"
                  <=> SomeProcessing(calls, of \union {n})
<1> DEFINE call == calls[n]
           new == Counted(group, call)
<1>1. /\ call \in RunningCalls /\ call.elapsedSeconds \in Nat
      /\ call.createdAt \in Nat /\ call.activeForKey \in Nat
  BY CallTyped
<1>2. ASSUME NEW i \in of
      PROVE  /\ calls[i].elapsedSeconds \in Nat
             /\ calls[i].createdAt \in Nat /\ calls[i].activeForKey \in Nat
  BY CallTyped
<1>3. /\ group \in Groups /\ group.taskCount \in Nat /\ group.queuedCount \in Nat
      /\ group.processingCount \in Nat /\ group.slowCount \in Nat /\ group.firstCreatedAt \in Nat
      /\ group.keys \in Usages
  BY DEF Sums, Groups
<1>4. ~ (n \in of) /\ IsFiniteSet(of) /\ Cardinality(of \union {n}) = Cardinality(of) + 1
  <2>0. n \in Int /\ n - 1 \in Int /\ 1 \in Int
    OBVIOUS
  <2>1. IsFiniteSet(1..(n - 1))
    BY <2>0, FS_Interval
  <2>2. IsFiniteSet(of)
    BY <2>1, FS_Subset
  <2>3. ~ (n \in of)
    BY <2>0
  <2> QED
    BY <2>2, <2>3, FS_AddElement
<1>5. /\ new \in Groups
      /\ new.taskCount = group.taskCount + 1
      /\ new.processingCount = group.processingCount + (IF call.status = "processing" THEN 1 ELSE 0)
      /\ new.queuedCount = group.queuedCount + (IF call.status = "processing" THEN 0 ELSE 1)
      /\ new.slowCount = group.slowCount + (IF call.elapsedSeconds >= 120 THEN 1 ELSE 0)
      /\ new.representativeStatus =
             (IF call.status = "processing" THEN "processing" ELSE group.representativeStatus)
      /\ new.firstCreatedAt = (IF call.createdAt < group.firstCreatedAt THEN call.createdAt
                               ELSE group.firstCreatedAt)
      /\ new.keys = Concurrency(group.keys, call)
  BY <1>1, <1>3, CountedFields
<1>6. /\ DOMAIN new.keys = DOMAIN group.keys \union {keyId(call)}
      /\ \A k \in DOMAIN group.keys : new.keys[k].used >= group.keys[k].used
      /\ new.keys[keyId(call)].used >= call.activeForKey
  BY <1>1, <1>3, <1>5, ConcurrencyGrows
<1>7. ASSUME NEW k \in DOMAIN group.keys
      PROVE  group.keys[k].used \in Nat /\ new.keys[k].used \in Nat
  <2>1. new.keys \in Usages
    BY <1>5 DEF Groups
  <2> QED
    BY <1>3, <1>6, <2>1, UsageTyped
<1> HIDE DEF new
<1>8. /\ new.taskCount = Cardinality(of \union {n})
      /\ new.taskCount = new.processingCount + new.queuedCount
  <2>1. group.taskCount = Cardinality(of) /\ group.taskCount = group.processingCount + group.queuedCount
    BY DEF Sums
  <2> QED
    BY <1>3, <1>4, <1>5, <2>1
<1>9. /\ call.status # "processing" => new.queuedCount > 0
      /\ call.elapsedSeconds >= 120 => new.slowCount > 0
      /\ new.firstCreatedAt <= call.createdAt
      /\ keyId(call) \in DOMAIN new.keys
      /\ new.keys[keyId(call)].used >= call.activeForKey
  BY <1>1, <1>3, <1>5, <1>6
<1>10. ASSUME NEW i \in of
       PROVE  /\ calls[i].status # "processing" => new.queuedCount > 0
              /\ calls[i].elapsedSeconds >= 120 => new.slowCount > 0
              /\ new.firstCreatedAt <= calls[i].createdAt
              /\ keyId(calls[i]) \in DOMAIN new.keys
              /\ new.keys[keyId(calls[i])].used >= calls[i].activeForKey
  <2>1. /\ calls[i].status # "processing" => group.queuedCount > 0
        /\ calls[i].elapsedSeconds >= 120 => group.slowCount > 0
        /\ group.firstCreatedAt <= calls[i].createdAt
        /\ keyId(calls[i]) \in DOMAIN group.keys
        /\ group.keys[keyId(calls[i])].used >= calls[i].activeForKey
    BY DEF Sums
  <2>2. new.keys[keyId(calls[i])].used >= calls[i].activeForKey
    BY <1>2, <1>6, <1>7, <2>1
  <2>3. /\ calls[i].status # "processing" => new.queuedCount > 0
        /\ calls[i].elapsedSeconds >= 120 => new.slowCount > 0
    BY <1>3, <1>5, <2>1
  <2>4. new.firstCreatedAt <= calls[i].createdAt
    <3>1. /\ call.createdAt \in Nat /\ calls[i].createdAt \in Nat /\ group.firstCreatedAt \in Nat
          /\ group.firstCreatedAt <= calls[i].createdAt
      BY <1>1, <1>2, <1>3, <2>1
    <3>2. \/ call.createdAt < group.firstCreatedAt /\ new.firstCreatedAt = call.createdAt
          \/ new.firstCreatedAt = group.firstCreatedAt
      BY <1>5
    <3> HIDE DEF call
    <3> QED
      BY <3>1, <3>2
  <2> QED
    BY <1>6, <2>1, <2>2, <2>3, <2>4
<1>11. Sums(new, calls, of \union {n})
  BY <1>5, <1>8, <1>9, <1>10 DEF Sums
<1>12. new.representativeStatus = "processing" <=> SomeProcessing(calls, of \union {n})
  BY <1>5 DEF SomeProcessing
<1> QED
  BY <1>11, <1>12 DEF new

\* The places, among the first n, of the calls of a group.
Places(calls, n, g) == {i \in 1..n : groupKey(calls[i]) = g}
Grouped(calls, n) ==
    LET groups == groupsAfter(calls)[n]
    IN  /\ DOMAIN groups = {groupKey(calls[i]) : i \in 1..n}
        /\ \A g \in DOMAIN groups :
               /\ Sums(groups[g], calls, Places(calls, n, g))
               /\ groups[g].representativeStatus = "processing"
                      <=> SomeProcessing(calls, Places(calls, n, g))

LEMMA NewGroupSums ==
    ASSUME NEW calls \in Seq(RunningCalls), NEW n \in 1..Len(calls)
    PROVE  Sums(NewGroup(calls[n]), calls, {})
<1> DEFINE new == NewGroup(calls[n])
<1>1. calls[n].status \in STRING /\ calls[n].createdAt \in Nat
  BY CallTyped
<1>2. << >> \in Usages
  <2>1. << >> \in [{} -> Uses] /\ {} \in SUBSET KeyIds
    OBVIOUS
  <2> QED
    BY <2>1 DEF Usages
<1>3. << >> \in Seq(RunningCalls)
  OBVIOUS
<1>4. new \in Groups
  BY <1>1, <1>2, <1>3 DEF NewGroup, Groups, SaidStatuses
<1>5. new.taskCount = 0 /\ new.processingCount = 0 /\ new.queuedCount = 0
  BY DEF NewGroup
<1> HIDE DEF new
<1>6. Cardinality({}) = 0
  BY FS_EmptySet
<1> QED
  BY <1>4, <1>5, <1>6 DEF Sums, new

\* One more call grouped.
LEMMA GroupedStep ==
    ASSUME NEW calls \in Seq(RunningCalls), NEW n \in 1..Len(calls), Grouped(calls, n - 1)
    PROVE  Grouped(calls, n)
<1> DEFINE old == groupsAfter(calls)[n - 1]
           new == groupsAfter(calls)[n]
           call == calls[n]
           key == groupKey(call)
           was == IF key \in DOMAIN old THEN old[key] ELSE NewGroup(call)
           of == Places(calls, n - 1, key)
<1>1. /\ DOMAIN old = {groupKey(calls[i]) : i \in 1..(n - 1)}
      /\ \A g \in DOMAIN old :
             /\ Sums(old[g], calls, Places(calls, n - 1, g))
             /\ old[g].representativeStatus = "processing"
                    <=> SomeProcessing(calls, Places(calls, n - 1, g))
  BY DEF Grouped
<1>2. new = [h \in DOMAIN old \union {key} |-> IF h = key THEN Counted(was, call) ELSE old[h]]
  <2>1. new = AddCall(old, call)
    BY LoopStep
  <2> HIDE DEF old, new, call
  <2> QED
    BY <2>1 DEF AddCall
<1>3. \A g : Places(calls, n, g) = Places(calls, n - 1, g) \union (IF g = key THEN {n} ELSE {})
  BY DEF Places
<1>4. /\ of \in SUBSET (1..(n - 1))
      /\ Sums(was, calls, of)
      /\ SomeProcessing(calls, of) => was.representativeStatus = "processing"
      /\ was.representativeStatus = "processing" => SomeProcessing(calls, of) \/ call.status = "processing"
  <2>1. of \in SUBSET (1..(n - 1))
    BY DEF Places
  <2>2. CASE key \in DOMAIN old
    BY <1>1, <2>1, <2>2
  <2>3. CASE ~ (key \in DOMAIN old)
    <3>1. of = {}
      BY <1>1, <2>3 DEF Places
    <3>2. Sums(NewGroup(call), calls, {})
      BY NewGroupSums
    <3>3. NewGroup(call).representativeStatus = call.status
      BY DEF NewGroup
    <3>4. was = NewGroup(call)
      BY <2>3
    <3> HIDE DEF was, of
    <3> QED
      BY <2>1, <3>1, <3>2, <3>3, <3>4 DEF SomeProcessing
  <2> QED
    BY <2>2, <2>3
<1>5. /\ Sums(Counted(was, call), calls, of \union {n})
      /\ Counted(was, call).representativeStatus = "processing"
             <=> SomeProcessing(calls, of \union {n})
  <2> HIDE DEF was, of
  <2> QED
    BY <1>4, CountedSums
<1>6. DOMAIN new = {groupKey(calls[i]) : i \in 1..n}
  <2>1. DOMAIN new = DOMAIN old \union {key}
    BY <1>2
  <2>2. 1..n = 1..(n - 1) \union {n}
    OBVIOUS
  <2> HIDE DEF old, new
  <2> QED
    BY <1>1, <2>1, <2>2
<1>7. ASSUME NEW g \in DOMAIN new
      PROVE  /\ Sums(new[g], calls, Places(calls, n, g))
             /\ new[g].representativeStatus = "processing"
                    <=> SomeProcessing(calls, Places(calls, n, g))
  <2>1. CASE g = key
    <3>1. new[g] = Counted(was, call) /\ Places(calls, n, g) = of \union {n}
      BY <1>2, <1>3, <2>1
    <3> HIDE DEF was, of, new
    <3> QED
      BY <1>5, <3>1
  <2>2. CASE g # key
    <3>1. g \in DOMAIN old /\ new[g] = old[g]
      BY <1>2, <2>2
    <3>2. Places(calls, n, g) = Places(calls, n - 1, g)
      BY <1>3, <2>2
    <3> HIDE DEF was, of, new, old
    <3> QED
      BY <1>1, <3>1, <3>2
  <2> QED
    BY <2>1, <2>2
<1> QED
  BY <1>6, <1>7 DEF Grouped

LEMMA AllGrouped ==
    ASSUME NEW calls \in Seq(RunningCalls)
    PROVE  Grouped(calls, Len(calls))
<1> DEFINE S == {n \in Nat : n <= Len(calls) => Grouped(calls, n)}
<1>1. 0 \in S
  <2>1. groupsAfter(calls)[0] = << >> /\ DOMAIN << >> = {} /\ 1..0 = {}
    BY LoopStep
  <2> QED
    BY <2>1 DEF Grouped
<1>2. ASSUME NEW n \in S PROVE n + 1 \in S
  <2>1. ASSUME n + 1 <= Len(calls) PROVE Grouped(calls, n + 1)
    <3>1. n \in Nat /\ n + 1 \in 1..Len(calls) /\ (n + 1) - 1 = n /\ Grouped(calls, n)
      BY <2>1
    <3> QED
      BY <3>1, GroupedStep
  <2> QED
    BY <2>1
<1> HIDE DEF S
<1>3. S = Nat
  BY <1>1, <1>2, NatInd DEF S
<1>4. Len(calls) \in Nat /\ Len(calls) <= Len(calls)
  OBVIOUS
<1> QED
  BY <1>3, <1>4 DEF S

\* What the server tells is a sequence of calls, and of each key it counts the calls.
LEMMA SnapshotTold ==
    ASSUME NEW snapshot \in LiveSnapshots
    PROVE  \E those \in Seq(RunningCalls) : snapshot = AdminOperationsLive(those)
<1>1. CASE snapshot = EMPTY_LIVE
  <2> DEFINE none == << >>
  <2>1. none \in Seq(RunningCalls) /\ DOMAIN none = {} /\ Len(none) = 0
    OBVIOUS
  <2>2. Cardinality({}) = 0
    BY FS_EmptySet
  <2>3. /\ {i \in DOMAIN none : none[i].status # "processing"} = {}
        /\ {i \in DOMAIN none : none[i].elapsedSeconds >= 120} = {}
    BY <2>1
  <2>4. [i \in DOMAIN none |->
             [none[i] EXCEPT !.activeForKey =
                  Cardinality({j \in DOMAIN none : none[j].key = none[i].key})]] = none
    BY <2>1
  <2>5. AdminOperationsLive(none) = EMPTY_LIVE
    <3> HIDE DEF none
    <3>1. none = << >>
      BY DEF none
    <3> QED
      BY <2>1, <2>2, <2>3, <2>4, <3>1 DEF AdminOperationsLive, EMPTY_LIVE
  <2> QED
    BY <1>1, <2>1, <2>5
<1>2. CASE \E those \in Snapshots : snapshot = AdminOperationsLive(those)
  BY <1>2, ConsoleOperationsAssumption
<1> QED
  BY <1>1, <1>2 DEF LiveSnapshots

LEMMA FiniteWithin ==
    ASSUME NEW n \in Nat, NEW part \in SUBSET (1..n)
    PROVE  IsFiniteSet(part) /\ Cardinality(part) \in Nat
           /\ \A less \in SUBSET part : Cardinality(less) <= Cardinality(part)
<1>1. IsFiniteSet(1..n)
  <2>1. n \in Int /\ 1 \in Int
    OBVIOUS
  <2> QED
    BY <2>1, FS_Interval
<1>2. IsFiniteSet(part)
  BY <1>1, FS_Subset
<1> QED
  BY <1>2, FS_Subset, FS_CardinalityType

LEMMA ToldCalls ==
    ASSUME NEW those \in Seq(RunningCalls)
    PROVE  LET told == AdminOperationsLive(those)
           IN  /\ told.activeCalls \in Seq(RunningCalls)
               /\ DOMAIN told.activeCalls = 1..Len(those) /\ Len(those) \in Nat
               /\ told.activeRequests = Len(those)
               /\ \A i \in 1..Len(those) :
                      told.activeCalls[i].activeForKey =
                          Cardinality({j \in 1..Len(those) :
                                           told.activeCalls[j].key = told.activeCalls[i].key})
               /\ told.queuedRequests > 0
                      => \E i \in 1..Len(those) : told.activeCalls[i].status # "processing"
               /\ told.slowRequests > 0
                      => \E i \in 1..Len(those) : told.activeCalls[i].elapsedSeconds >= 120
<1> DEFINE Same(i) == {j \in 1..Len(those) : those[j].key = those[i].key}
           filled(i) == [those[i] EXCEPT !.activeForKey = Cardinality(Same(i))]
           told == AdminOperationsLive(those)
           waiting == {i \in 1..Len(those) : those[i].status # "processing"}
           slow == {i \in 1..Len(those) : those[i].elapsedSeconds >= 120}
<1>1. Len(those) \in Nat /\ DOMAIN those = 1..Len(those)
  OBVIOUS
<1>2. /\ told.activeCalls = [i \in 1..Len(those) |-> filled(i)]
      /\ told.activeRequests = Len(those) /\ told.queuedRequests = Cardinality(waiting)
      /\ told.slowRequests = Cardinality(slow)
  BY <1>1 DEF AdminOperationsLive
<1>3. ASSUME NEW i \in 1..Len(those)
      PROVE  /\ filled(i) \in RunningCalls /\ filled(i).key = those[i].key
             /\ filled(i).status = those[i].status
             /\ filled(i).elapsedSeconds = those[i].elapsedSeconds
             /\ filled(i).activeForKey = Cardinality(Same(i))
  <2>1. those[i] \in RunningCalls
    OBVIOUS
  <2>2. Cardinality(Same(i)) \in Nat
    BY <1>1, FiniteWithin
  <2> HIDE DEF Same
  <2> QED
    BY <2>1, <2>2 DEF RunningCalls
<1>4. Cardinality({}) = 0
  BY FS_EmptySet
<1> HIDE DEF filled, told, waiting, slow
<1>5. /\ told.activeCalls \in [1..Len(those) -> RunningCalls]
      /\ \A i \in 1..Len(those) : told.activeCalls[i] = filled(i)
  BY <1>2, <1>3
<1>6. told.activeCalls \in Seq(RunningCalls) /\ DOMAIN told.activeCalls = 1..Len(those)
  BY <1>1, <1>5
<1>7. ASSUME NEW i \in 1..Len(those)
      PROVE  told.activeCalls[i].activeForKey =
                 Cardinality({j \in 1..Len(those) :
                                  told.activeCalls[j].key = told.activeCalls[i].key})
  <2>1. Same(i) = {j \in 1..Len(those) : told.activeCalls[j].key = told.activeCalls[i].key}
    BY <1>3, <1>5
  <2> QED
    BY <1>3, <1>5, <2>1
<1>8. told.queuedRequests > 0
          => \E i \in 1..Len(those) : told.activeCalls[i].status # "processing"
  <2>1. ASSUME waiting = {} PROVE ~ (told.queuedRequests > 0)
    <3>1. told.queuedRequests = 0
      BY <1>2, <1>4, <2>1
    <3> QED
      BY <3>1
  <2> QED
    BY <1>3, <1>5, <2>1 DEF waiting
<1>9. told.slowRequests > 0
          => \E i \in 1..Len(those) : told.activeCalls[i].elapsedSeconds >= 120
  <2>1. ASSUME slow = {} PROVE ~ (told.slowRequests > 0)
    <3>1. told.slowRequests = 0
      BY <1>2, <1>4, <2>1
    <3> QED
      BY <3>1
  <2> QED
    BY <1>3, <1>5, <2>1 DEF slow
<1> QED
  BY <1>1, <1>2, <1>6, <1>7, <1>8, <1>9 DEF told

LEMMA GroupsSound == live \in LiveSnapshots => GroupsOfCalls
<1> SUFFICES ASSUME live \in LiveSnapshots PROVE GroupsOfCalls
  OBVIOUS
<1> DEFINE calls == live.activeCalls
           groups == activeCallUserGroups(calls)
           Of(g) == {i \in DOMAIN calls : groupKey(calls[i]) = g}
<1>0. PICK those \in Seq(RunningCalls) : live = AdminOperationsLive(those)
  BY SnapshotTold
<1>1. /\ calls \in Seq(RunningCalls) /\ DOMAIN calls = 1..Len(calls)
      /\ Len(calls) \in Nat /\ live.activeRequests = Len(calls)
      /\ \A i \in 1..Len(calls) :
             calls[i].activeForKey = Cardinality({j \in 1..Len(calls) : calls[j].key = calls[i].key})
      /\ live.queuedRequests > 0 => \E i \in 1..Len(calls) : calls[i].status # "processing"
      /\ live.slowRequests > 0 => \E i \in 1..Len(calls) : calls[i].elapsedSeconds >= 120
  <2>1. calls \in Seq(RunningCalls) /\ DOMAIN calls = 1..Len(those) /\ Len(those) \in Nat
    BY <1>0, ToldCalls
  <2>2. Len(calls) = Len(those)
    BY <2>1
  <2> QED
    BY <1>0, <2>1, <2>2, ToldCalls
<1> HIDE DEF calls
<1>2. groups = groupsAfter(calls)[Len(calls)]
  BY DEF activeCallUserGroups
<1>3. /\ DOMAIN groups = {groupKey(calls[i]) : i \in DOMAIN calls}
      /\ \A g \in DOMAIN groups :
             /\ Sums(groups[g], calls, Of(g))
             /\ groups[g].representativeStatus = "processing" <=> SomeProcessing(calls, Of(g))
  <2>1. \A g : Places(calls, Len(calls), g) = Of(g)
    BY <1>1 DEF Places
  <2>2. Grouped(calls, Len(calls))
    BY <1>1, AllGrouped
  <2> HIDE DEF groups, Of
  <2> QED
    BY <1>1, <1>2, <2>1, <2>2 DEF Grouped
<1> HIDE DEF groups
<1>4. ASSUME NEW g \in DOMAIN groups, NEW i \in Of(g)
      PROVE  groups[g].keys[keyId(calls[i])].used >=
                 Cardinality({j \in Of(g) : keyId(calls[j]) = keyId(calls[i])})
  <2> DEFINE alike == {j \in Of(g) : keyId(calls[j]) = keyId(calls[i])}
             same == {j \in 1..Len(calls) : calls[j].key = calls[i].key}
             used == groups[g].keys[keyId(calls[i])].used
  <2>1. i \in 1..Len(calls) /\ used >= calls[i].activeForKey
    BY <1>1, <1>3 DEF Sums
  <2>2. alike \in SUBSET same
    <3>1. ASSUME NEW j \in alike PROVE j \in same
      <4>1. j \in 1..Len(calls) /\ calls[j] \in RunningCalls /\ calls[i] \in RunningCalls
        BY <1>1, <2>1
      <4> QED
        BY <3>1, <4>1, OneIdOneKey
    <3> QED
      BY <3>1
  <2>3. calls[i].activeForKey = Cardinality(same)
    BY <1>1, <2>1
  <2>4. same \in SUBSET (1..Len(calls))
    OBVIOUS
  <2>5. used \in Nat
    <3>1. groups[g] \in Groups /\ keyId(calls[i]) \in DOMAIN groups[g].keys
      BY <1>3 DEF Sums
    <3>2. groups[g].keys \in Usages
      BY <3>1 DEF Groups
    <3> QED
      BY <3>1, <3>2, UsageTyped
  <2> HIDE DEF alike, same, used
  <2>6. Cardinality(alike) <= Cardinality(same) /\ Cardinality(same) \in Nat
    BY <1>1, <2>2, <2>4, FiniteWithin
  <2>7. alike \in SUBSET (1..Len(calls))
    BY <2>2, <2>4
  <2>8. Cardinality(alike) \in Nat
    BY <1>1, <2>7, FiniteWithin
  <2>9. used >= Cardinality(same)
    BY <2>1, <2>3 DEF used
  <2> QED
    BY <2>5, <2>6, <2>8, <2>9 DEF alike, used
<1>5. ASSUME NEW g \in DOMAIN groups \union {groupKey(calls[i]) : i \in DOMAIN calls}
      PROVE  /\ g \in DOMAIN groups
             /\ groups[g].taskCount = Cardinality(Of(g))
             /\ groups[g].taskCount = groups[g].processingCount + groups[g].queuedCount
             /\ groups[g].representativeStatus = "processing"
                    <=> \E i \in Of(g) : calls[i].status = "processing"
             /\ \A i \in Of(g) : groups[g].firstCreatedAt <= calls[i].createdAt
  <2>1. g \in DOMAIN groups
    BY <1>3
  <2> HIDE DEF Of
  <2> QED
    BY <1>3, <2>1 DEF Sums, SomeProcessing
<1>6. runState = "idle" => groups = << >>
  <2>1. runState = "idle" => Len(calls) = 0
    BY <1>1 DEF runState
  <2>2. Len(calls) = 0 => groups = << >>
    BY <1>1, <1>2, LoopStep
  <2> QED
    BY <2>1, <2>2
<1>7. ASSUME NEW i \in DOMAIN calls
      PROVE  /\ groupKey(calls[i]) \in DOMAIN groups
             /\ calls[i].elapsedSeconds >= 120 => groups[groupKey(calls[i])].slowCount > 0
             /\ calls[i].status # "processing" => groups[groupKey(calls[i])].queuedCount > 0
  <2>1. groupKey(calls[i]) \in DOMAIN groups /\ i \in Of(groupKey(calls[i]))
    BY <1>3
  <2> HIDE DEF Of
  <2> QED
    BY <1>3, <2>1 DEF Sums
<1>8. runState = "slow" => \E g \in DOMAIN groups : groups[g].slowCount > 0
  <2>1. runState = "slow" => \E i \in DOMAIN calls : calls[i].elapsedSeconds >= 120
    BY <1>1 DEF runState
  <2> QED
    BY <1>7, <2>1
<1>9. runState = "queued" => \E g \in DOMAIN groups : groups[g].queuedCount > 0
  <2>1. runState = "queued" => \E i \in DOMAIN calls : calls[i].status # "processing"
    BY <1>1 DEF runState
  <2> QED
    BY <1>7, <2>1
<1> QED
  BY <1>4, <1>5, <1>6, <1>8, <1>9 DEF GroupsOfCalls, groups, calls

-----------------------------------------------------------------------------
(* The page of live operations: the request that counts is of the range that *)
(* is chosen.                                                                *)

RankingInv ==
    /\ OpsTypeOK /\ RankingOfRange /\ lastRank \in Nat
    /\ rankCalls \subseteq [n: Nat, range: Ranges]
    /\ \A c \in rankCalls : c.n <= lastRank /\ (c.n = lastRank => c.range = range)
    /\ rankingLoading \in BOOLEAN /\ rankFailed \in BOOLEAN

LEMMA RankingStarts == OpsInit => RankingInv
<1> SUFFICES ASSUME OpsInit PROVE RankingInv
  OBVIOUS
<1>1. FirstRange \in Ranges
  BY ConsoleOperationsAssumption
<1> DEFINE first == [n |-> 1, range |-> FirstRange]
<1>2. /\ first \in [n: Nat, range: Ranges] /\ first.n = 1 /\ first.range = FirstRange
      /\ rankCalls = {first} /\ lastRank = 1 /\ range = FirstRange
      /\ rankingLoading = TRUE /\ rankFailed = FALSE
  BY <1>1 DEF OpsInit
<1> HIDE DEF first
<1>3. OpsTypeOK
  BY <1>1 DEF OpsInit, OpsTypeOK, LiveSnapshots
<1>4. RankingOfRange
  BY <1>2 DEF RankingOfRange
<1>5. \A c \in rankCalls : c.n <= lastRank /\ (c.n = lastRank => c.range = range)
  BY <1>2
<1>6. rankCalls \subseteq [n: Nat, range: Ranges]
  BY <1>2
<1> QED
  BY <1>2, <1>3, <1>4, <1>5, <1>6 DEF RankingInv

\* A new request has a number of its own, and its range is the one chosen.
LEMMA LoadRankingKeeps ==
    ASSUME RankingInv, NEW r \in Ranges, LoadRanking(r), range' = r,
           liveCall' \in {"none", "quiet", "loud"}, stabilityCalls' \subseteq {"quiet", "loud"},
           live' \in LiveSnapshots
    PROVE  RankingInv'
<1> DEFINE new == [n |-> lastRank + 1, range |-> r]
<1>1. /\ new \in [n: Nat, range: Ranges] /\ new.n = lastRank + 1 /\ new.range = r
      /\ rankCalls' = rankCalls \union {new} /\ lastRank' = lastRank + 1
      /\ rankingLoading' = TRUE /\ UNCHANGED <<ranking, rankFailed>>
  BY DEF LoadRanking, RankingInv
<1> HIDE DEF new
<1> QED
  BY <1>1 DEF RankingInv, OpsTypeOK, RankingOfRange

LEMMA RankingQuiet ==
    ASSUME RankingInv, UNCHANGED rankPart,
           liveCall' \in {"none", "quiet", "loud"}, stabilityCalls' \subseteq {"quiet", "loud"},
           live' \in LiveSnapshots
    PROVE  RankingInv'
BY DEF RankingInv, OpsTypeOK, RankingOfRange, rankPart

LEMMA RankingKept ==
    ASSUME RankingInv, [OpsNext]_opsVars
    PROVE  RankingInv'
<1>1. liveCall \in {"none", "quiet", "loud"} /\ stabilityCalls \subseteq {"quiet", "loud"}
      /\ range \in Ranges /\ live \in LiveSnapshots
  BY DEF RankingInv, OpsTypeOK
<1>2. CASE UNCHANGED opsVars \/ LiveTick \/ StabilityTick
           \/ (\E g \in DOMAIN activeCallUserGroups(live.activeCalls) : Expand(g))
           \/ LiveAnswer \/ (\E how \in stabilityCalls : StabilityAnswer(how))
  <2>1. UNCHANGED rankPart
    BY <1>2 DEF opsVars, rankPart, LiveTick, StabilityTick, Expand, LiveAnswer, StabilityAnswer
  <2>2. liveCall' \in {"none", "quiet", "loud"} /\ stabilityCalls' \subseteq {"quiet", "loud"}
    BY <1>1, <1>2 DEF opsVars, livePart, stabilityPart, LiveTick, StabilityTick, Expand,
                      LiveAnswer, StabilityAnswer, LoadLive, LoadStability
  <2>3. live' \in LiveSnapshots
    BY <1>1, <1>2 DEF opsVars, livePart, LiveTick, StabilityTick, Expand, LiveAnswer,
                      StabilityAnswer, LoadLive, LiveSnapshots
  <2> QED
    BY <2>1, <2>2, <2>3, RankingQuiet
<1>3. CASE RankingTick \/ RefreshOps
  <2>1. LoadRanking(range) /\ range' = range
    BY <1>3 DEF RankingTick, RefreshOps
  <2>2. liveCall' \in {"none", "quiet", "loud"} /\ stabilityCalls' \subseteq {"quiet", "loud"}
    BY <1>1, <1>3 DEF RankingTick, RefreshOps, livePart, stabilityPart, LoadLive, LoadStability
  <2>3. live' \in LiveSnapshots
    BY <1>1, <1>3 DEF RankingTick, RefreshOps, livePart, LoadLive
  <2> QED
    BY <1>1, <2>1, <2>2, <2>3, LoadRankingKeeps
<1>4. ASSUME NEW r \in Ranges, ChooseRange(r)
      PROVE  RankingInv'
  BY <1>1, <1>4, LoadRankingKeeps DEF ChooseRange, livePart, stabilityPart
<1>5. ASSUME NEW c \in rankCalls, RankingAnswer(c)
      PROVE  RankingInv'
  <2>1. /\ rankCalls' \subseteq rankCalls
        /\ UNCHANGED <<live, liveCall, range, lastRank, stabilityCalls>>
    BY <1>5 DEF RankingAnswer, livePart, stabilityPart
  <2>2. CASE c.n # lastRank
    <3>1. UNCHANGED <<ranking, rankingLoading, rankFailed>>
      BY <1>5, <2>2 DEF RankingAnswer
    <3> QED
      BY <2>1, <3>1 DEF RankingInv, OpsTypeOK, RankingOfRange
  <2>3. CASE c.n = lastRank
    <3>1. c.range = range
      BY <2>3 DEF RankingInv
    <3>2. /\ rankingLoading' = FALSE
          /\ \/ ranking' = range /\ rankFailed' = FALSE
             \/ ranking' = ranking /\ rankFailed' = TRUE
      BY <1>5, <2>3, <3>1 DEF RankingAnswer
    <3> QED
      BY <2>1, <3>2 DEF RankingInv, OpsTypeOK, RankingOfRange
  <2> QED
    BY <2>2, <2>3
<1> QED
  BY <1>2, <1>3, <1>4, <1>5 DEF OpsNext, OpsAnswer

-----------------------------------------------------------------------------
(* The console as a whole: in each scene one part takes its steps.          *)

LEMMA PageSteps ==
    ASSUME [SiteNext]_siteVars
    PROVE  /\ [ConsoleSessionNext]_sessionVars /\ [UsersNext]_usersVars
           /\ [SettingsNext]_settingsVars /\ [UpdateNext]_updateVars
           /\ [AccessNext]_accessVars /\ [OpsNext]_opsVars /\ [RechargeNext]_rechargeVars
BY DEF SiteNext, siteVars

ConsoleInv ==
    /\ SignInInv /\ UsersInv /\ SettingsInv /\ UpdateInv /\ AccessInv /\ RankingInv
    /\ RechargeInv

LEMMA ConsoleInvariant == SiteSpec => []ConsoleInv
<1>1. SiteInit => ConsoleInv
  BY SignInInit, UsersStarts, SettingsStarts, UpdateStarts, AccessStarts, RankingStarts,
     RechargeStarts
     DEF SiteInit, ConsoleInv
<1>2. ConsoleInv /\ [SiteNext]_siteVars => ConsoleInv'
  BY PageSteps, SignInNext, UsersKept, SettingsKept, UpdateKept, AccessKept, RankingKept,
     RechargeKept
     DEF ConsoleInv
<1> QED
  BY <1>1, <1>2, PTL DEF SiteSpec

\* Every variable of the console and of the recharge orders keeps its type, whatever
\* is clicked and in whatever order answers come.
THEOREM ConsoleTyped == SiteSpec => []ConsoleTypeOK
<1>1. ConsoleInv => ConsoleTypeOK
  BY SignInTyped, UsersTyped, AccessTyped
     DEF ConsoleInv, SettingsInv, UpdateInv, RankingInv, RechargeInv, ConsoleTypeOK
<1> QED
  BY <1>1, ConsoleInvariant, PTL

\* In any number of tabs a tab shows only whose token Go has accepted in an answer to
\* that tab since its page was mounted, and a console without an identity has a request
\* under way that will bring one or lead to the login page.
\* Code: AdminShell, the login page, the session route.
THEOREM SignInSound == SiteSpec => []ConsoleSessionSound
<1>1. ConsoleInv => ConsoleSessionSound
  BY DEF ConsoleInv, SignInInv, TabsInv
<1> QED
  BY <1>1, ConsoleInvariant, PTL

\* The deletion of several users at once is the only call of the console's client that
\* its own proxy refuses.  Code: ADMIN_ROUTES, portalApi.
THEOREM OneCallRefused == SiteSpec => []OnlyBulkDeleteUnrouted
<1>1. ConsoleInv => OnlyBulkDeleteUnrouted
  BY DEF ConsoleInv, SignInInv, CookiesInv
<1> QED
  BY <1>1, ConsoleInvariant, PTL

\* One flag disables five forms: no two of them are saved at the same time, the flag is
\* up exactly while one is, and no row stays disabled after its action ended.
\* Code: saving, actionId and cancelingTaskId of the users and the API access page.
THEOREM FormsAreFreed == SiteSpec => []FormsFreed
<1>1. ConsoleInv => FormsFreed
  BY DEF ConsoleInv, UsersInv, FormsInv, AccessInv, FlagsInv, FormsFreed
<1> QED
  BY <1>1, ConsoleInvariant, PTL

\* In whatever order the answers of superseded requests come, what is shown belongs to
\* the last request, to the chosen range, or to the account the dialog is about.
\* Code: loadKeys, loadLogs, loadRanking, the effect of the credit logs.
THEOREM AnswersAreOfTheLast == SiteSpec => []AnswersBelong
<1>1. ConsoleInv => AnswersBelong
  BY DEF ConsoleInv, UsersInv, LogsInv, AccessInv, ListsInv, RankingInv, AnswersBelong
<1> QED
  BY <1>1, ConsoleInvariant, PTL

\* However many calls run and in whatever order they come, each is shown in the group of
\* its customer, and what a group counts, says and bounds is what its calls are; the head
\* of the page agrees with the groups.  Code: activeCallUserGroups, runState.
THEOREM CallsAreGrouped == SiteSpec => []GroupsOfCalls
<1>1. RankingInv => live \in LiveSnapshots
  BY DEF RankingInv, OpsTypeOK
<1>2. ConsoleInv => GroupsOfCalls
  BY <1>1, GroupsSound DEF ConsoleInv
<1> QED
  BY <1>2, ConsoleInvariant, PTL

\* Every balance is what its owner's paid orders and recorded rebates add up to.
THEOREM ConsoleCreditsExact == SiteSpec => []CreditsExact
<1>1. ConsoleInv => CreditsExact
  BY DEF ConsoleInv, RechargeInv
<1> QED
  BY <1>1, ConsoleInvariant, PTL

\* No step enables Bark without a device key, loses a stored key to a form that left it
\* empty, or changes by a form what the form does not show.  Code: save, normalizeSettings.
THEOREM SecretsAreKept == SiteSpec => SecretsKept
<1>1. ConsoleInv /\ [SiteNext]_siteVars => [SecretsStep]_settingsVars
  BY PageSteps, SettingsKept DEF ConsoleInv
<1> QED
  BY <1>1, ConsoleInvariant, PTL DEF SiteSpec, SecretsKept, SecretsStep
=============================================================================
