----------------------------- MODULE ConsoleSession -----------------------------
(***************************************************************************)
(* The administration console's sign-in: cookies that every tab shares, a  *)
(* proxy in front of the Go server that reads them when a request arrives  *)
(* and may clear them with its answer, and in each tab either the login    *)
(* page or the console, both of which ask for the session when they are    *)
(* shown. Go serves a request for the session, and later its answer        *)
(* arrives: the answers of one tab may overtake those of another, and much *)
(* may happen between the two.                                             *)
(***************************************************************************)
EXTENDS Naturals, ConsoleRoutes

CONSTANTS Admins, NoAdmin, Frames,
          MaxSteps,      \* what the administrators do
          MaxOutages     \* how often the Go server goes away, and tokens end

ASSUME ConsoleSessionAssumption == MaxSteps \in Nat /\ MaxOutages \in Nat

VARIABLES jar,           \* the cookies: whose token, id and email they hold
          accepted,          \* Go: whose token is still accepted
          go,            \* Go: "up", "failing" (5xx), or "down", where nothing answers
          sameOrigin,    \* the console is opened under its configured origin
          place,         \* the page of each tab: "closed", "login", "console"
          identity, ready,   \* what AdminShell keeps
          checks,        \* requests for the session, with the token they carry and
                         \* the answer that is on its way
          vouched,       \* history: whose token Go accepted for a tab since its page
                         \* was mounted
          logins,        \* requests to sign in; their tabs show `loading`
          logouts,       \* tabs whose request to sign out is in flight
          unrouted,      \* the last call of a page, if the proxy answered it 404
          steps, outages

tabs == <<place, identity, ready>>
requests == <<checks, logins, logouts>>
sessionVars == <<jar, accepted, go, sameOrigin, tabs, requests, vouched, unrouted, steps, outages>>

NoRoute == <<"", "">>
Step == steps < MaxSteps /\ steps' = steps + 1

ConsoleSessionInit ==
    /\ jar \in Admins \union {NoAdmin} /\ accepted \in {{}, {jar} \ {NoAdmin}} /\ go = "up"
    /\ sameOrigin \in BOOLEAN
    /\ place = [f \in Frames |-> "closed"]
    /\ identity = [f \in Frames |-> NoAdmin] /\ ready = [f \in Frames |-> FALSE]
    /\ checks = {} /\ logins = {} /\ logouts = {} /\ vouched = [f \in Frames |-> {}]
    /\ unrouted = NoRoute /\ steps = 0 /\ outages = 0

\* The effect of AdminShell, and the one of the login page, which has no cleanup: a
\* request with the cookies of now. AdminShell's effect before it no longer listens.
NewCheck(f, from, token) ==
    [tab |-> f, from |-> from, token |-> token, active |-> TRUE, answer |-> "none"]
Unheard(f, c) == IF c.tab = f /\ c.from = "console" THEN [c EXCEPT !.active = FALSE] ELSE c
AskSession(f, from, token, others) ==
    checks' = {Unheard(f, c) : c \in others} \union {NewCheck(f, from, token)}

\* A page is mounted, the console without an identity yet, and asks for the session.
Mount(f, page, token, others) ==
    /\ place' = [place EXCEPT ![f] = page]
    /\ identity' = [identity EXCEPT ![f] = NoAdmin]
    /\ ready' = [ready EXCEPT ![f] = FALSE]
    /\ vouched' = [vouched EXCEPT ![f] = {}]
    /\ AskSession(f, page, token, others)

\* The address of the console: only the presence of the cookie is looked at.
HomePage == IF jar = NoAdmin THEN "login" ELSE "console"
Open(f) ==
    /\ Step
    /\ place[f] = "closed"
    /\ Mount(f, HomePage, jar, checks)
    /\ UNCHANGED <<jar, accepted, go, sameOrigin, logins, logouts, unrouted, outages>>
\* A link of the navigation: AdminShell stays, its effect asks again.
Navigate(f) ==
    /\ Step
    /\ place[f] = "console" /\ ready[f] /\ identity[f] # NoAdmin
    /\ AskSession(f, "console", jar, checks)
    /\ UNCHANGED <<jar, accepted, go, sameOrigin, tabs, vouched, logins, logouts, unrouted, outages>>

\* GET /api/auth/session is served. Whatever is no acceptance, an error of Go
\* included, is an answer that clears the cookies; only without an answer of Go ("lost")
\* they are left.
SessionReply(token) ==
    IF token = NoAdmin THEN "cleared"
    ELSE IF go = "down" THEN "lost"
    ELSE IF go = "up" /\ token \in accepted THEN "ok" ELSE "cleared"
ServeSession(c) ==
    /\ c \in checks /\ c.answer = "none"
    /\ checks' = (checks \ {c}) \union {[c EXCEPT !.answer = SessionReply(c.token)]}
    /\ vouched' = IF SessionReply(c.token) = "ok"
                  THEN [vouched EXCEPT ![c.tab] = @ \union {c.token}] ELSE vouched
    /\ UNCHANGED <<jar, accepted, go, sameOrigin, tabs, logins, logouts, unrouted, steps, outages>>

\* The answer arrives and clears the cookies, whatever they hold by then. The client
\* takes every status but a success for an error.
SucceededUnlessLost(c) == c.answer # "lost"  \* mutant: the status is not looked at
SessionOk(c) == c.answer = "ok"
Listens(c) == c.from = "login" \/ (c.active /\ place[c.tab] = "console")
SessionAnswer(c) ==
    /\ c \in checks /\ c.answer # "none"
    /\ jar' = IF c.answer = "cleared" THEN NoAdmin ELSE jar
    /\ LET page == IF SessionOk(c) THEN "console" ELSE "login"
           moves == Listens(c) /\ c.from # page /\ place[c.tab] # page
           shows == Listens(c) /\ c.from = "console" /\ page = "console"
       IN  IF moves THEN Mount(c.tab, page, jar', checks \ {c})
           ELSE /\ checks' = checks \ {c}
                /\ ready' = IF shows THEN [ready EXCEPT ![c.tab] = TRUE] ELSE ready
                /\ identity' = IF shows THEN [identity EXCEPT ![c.tab] = c.token] ELSE identity
                /\ UNCHANGED <<place, vouched>>
    /\ UNCHANGED <<accepted, go, sameOrigin, logins, logouts, unrouted, steps, outages>>

\* The login form: its button is disabled while the request runs.
Submit(f, a) ==
    /\ Step
    /\ place[f] = "login" /\ ~\E l \in logins : l.tab = f
    /\ logins' = logins \union {[tab |-> f, admin |-> a]}
    /\ UNCHANGED <<jar, accepted, go, sameOrigin, tabs, checks, vouched, logouts, unrouted, outages>>
\* POST /api/auth/login: refused (also for a foreign origin), failed, or a token that
\* becomes the cookies; the page then goes to the console.
LoginAnswer(l) ==
    /\ l \in logins /\ logins' = logins \ {l}
    /\ \/ UNCHANGED <<jar, accepted, tabs, checks, vouched>>
       \/ /\ sameOrigin /\ go = "up"
          /\ jar' = l.admin /\ accepted' = accepted \union {l.admin}
          /\ IF place[l.tab] = "console" THEN UNCHANGED <<tabs, checks, vouched>>
             ELSE Mount(l.tab, "console", l.admin, checks)
    /\ UNCHANGED <<go, sameOrigin, logouts, unrouted, steps, outages>>

\* AdminShell's logout: the cookies are cleared, or the request fails (always from a
\* foreign origin), which is ignored; the token itself stays valid. The tab goes to the
\* login page.
Logout(f) ==
    /\ Step
    /\ place[f] = "console" /\ ready[f] /\ identity[f] # NoAdmin /\ f \notin logouts
    /\ logouts' = logouts \union {f}
    /\ UNCHANGED <<jar, accepted, go, sameOrigin, tabs, checks, vouched, logins, unrouted, outages>>
LogoutAnswer(f) ==
    /\ f \in logouts /\ logouts' = logouts \ {f}
    /\ jar' \in IF sameOrigin THEN {NoAdmin, jar} ELSE {jar}
    /\ IF place[f] # "console" THEN UNCHANGED <<tabs, checks, vouched>>
       ELSE Mount(f, "login", jar', checks)
    /\ UNCHANGED <<accepted, go, sameOrigin, logins, unrouted, steps, outages>>

\* A page asks the backend proxy: one of the listed routes only, changes from the
\* console's own origin only, then with a token; what Go answers is handed on.
\* Nothing happens in the page's shell, whatever the answer is.
ProxyAnswer(call) ==
    IF ~Allowed(call) THEN "404"
    ELSE IF call[2] # "GET" /\ ~sameOrigin THEN "403"
    ELSE IF jar = NoAdmin THEN "401"
    ELSE IF go # "up" THEN IF go = "down" THEN "502" ELSE "5xx"
    ELSE IF jar \in accepted THEN "served" ELSE "401"
Call(f, call) ==
    /\ place[f] = "console" /\ ready[f] /\ identity[f] # NoAdmin
    /\ unrouted' = IF ProxyAnswer(call) = "404" THEN call ELSE NoRoute
    /\ UNCHANGED <<jar, accepted, go, sameOrigin, tabs, requests, vouched, steps, outages>>

\* The Go server stops, fails or is back; a token ends.
Outage ==
    /\ outages < MaxOutages /\ outages' = outages + 1
    /\ \/ go' \in {"down", "failing"} /\ UNCHANGED accepted
       \/ \E a \in accepted : accepted' = accepted \ {a} /\ UNCHANGED go
    /\ UNCHANGED <<jar, sameOrigin, tabs, requests, vouched, unrouted, steps>>
Recover ==
    /\ go # "up" /\ go' = "up"
    /\ UNCHANGED <<jar, accepted, sameOrigin, tabs, requests, vouched, unrouted, steps, outages>>

SessionStep ==
    \/ \E c \in checks : ServeSession(c) \/ SessionAnswer(c)
    \/ \E l \in logins : LoginAnswer(l)
    \/ \E f \in Frames : LogoutAnswer(f)
    \/ Recover
ConsoleSessionNext ==
    \/ \E f \in Frames : Open(f) \/ Navigate(f) \/ Logout(f)
    \/ \E f \in Frames, a \in Admins : Submit(f, a)
    \/ \E f \in Frames, call \in ConsoleCalls : Call(f, call)
    \/ Outage
    \/ SessionStep

-----------------------------------------------------------------------------
ConsoleSessionTypeOK ==
    /\ jar \in Admins \union {NoAdmin} /\ accepted \subseteq Admins
    /\ go \in {"up", "failing", "down"} /\ sameOrigin \in BOOLEAN
    /\ place \in [Frames -> {"closed", "login", "console"}]
    /\ identity \in [Frames -> Admins \union {NoAdmin}] /\ ready \in [Frames -> BOOLEAN]
    /\ \A c \in checks : c.tab \in Frames /\ c.from \in {"login", "console"}
    /\ steps \in 0..MaxSteps /\ outages \in 0..MaxOutages

\* A tab shows an administrator as signed in only if Go has accepted that very
\* administrator's token, in an answer to this tab, since its page was mounted, whatever
\* the other tabs and late answers have done to the cookies; and a console without an
\* identity still waits for the answer that brings one or leads to the login page.
ConsoleSessionSound ==
    \A f \in Frames :
        /\ identity[f] # NoAdmin => /\ place[f] = "console" /\ ready[f]
                                   /\ identity[f] \in vouched[f]
        /\ place[f] = "console" /\ identity[f] = NoAdmin =>
               \E c \in checks : c.tab = f /\ c.from = "console" /\ c.active

\* Of the calls of the console's own client its proxy refuses one, whatever the
\* administrator may do: the deletion of several users at once.
OnlyBulkDeleteUnrouted ==
    unrouted \in {NoRoute, <<"/admin/users", "DELETE">>}
=============================================================================
