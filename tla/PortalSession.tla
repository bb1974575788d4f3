---------------------------- MODULE PortalSession ----------------------------
(***************************************************************************)
(* The session of the customer site (src/apps/web): one record in the      *)
(* browser's localStorage, shared by all its tabs; in each tab the frame   *)
(* AppShell around the pages, which shows an account and refreshes it; and *)
(* the log-in form and the e-mail link, which write the record.            *)
(*                                                                         *)
(* A request is three steps: it leaves the tab, the server serves it, its  *)
(* answer arrives. The account it is for is captured when it leaves; its   *)
(* answer may arrive after the user navigated, logged out or changed       *)
(* accounts, in this tab or in another one.                                *)
(***************************************************************************)
EXTENDS Naturals

CONSTANTS Users, Tabs, NoUser,
          MaxBalance,   \* the server changes a balance at most this often
          MaxCalls,     \* requests in flight at a time
          MaxMoves,     \* actions of the people at the tabs
          MaxEvents     \* payments, disabled accounts and failed requests

ASSUME PortalAssumption ==
    /\ NoUser \notin Users
    /\ MaxBalance \in Nat /\ MaxCalls \in Nat /\ MaxMoves \in Nat /\ MaxEvents \in Nat

VARIABLES balance,   \* server: the credits of each account
          enabled,   \* server: whether it still accepts the account's token
          stored,    \* the record of localStorage
          route,     \* each tab: the page it shows
          user,      \* each tab: the account its frame shows
          ready,     \* each tab: whether the first check of this mount ended
          news,      \* each tab: whose announcements its frame shows
          calls,     \* the requests in flight
          moves, events

vars == <<balance, enabled, stored, route, user, ready, news, calls, moves, events>>
server == <<balance, enabled>>
people == <<balance, enabled, events>>

(* A session holds the account's id, the token it logged in with (here: the *)
(* account that token belongs to) and the last credits it was told.         *)
Session == [id: Users, token: Users, credits: 0..MaxBalance]
NoSession == [id |-> NoUser, token |-> NoUser, credits |-> 0]
Shell == {"dashboard", "billing"}
Slots == 1..MaxCalls

\* What an answer says: the account's credits, a refusal (401, 403), any other failure;
\* or that a reward was claimed before, which saves nothing.
Answer == [status: {"none", "ok", "claimed", "denied", "error"}, credits: 0..MaxBalance]
Waiting == [status |-> "none", credits |-> 0]
Kinds == {"login", "check", "poll", "page", "news", "claim", "change"}
Call == [kind: Kinds, tab: Tabs, as: Session, active: BOOLEAN, answer: Answer]
NoCall == [kind |-> "none"]

InFlight == {s \in Slots : calls[s] # NoCall}
InShell(t) == route[t] \in Shell
\* The frame with its navigation, its buttons and the page in it; a spinner before.
FrameShown(t) == InShell(t) /\ ready[t] /\ user[t] # NoSession

-----------------------------------------------------------------------------
(* Steps that several handlers share.                                       *)

\* `cs` with one more request in a free slot, captured for the account `who`.
Sent(cs, kind, t, who) ==
    LET s == CHOOSE x \in Slots : cs[x] = NoCall
    IN  [cs EXCEPT ![s] = [kind |-> kind, tab |-> t, as |-> who,
                           active |-> TRUE, answer |-> Waiting]]
Room(cs) == \E s \in Slots : cs[s] = NoCall

\* The cleanup of effects: the answers of these kinds will find active = false.
Detached(cs, kinds, t) ==
    [s \in Slots |-> IF cs[s] # NoCall /\ cs[s].kind \in kinds /\ cs[s].tab = t
                     THEN [cs[s] EXCEPT !.active = FALSE] ELSE cs[s]]

Dropped(t) ==
    [s \in Slots |-> IF calls[s] # NoCall /\ calls[s].tab = t THEN NoCall ELSE calls[s]]

\* The frame of t now shows `who` and is ready or not: when one of the two
\* changed, the announcements' effect runs again, for the account shown.
Rendered(cs, t, who, isReady) ==
    /\ user' = [user EXCEPT ![t] = who]
    /\ ready' = [ready EXCEPT ![t] = isReady]
    /\ IF <<who.id, isReady>> = <<user[t].id, ready[t]>>
       THEN calls' = cs
       ELSE LET old == Detached(cs, {"news"}, t)
            IN  IF isReady /\ who # NoSession /\ stored'.id = who.id
                THEN Room(old) /\ calls' = Sent(old, "news", t, who)
                ELSE calls' = old

\* saveSession: localStorage, then the event that the frame of this tab hears;
\* a frame that is being mounted reads localStorage instead.
Stored(cs, t, who, isReady) ==
    /\ stored' = who
    /\ IF route'[t] \in Shell THEN Rendered(cs, t, who, isReady)
       ELSE calls' = cs /\ UNCHANGED <<user, ready>>
Saved(cs, t, who) == Stored(cs, t, who, ready[t])

\* The frame of t is unmounted: its state is gone, its requests are detached.
Left(cs, t, page) ==
    /\ route' = [route EXCEPT ![t] = page]
    /\ user' = [user EXCEPT ![t] = NoSession]
    /\ ready' = [ready EXCEPT ![t] = FALSE]
    /\ news' = [news EXCEPT ![t] = NoUser]
    /\ calls' = Detached(cs, Kinds, t)

\* clearSession: localStorage, then the event: the frame of t shows nobody.
Cleared(cs, t) == Saved(cs, t, NoSession)

Moved == moves < MaxMoves /\ moves' = moves + 1

-----------------------------------------------------------------------------
Init ==
    /\ balance = [u \in Users |-> 0]
    /\ enabled = [u \in Users |-> TRUE]
    /\ stored = NoSession
    /\ route = [t \in Tabs |-> "login"]
    /\ user = [t \in Tabs |-> NoSession]
    /\ ready = [t \in Tabs |-> FALSE]
    /\ news = [t \in Tabs |-> NoUser]
    /\ calls = [s \in Slots |-> NoCall]
    /\ moves = 0 /\ events = 0

\* The log-in form: one request at a time, the button is disabled meanwhile.
SubmitLogin(t, u) ==
    /\ Moved
    /\ route[t] = "login"
    /\ ~\E s \in InFlight : calls[s].kind = "login" /\ calls[s].tab = t /\ calls[s].active
    /\ Room(calls)
    /\ calls' = Sent(calls, "login", t, [id |-> u, token |-> u, credits |-> 0])
    /\ UNCHANGED <<people, stored, route, user, ready, news>>

\* The frame is mounted at page p, or stays and p replaces its page: the check
\* of the previous page is detached and a new one leaves, or nobody is logged in.
Visit(t, p) ==
    /\ Moved
    /\ route[t] # p
    /\ news' = news
    /\ IF stored = NoSession
       THEN /\ calls' = Detached(calls, Kinds, t)
            /\ route' = [route EXCEPT ![t] = "login"]
            /\ user' = [user EXCEPT ![t] = NoSession]
            /\ ready' = [ready EXCEPT ![t] = FALSE]
       ELSE /\ Room(calls)
            /\ calls' = Sent(Detached(calls, {"check", "login"}, t), "check", t, stored)
            /\ route' = [route EXCEPT ![t] = p]
            /\ user' = IF InShell(t) THEN user ELSE [user EXCEPT ![t] = stored]
            /\ UNCHANGED ready
    /\ UNCHANGED <<people, stored>>

\* The timer of the frame, or the tab regaining the focus: one poll at a time.
Poll(t) ==
    /\ InShell(t)
    /\ stored # NoSession
    /\ ~\E s \in InFlight : calls[s].kind = "poll" /\ calls[s].tab = t /\ calls[s].active
    /\ Room(calls)
    /\ calls' = Sent(calls, "poll", t, stored)
    /\ UNCHANGED <<people, stored, route, user, ready, news, moves>>

\* A page refreshes the session itself: billing when it loads, the playground
\* after a generation. Neither looks at whether it is still shown.
PageRefresh(t) ==
    /\ Moved
    /\ FrameShown(t) /\ stored # NoSession
    /\ Room(calls)
    /\ calls' = Sent(calls, "page", t, stored)
    /\ UNCHANGED <<people, stored, route, user, ready, news>>

\* The reward of an announcement is claimed for the account the frame shows.
Claim(t) ==
    /\ Moved
    /\ FrameShown(t) /\ news[t] # NoUser
    /\ ~\E s \in InFlight : calls[s].kind = "claim" /\ calls[s].tab = t /\ calls[s].active
    /\ Room(calls)
    /\ calls' = Sent(calls, "claim", t, user[t])
    /\ UNCHANGED <<people, stored, route, user, ready, news>>

Logout(t) ==
    /\ Moved
    /\ FrameShown(t)
    /\ stored' = NoSession
    /\ Left(calls, t, "login")
    /\ UNCHANGED people

\* The link of a change of address, mailed to u, is opened in a tab: a new
\* document, which drops what the tab was waiting for, verifies it at once.
OpenLink(t, u) ==
    /\ Moved
    /\ Room(Dropped(t))
    /\ Left(Sent(Dropped(t), "change", t, [id |-> u, token |-> u, credits |-> 0]), t, "link")
    /\ UNCHANGED <<people, stored>>

-----------------------------------------------------------------------------
(* The server.                                                              *)

\* A request is served: with the balance of now, or refused, or lost.
Serve(s) ==
    /\ s \in InFlight /\ calls[s].answer = Waiting
    /\ LET u == calls[s].as.token
           grants == calls[s].kind = "claim" /\ enabled[u] /\ balance[u] < MaxBalance
           after == IF grants THEN balance[u] + 1 ELSE balance[u]
       IN  \/ /\ balance' = [balance EXCEPT ![u] = after]
              /\ calls' = [calls EXCEPT ![s].answer =
                    [status |-> IF ~enabled[u] THEN "denied"
                                ELSE IF calls[s].kind = "claim" /\ ~grants THEN "claimed" ELSE "ok",
                     credits |-> IF enabled[u] THEN after ELSE 0]]
              /\ UNCHANGED events
           \/ /\ events < MaxEvents /\ events' = events + 1
              /\ calls' = [calls EXCEPT ![s].answer = [status |-> "error", credits |-> 0]]
              /\ UNCHANGED balance
    /\ UNCHANGED <<enabled, stored, route, user, ready, news, moves>>

\* An image is charged, an order is paid: the balance changes under the pages.
Earn(u) ==
    /\ events < MaxEvents /\ events' = events + 1
    /\ balance[u] < MaxBalance
    /\ balance' = [balance EXCEPT ![u] = @ + 1]
    /\ UNCHANGED <<enabled, stored, route, user, ready, news, calls, moves>>

\* The administrator disables the account, or its token expires.
Disable(u) ==
    /\ events < MaxEvents /\ events' = events + 1
    /\ enabled[u]
    /\ enabled' = [enabled EXCEPT ![u] = FALSE]
    /\ UNCHANGED <<balance, stored, route, user, ready, news, calls, moves>>

-----------------------------------------------------------------------------
(* The answers arrive.                                                      *)

Arrived(s, kind) == s \in InFlight /\ calls[s].kind = kind /\ calls[s].answer # Waiting
Without(s) == [calls EXCEPT ![s] = NoCall]
Ok(s) == calls[s].answer.status = "ok"
\* refreshSession: the captured session with the credits of the answer.
RefreshedStale(s) == calls[s].as
Refreshed(s) == [calls[s].as EXCEPT !.credits = calls[s].answer.credits]

\* The log-in form saves the session and goes to the dashboard, even when the
\* user left the form meanwhile: the frame is mounted there, or shows it now.
LoginAnswer(s) ==
    /\ Arrived(s, "login")
    /\ LET t == calls[s].tab
           cs == IF route[t] = "dashboard" THEN Without(s)
                 ELSE Sent(Detached(Without(s), {"check", "login"}, t), "check", t, Refreshed(s))
       IN  IF Ok(s)
           THEN /\ route' = [route EXCEPT ![t] = "dashboard"]
                /\ Saved(cs, t, Refreshed(s))
           ELSE calls' = Without(s) /\ UNCHANGED <<stored, route, user, ready>>
    /\ UNCHANGED <<people, news, moves>>

\* The check of a page. A success is saved even when the page is gone; any
\* failure clears the session, even when the page is gone.
CheckAnswer(s) ==
    /\ Arrived(s, "check")
    /\ LET t == calls[s].tab
       IN  \/ /\ Ok(s)
              /\ UNCHANGED <<route, news>>
              /\ Stored(Without(s), t, Refreshed(s), ready[t] \/ calls[s].active)
           \/ /\ ~Ok(s) /\ calls[s].active
              /\ stored' = NoSession
              /\ Left(Without(s), t, "login")
           \/ /\ ~Ok(s) /\ ~calls[s].active
              /\ UNCHANGED <<route, news>>
              /\ Cleared(Without(s), t)
    /\ UNCHANGED <<people, moves>>

\* The poll: only a refusal ends the session, and only while the frame lives.
RefusedByError(s) == calls[s].answer.status = "error" /\ calls[s].active
Refused(s) == calls[s].answer.status = "denied" /\ calls[s].active
PollAnswer(s) ==
    /\ Arrived(s, "poll")
    /\ LET t == calls[s].tab
       IN  \/ /\ Ok(s)
              /\ UNCHANGED <<route, news>>
              /\ Saved(Without(s), t, Refreshed(s))
           \/ /\ Refused(s)
              /\ stored' = NoSession
              /\ Left(Without(s), t, "login")
           \/ /\ ~Ok(s) /\ ~Refused(s)
              /\ calls' = Without(s)
              /\ UNCHANGED <<stored, route, user, ready, news>>
    /\ UNCHANGED <<people, moves>>

\* A page's own refresh, and a claimed reward: saved when it succeeded.
SavingAnswer(s, kind) ==
    /\ Arrived(s, kind)
    /\ UNCHANGED <<people, route, news, moves>>
    /\ IF Ok(s) THEN Saved(Without(s), calls[s].tab, Refreshed(s))
                ELSE calls' = Without(s) /\ UNCHANGED <<stored, user, ready>>

\* Announcements are shown only if their effect is still the current one.
ShowableLate(s) == Ok(s)
Showable(s) == Ok(s) /\ calls[s].active
NewsAnswer(s) ==
    /\ Arrived(s, "news")
    /\ news' = IF Showable(s)
               THEN [news EXCEPT ![calls[s].tab] = calls[s].as.id] ELSE news
    /\ calls' = Without(s)
    /\ UNCHANGED <<people, stored, route, user, ready, moves>>

\* The stored session with the account's fields, its token kept.
Confirmed(s) ==
    [stored EXCEPT !.id = calls[s].as.id, !.credits = calls[s].answer.credits]

\* The new address is confirmed: the session is updated if it is that account's.
AnyAccount(s) == stored # NoSession
SameAccount(s) == stored.id = calls[s].as.id
ChangeAnswer(s) ==
    /\ Arrived(s, "change")
    /\ UNCHANGED <<people, route, news, moves>>
    /\ IF Ok(s) /\ SameAccount(s)
       THEN Saved(Without(s), calls[s].tab, Confirmed(s))
       ELSE calls' = Without(s) /\ UNCHANGED <<stored, user, ready>>

Deliver(s) ==
    \/ LoginAnswer(s)
    \/ CheckAnswer(s)
    \/ PollAnswer(s)
    \/ SavingAnswer(s, "page")
    \/ SavingAnswer(s, "claim")
    \/ NewsAnswer(s)
    \/ ChangeAnswer(s)

Next ==
    \/ \E t \in Tabs : \/ \E u \in Users : SubmitLogin(t, u) \/ OpenLink(t, u)
                       \/ \E p \in Shell : Visit(t, p)
                       \/ Poll(t) \/ PageRefresh(t) \/ Claim(t) \/ Logout(t)
    \/ \E u \in Users : Earn(u) \/ Disable(u)
    \/ \E s \in Slots : Serve(s) \/ Deliver(s)

\* Requests are answered, and the timer of a visible frame keeps firing.
Fairness ==
    /\ \A s \in Slots : WF_vars(Serve(s) \/ Deliver(s))
    /\ \A t \in Tabs : WF_vars(Poll(t))

Spec == Init /\ [][Next]_vars /\ Fairness

-----------------------------------------------------------------------------
TypeOK ==
    /\ balance \in [Users -> 0..MaxBalance]
    /\ enabled \in [Users -> BOOLEAN]
    /\ stored \in Session \union {NoSession}
    /\ route \in [Tabs -> Shell \union {"login", "link"}]
    /\ user \in [Tabs -> Session \union {NoSession}]
    /\ ready \in [Tabs -> BOOLEAN]
    /\ news \in [Tabs -> Users \union {NoUser}]
    /\ calls \in [Slots -> Call \union {NoCall}]
    /\ moves \in 0..MaxMoves /\ events \in 0..MaxEvents

\* One account in one record: whatever order the answers of several tabs, pages
\* and accounts arrive in, a session, stored, shown or captured, never joins the
\* id of one account with the token of another (saveSession merges records).
SessionSound ==
    /\ stored.token = stored.id
    /\ \A t \in Tabs : user[t].token = user[t].id
    /\ \A s \in InFlight : calls[s].as.token = calls[s].as.id

\* Announcements are put on the screen only for the account the frame shows at
\* that moment: the answer for the account shown before is ignored.
NewsForShownUser ==
    [][\A t \in Tabs : news'[t] \in {news[t], NoUser, user[t].id}]_vars

\* A frame that keeps showing the account that is logged in ends up showing its
\* balance, though answers overtake each other: the poll repeats.
Accepted(who) == who.id \in Users /\ enabled[who.id]
EventuallyFresh ==
    \A t \in Tabs :
        <>[](InShell(t) /\ Accepted(user[t]) /\ stored.id = user[t].id)
            => <>[](user[t] # NoSession /\ user[t].credits = balance[user[t].id])

\* A frame stops showing an account the server no longer accepts, as long as
\* some account is stored; a frame whose record another tab removed asks nobody.
DisabledLeaves ==
    \A t \in Tabs :
        (user[t] # NoSession /\ ~Accepted(user[t]))
            ~> (user[t] = NoSession \/ stored = NoSession \/ Accepted(user[t]))
=============================================================================
