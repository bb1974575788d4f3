---------------------------- MODULE PortalProofs ----------------------------
(* Theorems about the customer site, for any accounts, tabs, keys, orders, calls *)
(* and bounds: each part of it on its own, and MCPortal, which composes them.    *)
EXTENDS MCPortal, FiniteSetTheorems, TLAPS

-----------------------------------------------------------------------------
(* The session.                                                             *)

USE DEF server, people

-----------------------------------------------------------------------------
(* The invariant: the types of TypeOK with every session's token its id's,  *)
(* and announcements still awaited are those of the account that is shown.  *)

SoundSession == {who \in Session : who.token = who.id}
SoundCall == [kind: Kinds, tab: Tabs, as: SoundSession, active: BOOLEAN, answer: Answer]

\* Requests `cs` beside frames that show the accounts `shown`.
Good(cs, shown) ==
    /\ cs \in [Slots -> SoundCall \union {NoCall}]
    /\ \A s \in Slots : cs[s] # NoCall /\ cs[s].kind = "news" /\ cs[s].active
                            => cs[s].as.id = shown[cs[s].tab].id

ServerInv == balance \in [Users -> 0..MaxBalance] /\ enabled \in [Users -> BOOLEAN]
FrameInv ==
    /\ stored \in SoundSession \union {NoSession}
    /\ route \in [Tabs -> Shell \union {"login", "link"}]
    /\ user \in [Tabs -> SoundSession \union {NoSession}]
    /\ ready \in [Tabs -> BOOLEAN]
    /\ news \in [Tabs -> Users \union {NoUser}]
    /\ \A t \in Tabs : ~InShell(t) => user[t] = NoSession
CountInv == moves \in 0..MaxMoves /\ events \in 0..MaxEvents
SessionInv == ServerInv /\ FrameInv /\ CountInv /\ Good(calls, user)

-----------------------------------------------------------------------------
(* The steps that handlers share. *)

LEMMA SessionsAreRecords ==
    /\ \A who \in SoundSession : who \in Session /\ who # NoSession /\ who.id \in Users
    /\ NoSession.id = NoUser /\ NoSession.token = NoUser
BY PortalAssumption DEF SoundSession, Session, NoSession

LEMMA CallsAreRecords == \A c \in SoundCall : c # NoCall
<1>1. \A c \in SoundCall : c.kind \in Kinds
  BY DEF SoundCall
<1>2. NoCall.kind = "none" /\ "none" \notin Kinds
  BY DEF NoCall, Kinds
<1> QED
  BY <1>1, <1>2

LEMMA SentKeeps ==
    ASSUME NEW cs, NEW shown, Good(cs, shown), Room(cs),
           NEW kind \in Kinds, NEW t \in Tabs, NEW who \in SoundSession,
           kind = "news" => who.id = shown[t].id
    PROVE  Good(Sent(cs, kind, t, who), shown)
<1> DEFINE x == CHOOSE x \in Slots : cs[x] = NoCall
           new == [kind |-> kind, tab |-> t, as |-> who, active |-> TRUE, answer |-> Waiting]
<1>1. x \in Slots
  BY DEF Room
<1>2. new \in SoundCall
  BY PortalAssumption DEF SoundCall, Answer, Waiting
<1>3. Sent(cs, kind, t, who) = [cs EXCEPT ![x] = new]
  BY DEF Sent
<1> HIDE DEF x
<1> QED
  BY <1>1, <1>2, <1>3 DEF Good

LEMMA DetachedKeeps ==
    ASSUME NEW cs, NEW shown, Good(cs, shown), NEW kinds, NEW t \in Tabs
    PROVE  Good(Detached(cs, kinds, t), shown)
<1> DEFINE ds == Detached(cs, kinds, t)
<1>1. \A s \in Slots : \/ ds[s] = cs[s]
                       \/ cs[s] \in SoundCall /\ ds[s] = [cs[s] EXCEPT !.active = FALSE]
  BY DEF Detached, Good
<1>2. \A c \in SoundCall : /\ [c EXCEPT !.active = FALSE] \in SoundCall
                           /\ ~[c EXCEPT !.active = FALSE].active
  BY DEF SoundCall
<1>3. ds \in [Slots -> SoundCall \union {NoCall}]
  BY <1>1, <1>2 DEF Detached, Good
<1>4. ASSUME NEW s \in Slots, ds[s] # NoCall, ds[s].kind = "news", ds[s].active
      PROVE  ds[s].as.id = shown[ds[s].tab].id
  <2>1. ds[s] = cs[s]
    BY <1>1, <1>2, <1>4
  <2> QED
    BY <1>4, <2>1 DEF Good
<1> HIDE DEF ds
<1>5. Good(ds, shown)
  BY <1>3, <1>4 DEF Good
<1> QED
  BY <1>5 DEF ds

\* Once its announcements are detached a frame may show anybody.
LEMMA DetachedFrees ==
    ASSUME NEW cs, NEW shown, Good(cs, shown), NEW kinds, "news" \in kinds,
           NEW t \in Tabs, NEW who, shown \in [Tabs -> SoundSession \union {NoSession}]
    PROVE  Good(Detached(cs, kinds, t), [shown EXCEPT ![t] = who])
<1> DEFINE ds == Detached(cs, kinds, t)
<1>1. Good(ds, shown)
  BY DetachedKeeps
<1>2. \A s \in Slots : ds[s] # NoCall /\ ds[s].kind = "news" /\ ds[s].active => ds[s].tab # t
  <2> SUFFICES ASSUME NEW s \in Slots, ds[s] # NoCall, ds[s].kind = "news", ds[s].tab = t
               PROVE  ~ds[s].active
    OBVIOUS
  <2>1. cs[s] \in SoundCall \union {NoCall}
    BY DEF Good
  <2>2. cs[s] \in SoundCall /\ cs[s].kind = "news" /\ cs[s].tab = t
    BY <2>1 DEF Detached, SoundCall
  <2> QED
    BY <2>2 DEF Detached, SoundCall, NoCall
<1>3. \A s \in Slots : ds[s] # NoCall => ds[s].tab \in Tabs
  BY <1>1 DEF Good, SoundCall
<1> HIDE DEF ds
<1> QED
  BY <1>1, <1>2, <1>3 DEF Good, ds

LEMMA WithoutKeeps ==
    ASSUME Good(calls, user), NEW s \in Slots
    PROVE  Good(Without(s), user) /\ Room(Without(s))
BY DEF Good, Without, Room

\* The same frame, only another amount of credits: nothing is awaited for another.
LEMMA SameIdKeeps ==
    ASSUME NEW cs, NEW shown, Good(cs, shown), NEW t \in Tabs, NEW who,
           shown \in [Tabs -> SoundSession \union {NoSession}], who.id = shown[t].id
    PROVE  Good(cs, [shown EXCEPT ![t] = who])
<1>1. \A s \in Slots : cs[s] # NoCall => cs[s].tab \in Tabs
  BY DEF Good, SoundCall
<1> QED
  BY <1>1 DEF Good

LEMMA RenderedKeeps ==
    ASSUME FrameInv, NEW cs, Good(cs, user), NEW t \in Tabs,
           NEW who \in SoundSession \union {NoSession}, NEW isReady \in BOOLEAN,
           Rendered(cs, t, who, isReady)
    PROVE  /\ Good(calls', user')
           /\ user' = [user EXCEPT ![t] = who] /\ ready' = [ready EXCEPT ![t] = isReady]
<1> DEFINE old == Detached(cs, {"news"}, t)
<1>1. user' = [user EXCEPT ![t] = who] /\ ready' = [ready EXCEPT ![t] = isReady]
  BY DEF Rendered
<1>2. CASE <<who.id, isReady>> = <<user[t].id, ready[t]>>
  <2>1. calls' = cs /\ who.id = user[t].id
    BY <1>2 DEF Rendered
  <2> QED
    BY <1>1, <2>1, SameIdKeeps DEF FrameInv
<1>3. CASE <<who.id, isReady>> # <<user[t].id, ready[t]>>
  <2>1. Good(old, user')
    BY <1>1, DetachedFrees DEF FrameInv
  <2>2. CASE calls' = old
    BY <1>1, <2>1, <2>2
  <2>3. CASE who # NoSession /\ Room(old) /\ calls' = Sent(old, "news", t, who)
    <3>1. who \in SoundSession /\ who.id = user'[t].id /\ "news" \in Kinds
      BY <1>1, <2>3 DEF FrameInv, Kinds
    <3> HIDE DEF old
    <3> QED
      BY <1>1, <2>1, <2>3, <3>1, SentKeeps
  <2> QED
    BY <1>3, <2>2, <2>3 DEF Rendered
<1> QED
  BY <1>1, <1>2, <1>3

\* saveSession and clearSession, in a frame that stays or is being mounted.
LEMMA StoredKeeps ==
    ASSUME FrameInv, NEW cs, Good(cs, user), NEW t \in Tabs,
           NEW who \in SoundSession \union {NoSession}, NEW isReady \in BOOLEAN,
           route' = route \/ route' = [route EXCEPT ![t] = "dashboard"],
           Stored(cs, t, who, isReady), UNCHANGED news
    PROVE  FrameInv' /\ Good(calls', user')
<1>1. stored' \in SoundSession \union {NoSession}
  BY DEF Stored
<1>2. route' \in [Tabs -> Shell \union {"login", "link"}]
  BY DEF FrameInv, Shell
<1>3. CASE route'[t] \in Shell
  <2>1. Rendered(cs, t, who, isReady)
    BY <1>3 DEF Stored
  <2>2. /\ Good(calls', user')
        /\ user' = [user EXCEPT ![t] = who] /\ ready' = [ready EXCEPT ![t] = isReady]
    BY <2>1, RenderedKeeps
  <2>3. \A x \in Tabs : route'[x] \notin Shell => user'[x] = NoSession
    BY <1>3, <2>2 DEF FrameInv, InShell
  <2> QED
    BY <1>1, <1>2, <2>2, <2>3 DEF FrameInv, InShell
<1>4. CASE route'[t] \notin Shell
  <2>1. calls' = cs /\ UNCHANGED <<user, ready, route>>
    BY <1>4 DEF Stored, Shell, FrameInv
  <2> QED
    BY <1>1, <2>1 DEF FrameInv, InShell
<1> QED
  BY <1>3, <1>4

LEMMA LeftKeeps ==
    ASSUME FrameInv, NEW cs, Good(cs, user), NEW t \in Tabs, NEW page \in {"login", "link"},
           Left(cs, t, page), stored' \in SoundSession \union {NoSession}
    PROVE  FrameInv' /\ Good(calls', user')
<1>1. "news" \in Kinds
  BY DEF Kinds
<1>2. Good(calls', user')
  BY <1>1, DetachedFrees DEF Left, FrameInv
<1> QED
  BY <1>2 DEF Left, FrameInv, InShell, Shell

-----------------------------------------------------------------------------
(* What the people at the tabs do. *)

LEMMA MovedKeeps == ASSUME CountInv, Moved, UNCHANGED events PROVE CountInv'
BY PortalAssumption DEF CountInv, Moved

LEMMA NewSession == ASSUME NEW u \in Users PROVE [id |-> u, token |-> u, credits |-> 0] \in SoundSession
BY PortalAssumption DEF SoundSession, Session

LEMMA PeopleKeep ==
    ASSUME SessionInv, NEW t \in Tabs,
           \/ \E u \in Users : SubmitLogin(t, u) \/ OpenLink(t, u)
           \/ \E p \in Shell : Visit(t, p)
           \/ Poll(t) \/ PageRefresh(t) \/ Claim(t) \/ Logout(t)
    PROVE  SessionInv'
<1> USE DEF SessionInv
<1>1. {"login", "change", "check", "poll", "page", "claim"} \subseteq Kinds \ {"news"}
  BY DEF Kinds
<1>2. ASSUME NEW u \in Users, SubmitLogin(t, u) PROVE SessionInv'
  <2>1. Good(calls', user)
    BY <1>1, <1>2, NewSession, SentKeeps DEF SubmitLogin
  <2> QED
    BY <1>2, <2>1, MovedKeeps DEF SubmitLogin, ServerInv, FrameInv, InShell
<1>3. ASSUME NEW u \in Users, OpenLink(t, u) PROVE SessionInv'
  <2> DEFINE who == [id |-> u, token |-> u, credits |-> 0]
  <2>1. Good(Dropped(t), user)
    BY DEF Dropped, Good
  <2>2. Good(Sent(Dropped(t), "change", t, who), user)
    BY <1>1, <1>3, <2>1, NewSession, SentKeeps DEF OpenLink
  <2>3. FrameInv' /\ Good(calls', user')
    BY <1>3, <2>2, LeftKeeps DEF OpenLink, FrameInv
  <2> QED
    BY <1>3, <2>3, MovedKeeps DEF OpenLink, ServerInv
<1>4. ASSUME NEW p \in Shell, Visit(t, p) PROVE SessionInv'
  <2>1. CASE stored = NoSession
    <3>1. "news" \in Kinds
      BY DEF Kinds
    <3>2. Good(calls', user')
      <4>1. calls' = Detached(calls, Kinds, t) /\ user' = [user EXCEPT ![t] = NoSession]
        BY <1>4, <2>1 DEF Visit
      <4> QED
        BY <3>1, <4>1, DetachedFrees DEF FrameInv
    <3> QED
      BY <1>4, <2>1, <3>2, MovedKeeps DEF Visit, ServerInv, FrameInv, InShell, Shell
  <2>2. CASE stored # NoSession
    <3> DEFINE cs == Detached(calls, {"check", "login"}, t)
    <3>1. Good(cs, user) /\ Room(cs)
      <4>1. Room(calls)
        BY <1>4, <2>2 DEF Visit
      <4>2. Room(cs)
        BY <4>1 DEF Room, Detached
      <4> QED
        BY <4>2, DetachedKeeps
    <3>2. stored \in SoundSession
      BY <2>2 DEF FrameInv
    <3>3. Good(Sent(cs, "check", t, stored), user)
      <4> HIDE DEF cs
      <4> QED
        BY <1>1, <3>1, <3>2, SentKeeps
    <3>4. calls' = Sent(cs, "check", t, stored) /\ route' = [route EXCEPT ![t] = p]
          /\ UNCHANGED <<stored, ready, news>>
          /\ user' = IF InShell(t) THEN user ELSE [user EXCEPT ![t] = stored]
      BY <1>4, <2>2 DEF Visit
    <3> HIDE DEF cs
    <3>5. CASE InShell(t)
      <4>1. FrameInv'
        BY <3>4, <3>5 DEF FrameInv, InShell
      <4> QED
        BY <1>4, <3>3, <3>4, <3>5, <4>1, MovedKeeps DEF Visit, ServerInv
    <3>6. CASE ~InShell(t)
      <4>1. user[t] = NoSession
        BY <3>6 DEF FrameInv
      <4>2. \A s \in Slots : /\ calls'[s] # NoCall /\ calls'[s].kind = "news" /\ calls'[s].active
                                    => calls'[s].tab # t
                             /\ calls'[s] # NoCall => calls'[s].tab \in Tabs
        BY <3>3, <3>4, <4>1, SessionsAreRecords, PortalAssumption DEF Good, SoundCall
      <4>3. Good(calls', user')
        BY <3>3, <3>4, <3>6, <4>2 DEF Good, FrameInv
      <4>4. FrameInv'
        BY <3>2, <3>4, <3>6 DEF FrameInv, InShell
      <4> QED
        BY <1>4, <4>3, <4>4, MovedKeeps DEF Visit, ServerInv
    <3> QED
      BY <3>5, <3>6
  <2> QED
    BY <2>1, <2>2
<1>5. CASE Poll(t)
  <2>1. Good(calls', user)
    BY <1>1, <1>5, SentKeeps DEF Poll, FrameInv
  <2> QED
    BY <1>5, <2>1 DEF Poll, ServerInv, FrameInv, CountInv, InShell
<1>6. CASE PageRefresh(t)
  <2>1. Good(calls', user)
    BY <1>1, <1>6, SentKeeps DEF PageRefresh, FrameInv
  <2> QED
    BY <1>6, <2>1, MovedKeeps DEF PageRefresh, ServerInv, FrameInv, InShell
<1>7. CASE Claim(t)
  <2>1. user[t] \in SoundSession
    BY <1>7 DEF Claim, FrameShown, FrameInv
  <2>2. Good(calls', user)
    BY <1>1, <1>7, <2>1, SentKeeps DEF Claim
  <2> QED
    BY <1>7, <2>2, MovedKeeps DEF Claim, ServerInv, FrameInv, InShell
<1>8. CASE Logout(t)
  <2>1. FrameInv' /\ Good(calls', user')
    BY <1>8, LeftKeeps DEF Logout
  <2> QED
    BY <1>8, <2>1, MovedKeeps DEF Logout, ServerInv
<1> QED
  BY <1>2, <1>3, <1>4, <1>5, <1>6, <1>7, <1>8

-----------------------------------------------------------------------------
(* The server. *)

LEMMA ServerKeeps ==
    ASSUME SessionInv, \/ \E u \in Users : Earn(u) \/ Disable(u)
                       \/ \E s \in Slots : Serve(s)
    PROVE  SessionInv'
<1> USE DEF SessionInv
<1>1. events < MaxEvents /\ events' = events + 1 => events' \in 0..MaxEvents
  BY PortalAssumption DEF CountInv
<1>2. \A u \in Users : balance[u] < MaxBalance => balance[u] + 1 \in 0..MaxBalance
  BY PortalAssumption DEF ServerInv
<1>3. ASSUME NEW u \in Users, Earn(u) \/ Disable(u) PROVE SessionInv'
  <2>1. ServerInv' /\ CountInv'
    BY <1>1, <1>2, <1>3 DEF Earn, Disable, ServerInv, CountInv
  <2>2. FrameInv' /\ Good(calls', user')
    BY <1>3 DEF Earn, Disable, FrameInv, InShell
  <2> QED
    BY <2>1, <2>2
<1>4. ASSUME NEW s \in Slots, Serve(s) PROVE SessionInv'
  <2> DEFINE u == calls[s].as.token
             grants == calls[s].kind = "claim" /\ enabled[u] /\ balance[u] < MaxBalance
             after == IF grants THEN balance[u] + 1 ELSE balance[u]
  <2>1. calls[s] \in SoundCall /\ u \in Users
    BY <1>4 DEF Serve, InFlight, Good, SoundCall, SoundSession, Session
  <2>2. after \in 0..MaxBalance /\ 0 \in 0..MaxBalance
    BY <1>2, <2>1, PortalAssumption DEF ServerInv
  <2>3. PICK answer \in Answer : calls' = [calls EXCEPT ![s].answer = answer]
    <3>1. CASE calls' = [calls EXCEPT ![s].answer = [status |-> "error", credits |-> 0]]
      BY <2>2, <3>1 DEF Answer
    <3>2. CASE calls' = [calls EXCEPT ![s].answer =
                    [status |-> IF ~enabled[u] THEN "denied"
                                ELSE IF calls[s].kind = "claim" /\ ~grants THEN "claimed" ELSE "ok",
                     credits |-> IF enabled[u] THEN after ELSE 0]]
      <4> DEFINE said == IF ~enabled[u] THEN "denied"
                         ELSE IF calls[s].kind = "claim" /\ ~grants THEN "claimed" ELSE "ok"
                 credits == IF enabled[u] THEN after ELSE 0
                 served == [status |-> said, credits |-> credits]
      <4>1. said \in {"denied", "claimed", "ok"} /\ credits \in 0..MaxBalance
        BY <2>2
      <4>2. calls' = [calls EXCEPT ![s].answer = served]
        BY <3>2
      <4> HIDE DEF said, credits
      <4>3. served \in Answer
        BY <4>1 DEF Answer
      <4> QED
        BY <4>2, <4>3
    <3> QED
      BY <1>4, <3>1, <3>2 DEF Serve
  <2>4. balance' \in [Users -> 0..MaxBalance] /\ events' \in 0..MaxEvents
    <3>1. CASE balance' = [balance EXCEPT ![u] = after] /\ UNCHANGED events
      <4> HIDE DEF after, grants, u
      <4> QED
        BY <2>1, <2>2, <3>1 DEF ServerInv, CountInv
    <3>2. CASE events < MaxEvents /\ events' = events + 1 /\ UNCHANGED balance
      BY <1>1, <3>2 DEF ServerInv
    <3> QED
      BY <1>4, <3>1, <3>2 DEF Serve
  <2>5. Good(calls', user)
    <3>1. [calls[s] EXCEPT !.answer = answer] \in SoundCall
      BY <2>1 DEF SoundCall
    <3>2. calls' = [calls EXCEPT ![s] = [calls[s] EXCEPT !.answer = answer]]
      BY <2>3 DEF Good
    <3> QED
      BY <2>1, <3>1, <3>2, CallsAreRecords DEF Good, SoundCall
  <2> QED
    BY <1>4, <2>4, <2>5 DEF Serve, ServerInv, FrameInv, CountInv, InShell
<1> QED
  BY <1>3, <1>4

-----------------------------------------------------------------------------
(* The answers. *)

LEMMA RefreshedSound ==
    ASSUME Good(calls, user), NEW s \in Slots, calls[s] # NoCall
    PROVE  /\ calls[s].tab \in Tabs /\ calls[s].as \in SoundSession
           /\ Refreshed(s) \in SoundSession
<1>1. calls[s] \in SoundCall
  BY DEF Good
<1>2. calls[s].answer.credits \in 0..MaxBalance /\ calls[s].as \in SoundSession
  BY <1>1 DEF SoundCall, Answer
<1> QED
  BY <1>1, <1>2 DEF SoundCall, SoundSession, Session, Refreshed

LEMMA DeliverKeeps == ASSUME SessionInv, NEW s \in Slots, Deliver(s) PROVE SessionInv'
<1> USE DEF SessionInv
<1> DEFINE t == calls[s].tab
<1>1. /\ calls[s] # NoCall /\ t \in Tabs
      /\ Refreshed(s) \in SoundSession \union {NoSession} /\ Refreshed(s) \in SoundSession
  BY RefreshedSound DEF Deliver, LoginAnswer, CheckAnswer, PollAnswer, SavingAnswer, NewsAnswer,
                        ChangeAnswer, Arrived, InFlight
<1>2. Good(Without(s), user) /\ Room(Without(s))
  BY WithoutKeeps
<1>3. ServerInv' /\ CountInv'
  BY DEF Deliver, LoginAnswer, CheckAnswer, PollAnswer, SavingAnswer, NewsAnswer, ChangeAnswer,
         ServerInv, CountInv
<1>4. ready[t] \in BOOLEAN /\ NoSession \in SoundSession \union {NoSession}
  BY <1>1 DEF FrameInv
<1> SUFFICES FrameInv' /\ Good(calls', user')
  BY <1>3
<1> HIDE DEF t
<1>5. CASE LoginAnswer(s)
  <2>1. CASE Ok(s)
    <3> DEFINE ds == Detached(Without(s), {"check", "login"}, t)
               cs == IF route[t] = "dashboard" THEN Without(s)
                     ELSE Sent(ds, "check", t, Refreshed(s))
    <3>1. Good(ds, user) /\ Room(ds) /\ "check" \in Kinds \ {"news"}
      BY <1>1, <1>2, DetachedKeeps DEF Room, Detached, Kinds
    <3>2. Good(cs, user)
      <4> HIDE DEF ds
      <4> QED
        BY <1>1, <1>2, <3>1, SentKeeps
    <3>3. route' = [route EXCEPT ![t] = "dashboard"] /\ Stored(cs, t, Refreshed(s), ready[t])
          /\ UNCHANGED news
      BY <1>5, <2>1 DEF LoginAnswer, Saved, t
    <3> HIDE DEF cs
    <3> QED
      BY <1>1, <1>4, <3>2, <3>3, StoredKeeps
  <2>2. CASE ~Ok(s)
    BY <1>2, <1>5, <2>2 DEF LoginAnswer, FrameInv, InShell
  <2> QED
    BY <2>1, <2>2
<1>6. CASE CheckAnswer(s)
  <2>1. CASE Ok(s)
    <3>1. Stored(Without(s), t, Refreshed(s), ready[t] \/ calls[s].active)
          /\ UNCHANGED <<route, news>>
      BY <1>6, <2>1 DEF CheckAnswer, t
    <3>2. (ready[t] \/ calls[s].active) \in BOOLEAN
      OBVIOUS
    <3> QED
      BY <1>1, <1>2, <3>1, <3>2, StoredKeeps
  <2>2. CASE ~Ok(s) /\ calls[s].active
    <3>1. stored' = NoSession /\ Left(Without(s), t, "login")
      BY <1>6, <2>2 DEF CheckAnswer, t
    <3> QED
      BY <1>1, <1>2, <3>1, LeftKeeps
  <2>3. CASE ~Ok(s) /\ ~calls[s].active
    <3>1. Stored(Without(s), t, NoSession, ready[t]) /\ UNCHANGED <<route, news>>
      BY <1>6, <2>3 DEF CheckAnswer, Cleared, Saved, t
    <3> QED
      BY <1>1, <1>2, <1>4, <3>1, StoredKeeps
  <2> QED
    BY <2>1, <2>2, <2>3
<1>7. CASE PollAnswer(s)
  <2>1. CASE Ok(s) /\ UNCHANGED <<route, news>> /\ Stored(Without(s), t, Refreshed(s), ready[t])
    BY <1>1, <1>2, <1>4, <2>1, StoredKeeps
  <2>2. CASE stored' = NoSession /\ Left(Without(s), t, "login")
    BY <1>1, <1>2, <2>2, LeftKeeps
  <2>3. CASE calls' = Without(s) /\ UNCHANGED <<stored, route, user, ready, news>>
    BY <1>2, <2>3 DEF FrameInv, InShell
  <2> QED
    BY <1>7, <2>1, <2>2, <2>3 DEF PollAnswer, Saved, t
<1>8. ASSUME NEW kind, SavingAnswer(s, kind) PROVE FrameInv' /\ Good(calls', user')
  <2>1. CASE Ok(s)
    <3>1. Stored(Without(s), t, Refreshed(s), ready[t]) /\ UNCHANGED <<route, news>>
      BY <1>8, <2>1 DEF SavingAnswer, Saved, t
    <3> QED
      BY <1>1, <1>2, <1>4, <3>1, StoredKeeps
  <2>2. CASE ~Ok(s)
    BY <1>2, <1>8, <2>2 DEF SavingAnswer, FrameInv, InShell
  <2> QED
    BY <2>1, <2>2
<1>9. CASE NewsAnswer(s)
  <2>1. news' \in [Tabs -> Users \union {NoUser}]
    <3>1. calls[s].as.id \in Users
      BY <1>1, RefreshedSound, SessionsAreRecords
    <3> QED
      BY <1>9, <3>1 DEF NewsAnswer, FrameInv
  <2> QED
    BY <1>2, <1>9, <2>1 DEF NewsAnswer, FrameInv, InShell
<1>10. CASE ChangeAnswer(s)
  <2>1. CASE Ok(s) /\ SameAccount(s)
    <3>1. Confirmed(s) \in SoundSession
      <4>1. stored.id \in Users /\ stored \in SoundSession
        BY <1>1, <2>1, RefreshedSound, SessionsAreRecords, PortalAssumption
           DEF SameAccount, FrameInv
      <4>2. calls[s].answer.credits \in 0..MaxBalance
        BY <1>1 DEF Good, SoundCall, Answer
      <4> QED
        BY <2>1, <4>1, <4>2 DEF SameAccount, Confirmed, SoundSession, Session
    <3>2. Stored(Without(s), t, Confirmed(s), ready[t]) /\ UNCHANGED <<route, news>>
      BY <1>10, <2>1 DEF ChangeAnswer, Saved, t
    <3> QED
      BY <1>1, <1>2, <1>4, <3>1, <3>2, StoredKeeps
  <2>2. CASE ~(Ok(s) /\ SameAccount(s))
    BY <1>2, <1>10, <2>2 DEF ChangeAnswer, FrameInv, InShell
  <2> QED
    BY <2>1, <2>2
<1> QED
  BY <1>5, <1>6, <1>7, <1>8, <1>9, <1>10 DEF Deliver

-----------------------------------------------------------------------------
(* The theorems. *)

LEMMA SessionStart == ASSUME Init PROVE SessionInv
<1>1. 0 \in 0..MaxBalance /\ 0 \in 0..MaxMoves /\ 0 \in 0..MaxEvents
  BY PortalAssumption
<1>2. Good(calls, user)
  BY DEF Init, Good
<1> QED
  BY <1>1, <1>2 DEF Init, SessionInv, ServerInv, FrameInv, CountInv, InShell

LEMMA SessionKept == ASSUME SessionInv, [Next]_vars PROVE SessionInv'
<1>1. CASE UNCHANGED vars
  BY <1>1 DEF vars, SessionInv, ServerInv, FrameInv, CountInv, InShell
<1> QED
  BY <1>1, PeopleKeep, ServerKeeps, DeliverKeeps DEF Next

LEMMA SessionInductive == Spec => []SessionInv
<1>1. Init => SessionInv
  BY SessionStart
<1>2. SessionInv /\ [Next]_vars => SessionInv'
  BY SessionKept
<1> QED
  BY <1>1, <1>2, PTL DEF Spec

LEMMA SessionInvSound == SessionInv => TypeOK /\ SessionSound
<1> SUFFICES ASSUME SessionInv PROVE TypeOK /\ SessionSound
  OBVIOUS
<1>1. SoundSession \subseteq Session /\ SoundCall \subseteq Call
  BY DEF SoundSession, SoundCall, Call
<1>2. TypeOK
  BY <1>1 DEF SessionInv, ServerInv, FrameInv, CountInv, Good, TypeOK
<1>3. \A who \in SoundSession \union {NoSession} : who.token = who.id
  BY DEF SoundSession, NoSession
<1>4. \A s \in InFlight : calls[s].as \in SoundSession
  BY DEF InFlight, SessionInv, Good, SoundCall
<1>5. SessionSound
  BY <1>3, <1>4 DEF SessionInv, FrameInv, SessionSound
<1> QED
  BY <1>2, <1>5

\* Every variable of the session has its type, and no session, wherever it is kept,
\* joins the id of one account with the token of another.
THEOREM SessionsAreSound == Spec => [](TypeOK /\ SessionSound)
BY SessionInductive, SessionInvSound, PTL

\* The step that NewsForShownUser asks for.
NewsFit == \A t \in Tabs : news'[t] \in {news[t], NoUser, user[t].id}

LEMMA NewsKept == ASSUME SessionInv, [Next]_vars PROVE [NewsFit]_vars
<1> SUFFICES ASSUME Next PROVE NewsFit
  OBVIOUS
<1> USE DEF SessionInv, NewsFit
<1>1. CASE UNCHANGED news
  BY <1>1
<1>2. ASSUME NEW x \in Tabs, news' = [news EXCEPT ![x] = NoUser] PROVE NewsFit
  BY <1>2 DEF FrameInv
<1>3. ASSUME NEW s \in Slots, NewsAnswer(s) PROVE NewsFit
  <2>1. calls[s] # NoCall /\ calls[s].kind = "news" /\ calls[s].tab \in Tabs
    BY <1>3 DEF NewsAnswer, Arrived, InFlight, Good, SoundCall
  <2>2. Showable(s) => calls[s].as.id = user[calls[s].tab].id
    BY <2>1 DEF Showable, Good
  <2> QED
    BY <1>3, <2>1, <2>2 DEF NewsAnswer, FrameInv
<1>4. ASSUME NEW t \in Tabs,
             \/ \E u \in Users : SubmitLogin(t, u) \/ OpenLink(t, u)
             \/ \E p \in Shell : Visit(t, p)
             \/ Poll(t) \/ PageRefresh(t) \/ Claim(t) \/ Logout(t)
      PROVE  NewsFit
  BY <1>1, <1>2, <1>4 DEF SubmitLogin, OpenLink, Visit, Poll, PageRefresh, Claim, Logout, Left
<1>5. ASSUME NEW u \in Users, Earn(u) \/ Disable(u) PROVE NewsFit
  BY <1>1, <1>5 DEF Earn, Disable
<1>6. ASSUME NEW s \in Slots, Serve(s) PROVE NewsFit
  BY <1>1, <1>6 DEF Serve
<1>7. ASSUME NEW s \in Slots, Deliver(s), ~NewsAnswer(s) PROVE NewsFit
  <2>1. calls[s] # NoCall
    BY <1>7 DEF Deliver, LoginAnswer, CheckAnswer, PollAnswer, SavingAnswer, ChangeAnswer,
                Arrived, InFlight
  <2>2. calls[s].tab \in Tabs
    BY <2>1, RefreshedSound
  <2>3. UNCHANGED news \/ news' = [news EXCEPT ![calls[s].tab] = NoUser]
    BY <1>7 DEF Deliver, LoginAnswer, CheckAnswer, PollAnswer, SavingAnswer, ChangeAnswer, Left
  <2> QED
    BY <1>1, <1>2, <2>2, <2>3
<1> QED
  BY <1>3, <1>4, <1>5, <1>6, <1>7 DEF Next

\* Announcements appear only in a frame that shows, at that moment, the account they
\* were asked for.
THEOREM NewsOfShownUser == Spec => NewsForShownUser
<1>1. SessionInv /\ [Next]_vars => [NewsFit]_vars
  BY NewsKept
<1> QED
  BY <1>1, SessionInductive, PTL DEF Spec, NewsForShownUser, NewsFit

-----------------------------------------------------------------------------
(* The playground. *)

USE DEF playgroundVars, generation, selection

-----------------------------------------------------------------------------
(* Type correctness. *)

LEMMA LoadModelsTyped ==
    ASSUME PlaygroundTypeOK, NEW k \in Keys, NEW ofList \in BOOLEAN, LoadModels(k, ofList)
    PROVE  /\ keyRequest' \in 0..MaxRequests /\ requests' \in SUBSET Request
           /\ secret' = NoKey /\ loadingModels' = TRUE
<1>1. keyRequest + 1 \in 1..MaxRequests /\ keyRequest + 1 \in 0..MaxRequests
  BY PlaygroundAssumption DEF PlaygroundTypeOK, LoadModels
<1>2. [id |-> keyRequest + 1, key |-> k, ofList |-> ofList] \in Request
  BY <1>1 DEF Request
<1> QED
  BY <1>1, <1>2 DEF PlaygroundTypeOK, LoadModels

LEMMA SendListTyped ==
    ASSUME PlaygroundTypeOK, SendList
    PROVE  lists' \in SUBSET List /\ listsSent' \in 0..MaxLists /\ loadingKeys' = TRUE
<1>1. listsSent + 1 \in 1..MaxLists /\ listsSent + 1 \in 0..MaxLists
  BY PlaygroundAssumption DEF PlaygroundTypeOK, SendList
<1>2. [n |-> listsSent + 1, keys |-> {}, done |-> FALSE] \in List
  BY <1>1 DEF List
<1> QED
  BY <1>1, <1>2 DEF PlaygroundTypeOK, SendList

LEMMA EndRequestTyped ==
    ASSUME PlaygroundTypeOK, NEW r \in requests, EndRequest(r)
    PROVE  /\ requests' \in SUBSET Request
           /\ loadingModels' \in BOOLEAN /\ loadingKeys' \in BOOLEAN
<1>1. loadingModels' \in BOOLEAN
  BY Zenon DEF EndRequest
<1>2. loadingKeys' \in BOOLEAN
  BY Zenon DEF EndRequest
<1> QED
  BY <1>1, <1>2 DEF PlaygroundTypeOK, EndRequest

LEMMA PlaygroundStart == ASSUME PlaygroundInit PROVE PlaygroundTypeOK
<1>1. 0 \in 0..MaxRequests /\ 0 \in 0..MaxLists /\ 0 \in 0..MaxImages
  BY PlaygroundAssumption
<1> QED
  BY <1>1 DEF PlaygroundInit, PlaygroundTypeOK

LEMMA PlaygroundKept ==
    ASSUME PlaygroundTypeOK, [PlaygroundNext]_playgroundVars PROVE PlaygroundTypeOK'
<1>1. CASE Mount \/ RefreshList
  BY <1>1, SendListTyped DEF Mount, RefreshList, PlaygroundTypeOK
<1>2. CASE RefreshModels
  <2>1. selectedKey \in Keys
    BY <1>2 DEF RefreshModels, PlaygroundTypeOK
  <2> QED
    BY <1>2, <2>1, LoadModelsTyped DEF RefreshModels, PlaygroundTypeOK
<1>3. CASE Unmount
  <2>1. keyRequest + 1 \in 0..MaxRequests
    BY <1>3, PlaygroundAssumption DEF Unmount, PlaygroundTypeOK
  <2> QED
    BY <1>3, <2>1 DEF Unmount, PlaygroundTypeOK
<1>4. ASSUME NEW k \in Keys, SelectKey(k) PROVE PlaygroundTypeOK'
  BY <1>4, LoadModelsTyped DEF SelectKey, PlaygroundTypeOK
<1>5. ASSUME NEW k \in Keys, Switch(k) PROVE PlaygroundTypeOK'
  BY <1>5 DEF Switch, PlaygroundTypeOK
<1>6. CASE Generate \/ ClearResults \/ Generated
  BY <1>6 DEF Generate, ClearResults, Generated, PlaygroundTypeOK
<1>7. ASSUME NEW n \in 1..MaxImages, AddImages(n) PROVE PlaygroundTypeOK'
  <2>1. images' \in 0..MaxImages
    BY <1>7, PlaygroundAssumption DEF AddImages, PlaygroundTypeOK
  <2> QED
    BY <1>7, <2>1 DEF AddImages, PlaygroundTypeOK
<1>8. CASE RemoveImage
  <2>1. images' \in 0..MaxImages
    BY <1>8, PlaygroundAssumption DEF RemoveImage, PlaygroundTypeOK
  <2> QED
    BY <1>8, <2>1 DEF RemoveImage, PlaygroundTypeOK
<1>9. ASSUME NEW l \in lists, ServeList(l) PROVE PlaygroundTypeOK'
  <2>1. [l EXCEPT !.keys = activeKeys, !.done = TRUE] \in List
    BY DEF PlaygroundTypeOK, List
  <2> QED
    BY <1>9, <2>1 DEF ServeList, PlaygroundTypeOK
<1>10. ASSUME NEW l \in lists, ListArrives(l) PROVE PlaygroundTypeOK'
  <2>1. l.keys \in SUBSET Keys /\ lists' \in SUBSET List
    BY <1>10 DEF ListArrives, PlaygroundTypeOK, List
  <2>2. CASE ~mounted
    BY <1>10, <2>1, <2>2 DEF ListArrives, PlaygroundTypeOK
  <2>3. ASSUME mounted, NEW k \in l.keys, selectedKey' = k, LoadModels(k, TRUE)
        PROVE  PlaygroundTypeOK'
    BY <1>10, <2>1, <2>3, LoadModelsTyped DEF ListArrives, PlaygroundTypeOK
  <2>4. CASE mounted /\ selectedKey' = NoKey /\ secret' = NoKey
             /\ UNCHANGED <<keyRequest, requests, loadingModels>>
    BY <1>10, <2>1, <2>4 DEF ListArrives, PlaygroundTypeOK
  <2> QED
    BY <1>10, <2>2, <2>3, <2>4 DEF ListArrives
<1>11. ASSUME NEW l \in lists, ListFails(l) PROVE PlaygroundTypeOK'
  <2>1. loadingKeys' \in BOOLEAN
    BY <1>11, Zenon DEF ListFails
  <2> QED
    BY <1>11, <2>1 DEF ListFails, PlaygroundTypeOK
<1>12. ASSUME NEW r \in requests, ModelsArrive(r) \/ ModelsFail(r) PROVE PlaygroundTypeOK'
  <2>1. secret' \in Keys \union {NoKey}
    BY <1>12 DEF ModelsArrive, ModelsFail, PlaygroundTypeOK, Request
  <2>2. EndRequest(r)
    BY <1>12 DEF ModelsArrive, ModelsFail
  <2> QED
    BY <2>1, <2>2, EndRequestTyped DEF EndRequest, PlaygroundTypeOK
<1>13. CASE UNCHANGED playgroundVars
  BY <1>13 DEF PlaygroundTypeOK
<1> QED
  BY <1>1, <1>2, <1>3, <1>4, <1>5, <1>6, <1>7, <1>8, <1>9, <1>10, <1>11, <1>12, <1>13
     DEF PlaygroundNext, PlaygroundAnswer

\* Every variable of the playground keeps its type.
THEOREM PlaygroundTyped == PlaygroundSpec => []PlaygroundTypeOK
<1>1. PlaygroundInit => PlaygroundTypeOK
  BY PlaygroundStart
<1>2. PlaygroundTypeOK /\ [PlaygroundNext]_playgroundVars => PlaygroundTypeOK'
  BY PlaygroundKept
<1> QED
  BY <1>1, <1>2, PTL DEF PlaygroundSpec

-----------------------------------------------------------------------------
(* The numbered requests. *)

\* What the numbers are for: none is above the last one, the request that has it is
\* about the selected key, and so is the secret.
LastIsSelected ==
    /\ \A r \in requests : r.id <= keyRequest
    /\ apiKeys # {} => /\ secret \in {NoKey, selectedKey}
                       /\ \A r \in requests : r.id = keyRequest => r.key = selectedKey
SelectionInv == LastIsSelected /\ PlaygroundFreed

LEMMA LoadModelsSelects ==
    ASSUME PlaygroundTypeOK, SelectionInv, NEW k \in Keys, NEW ofList \in BOOLEAN,
           LoadModels(k, ofList), selectedKey' = k, UNCHANGED mounted
    PROVE  /\ LastIsSelected'
           /\ \E r \in requests' : Current(r)' \/ ~mounted
           /\ requests \subseteq requests'
           /\ ofList => \E r \in requests' : r.ofList
<1> DEFINE new == [id |-> keyRequest + 1, key |-> k, ofList |-> ofList]
<1>1. keyRequest \in Nat /\ \A r \in requests : r.id \in Nat /\ r.id # keyRequest + 1
                                                 /\ r.id <= keyRequest + 1
  BY PlaygroundAssumption DEF PlaygroundTypeOK, Request, SelectionInv, LastIsSelected
<1>2. requests' = requests \union {new} /\ keyRequest' = keyRequest + 1 /\ secret' = NoKey
  BY DEF LoadModels
<1>3. new.id = keyRequest' /\ new.key = selectedKey' /\ new.ofList = ofList
  BY <1>2
<1>4. \A r \in requests' : r.id <= keyRequest' /\ (r.id = keyRequest' => r.key = selectedKey')
  BY <1>1, <1>2, <1>3
<1>5. LastIsSelected'
  BY <1>2, <1>4 DEF LastIsSelected
<1> QED
  BY <1>2, <1>3, <1>5 DEF Current

LEMMA SelectionStart == ASSUME PlaygroundInit PROVE SelectionInv
BY PlaygroundAssumption DEF PlaygroundInit, SelectionInv, LastIsSelected, PlaygroundFreed

LEMMA SelectionKept ==
    ASSUME PlaygroundTypeOK, SelectionInv, [PlaygroundNext]_playgroundVars PROVE SelectionInv'
<1> USE DEF SelectionInv
<1>1. CASE Mount \/ RefreshList
  <2>1. lists' # {} /\ UNCHANGED <<mounted, apiKeys, selection>>
    BY <1>1 DEF Mount, RefreshList, SendList
  <2> QED
    BY <2>1 DEF LastIsSelected, PlaygroundFreed, Current
<1>2. CASE RefreshModels
  <2>1. selectedKey \in Keys /\ LoadModels(selectedKey, FALSE) /\ selectedKey' = selectedKey
    BY <1>2 DEF RefreshModels, PlaygroundTypeOK
  <2> QED
    BY <1>2, <2>1, LoadModelsSelects DEF RefreshModels, PlaygroundFreed
<1>3. CASE Unmount
  <2>1. keyRequest \in Nat /\ \A r \in requests : r.id \in Nat
    BY PlaygroundAssumption DEF PlaygroundTypeOK, Request
  <2> QED
    BY <1>3, <2>1 DEF Unmount, LastIsSelected, PlaygroundFreed
<1>4. ASSUME NEW k \in Keys, SelectKey(k) PROVE SelectionInv'
  BY <1>4, LoadModelsSelects DEF SelectKey, PlaygroundFreed
<1>5. ASSUME NEW k \in Keys, Switch(k) PROVE SelectionInv'
  BY <1>5 DEF Switch, LastIsSelected, PlaygroundFreed, Current
<1>6. CASE Generate \/ ClearResults \/ Generated \/ RemoveImage
  BY <1>6 DEF Generate, ClearResults, Generated, RemoveImage, LastIsSelected,
              PlaygroundFreed, Current
<1>7. ASSUME NEW n \in 1..MaxImages, AddImages(n) PROVE SelectionInv'
  BY <1>7 DEF AddImages, LastIsSelected, PlaygroundFreed, Current
<1>8. ASSUME NEW l \in lists, ServeList(l) PROVE SelectionInv'
  BY <1>8 DEF ServeList, LastIsSelected, PlaygroundFreed, Current
<1>9. ASSUME NEW l \in lists, ListArrives(l) PROVE SelectionInv'
  <2>1. l.keys \in SUBSET Keys
    BY DEF PlaygroundTypeOK, List
  <2>2. CASE ~mounted
    BY <1>9, <2>2 DEF ListArrives, LastIsSelected, PlaygroundFreed
  <2>3. ASSUME mounted, NEW k \in l.keys, selectedKey' = k, LoadModels(k, TRUE)
        PROVE  SelectionInv'
    BY <1>9, <2>1, <2>3, LoadModelsSelects DEF ListArrives, PlaygroundFreed
  <2>4. CASE mounted /\ l.keys = {} /\ UNCHANGED <<keyRequest, requests, loadingModels>>
    BY <1>9, <2>4 DEF ListArrives, LastIsSelected, PlaygroundFreed, Current
  <2> QED
    BY <1>9, <2>2, <2>3, <2>4 DEF ListArrives
<1>10. ASSUME NEW l \in lists, ListFails(l) PROVE SelectionInv'
  BY <1>10 DEF ListFails, LastIsSelected, PlaygroundFreed, Current
<1>11. ASSUME NEW r \in requests, ModelsArrive(r) \/ ModelsFail(r) PROVE SelectionInv'
  <2>1. EndRequest(r) /\ secret' \in {secret, IF Current(r) THEN r.key ELSE secret}
    BY <1>11 DEF ModelsArrive, ModelsFail
  <2>2. LastIsSelected'
    BY <2>1 DEF EndRequest, LastIsSelected, Current
  <2>3. ASSUME mounted', loadingModels' PROVE \E q \in requests' : Current(q)'
    <3>1. loadingModels /\ ~Current(r) /\ mounted
      BY <2>1, <2>3 DEF EndRequest
    <3> QED
      BY <2>1, <3>1 DEF PlaygroundFreed, EndRequest, Current
  <2>4. ASSUME mounted', loadingKeys'
        PROVE  listsSent' = 0 \/ lists' # {} \/ \E q \in requests' : q.ofList
    <3>1. loadingKeys /\ ~r.ofList /\ mounted
      BY <2>1, <2>4 DEF EndRequest
    <3> QED
      BY <2>1, <3>1 DEF PlaygroundFreed, EndRequest
  <2> QED
    BY <2>2, <2>3, <2>4 DEF PlaygroundFreed
<1>12. CASE UNCHANGED playgroundVars
  BY <1>12 DEF LastIsSelected, PlaygroundFreed, Current
<1> QED
  BY <1>1, <1>2, <1>3, <1>4, <1>5, <1>6, <1>7, <1>8, <1>9, <1>10, <1>11, <1>12
     DEF PlaygroundNext, PlaygroundAnswer

LEMMA SelectionSound == SelectionInv => SecretOfSelected /\ PlaygroundFreed
BY DEF SelectionInv, LastIsSelected, SecretOfSelected

\* The secret on the page is that of the selected key, and the page waits for nothing
\* that is not on its way, however requests, answers and visits interleave.
THEOREM SecretIsOfSelected == PlaygroundSpec => [](SecretOfSelected /\ PlaygroundFreed)
<1>1. PlaygroundInit => SelectionInv
  BY SelectionStart
<1>2. PlaygroundTypeOK /\ SelectionInv /\ [PlaygroundNext]_playgroundVars => SelectionInv'
  BY SelectionKept
<1> QED
  BY <1>1, <1>2, SelectionSound, PlaygroundTyped, PTL DEF PlaygroundSpec

-----------------------------------------------------------------------------
(* The announcements.                                                       *)

USE DEF newsShown, newsServer, signPart, claimPart, alertPart

\* What an answer that is on its way tells is so at the server; what is being signed has
\* no reward and what is being claimed has one; and the list is empty until it arrives.
NoticesInv ==
    /\ NoticesTypeOK
    /\ taken \subseteq claimed /\ newsLoad.claimed \subseteq claimed
    /\ newsLoad.step \in {"sent", "read"} => listed = {}
    /\ signing \notin Rewarding /\ claiming \in Rewarding \union {NoNews}
    /\ signing = NoNews => signReply = "none"
    /\ claiming = NoNews => claimReply = "none"
    /\ signReply = "ok" => signing \in signed
    /\ signReply = "gone" => signing \in withdrawn
    /\ claimReply = "ok" => claiming \in claimed
\* The step that NothingUnreadHidden asks for.
NoticesStep ==
    /\ taken' \subseteq claimed'
    /\ \A a \in listed \ listed' :
          \/ newsLoad' = Asked \/ a \in withdrawn
          \/ IF a \in Rewarding THEN a \in claimed ELSE a \in signed

LEMMA NoticesSound == NoticesInv => NoticesTypeOK
BY DEF NoticesInv

LEMMA NoticesStart == NoticesInit => NoticesInv
<1> SUFFICES ASSUME NoticesInit PROVE NoticesInv
  OBVIOUS
<1>1. /\ newsLoad \in [step : {"sent", "read", "idle"}, list : SUBSET News, claimed : SUBSET News]
      /\ newsLoad.claimed = {}
  BY DEF NoticesInit, Asked
<1>2. NoNews \notin Rewarding
  BY NoticesAssumption
<1> QED
  BY <1>1, <1>2 DEF NoticesInit, NoticesInv, NoticesTypeOK

\* Requests, their answers and what the server does change neither list.
LEMMA NoticesQuiet ==
    ASSUME NoticesInv, UNCHANGED newsShown, claimed \subseteq claimed'
    PROVE  NoticesStep
BY DEF NoticesInv, NoticesStep

LEMMA ServeNewsKeeps == ASSUME NoticesInv, ServeNews PROVE NoticesInv' /\ NoticesStep
<1> DEFINE read == [step |-> "read", list |-> Visible, claimed |-> claimed \intersect Visible]
           failed == [Asked EXCEPT !.step = "idle"]
<1>1. Visible \subseteq News
  BY DEF Visible
<1>2. /\ read \in [step : {"sent", "read", "idle"}, list : SUBSET News, claimed : SUBSET News]
      /\ read.claimed \subseteq claimed /\ read.step = "read"
  BY <1>1
<1>3. /\ failed \in [step : {"sent", "read", "idle"}, list : SUBSET News, claimed : SUBSET News]
      /\ failed.claimed \subseteq claimed /\ failed.step = "idle"
  BY DEF Asked
<1>4. newsLoad' \in {read, failed} /\ newsLoad.step = "sent"
  BY DEF ServeNews, Asked
<1> HIDE DEF read, failed
<1>5. NoticesInv'
  BY <1>2, <1>3, <1>4 DEF ServeNews, NoticesInv, NoticesTypeOK
<1> QED
  BY <1>5 DEF ServeNews, NoticesInv, NoticesStep

LEMMA NewsArrivesKeeps == ASSUME NoticesInv, NewsArrives PROVE NoticesInv' /\ NoticesStep
<1>1. /\ newsLoad.list \subseteq News /\ newsLoad.claimed \subseteq News /\ listed = {}
      /\ newsLoad.claimed \subseteq claimed
  BY DEF NewsArrives, NoticesInv, NoticesTypeOK
<1>2. /\ newsLoad' \in [step : {"sent", "read", "idle"}, list : SUBSET News, claimed : SUBSET News]
      /\ newsLoad'.claimed = {} /\ newsLoad'.step = "idle"
  BY DEF NewsArrives, Asked
<1>3. NoticesInv'
  BY <1>1, <1>2 DEF NewsArrives, NoticesInv, NoticesTypeOK
<1> QED
  BY <1>1, <1>3 DEF NewsArrives, NoticesInv, NoticesStep

LEMMA NoticesKept ==
    ASSUME NoticesInv, [NoticesNext]_noticeVars
    PROVE  NoticesInv' /\ [NoticesStep]_noticeVars
<1>1. CASE UNCHANGED noticeVars
  BY <1>1 DEF noticeVars, NoticesInv, NoticesTypeOK
<1>2. CASE ServeNews \/ NewsArrives
  BY <1>2, ServeNewsKeeps, NewsArrivesKeeps
<1>3. ASSUME NEW a \in News, Sign(a) \/ Withdraw(a) \/ ClaimReward(a, TRUE) \/ ClaimReward(a, FALSE)
      PROVE  NoticesInv' /\ NoticesStep
  <2>1. NoticesInv'
    BY <1>3, NoticesAssumption
       DEF Sign, Withdraw, ClaimReward, Idle, NoticesInv, NoticesTypeOK
  <2> QED
    BY <1>3, <2>1, NoticesQuiet DEF Sign, Withdraw, ClaimReward
<1>4. CASE ServeSign
  <2>1. NoticesInv'
    BY <1>4 DEF ServeSign, NoticesInv, NoticesTypeOK
  <2>2. UNCHANGED newsShown /\ claimed \subseteq claimed'
    BY <1>4 DEF ServeSign
  <2> QED
    BY <2>1, <2>2, NoticesQuiet
<1>5. CASE ServeClaim
  <2>1. NoticesInv'
    BY <1>5 DEF ServeClaim, NoticesInv, NoticesTypeOK
  <2>2. UNCHANGED newsShown /\ claimed \subseteq claimed'
    BY <1>5 DEF ServeClaim
  <2> QED
    BY <2>1, <2>2, NoticesQuiet
<1>6. CASE SignAnswer
  <2>1. NoticesInv'
    BY <1>6, NoticesAssumption DEF SignAnswer, NoticesInv, NoticesTypeOK
  <2>2. Signed => signing \in signed \union withdrawn
    BY <1>6 DEF SignAnswer, Signed, NoticesInv, NoticesTypeOK
  <2> QED
    BY <1>6, <2>1, <2>2 DEF SignAnswer, NoticesInv, NoticesStep
<1>7. CASE ClaimAnswer
  <2>1. NoticesInv'
    BY <1>7 DEF ClaimAnswer, NoticesInv, NoticesTypeOK
  <2>2. claimReply = "ok" => claiming \in claimed /\ claiming \in Rewarding
    BY <1>7 DEF ClaimAnswer, NoticesInv
  <2>3. \A a \in listed \ listed' : a = claiming /\ claimReply = "ok"
    BY <1>7 DEF ClaimAnswer
  <2>4. taken' \subseteq claimed'
    BY <2>1 DEF NoticesInv
  <2> QED
    BY <2>1, <2>2, <2>3, <2>4 DEF NoticesStep
<1>8. CASE PollAlert \/ AlertAnswer \/ Incident \/ ResendMail \/ MailAnswer \/ Cooled \/ Deploy
  <2>1. UNCHANGED <<newsServer, newsShown, signPart, claimPart>>
    BY <1>8 DEF PollAlert, AlertAnswer, Incident, ResendMail, MailAnswer, Cooled, Deploy
  <2>2. mail' \in {"idle", "sending", "cooling"} /\ deployed' \in {"not yet", "running", "loaded"}
    BY <1>8 DEF PollAlert, AlertAnswer, Incident, ResendMail, MailAnswer, Cooled, Deploy,
                NoticesInv, NoticesTypeOK
  <2>3. NoticesInv'
    BY <2>1, <2>2 DEF NoticesInv, NoticesTypeOK
  <2> QED
    BY <2>1, <2>3, NoticesQuiet
<1>9. CASE CheckBuild
  <2>1. NoticesInv'
    BY <1>9, NoticesAssumption DEF CheckBuild, Asked, NoticesInv, NoticesTypeOK
  <2> QED
    BY <1>9, <2>1 DEF CheckBuild, NoticesStep
<1> QED
  BY <1>1, <1>2, <1>3, <1>4, <1>5, <1>6, <1>7, <1>8, <1>9 DEF NoticesNext

-----------------------------------------------------------------------------
(* The keys.                                                                *)

USE DEF atServer, table, createDialog, rowState

\* A key is listed once, and not after it was deleted.
StoreInv ==
    /\ keysAtServer \in Seq(AccountKeys)
    /\ status \in [AccountKeys -> {"active", "disabled", "gone"}]
    /\ \A i, j \in DOMAIN keysAtServer : keysAtServer[i] = keysAtServer[j] => i = j
    /\ \A i \in DOMAIN keysAtServer : status[keysAtServer[i]] # "gone"
TableInv ==
    /\ list \in Seq(Row) /\ keyLoads \subseteq Load
    /\ keyTotal \in Nat /\ keyPage \in Nat \ {0} /\ access \in BOOLEAN
    /\ \A l \in keyLoads : l.page # 0
    /\ keysLoading => keyLoads # {}
CreateInv ==
    /\ mode = "subscription" => form = "open"
    /\ creating \in AccountKeys \union {"idle", "sent", "failed"}
    /\ created \in AccountKeys \union {NoRow}
\* At most one secret is asked for, which `revealing` names.
RowsInv ==
    /\ changes \subseteq Change
    /\ {pendingId, revealing, revealed, toDelete} \subseteq AccountKeys \union {NoRow}
    /\ pendingId # NoRow => \E c \in changes : c.op # "reveal"
    /\ \A c \in changes : c.op = "reveal" => revealing = c.key
    /\ \A c, d \in changes : c.op = "reveal" /\ d.op = "reveal" => c = d
    /\ revealing # NoRow => \E c \in changes : c.op = "reveal"
KeysInv == StoreInv /\ TableInv /\ CreateInv /\ RowsInv

LEMMA KeysSound == KeysInv => KeysTypeOK /\ KeysFreed
BY DEF KeysInv, StoreInv, TableInv, CreateInv, RowsInv, KeysTypeOK, KeysFreed

LEMMA KeysStart == KeysInit => KeysInv
<1> SUFFICES ASSUME KeysInit PROVE KeysInv
  OBVIOUS
<1> DEFINE first == [page |-> 1, rows |-> <<>>, total |-> 0, access |-> FALSE, done |-> FALSE]
<1>1. first \in Load /\ first.page = 1
  BY DEF Load
<1>2. keyLoads = {first}
  BY DEF KeysInit
<1> HIDE DEF first
<1>3. StoreInv
  <2>1. /\ Existing \in Seq(AccountKeys)
        /\ \A i, j \in DOMAIN Existing : Existing[i] = Existing[j] => i = j
    BY KeysAssumption
  <2>2. \A i \in DOMAIN Existing : status[Existing[i]] = "active"
    <3>1. \A i \in DOMAIN Existing : Existing[i] \in AccountKeys
      BY <2>1
    <3> QED
      BY <3>1 DEF KeysInit
  <2>3. status \in [AccountKeys -> {"active", "disabled", "gone"}]
    BY DEF KeysInit
  <2>4. keysAtServer = Existing
    BY DEF KeysInit
  <2> QED
    BY <2>1, <2>2, <2>3, <2>4 DEF StoreInv
<1>4. TableInv
  <2>1. \A l \in keyLoads : l \in Load /\ l.page # 0
    BY <1>1, <1>2
  <2>2. list \in Seq(Row) /\ keyTotal \in Nat /\ keyPage \in Nat \ {0}
    BY DEF KeysInit
  <2>3. access \in BOOLEAN /\ keyLoads # {}
    BY <1>2 DEF KeysInit
  <2> QED
    BY <2>1, <2>2, <2>3 DEF TableInv
<1>5. CreateInv /\ RowsInv
  BY DEF KeysInit, CreateInv, RowsInv
<1> QED
  BY <1>3, <1>4, <1>5 DEF KeysInv

\* What a step leaves alone it leaves sound.
LEMMA StoreQuiet == ASSUME KeysInv, UNCHANGED atServer PROVE StoreInv'
BY DEF KeysInv, StoreInv
LEMMA TableQuiet == ASSUME KeysInv, UNCHANGED <<table, keyPage>> PROVE TableInv'
BY DEF KeysInv, TableInv
LEMMA CreateQuiet == ASSUME KeysInv, UNCHANGED createDialog PROVE CreateInv'
BY DEF KeysInv, CreateInv
LEMMA RowsQuiet == ASSUME KeysInv, UNCHANGED rowState PROVE RowsInv'
BY DEF KeysInv, RowsInv

-----------------------------------------------------------------------------
(* The list.                                                                *)

LEMMA SendLoadKeeps ==
    ASSUME KeysInv, NEW p \in Nat \ {0}, SendLoad(p), keyPage' = p, UNCHANGED <<list, keyTotal>>
    PROVE  TableInv'
<1> DEFINE new == [page |-> p, rows |-> <<>>, total |-> 0, access |-> FALSE, done |-> FALSE]
<1>1. new \in Load /\ new.page = p
  BY DEF Load
<1>2. keyLoads' = keyLoads \union {new} /\ access' = FALSE
  BY DEF SendLoad
<1> HIDE DEF new
<1> QED
  BY <1>1, <1>2 DEF KeysInv, TableInv

\* The pages under the table are numbered from one.
LEMMA KeyPagesAreNumbers == ASSUME KeysInv PROVE KeyPages \in Int
<1>1. keyTotal \in Nat /\ PageSize \in Nat /\ PageSize # 0
  BY KeysAssumption DEF KeysInv, TableInv
<1>2. CASE keyTotal = 0
  BY <1>2 DEF KeyPages
<1>3. CASE keyTotal # 0
  BY <1>1, <1>3 DEF KeyPages
<1> QED
  BY <1>2, <1>3

\* A page of the server's list has rows of keys that exist.
LEMMA ServerPageIsRows ==
    ASSUME KeysInv, NEW p \in Nat, p # 0
    PROVE  ServerPage(p) \in Seq(Row)
<1> DEFINE first == (p - 1) * PageSize
           size == IF Len(keysAtServer) < first THEN 0
                   ELSE IF Len(keysAtServer) - first < PageSize
                        THEN Len(keysAtServer) - first ELSE PageSize
           row(i) == [key |-> keysAtServer[first + i], status |-> status[keysAtServer[first + i]]]
<1>1. first \in Nat
  BY KeysAssumption
<1>2. ServerPage(p) = [i \in 1..size |-> row(i)]
  BY DEF ServerPage
<1>3. size \in Nat /\ \A i \in 1..size : first + i \in DOMAIN keysAtServer
  <2>1. Len(keysAtServer) \in Nat /\ DOMAIN keysAtServer = 1..Len(keysAtServer)
    BY DEF KeysInv, StoreInv
  <2>2. PageSize \in Nat
    BY KeysAssumption
  <2> HIDE DEF first
  <2> QED
    BY <1>1, <2>1, <2>2
<1> HIDE DEF first, size
<1>4. ASSUME NEW i \in 1..size
      PROVE  row(i) \in Row
  <2>1. keysAtServer[first + i] \in AccountKeys
    BY <1>3 DEF KeysInv, StoreInv
  <2>2. status[keysAtServer[first + i]] \in {"active", "disabled"}
    BY <1>3, <2>1 DEF KeysInv, StoreInv
  <2> QED
    BY <2>1, <2>2 DEF Row
<1> QED
  BY <1>2, <1>3, <1>4

LEMMA ServeLoadKeeps == ASSUME KeysInv, NEW l \in keyLoads, ServeLoad(l) PROVE TableInv'
<1>1. PICK a \in BOOLEAN :
        keyLoads' = (keyLoads \ {l}) \union
            {[l EXCEPT !.rows = ServerPage(l.page), !.total = Len(keysAtServer),
                       !.access = a, !.done = TRUE]}
  BY DEF ServeLoad
<1> DEFINE read == [l EXCEPT !.rows = ServerPage(l.page), !.total = Len(keysAtServer),
                             !.access = a, !.done = TRUE]
<1>2. l \in Load /\ l.page \in Nat /\ l.page # 0
  BY DEF KeysInv, TableInv, Load
<1>3. ServerPage(l.page) \in Seq(Row) /\ Len(keysAtServer) \in Nat
  BY <1>2, ServerPageIsRows DEF KeysInv, StoreInv
<1>4. read \in Load /\ read.page = l.page
  BY <1>2, <1>3 DEF Load
<1>5. keyLoads' = (keyLoads \ {l}) \union {read}
  BY <1>1
<1> HIDE DEF read
<1> QED
  BY <1>2, <1>4, <1>5 DEF ServeLoad, KeysInv, TableInv

LEMMA LoadAnswerKeeps ==
    ASSUME KeysInv, NEW l \in keyLoads, ShowLoad(l) \/ FailLoad(l)
    PROVE  TableInv' /\ CreateInv'
<1>1. l.rows \in Seq(Row) /\ l.total \in Nat /\ l.access \in BOOLEAN
  BY DEF KeysInv, TableInv, Load
<1>2. TableInv'
  BY <1>1 DEF ShowLoad, FailLoad, KeysInv, TableInv
<1>3. CreateInv'
  BY DEF ShowLoad, FailLoad, KeysInv, CreateInv
<1> QED
  BY <1>2, <1>3

LEMMA ListSteps ==
    ASSUME KeysInv,
           \/ RefreshKeys \/ \E p \in 1..KeyPages : TurnPage(p)
           \/ \E l \in keyLoads : ServeLoad(l) \/ ShowLoad(l) \/ FailLoad(l)
    PROVE  KeysInv'
<1>1. CASE RefreshKeys
  BY <1>1, SendLoadKeeps, StoreQuiet, CreateQuiet, RowsQuiet
     DEF RefreshKeys, KeysInv, TableInv
<1>2. ASSUME NEW p \in 1..KeyPages, TurnPage(p)
      PROVE  KeysInv'
  <2>1. p \in Nat \ {0}
    BY KeyPagesAreNumbers
  <2> QED
    BY <1>2, <2>1, SendLoadKeeps, StoreQuiet, CreateQuiet, RowsQuiet DEF TurnPage, KeysInv
<1>3. ASSUME NEW l \in keyLoads, ServeLoad(l)
      PROVE  KeysInv'
  BY <1>3, ServeLoadKeeps, StoreQuiet, CreateQuiet, RowsQuiet DEF ServeLoad, KeysInv
<1>4. ASSUME NEW l \in keyLoads, ShowLoad(l) \/ FailLoad(l)
      PROVE  KeysInv'
  BY <1>4, LoadAnswerKeeps, StoreQuiet, RowsQuiet DEF ShowLoad, FailLoad, KeysInv
<1> QED
  BY <1>1, <1>2, <1>3, <1>4

-----------------------------------------------------------------------------
(* The dialog that creates a key.                                           *)

\* The server makes a key that it does not list and that was not deleted.
LEMMA ServeCreateKeeps == ASSUME KeysInv, ServeCreate PROVE StoreInv' /\ CreateInv'
<1>1. CASE creating' = "failed" /\ UNCHANGED keysAtServer
  BY <1>1, StoreQuiet DEF ServeCreate, KeysInv, CreateInv, StoreInv
<1>2. ASSUME NEW k \in AccountKeys, \A i \in DOMAIN keysAtServer : keysAtServer[i] # k,
             status[k] # "gone", keysAtServer' = <<k>> \o keysAtServer,
             creating' \in {k, "failed"}
      PROVE  StoreInv' /\ CreateInv'
  <2> DEFINE old == keysAtServer
             n == Len(old)
  <2>1. old \in Seq(AccountKeys) /\ n \in Nat /\ DOMAIN old = 1..n
    BY DEF KeysInv, StoreInv
  <2>2. /\ keysAtServer' \in Seq(AccountKeys) /\ DOMAIN keysAtServer' = 1..(n + 1)
        /\ keysAtServer'[1] = k
        /\ \A i \in 2..(n + 1) : keysAtServer'[i] = old[i - 1] /\ i - 1 \in DOMAIN old
    BY <1>2, <2>1
  <2>3. \A i \in 1..(n + 1) : i = 1 \/ i \in 2..(n + 1)
    BY <2>1
  <2>4. \A i, j \in DOMAIN keysAtServer' : keysAtServer'[i] = keysAtServer'[j] => i = j
    <3> SUFFICES ASSUME NEW i \in 1..(n + 1), NEW j \in 1..(n + 1),
                        keysAtServer'[i] = keysAtServer'[j]
                 PROVE  i = j
      BY <2>2
    <3> HIDE DEF n, old
    <3>1. CASE i = 1 \/ j = 1
      BY <1>2, <2>1, <2>2, <2>3, <3>1 DEF old
    <3>2. CASE i # 1 /\ j # 1
      <4>1. i - 1 = j - 1
        BY <2>2, <2>3, <3>2 DEF KeysInv, StoreInv, old
      <4> QED
        BY <2>1, <4>1
    <3> QED
      BY <3>1, <3>2
  <2>5. \A i \in DOMAIN keysAtServer' : status[keysAtServer'[i]] # "gone"
    BY <1>2, <2>2, <2>3 DEF KeysInv, StoreInv
  <2>6. UNCHANGED <<status, mode, form, created>>
    BY DEF ServeCreate
  <2>7. StoreInv'
    BY <2>2, <2>4, <2>5, <2>6 DEF KeysInv, StoreInv
  <2> QED
    BY <1>2, <2>6, <2>7 DEF KeysInv, CreateInv
<1> QED
  BY <1>1, <1>2 DEF ServeCreate

LEMMA DialogSteps ==
    ASSUME KeysInv,
           \/ OpenForm \/ CloseForm \/ Create \/ ServeCreate \/ ShowCreated \/ FailCreate
           \/ \E m \in {"balance", "subscription"} : PickMode(m)
    PROVE  KeysInv'
<1>1. CASE OpenForm \/ CloseForm \/ Create \/ FailCreate
           \/ \E m \in {"balance", "subscription"} : PickMode(m)
  <2>1. UNCHANGED <<atServer, table, keyPage, rowState>>
    BY <1>1 DEF OpenForm, CloseForm, Create, FailCreate, PickMode
  <2>2. CreateInv'
    BY <1>1 DEF OpenForm, CloseForm, Create, FailCreate, PickMode, KeysInv, CreateInv
  <2> QED
    BY <2>1, <2>2, StoreQuiet, TableQuiet, RowsQuiet DEF KeysInv
<1>2. CASE ServeCreate
  BY <1>2, ServeCreateKeeps, TableQuiet, RowsQuiet DEF ServeCreate, KeysInv
<1>3. CASE ShowCreated
  <2>1. CreateInv'
    BY <1>3 DEF ShowCreated, KeysInv, CreateInv
  <2>2. TableInv'
    <3>1. CASE keyPage = 1
      BY <1>3, <3>1, TableQuiet DEF ShowCreated
    <3>2. CASE keyPage # 1
      BY <1>3, <3>2, SendLoadKeeps DEF ShowCreated
    <3> QED
      BY <3>1, <3>2
  <2> QED
    BY <1>3, <2>1, <2>2, StoreQuiet, RowsQuiet DEF ShowCreated, KeysInv
<1> QED
  BY <1>1, <1>2, <1>3

-----------------------------------------------------------------------------
(* The rows.                                                                *)

LEMMA RowsAreKeys ==
    ASSUME KeysInv
    PROVE  \A i \in DOMAIN list : list[i].key \in AccountKeys
                                   /\ list[i].status \in {"active", "disabled"}
<1>1. \A i \in DOMAIN list : list[i] \in Row
  BY DEF KeysInv, TableInv
<1> QED
  BY <1>1 DEF Row

\* One of the requests, and the answers that no longer await it.
LEMMA SendChangeKeeps ==
    ASSUME KeysInv, NEW op \in {"toggle", "delete"}, NEW k \in AccountKeys,
           NEW to \in {"active", "disabled"}, SendChange(op, k, to), pendingId' = k,
           UNCHANGED <<revealing, revealed>>, toDelete' \in {toDelete, NoRow}
    PROVE  RowsInv'
<1> DEFINE new == [op |-> op, key |-> k, to |-> to, done |-> "sent"]
<1>1. new \in Change /\ new.op # "reveal"
  BY DEF Change
<1>2. changes' = changes \union {new}
  BY DEF SendChange
<1> HIDE DEF new
<1> QED
  BY <1>1, <1>2 DEF KeysInv, RowsInv

LEMMA RevealKeeps ==
    ASSUME KeysInv, NEW k \in AccountKeys, Reveal(k)
    PROVE  RowsInv'
<1> DEFINE new == [op |-> "reveal", key |-> k, to |-> "active", done |-> "sent"]
<1>1. new \in Change /\ new.op = "reveal" /\ new.key = k
  BY DEF Change
<1>2. changes' = changes \union {new} /\ revealing' = k /\ UNCHANGED <<pendingId, revealed, toDelete>>
  BY DEF Reveal, SendChange
<1>3. \A c \in changes : c.op # "reveal"
  <2>1. \A c \in changes : c.key \in AccountKeys
    BY DEF KeysInv, RowsInv, Change
  <2> QED
    BY <2>1, KeysAssumption DEF Reveal, KeysInv, RowsInv
<1> HIDE DEF new
<1> QED
  BY <1>1, <1>2, <1>3 DEF KeysInv, RowsInv

\* A request that was served is the same request.
LEMMA ServedKeeps ==
    ASSUME KeysInv, NEW c \in changes, NEW d \in {"ok", "failed"},
           changes' = (changes \ {c}) \union {[c EXCEPT !.done = d]},
           UNCHANGED <<pendingId, revealing, revealed, toDelete>>
    PROVE  RowsInv'
<1> DEFINE new == [c EXCEPT !.done = d]
<1>1. new \in Change /\ new.op = c.op /\ new.key = c.key
  BY DEF KeysInv, RowsInv, Change
<1>2. changes' = (changes \ {c}) \union {new}
  OBVIOUS
<1> HIDE DEF new
<1> QED
  BY <1>1, <1>2 DEF KeysInv, RowsInv

\* The key that is deleted was listed once.
LEMMA DeletedKeeps ==
    ASSUME KeysInv, NEW k \in AccountKeys, Exists(k), keysAtServer' = KeysWithout(k),
           status' = [status EXCEPT ![k] = "gone"]
    PROVE  StoreInv'
<1> DEFINE old == keysAtServer
           n == Len(old)
           at == CHOOSE i \in DOMAIN old : old[i] = k
           kept(i) == IF i < at THEN i ELSE i + 1
<1>1. old \in Seq(AccountKeys) /\ n \in Nat /\ DOMAIN old = 1..n
  BY DEF KeysInv, StoreInv
<1>2. at \in 1..n /\ old[at] = k
  BY <1>1 DEF Exists
<1>3. keysAtServer' = [i \in 1..(n - 1) |-> old[kept(i)]] /\ n - 1 \in Nat
  BY <1>1, <1>2 DEF KeysWithout
<1> HIDE DEF old, n, at
<1>4. \A i \in 1..(n - 1) : kept(i) \in 1..n /\ kept(i) # at
  BY <1>1, <1>2
<1>5. \A i, j \in 1..(n - 1) : kept(i) = kept(j) => i = j
  BY <1>1, <1>2
<1>6. \A i, j \in 1..n : old[i] = old[j] => i = j
  BY <1>1 DEF KeysInv, StoreInv, old
<1>7. \A i \in 1..n : old[i] \in AccountKeys /\ status[old[i]] # "gone"
  BY <1>1 DEF KeysInv, StoreInv, old
<1> HIDE DEF kept
<1>8. keysAtServer' \in Seq(AccountKeys) /\ DOMAIN keysAtServer' = 1..(n - 1)
  BY <1>3, <1>4, <1>7
<1>9. \A i, j \in 1..(n - 1) : keysAtServer'[i] = keysAtServer'[j] => i = j
  BY <1>3, <1>4, <1>5, <1>6
<1>10. \A i \in 1..(n - 1) : status'[keysAtServer'[i]] # "gone"
  <2>1. \A i \in 1..(n - 1) : keysAtServer'[i] # k /\ status[keysAtServer'[i]] # "gone"
    BY <1>2, <1>3, <1>4, <1>6, <1>7
  <2> QED
    BY <1>3, <1>4, <1>7, <2>1 DEF KeysInv, StoreInv
<1>11. status' \in [AccountKeys -> {"active", "disabled", "gone"}]
  BY DEF KeysInv, StoreInv
<1> QED
  BY <1>8, <1>9, <1>10, <1>11 DEF StoreInv

LEMMA ServeChangeKeeps ==
    ASSUME KeysInv, NEW c \in changes, ServeChange(c)
    PROVE  StoreInv' /\ RowsInv'
<1>1. c.key \in AccountKeys /\ c.to \in {"active", "disabled"} /\ c.op \in {"toggle", "delete", "reveal"}
  BY DEF KeysInv, RowsInv, Change
<1>2. PICK d \in {"ok", "failed"} : changes' = (changes \ {c}) \union {[c EXCEPT !.done = d]}
  BY DEF ServeChange
<1>3. RowsInv'
  BY <1>2, ServedKeeps DEF ServeChange
<1>4. CASE UNCHANGED <<status, keysAtServer>>
  BY <1>3, <1>4, StoreQuiet
<1>5. CASE c.op = "toggle" /\ status' = [status EXCEPT ![c.key] = c.to] /\ UNCHANGED keysAtServer
  <2>1. StoreInv'
    BY <1>1, <1>5 DEF KeysInv, StoreInv
  <2> QED
    BY <1>3, <2>1
<1>6. CASE c.op = "delete" /\ Exists(c.key) /\ status' = [status EXCEPT ![c.key] = "gone"]
           /\ keysAtServer' = KeysWithout(c.key)
  BY <1>1, <1>3, <1>6, DeletedKeeps
<1>7. \/ UNCHANGED <<status, keysAtServer>>
      \/ c.op = "toggle" /\ status' = [status EXCEPT ![c.key] = c.to] /\ UNCHANGED keysAtServer
      \/ c.op = "delete" /\ Exists(c.key) /\ status' = [status EXCEPT ![c.key] = "gone"]
         /\ keysAtServer' = KeysWithout(c.key)
  BY <1>1 DEF ServeChange
<1> QED
  BY <1>4, <1>5, <1>6, <1>7

LEMMA ChangeDoneKeeps ==
    ASSUME KeysInv, NEW c \in changes, ChangeDone(c)
    PROVE  TableInv' /\ RowsInv'
<1>1. c.key \in AccountKeys /\ c.to \in {"active", "disabled"} /\ c.op \in {"toggle", "delete", "reveal"}
  BY DEF KeysInv, RowsInv, Change
<1>2. list' \in Seq(Row)
  <2> DEFINE row(i) == IF list[i].key = c.key THEN [list[i] EXCEPT !.status = c.to] ELSE list[i]
  <2>1. list' = list \/ list' = [i \in DOMAIN list |-> row(i)]
    BY DEF ChangeDone
  <2>2. list \in Seq(Row) /\ Len(list) \in Nat /\ DOMAIN list = 1..Len(list)
    BY DEF KeysInv, TableInv
  <2>3. \A i \in DOMAIN list : row(i) \in Row
    <3> SUFFICES ASSUME NEW i \in DOMAIN list PROVE row(i) \in Row
      OBVIOUS
    <3>1. list[i] \in Row
      BY <2>2
    <3>2. [list[i] EXCEPT !.status = c.to] \in Row
      BY <1>1, <3>1 DEF Row
    <3> QED
      BY <3>1, <3>2
  <2> HIDE DEF row
  <2> QED
    BY <2>1, <2>2, <2>3
<1>3. keyTotal' \in Nat
  BY DEF ChangeDone, KeysInv, TableInv
<1>4. TableInv'
  BY <1>2, <1>3 DEF ChangeDone, KeysInv, TableInv
<1>5. changes' = changes \ {c}
  BY DEF ChangeDone
<1>6. {pendingId', revealing', revealed', toDelete'} \subseteq AccountKeys \union {NoRow}
  BY <1>1 DEF ChangeDone, KeysInv, RowsInv
<1>7. CASE c.op = "reveal"
  <2>1. revealing' = NoRow /\ pendingId' = pendingId
    BY <1>7 DEF ChangeDone
  <2>2. \A d \in changes' : d.op # "reveal"
    BY <1>5, <1>7 DEF KeysInv, RowsInv
  <2> QED
    BY <1>4, <1>5, <1>6, <1>7, <2>1, <2>2 DEF KeysInv, RowsInv
<1>8. CASE c.op # "reveal"
  <2>1. revealing' = revealing /\ pendingId' = NoRow
    BY <1>8 DEF ChangeDone
  <2> QED
    BY <1>4, <1>5, <1>6, <1>8, <2>1 DEF KeysInv, RowsInv
<1> QED
  BY <1>7, <1>8

LEMMA RowSteps ==
    ASSUME KeysInv,
           \/ \E i \in DOMAIN list : Toggle(i)
           \/ \E k \in AccountKeys : Reveal(k) \/ AskDelete(k)
           \/ CancelDelete \/ ConfirmDelete \/ CloseReveal
           \/ \E c \in changes : ServeChange(c) \/ ChangeDone(c)
    PROVE  KeysInv'
<1>1. ASSUME NEW i \in DOMAIN list, Toggle(i)
      PROVE  KeysInv'
  <2>1. list[i].key \in AccountKeys /\ Flip(list[i].status) \in {"active", "disabled"}
    BY RowsAreKeys DEF Flip
  <2>2. RowsInv'
    BY <1>1, <2>1, SendChangeKeeps DEF Toggle
  <2> QED
    BY <1>1, <2>2, StoreQuiet, TableQuiet, CreateQuiet DEF Toggle, KeysInv
<1>2. ASSUME NEW k \in AccountKeys, Reveal(k)
      PROVE  KeysInv'
  BY <1>2, RevealKeeps, StoreQuiet, TableQuiet, CreateQuiet DEF Reveal, KeysInv
<1>3. CASE (\E k \in AccountKeys : AskDelete(k)) \/ CancelDelete \/ CloseReveal
  <2>1. UNCHANGED <<atServer, table, keyPage, createDialog>>
    BY <1>3 DEF AskDelete, CancelDelete, CloseReveal
  <2>2. RowsInv'
    BY <1>3 DEF AskDelete, CancelDelete, CloseReveal, KeysInv, RowsInv
  <2> QED
    BY <2>1, <2>2, StoreQuiet, TableQuiet, CreateQuiet DEF KeysInv
<1>4. CASE ConfirmDelete
  <2>1. toDelete \in AccountKeys
    BY <1>4 DEF ConfirmDelete, KeysInv, RowsInv
  <2>2. RowsInv'
    BY <1>4, <2>1, SendChangeKeeps DEF ConfirmDelete
  <2> QED
    BY <1>4, <2>2, StoreQuiet, TableQuiet, CreateQuiet DEF ConfirmDelete, KeysInv
<1>5. ASSUME NEW c \in changes, ServeChange(c)
      PROVE  KeysInv'
  BY <1>5, ServeChangeKeeps, TableQuiet, CreateQuiet DEF ServeChange, KeysInv
<1>6. ASSUME NEW c \in changes, ChangeDone(c)
      PROVE  KeysInv'
  BY <1>6, ChangeDoneKeeps, StoreQuiet, CreateQuiet DEF ChangeDone, KeysInv
<1> QED
  BY <1>1, <1>2, <1>3, <1>4, <1>5, <1>6

LEMMA KeysKept == ASSUME KeysInv, [KeysNext]_keyVars PROVE KeysInv'
<1>1. CASE UNCHANGED keyVars
  BY <1>1, StoreQuiet, TableQuiet, CreateQuiet, RowsQuiet DEF keyVars, KeysInv
<1> QED
  BY <1>1, ListSteps, DialogSteps, RowSteps DEF KeysNext, KeysAnswer

-----------------------------------------------------------------------------
(* The billing page.                                                        *)

USE DEF orderTable, summary, create, reopen, shownPayment, polling, history

SummaryInv ==
    /\ tab \in {"closed", "balance", "subscription"} /\ summaryLoading \in BOOLEAN
    /\ summaryLoading => tab = "closed" \/ FALSE \in summaryLoads
HistoryInv ==
    /\ historyPage \in 1..HistoryPages /\ historyLoading \in BOOLEAN
    /\ historyLoads \subseteq [page: 1..HistoryPages, silent: BOOLEAN]
    /\ historyLoading => tab = "closed" \/ \E l \in historyLoads : ~l.silent
\* What the page shows, asks about or was answered is an order that was made, so that
\* no answer says that there is none.
PayInv ==
    /\ payingFor \in {"", "balance", "plan"}
    /\ payment \in ListedOrders \union {"idle", "sent", "failed"}
    /\ payingFor # "" <=> payment # "idle"
ReopenInv ==
    /\ reopening \in ListedOrders \union {NoOrder}
    /\ reopenStep \in ListedOrders \union {"idle", "asking", "again", "reload", "failed",
                                           "pending", "paid", "closed"}
    /\ reopening # NoOrder <=> reopenStep # "idle"
ShownInv ==
    /\ order \in {None} \union [id: ListedOrders, status: {"pending", "paid", "closed"}]
    /\ paymentOpen => order # None
PollInv ==
    /\ syncs \subseteq [order: ListedOrders, status: {"asked", "pending", "paid", "closed", "reload"}]
    /\ syncing => syncs # {}
BillingInv ==
    /\ orders \in [Orders -> {"absent", "pending", "paid", "closed"}]
    /\ SummaryInv /\ HistoryInv /\ PayInv /\ ReopenInv /\ ShownInv /\ PollInv

\* No order is one of the words that the steps of a request are named by.
LEMMA OrdersAreNoWords ==
    /\ NoOrder \notin Orders /\ ListedOrders \subseteq Orders
    /\ \A o \in Orders : o \notin {"idle", "sent", "failed", "asking", "again", "reload",
                                   "absent", "pending", "paid", "closed"}
BY BillingAssumption DEF ListedOrders

LEMMA BillingSound == BillingInv => BillingTypeOK /\ BillingFreed
<1> SUFFICES ASSUME BillingInv PROVE BillingTypeOK /\ BillingFreed
  OBVIOUS
<1>1. BillingTypeOK
  BY OrdersAreNoWords
     DEF BillingInv, SummaryInv, HistoryInv, PayInv, ShownInv, BillingTypeOK
<1>2. BillingFreed
  BY DEF BillingInv, SummaryInv, HistoryInv, PayInv, ReopenInv, PollInv, BillingFreed
<1> QED
  BY <1>1, <1>2

LEMMA BillingStart == BillingInit => BillingInv
<1> SUFFICES ASSUME BillingInit PROVE BillingInv
  OBVIOUS
<1>1. 1 \in 1..HistoryPages
  BY BillingAssumption
<1>2. orders \in [Orders -> {"absent", "pending", "paid", "closed"}]
  BY DEF BillingInit
<1>3. SummaryInv /\ HistoryInv
  BY <1>1 DEF BillingInit, SummaryInv, HistoryInv
<1>4. PayInv /\ ReopenInv /\ ShownInv /\ PollInv
  BY DEF BillingInit, PayInv, ReopenInv, ShownInv, PollInv
<1> QED
  BY <1>2, <1>3, <1>4 DEF BillingInv

-----------------------------------------------------------------------------
\* What a step leaves alone it leaves sound, for an order that was made stays made.

LEMMA SummaryQuiet == ASSUME BillingInv, UNCHANGED <<summary, tab>> PROVE SummaryInv'
BY DEF BillingInv, SummaryInv
LEMMA HistoryQuiet == ASSUME BillingInv, UNCHANGED <<history, tab>> PROVE HistoryInv'
BY DEF BillingInv, HistoryInv
LEMMA PayQuiet ==
    ASSUME BillingInv, UNCHANGED create, ListedOrders \subseteq ListedOrders' PROVE PayInv'
BY DEF BillingInv, PayInv
LEMMA ReopenQuiet ==
    ASSUME BillingInv, UNCHANGED reopen, ListedOrders \subseteq ListedOrders' PROVE ReopenInv'
BY DEF BillingInv, ReopenInv
LEMMA ShownQuiet ==
    ASSUME BillingInv, UNCHANGED order, paymentOpen' => paymentOpen,
           ListedOrders \subseteq ListedOrders'
    PROVE  ShownInv'
BY DEF BillingInv, ShownInv
LEMMA PollQuiet ==
    ASSUME BillingInv, UNCHANGED polling, ListedOrders \subseteq ListedOrders' PROVE PollInv'
BY DEF BillingInv, PollInv
LEMMA OrdersQuiet ==
    ASSUME UNCHANGED orders
    PROVE  /\ ListedOrders' = ListedOrders
           /\ BillingInv => orders' \in [Orders -> {"absent", "pending", "paid", "closed"}]
BY DEF ListedOrders, BillingInv

LEMMA StartSummaryKeeps ==
    ASSUME BillingInv, NEW silent \in BOOLEAN, StartSummary(silent),
           tab' \in {"closed", "balance", "subscription"}, tab' = tab \/ silent = FALSE
    PROVE  SummaryInv'
<1>1. summaryLoading' \in BOOLEAN
  BY Zenon DEF StartSummary
<1>2. summaryLoads' = summaryLoads \union {silent}
  BY DEF StartSummary
<1>3. summaryLoading' => summaryLoading \/ silent = FALSE
  BY Zenon DEF StartSummary
<1> QED
  BY <1>1, <1>2, <1>3 DEF BillingInv, SummaryInv

LEMMA StartHistoryKeeps ==
    ASSUME BillingInv, NEW p \in 1..HistoryPages, NEW silent \in BOOLEAN,
           StartHistory(p, silent), tab' = tab \/ silent = FALSE
    PROVE  HistoryInv'
<1> DEFINE new == [page |-> p, silent |-> silent]
<1>1. new \in [page: 1..HistoryPages, silent: BOOLEAN] /\ new.silent = silent
  OBVIOUS
<1>2. historyLoads' = historyLoads \union {new} /\ historyPage' = p
  BY DEF StartHistory
<1>3. historyLoading' \in BOOLEAN
  BY Zenon DEF StartHistory
<1>4. historyLoading' => historyLoading \/ silent = FALSE
  BY Zenon DEF StartHistory
<1> HIDE DEF new
<1>5. historyLoading' => tab' = "closed" \/ \E l \in historyLoads' : ~l.silent
  BY <1>1, <1>2, <1>4 DEF BillingInv, HistoryInv
<1> QED
  BY <1>1, <1>2, <1>3, <1>5 DEF BillingInv, HistoryInv

-----------------------------------------------------------------------------
(* The two lists, and the choice between them.                              *)

LEMMA LoadSteps ==
    ASSUME BillingInv,
           \/ OpenBilling \/ \E p \in 1..HistoryPages : TurnHistory(p)
           \/ \E t \in {"balance", "subscription"} : PickTab(t)
           \/ LoadStep
    PROVE  BillingInv'
<1>1. UNCHANGED <<orderTable, create, reopen, shownPayment, polling>>
  BY DEF OpenBilling, TurnHistory, PickTab, LoadStep, ShowSummary, HistoryAnswer
<1>2. /\ orders' \in [Orders -> {"absent", "pending", "paid", "closed"}]
      /\ PayInv' /\ ReopenInv' /\ ShownInv' /\ PollInv'
  BY <1>1, OrdersQuiet, PayQuiet, ReopenQuiet, ShownQuiet, PollQuiet
<1>3. CASE OpenBilling
  <2>1. 1 \in 1..HistoryPages
    BY BillingAssumption
  <2>2. SummaryInv' /\ HistoryInv'
    BY <1>3, <2>1, StartSummaryKeeps, StartHistoryKeeps DEF OpenBilling
  <2> QED
    BY <1>2, <2>2 DEF BillingInv
<1>4. ASSUME NEW p \in 1..HistoryPages, TurnHistory(p)
      PROVE  BillingInv'
  <2>1. SummaryInv' /\ HistoryInv'
    BY <1>4, SummaryQuiet, StartHistoryKeeps DEF TurnHistory
  <2> QED
    BY <1>2, <2>1 DEF BillingInv
<1>5. ASSUME NEW t \in {"balance", "subscription"}, PickTab(t)
      PROVE  BillingInv'
  <2>1. SummaryInv' /\ HistoryInv'
    BY <1>5 DEF PickTab, BillingInv, SummaryInv, HistoryInv
  <2> QED
    BY <1>2, <2>1 DEF BillingInv
<1>6. ASSUME NEW silent \in BOOLEAN, ShowSummary(silent)
      PROVE  BillingInv'
  <2>1. summaryLoading' \in BOOLEAN
    BY <1>6, Zenon DEF ShowSummary
  <2>2. summaryLoading' => summaryLoading /\ silent
    BY <1>6, Zenon DEF ShowSummary
  <2>3. SummaryInv'
    BY <1>6, <2>1, <2>2 DEF ShowSummary, BillingInv, SummaryInv
  <2> QED
    BY <1>2, <1>6, <2>3, HistoryQuiet DEF ShowSummary, BillingInv
<1>7. ASSUME NEW l \in historyLoads, HistoryAnswer(l)
      PROVE  BillingInv'
  <2>1. historyLoading' \in BOOLEAN
    BY <1>7, Zenon DEF HistoryAnswer
  <2>2. historyLoading' => historyLoading /\ l.silent
    BY <1>7, Zenon DEF HistoryAnswer
  <2>3. l.page \in 1..HistoryPages
    BY DEF BillingInv, HistoryInv
  <2>4. historyLoads' = historyLoads \ {l} /\ historyPage' \in {historyPage, l.page} /\ tab' = tab
    BY <1>7 DEF HistoryAnswer
  <2>5. HistoryInv'
    BY <2>1, <2>2, <2>3, <2>4 DEF BillingInv, HistoryInv
  <2> QED
    BY <1>2, <1>7, <2>5, SummaryQuiet DEF HistoryAnswer, BillingInv
<1> QED
  BY <1>3, <1>4, <1>5, <1>6, <1>7 DEF LoadStep

-----------------------------------------------------------------------------
(* The orders.                                                              *)

LEMMA NewOrderMade ==
    ASSUME BillingInv, NEW o \in Orders, NEW isPlan, NewOrder(o, isPlan)
    PROVE  /\ orders' \in [Orders -> {"absent", "pending", "paid", "closed"}]
           /\ ListedOrders \subseteq ListedOrders' /\ o \in ListedOrders'
BY DEF NewOrder, ListedOrders, BillingInv

LEMMA PaymentSteps ==
    ASSUME BillingInv, StartBalancePayment \/ StartPlanPayment \/ ServePayment \/ ShowPayment
    PROVE  BillingInv'
<1>1. CASE StartBalancePayment \/ StartPlanPayment
  <2>1. UNCHANGED <<orderTable, summary, tab, reopen, shownPayment, polling, history>>
    BY <1>1 DEF StartBalancePayment, StartPlanPayment
  <2>2. PayInv'
    BY <1>1 DEF StartBalancePayment, StartPlanPayment, PayInv
  <2> QED
    BY <2>1, <2>2, OrdersQuiet, SummaryQuiet, HistoryQuiet, ReopenQuiet, ShownQuiet, PollQuiet
       DEF BillingInv
<1>2. CASE ServePayment
  <2>1. /\ UNCHANGED <<summary, tab, payingFor, reopen, shownPayment, polling, history>>
        /\ payingFor # "" /\ payingFor \in {"", "balance", "plan"}
    BY <1>2 DEF ServePayment, BillingInv, PayInv
  <2>2. ASSUME NEW o \in Orders, NewOrder(o, payingFor = "plan"), payment' = o
        PROVE  BillingInv'
    <3>1. /\ orders' \in [Orders -> {"absent", "pending", "paid", "closed"}]
          /\ ListedOrders \subseteq ListedOrders' /\ o \in ListedOrders'
      BY <2>2, NewOrderMade
    <3>2. PayInv'
      BY <2>1, <2>2, <3>1, OrdersAreNoWords DEF PayInv
    <3> QED
      BY <2>1, <3>1, <3>2, SummaryQuiet, HistoryQuiet, ReopenQuiet, ShownQuiet, PollQuiet
         DEF BillingInv
  <2>3. CASE payment' = "failed" /\ UNCHANGED orderTable
    <3>1. PayInv'
      BY <2>1, <2>3 DEF PayInv
    <3> QED
      BY <2>1, <2>3, <3>1, OrdersQuiet, SummaryQuiet, HistoryQuiet, ReopenQuiet, ShownQuiet,
         PollQuiet
         DEF BillingInv
  <2> QED
    BY <1>2, <2>2, <2>3 DEF ServePayment
<1>3. CASE ShowPayment
  <2>1. /\ UNCHANGED <<orderTable, summary, tab, reopen, polling>>
        /\ payingFor' = "" /\ payment' = "idle"
    BY <1>3 DEF ShowPayment
  <2>2. PayInv'
    BY <2>1 DEF PayInv
  <2>3. ShownInv' /\ HistoryInv'
    <3>1. CASE payment = "failed"
      BY <1>3, <2>1, <3>1, OrdersQuiet, ShownQuiet, HistoryQuiet DEF ShowPayment
    <3>2. CASE payment # "failed"
      <4>1. payment \in ListedOrders
        BY <1>3, <3>2 DEF ShowPayment, BillingInv, PayInv
      <4>2. 1 \in 1..HistoryPages /\ FALSE \in BOOLEAN
        BY BillingAssumption
      <4>3. order' = [id |-> payment, status |-> "pending"] /\ StartHistory(1, FALSE)
        BY <1>3, <3>2 DEF ShowPayment
      <4>4. order' # None
        BY <4>1, <4>3, OrdersAreNoWords DEF None
      <4> QED
        BY <2>1, <4>1, <4>2, <4>3, <4>4, OrdersQuiet, StartHistoryKeeps DEF ShownInv
    <3> QED
      BY <3>1, <3>2
  <2> QED
    BY <2>1, <2>2, <2>3, OrdersQuiet, SummaryQuiet, ReopenQuiet, PollQuiet DEF BillingInv
<1> QED
  BY <1>1, <1>2, <1>3

LEMMA ReopenSteps ==
    ASSUME BillingInv,
           ServeReopen \/ ReopenAnswer \/ ReopenEnds \/ \E o \in Orders : Reopen(o)
    PROVE  BillingInv'
<1>1. ASSUME NEW o \in Orders, Reopen(o)
      PROVE  BillingInv'
  <2>1. /\ UNCHANGED <<orderTable, summary, tab, create, shownPayment, polling, history>>
        /\ o \in ListedOrders /\ reopening' = o /\ reopenStep' = "asking"
    BY <1>1 DEF Reopen
  <2>2. ReopenInv'
    BY <2>1, OrdersAreNoWords, OrdersQuiet DEF ReopenInv
  <2> QED
    BY <2>1, <2>2, OrdersQuiet, SummaryQuiet, HistoryQuiet, PayQuiet, ShownQuiet, PollQuiet
       DEF BillingInv
<1>2. CASE ServeReopen
  <2>1. UNCHANGED <<reopening, summary, tab, create, shownPayment, polling, history>>
    BY <1>2 DEF ServeReopen
  <2>2. reopening \in ListedOrders /\ reopening # NoOrder
    BY <1>2, OrdersAreNoWords DEF ServeReopen, BillingInv, ReopenInv
  <2>3. CASE reopenStep' \in {orders[reopening], "failed"} /\ UNCHANGED orderTable
    <3>1. orders[reopening] \in {"pending", "paid", "closed"}
      BY <2>2, OrdersAreNoWords DEF ListedOrders, BillingInv
    <3>2. ReopenInv'
      BY <2>1, <2>2, <2>3, <3>1, OrdersQuiet DEF ReopenInv
    <3> QED
      BY <2>1, <2>3, <3>2, OrdersQuiet, SummaryQuiet, HistoryQuiet, PayQuiet, ShownQuiet,
         PollQuiet
         DEF BillingInv
  <2>4. ASSUME NEW o \in Orders, NewOrder(o, plan[reopening]), reopenStep' = o
        PROVE  BillingInv'
    <3>1. /\ orders' \in [Orders -> {"absent", "pending", "paid", "closed"}]
          /\ ListedOrders \subseteq ListedOrders' /\ o \in ListedOrders'
      BY <2>4, NewOrderMade
    <3>2. ReopenInv'
      BY <2>1, <2>2, <2>4, <3>1, OrdersAreNoWords DEF ReopenInv
    <3> QED
      BY <2>1, <3>1, <3>2, SummaryQuiet, HistoryQuiet, PayQuiet, ShownQuiet, PollQuiet
         DEF BillingInv
  <2> QED
    BY <1>2, <2>3, <2>4 DEF ServeReopen
<1>3. CASE ReopenAnswer
  <2>1. UNCHANGED <<orderTable, tab, create, polling>>
    BY <1>3 DEF ReopenAnswer
  <2>2. /\ orders' \in [Orders -> {"absent", "pending", "paid", "closed"}]
        /\ PayInv' /\ PollInv' /\ ListedOrders' = ListedOrders
    BY <2>1, OrdersQuiet, PayQuiet, PollQuiet
  <2>3. historyPage \in 1..HistoryPages /\ 1 \in 1..HistoryPages
    BY BillingAssumption DEF BillingInv, HistoryInv
  <2>4. CASE reopenStep = "pending"
    <3>1. reopenStep' = "again" /\ UNCHANGED <<reopening, summary, shownPayment, history>>
      BY <1>3, <2>4 DEF ReopenAnswer
    <3>2. ReopenInv'
      BY <2>2, <2>4, <3>1 DEF BillingInv, ReopenInv
    <3> QED
      BY <2>1, <2>2, <3>1, <3>2, SummaryQuiet, HistoryQuiet, ShownQuiet DEF BillingInv
  <2>5. CASE reopenStep \in {"paid", "closed"}
    <3>1. /\ reopenStep' = "reload" /\ StartHistory(historyPage, TRUE)
          /\ UNCHANGED <<reopening, shownPayment>>
          /\ StartSummary(TRUE) \/ UNCHANGED summary
      BY <1>3, <2>5 DEF ReopenAnswer
    <3>2. ReopenInv'
      BY <2>2, <2>5, <3>1 DEF BillingInv, ReopenInv
    <3>3. SummaryInv' /\ HistoryInv'
      <4>1. tab' \in {"closed", "balance", "subscription"} /\ TRUE \in BOOLEAN
        BY <2>1 DEF BillingInv, SummaryInv
      <4> QED
        BY <2>1, <2>3, <3>1, <4>1, StartSummaryKeeps, SummaryQuiet, StartHistoryKeeps
    <3> QED
      BY <2>1, <2>2, <3>1, <3>2, <3>3, ShownQuiet DEF BillingInv
  <2>6. CASE reopenStep = "failed"
    <3>1. /\ reopening' = NoOrder /\ reopenStep' = "idle"
          /\ UNCHANGED <<shownPayment, summary, history>>
      BY <1>3, <2>6 DEF ReopenAnswer
    <3>2. ReopenInv'
      BY <3>1 DEF ReopenInv
    <3> QED
      BY <2>1, <2>2, <3>1, <3>2, SummaryQuiet, HistoryQuiet, ShownQuiet DEF BillingInv
  <2>7. CASE reopenStep \in ListedOrders
    <3>1. reopenStep \notin {"pending", "paid", "closed", "failed"}
      BY <2>7, OrdersAreNoWords
    <3>2. /\ reopening' = NoOrder /\ reopenStep' = "idle"
          /\ order' = [id |-> reopenStep, status |-> "pending"]
          /\ StartHistory(1, TRUE) /\ UNCHANGED summary
      BY <1>3, <3>1 DEF ReopenAnswer
    <3>3. order' # None
      BY <2>7, <3>2, OrdersAreNoWords DEF None
    <3>4. ShownInv'
      BY <2>2, <2>7, <3>2, <3>3 DEF ShownInv
    <3>5. ReopenInv'
      BY <3>2 DEF ReopenInv
    <3>6. HistoryInv'
      <4>1. TRUE \in BOOLEAN
        OBVIOUS
      <4> QED
        BY <2>1, <2>3, <3>2, <4>1, StartHistoryKeeps
    <3> QED
      BY <2>1, <2>2, <3>2, <3>4, <3>5, <3>6, SummaryQuiet DEF BillingInv
  <2> QED
    BY <1>3, <2>4, <2>5, <2>6, <2>7 DEF ReopenAnswer, BillingInv, ReopenInv
<1>4. CASE ReopenEnds
  <2>1. /\ UNCHANGED <<orderTable, summary, tab, create, shownPayment, polling, history>>
        /\ reopening' = NoOrder /\ reopenStep' = "idle"
    BY <1>4 DEF ReopenEnds
  <2>2. ReopenInv'
    BY <2>1 DEF ReopenInv
  <2> QED
    BY <2>1, <2>2, OrdersQuiet, SummaryQuiet, HistoryQuiet, PayQuiet, ShownQuiet, PollQuiet
       DEF BillingInv
<1> QED
  BY <1>1, <1>2, <1>3, <1>4

LEMMA PollSteps ==
    ASSUME BillingInv,
           \/ \E f \in BOOLEAN : Sync(f)
           \/ \E c \in syncs : ServeSync(c) \/ SyncAnswer(c) \/ SyncEnds(c)
           \/ CloseDialog
           \/ \E o \in Orders : Settle(o)
    PROVE  BillingInv'
<1>1. ASSUME NEW f \in BOOLEAN, Sync(f)
      PROVE  BillingInv'
  <2> DEFINE new == [order |-> order.id, status |-> "asked"]
  <2>1. /\ UNCHANGED <<orderTable, summary, tab, create, reopen, shownPayment, history>>
        /\ syncs' = syncs \union {new} /\ order # None
    BY <1>1 DEF Sync
  <2>2. new \in [order: ListedOrders, status: {"asked", "pending", "paid", "closed", "reload"}]
    BY <2>1 DEF BillingInv, ShownInv
  <2> HIDE DEF new
  <2>3. PollInv'
    BY <2>1, <2>2, OrdersQuiet DEF BillingInv, PollInv
  <2> QED
    BY <2>1, <2>3, OrdersQuiet, SummaryQuiet, HistoryQuiet, PayQuiet, ReopenQuiet, ShownQuiet
       DEF BillingInv
<1>2. ASSUME NEW c \in syncs, ServeSync(c)
      PROVE  BillingInv'
  <2> DEFINE new == [c EXCEPT !.status = orders[c.order]]
  <2>1. /\ UNCHANGED <<orderTable, summary, tab, create, reopen, shownPayment, history>>
        /\ syncs' = (syncs \ {c}) \union {new}
    BY <1>2 DEF ServeSync
  <2>2. new \in [order: ListedOrders, status: {"asked", "pending", "paid", "closed", "reload"}]
    <3>1. c \in [order: ListedOrders, status: {"asked", "pending", "paid", "closed", "reload"}]
      BY DEF BillingInv, PollInv
    <3>2. orders[c.order] \in {"pending", "paid", "closed"}
      BY <3>1 DEF ListedOrders, BillingInv
    <3> QED
      BY <3>1, <3>2
  <2> HIDE DEF new
  <2>3. PollInv'
    BY <2>1, <2>2, OrdersQuiet DEF BillingInv, PollInv
  <2> QED
    BY <2>1, <2>3, OrdersQuiet, SummaryQuiet, HistoryQuiet, PayQuiet, ReopenQuiet, ShownQuiet
       DEF BillingInv
<1>3. ASSUME NEW c \in syncs, SyncAnswer(c)
      PROVE  BillingInv'
  <2> DEFINE reload == [c EXCEPT !.status = "reload"]
  <2>1. UNCHANGED <<orderTable, tab, create, reopen, paymentOpen>>
    BY <1>3 DEF SyncAnswer
  <2>2. c \in [order: ListedOrders, status: {"asked", "pending", "paid", "closed", "reload"}]
    BY DEF BillingInv, PollInv
  <2>3. reload \in [order: ListedOrders, status: {"asked", "pending", "paid", "closed", "reload"}]
    BY <2>2
  <2>4. /\ syncs' = (syncs \ {c}) \union (IF c.status = "paid" THEN {reload} ELSE {})
        /\ c.status \in {"pending", "paid", "closed"}
        /\ order' = [id |-> c.order, status |-> c.status]
    BY <1>3, <2>2 DEF SyncAnswer
  <2> HIDE DEF reload
  <2>5. syncing' => c.status = "paid"
    BY <1>3, Zenon DEF SyncAnswer
  <2>6. PollInv'
    BY <2>1, <2>2, <2>3, <2>4, <2>5, OrdersQuiet DEF BillingInv, PollInv
  <2>7. ShownInv'
    <3>1. c.order \in ListedOrders
      BY <2>2
    <3>2. order' # None
      BY <2>4, <3>1, OrdersAreNoWords DEF None
    <3>3. order' \in [id: ListedOrders, status: {"pending", "paid", "closed"}]
      BY <2>4, <3>1
    <3>4. ListedOrders' = ListedOrders
      BY <2>1, OrdersQuiet
    <3> QED
      BY <3>2, <3>3, <3>4 DEF ShownInv
  <2>8. SummaryInv' /\ HistoryInv'
    <3>1. tab' = tab /\ tab \in {"closed", "balance", "subscription"} /\ TRUE \in BOOLEAN
          /\ 1 \in 1..HistoryPages
      BY <2>1, BillingAssumption DEF BillingInv, SummaryInv
    <3>2. \/ StartSummary(TRUE) /\ StartHistory(1, TRUE)
          \/ UNCHANGED <<summary, history>>
      BY <1>3 DEF SyncAnswer
    <3> QED
      BY <3>1, <3>2, StartSummaryKeeps, StartHistoryKeeps, SummaryQuiet, HistoryQuiet
  <2> QED
    BY <2>1, <2>6, <2>7, <2>8, OrdersQuiet, PayQuiet, ReopenQuiet DEF BillingInv
<1>4. ASSUME NEW c \in syncs, SyncEnds(c)
      PROVE  BillingInv'
  <2>1. UNCHANGED <<orderTable, summary, tab, create, reopen, shownPayment, history>>
    BY <1>4 DEF SyncEnds
  <2>2. PollInv'
    BY <1>4, <2>1, OrdersQuiet DEF SyncEnds, BillingInv, PollInv
  <2> QED
    BY <2>1, <2>2, OrdersQuiet, SummaryQuiet, HistoryQuiet, PayQuiet, ReopenQuiet, ShownQuiet
       DEF BillingInv
<1>5. CASE CloseDialog
  <2>1. /\ UNCHANGED <<orderTable, summary, tab, create, reopen, order, polling, history>>
        /\ ~paymentOpen'
    BY <1>5 DEF CloseDialog
  <2> QED
    BY <2>1, OrdersQuiet, SummaryQuiet, HistoryQuiet, PayQuiet, ReopenQuiet, ShownQuiet, PollQuiet
       DEF BillingInv
<1>6. ASSUME NEW o \in Orders, Settle(o)
      PROVE  BillingInv'
  <2>1. /\ orders' \in [Orders -> {"absent", "pending", "paid", "closed"}]
        /\ ListedOrders \subseteq ListedOrders'
    BY <1>6 DEF Settle, ListedOrders, BillingInv
  <2> QED
    BY <1>6, <2>1, SummaryQuiet, HistoryQuiet, PayQuiet, ReopenQuiet, ShownQuiet, PollQuiet
       DEF Settle, BillingInv
<1> QED
  BY <1>1, <1>2, <1>3, <1>4, <1>5, <1>6

LEMMA BillingKept == ASSUME BillingInv, [BillingNext]_billingVars PROVE BillingInv'
<1>1. CASE UNCHANGED billingVars
  BY <1>1, OrdersQuiet, SummaryQuiet, HistoryQuiet, PayQuiet, ReopenQuiet, ShownQuiet, PollQuiet
     DEF billingVars, BillingInv
<1> QED
  BY <1>1, LoadSteps, PaymentSteps, ReopenSteps, PollSteps DEF BillingNext, OrderStep

-----------------------------------------------------------------------------
(* The usage page.                                                          *)

USE DEF shownPart, detailPart, loadPart

\* The days that are asked for are in order and not after today, and the picker has
\* them; a list that was not overtaken is the one that is asked for.
DaysInv ==
    /\ today \in 1..LastDay /\ period \in Periods \union {0}
    /\ asked \in Query /\ asked.from <= asked.to /\ asked.to <= today
    /\ draft \in [word: {"", "x"}, from: 1..LastDay, to: 1..LastDay]
    /\ draft.from = asked.from /\ draft.to = asked.to
ListInv ==
    /\ usageLoads \subseteq Query /\ usageError \in {"", "session", "load"}
    /\ usageLoading => usageLoads # {}
    /\ shownFor \in Query \union {NoQuery} /\ answered \in {"none", "ok", "failed"}
    /\ signedIn /\ ~overtaken =>
          \/ usageLoads = {asked}
          \/ usageLoads = {} /\ (answered = "ok" => shownFor = asked)
DetailInv == exporting \in Query \union {NoQuery} /\ detail \in UsageLog \union {NoLog}
UsageInv == DaysInv /\ ListInv /\ DetailInv

-----------------------------------------------------------------------------
(* What the page makes of its calls.                                        *)

LEMMA LedgerCalls ==
    ASSUME NEW i \in DOMAIN Ledger
    PROVE  Ledger[i] \in UsageLog
BY UsageAssumption

\* The places of the ledger, and so those of a list or a page, are finitely many.
LEMMA PlacesAreFinite ==
    ASSUME NEW S \in SUBSET DOMAIN Ledger
    PROVE  IsFiniteSet(S) /\ Cardinality(S) \in Nat
<1>1. DOMAIN Ledger = 1..Len(Ledger) /\ Len(Ledger) \in Nat
  BY UsageAssumption
<1>2. IsFiniteSet(1..Len(Ledger))
  BY <1>1, FS_Interval
<1>3. IsFiniteSet(S)
  BY <1>1, <1>2, FS_Subset
<1> QED
  BY <1>3, FS_CardinalityType

LEMMA ListsArePlaces ==
    /\ \A q : Passing(q) \subseteq InDays(q) /\ InDays(q) \subseteq DOMAIN Ledger
    /\ UsageRows \subseteq Passing(shownFor) /\ (shownFor = NoQuery => UsageRows = {})
<1>1. \A q : Passing(q) \subseteq InDays(q) /\ InDays(q) \subseteq DOMAIN Ledger
  BY DEF Passing, InDays
<1>2. UsageRows \subseteq Passing(shownFor) /\ (shownFor = NoQuery => UsageRows = {})
  BY DEF UsageRows
<1> QED
  BY <1>1, <1>2

\* A call that ended succeeded or failed, and not both.
LEMMA SummaryAdds ==
    ASSUME NEW S \in SUBSET DOMAIN Ledger, NEW total \in Nat, Cardinality(S) <= total
    PROVE  /\ Summary(S, total).counted = Summary(S, total).success + Summary(S, total).failed
           /\ Summary(S, total).counted <= Summary(S, total).total
<1> DEFINE good == {i \in S : Succeeded(Ledger[i])}
           bad == {i \in S : CountedFailure(Ledger[i])}
           both == {i \in S : Succeeded(Ledger[i]) \/ CountedFailure(Ledger[i])}
<1>1. both = good \cup bad
  OBVIOUS
<1>2. good \cap bad = {}
  BY DEF Succeeded, CountedFailure, Successes, Failures
<1>3. /\ IsFiniteSet(good) /\ IsFiniteSet(bad) /\ IsFiniteSet(both) /\ IsFiniteSet(S)
      /\ Cardinality(good) \in Nat /\ Cardinality(bad) \in Nat /\ Cardinality(both) \in Nat
      /\ Cardinality(S) \in Nat
  BY PlacesAreFinite
<1>4. both \subseteq S
  OBVIOUS
<1>5. /\ Summary(S, total).counted = Cardinality(both) /\ Summary(S, total).total = total
      /\ Summary(S, total).success = Cardinality(good)
      /\ Summary(S, total).failed = Cardinality(bad)
  BY DEF Summary
<1> HIDE DEF good, bad, both
<1>6. Cardinality(good \cup bad) = Cardinality(good) + Cardinality(bad) - Cardinality(good \cap bad)
  BY <1>3, FS_Union
<1>7. Cardinality(both) <= Cardinality(S)
  BY <1>3, <1>4, FS_Subset
<1>8. Cardinality(good \cap bad) = 0
  BY <1>2, FS_EmptySet
<1> QED
  BY <1>1, <1>3, <1>5, <1>6, <1>7, <1>8

LEMMA CardsAdd ==
    Cards.counted = Cards.success + Cards.failed /\ Cards.counted <= Cards.total
<1> DEFINE Adds(x) == x.counted = x.success + x.failed /\ x.counted <= x.total
<1>1. CASE shownFor = NoQuery
  <2>1. Cardinality({}) = 0 /\ 0 \in Nat /\ {} \in SUBSET DOMAIN Ledger
    BY FS_EmptySet
  <2>2. Adds(Summary({}, 0))
    BY <2>1, SummaryAdds
  <2> QED
    BY <1>1, <2>2 DEF Cards
<1>2. CASE shownFor # NoQuery /\ summarised
  <2>1. InDays(shownFor) \in SUBSET DOMAIN Ledger
    BY ListsArePlaces
  <2>2. Adds(Summary(InDays(shownFor), Cardinality(InDays(shownFor))))
    BY <2>1, PlacesAreFinite, SummaryAdds
  <2> QED
    BY <1>2, <2>2 DEF Cards
<1>3. CASE shownFor # NoQuery /\ ~summarised
  <2>1. /\ Passing(shownFor) \in SUBSET DOMAIN Ledger /\ UsageRows \in SUBSET DOMAIN Ledger
        /\ UsageRows \subseteq Passing(shownFor)
    BY ListsArePlaces
  <2>2. Cardinality(UsageRows) <= Cardinality(Passing(shownFor))
    BY <2>1, PlacesAreFinite, FS_Subset
  <2>3. UsageTotal = Cardinality(Passing(shownFor)) /\ UsageTotal \in Nat
    BY <1>3, <2>1, PlacesAreFinite DEF UsageTotal
  <2>4. Adds(Summary(UsageRows, UsageTotal))
    BY <2>1, <2>2, <2>3, SummaryAdds
  <2> QED
    BY <1>3, <2>4 DEF Cards
<1> QED
  BY <1>1, <1>2, <1>3

LEMMA CallsDoAgree == CallsAgree
<1>1. ASSUME NEW c \in UsageLog
      PROVE  /\ CountedFailure(c) => Tone(c) # "success" /\ ResponseOf(c).kind # "images"
             /\ Tone(c) = "success" => Succeeded(c)
             /\ DurationTone(c) # "--" => Succeeded(c) \/ CountedFailure(c)
  <2>1. c.status \in Successes \union Failures \union {"processing", "queued"}
    BY DEF UsageLog
  <2>2. CountedFailure(c) => ~Succeeded(c)
    BY DEF CountedFailure, Succeeded, Failures, Successes
  <2>3. Tone(c) = "success" <=> Succeeded(c)
    BY <2>1 DEF Tone, Succeeded, Successes, Failures
  <2>4. CountedFailure(c) => ResponseOf(c).kind \in {"recorded", "error"}
    BY DEF CountedFailure, ResponseOf
  <2>5. DurationTone(c) # "--" => Succeeded(c) \/ CountedFailure(c)
    BY DEF DurationTone, CountedFailure, Succeeded, Successes, Failures
  <2> QED
    BY <2>2, <2>3, <2>4, <2>5
<1>2. \A i \in UsageRows : Ledger[i] \in UsageLog
  BY ListsArePlaces, LedgerCalls
<1> QED
  BY <1>1, <1>2, CardsAdd DEF CallsAgree

LEMMA UsageSound == UsageInv => UsageTypeOK /\ UsageFreed
<1> SUFFICES ASSUME UsageInv PROVE UsageTypeOK /\ UsageFreed
  OBVIOUS
<1>1. UsageTypeOK
  BY DEF UsageInv, DaysInv, ListInv, DetailInv, UsageTypeOK
<1>2. UsageFreed
  BY CallsDoAgree DEF UsageInv, DaysInv, ListInv, UsageFreed
<1> QED
  BY <1>1, <1>2

-----------------------------------------------------------------------------
(* The steps.                                                               *)

LEMMA UsageStart == UsageInit => UsageInv
<1> SUFFICES ASSUME UsageInit PROVE UsageInv
  OBVIOUS
<1>1. 1 \in 1..LastDay /\ 1 \in Nat \ {0} /\ FirstSize \in Sizes /\ 1 \in Periods
  BY UsageAssumption
<1>2. asked \in Query /\ asked.from = 1 /\ asked.to = 1
  BY <1>1 DEF UsageInit, Query, StatusFilters
<1>3. draft \in [word: {"", "x"}, from: 1..LastDay, to: 1..LastDay] /\ draft.from = 1 /\ draft.to = 1
  BY <1>1 DEF UsageInit
<1>4. DaysInv
  <2>1. today = 1 /\ period = 1
    BY DEF UsageInit
  <2>2. today \in 1..LastDay /\ period \in Periods \union {0}
    BY <1>1, <2>1
  <2>3. asked.from <= asked.to /\ asked.to <= today
    BY <1>2, <2>1
  <2> QED
    BY <1>2, <1>3, <2>2, <2>3 DEF DaysInv
<1>5. ListInv
  BY <1>2 DEF UsageInit, ListInv
<1>6. DetailInv
  BY DEF UsageInit, DetailInv
<1> QED
  BY <1>4, <1>5, <1>6 DEF UsageInv

\* What a step leaves alone it leaves sound.
LEMMA DaysQuiet == ASSUME UsageInv, UNCHANGED <<today, period, asked, draft>> PROVE DaysInv'
BY DEF UsageInv, DaysInv
LEMMA ListQuiet ==
    ASSUME UsageInv, UNCHANGED <<asked, loadPart, shownPart>>, signedIn' => signedIn
    PROVE  ListInv'
BY DEF UsageInv, ListInv
LEMMA DetailQuiet == ASSUME UsageInv, UNCHANGED <<exporting, detail>> PROVE DetailInv'
BY DEF UsageInv, DetailInv

LEMMA DaysAreNumbers ==
    /\ \A d \in 1..LastDay : d \in Int /\ 1 <= d /\ d <= LastDay
    /\ \A c, d \in 1..LastDay : c <= d => ~(c > d)
    /\ \A c, d \in 1..LastDay : d < LastDay /\ c <= d => d + 1 \in 1..LastDay /\ c <= d + 1
BY UsageAssumption

\* A query of other days, another page or another filter is a query.
LEMMA QueryOf ==
    ASSUME NEW q \in Query, NEW p \in Nat \ {0}
    PROVE  /\ \A a, b \in 1..LastDay : [q EXCEPT !.page = p, !.from = a, !.to = b] \in Query
           /\ \A s \in StatusFilters : [q EXCEPT !.page = p, !.status = s] \in Query
           /\ \A n \in Sizes : [q EXCEPT !.page = p, !.size = n] \in Query
           /\ \A w \in {"", "x"}, a, b \in 1..LastDay :
                 [q EXCEPT !.page = p, !.word = w, !.from = a, !.to = b] \in Query
           /\ [q EXCEPT !.page = p] \in Query
BY DEF Query

LEMMA AskedIsQuery == ASSUME UsageInv PROVE asked \in Query /\ 1 \in Nat \ {0}
<1>1. asked \in Query
  BY DEF UsageInv, DaysInv
<1> QED
  BY <1>1

LEMMA LoadUsageKeeps ==
    ASSUME UsageInv, NEW q \in Query, LoadUsage(q), asked' = q, UNCHANGED <<signedIn, shownPart>>
    PROVE  ListInv'
<1>1. CASE signedIn
  <2>1. usageLoads' = usageLoads \union {q} /\ usageError' = "" /\ overtaken' = (usageLoads # {})
    BY <1>1 DEF LoadUsage
  <2>2. ~overtaken' => usageLoads' = {asked'}
    BY <2>1
  <2> QED
    BY <2>1, <2>2 DEF UsageInv, ListInv
<1>2. CASE ~signedIn
  BY <1>2 DEF LoadUsage, UsageInv, ListInv
<1> QED
  BY <1>1, <1>2

LEMMA AskKeeps ==
    ASSUME UsageInv, NEW q \in Query, NEW error \in {"", "session", "load"}, Ask(q, error),
           UNCHANGED <<signedIn, shownPart>>
    PROVE  ListInv' /\ asked' = q
<1>1. asked' = q
  BY DEF Ask
<1>2. CASE q = asked
  BY <1>2 DEF Ask, UsageInv, ListInv
<1>3. CASE q # asked
  BY <1>1, <1>3, LoadUsageKeeps DEF Ask
<1> QED
  BY <1>1, <1>2, <1>3

\* The buttons that choose days: both the query and the picker take them.
LEMMA DaysChosen ==
    ASSUME UsageInv, NEW a \in 1..LastDay, NEW b \in 1..LastDay, a <= b, b <= today,
           period' \in Periods \union {0}, draft' = [draft EXCEPT !.from = a, !.to = b],
           Ask([asked EXCEPT !.page = 1, !.from = a, !.to = b], usageError),
           UNCHANGED <<today, signedIn, shownPart, exporting, detailPart>>
    PROVE  UsageInv'
<1> DEFINE q == [asked EXCEPT !.page = 1, !.from = a, !.to = b]
<1>1. q \in Query /\ q.from = a /\ q.to = b
  <2>1. q \in Query
    BY AskedIsQuery, QueryOf
  <2> QED
    BY <2>1, AskedIsQuery DEF Query
<1>2. usageError \in {"", "session", "load"}
  BY DEF UsageInv, ListInv
<1> HIDE DEF q
<1>3. ListInv' /\ asked' = q
  BY <1>1, <1>2, AskKeeps DEF q
<1>4. draft' \in [word: {"", "x"}, from: 1..LastDay, to: 1..LastDay] /\ draft'.from = a /\ draft'.to = b
  BY DEF UsageInv, DaysInv
<1>5. DaysInv'
  BY <1>1, <1>3, <1>4 DEF UsageInv, DaysInv
<1> QED
  BY <1>3, <1>5, DetailQuiet DEF UsageInv

LEMMA SelectPeriodKeeps == ASSUME UsageInv, NEW d \in Periods, SelectPeriod(d) PROVE UsageInv'
<1> DEFINE a == IF d > today THEN 1 ELSE today - d + 1
<1>1. d \in Nat /\ d # 0 /\ today \in 1..LastDay /\ LastDay \in Nat
  BY UsageAssumption DEF UsageInv, DaysInv
<1>2. a \in 1..LastDay /\ a <= today /\ today <= today
  BY <1>1
<1>3. PeriodRange(d) = <<a, today>>
  BY DEF PeriodRange
<1>4. PeriodRange(d)[1] = a /\ PeriodRange(d)[2] = today
  BY <1>3
<1> HIDE DEF a
<1>5. /\ period' \in Periods \union {0} /\ draft' = [draft EXCEPT !.from = a, !.to = today]
      /\ Ask([asked EXCEPT !.page = 1, !.from = a, !.to = today], usageError)
      /\ UNCHANGED <<today, signedIn, shownPart, exporting, detailPart>>
  BY <1>4 DEF SelectPeriod
<1> QED
  BY <1>1, <1>2, <1>5, DaysChosen

\* A query that keeps its days.
LEMMA FilterKeeps ==
    ASSUME UsageInv, NEW q \in Query, q.from = asked.from, q.to = asked.to,
           Ask(q, usageError),
           UNCHANGED <<today, signedIn, draft, period, shownPart, exporting, detailPart>>
    PROVE  UsageInv'
<1>1. usageError \in {"", "session", "load"}
  BY DEF UsageInv, ListInv
<1>2. ListInv' /\ asked' = q
  BY <1>1, AskKeeps
<1> QED
  BY <1>2 DEF UsageInv, DaysInv, DetailInv

LEMMA FilterSteps ==
    ASSUME UsageInv,
           \/ \E s \in StatusFilters : FilterStatus(s)
           \/ \E n \in Sizes : FilterSize(n)
           \/ \E p \in 1..UsagePages : TurnUsagePage(p)
    PROVE  UsageInv'
<1>1. asked \in Query /\ 1 \in Nat \ {0}
  BY AskedIsQuery
<1>2. ASSUME NEW s \in StatusFilters, FilterStatus(s)
      PROVE  UsageInv'
  <2> DEFINE q == [asked EXCEPT !.page = 1, !.status = s]
  <2>1. q \in Query /\ q.from = asked.from /\ q.to = asked.to
    BY <1>1 DEF Query
  <2> HIDE DEF q
  <2> QED
    BY <1>2, <2>1, FilterKeeps DEF FilterStatus, q
<1>3. ASSUME NEW n \in Sizes, FilterSize(n)
      PROVE  UsageInv'
  <2> DEFINE q == [asked EXCEPT !.page = 1, !.size = n]
  <2>1. q \in Query /\ q.from = asked.from /\ q.to = asked.to
    BY <1>1 DEF Query
  <2> HIDE DEF q
  <2> QED
    BY <1>3, <2>1, FilterKeeps DEF FilterSize, q
<1>4. ASSUME NEW p \in 1..UsagePages, TurnUsagePage(p)
      PROVE  UsageInv'
  <2> DEFINE q == [asked EXCEPT !.page = p]
  <2>1. p \in Nat \ {0}
    <3>1. UsageTotal \in Nat
      BY ListsArePlaces, PlacesAreFinite DEF UsageTotal
    <3>2. asked.size \in Nat /\ asked.size # 0
      BY <1>1, UsageAssumption DEF Query
    <3>3. UsagePages \in Int
      BY <3>1, <3>2 DEF UsagePages
    <3> QED
      BY <3>3
  <2>2. q \in Query /\ q.from = asked.from /\ q.to = asked.to
    BY <1>1, <2>1 DEF Query
  <2> HIDE DEF q
  <2> QED
    BY <1>4, <2>2, FilterKeeps DEF TurnUsagePage, q
<1> QED
  BY <1>2, <1>3, <1>4

\* The days of the picker are in order, so that the filters are always applied.
LEMMA ApplyFiltersKeeps == ASSUME UsageInv, ApplyFilters PROVE UsageInv'
<1> DEFINE q == [asked EXCEPT !.page = 1, !.word = draft.word, !.from = draft.from, !.to = draft.to]
<1>1. /\ draft.word \in {"", "x"} /\ draft.from \in 1..LastDay /\ draft.to \in 1..LastDay
      /\ draft.from <= draft.to /\ draft.to <= today
      /\ today \in 1..LastDay /\ LastDay \in Nat
  BY UsageAssumption DEF UsageInv, DaysInv
<1>2. q \in Query /\ q.from = draft.from /\ q.to = draft.to
  <2>1. q \in Query
    BY <1>1, AskedIsQuery, QueryOf
  <2> QED
    BY <2>1, AskedIsQuery DEF Query
<1> HIDE DEF q
<1>3. ~(draft.from > draft.to \/ draft.to > today)
  <2>1. ~(draft.from > draft.to)
    BY <1>1, DaysAreNumbers
  <2>2. ~(draft.to > today)
    BY <1>1, DaysAreNumbers
  <2> QED
    BY <2>1, <2>2
<1>4. Ask(q, "") /\ period' = 0
  BY <1>3 DEF ApplyFilters, q
<1>5. UNCHANGED <<today, signedIn, draft, shownPart, exporting, detailPart>>
  BY DEF ApplyFilters
<1>6. ListInv' /\ asked' = q
  BY <1>2, <1>4, <1>5, AskKeeps
<1> QED
  BY <1>2, <1>4, <1>5, <1>6 DEF UsageInv, DaysInv, DetailInv

LEMMA AnswerSteps ==
    ASSUME UsageInv, NEW q \in usageLoads, UsageAnswer(q) \/ UsageFails(q)
    PROVE  UsageInv'
<1>1. /\ usageLoads' = usageLoads \ {q} /\ usageLoading' = FALSE
      /\ UNCHANGED <<today, signedIn, asked, draft, period, overtaken, exporting, detailPart>>
  BY DEF UsageAnswer, UsageFails
<1>2. q \in Query
  BY DEF UsageInv, ListInv
<1>3. ASSUME signedIn, ~overtaken
      PROVE  q = asked /\ usageLoads' = {}
  <2>1. usageLoads = {asked}
    BY <1>3 DEF UsageInv, ListInv
  <2> QED
    BY <1>1, <2>1
<1>4. \/ shownFor' = q /\ answered' = "ok" /\ usageError' = usageError
      \/ shownFor' = shownFor /\ answered' = "failed" /\ usageError' = "load"
  BY DEF UsageAnswer, UsageFails
<1>5. ListInv'
  BY <1>1, <1>2, <1>3, <1>4 DEF UsageInv, ListInv
<1> QED
  BY <1>1, <1>5, DaysQuiet, DetailQuiet DEF UsageInv

LEMMA DetailSteps ==
    ASSUME UsageInv,
           \/ \E w \in {"", "x"} : TypeKeyword(w)
           \/ ExportUsage \/ ExportDone \/ \E i \in UsageRows : OpenDetail(i)
           \/ \E t \in {"request", "response"} : SwitchTab(t)
           \/ CopyParameters \/ CloseDetail \/ Midnight \/ SignOut
    PROVE  UsageInv'
<1>1. ASSUME NEW w \in {"", "x"}, TypeKeyword(w)
      PROVE  UsageInv'
  <2>1. /\ draft' \in [word: {"", "x"}, from: 1..LastDay, to: 1..LastDay]
        /\ draft'.from = draft.from /\ draft'.to = draft.to
    BY <1>1 DEF TypeKeyword, UsageInv, DaysInv
  <2> QED
    <3>1. UNCHANGED <<today, signedIn, asked, period, loadPart, shownPart, exporting, detailPart>>
      BY <1>1 DEF TypeKeyword
    <3>2. DaysInv'
      BY <2>1, <3>1 DEF UsageInv, DaysInv
    <3> QED
      BY <3>1, <3>2, ListQuiet, DetailQuiet DEF UsageInv
<1>2. CASE ExportUsage \/ ExportDone \/ (\E t \in {"request", "response"} : SwitchTab(t))
           \/ CopyParameters \/ CloseDetail \/ SignOut
  <2>1. UNCHANGED <<today, asked, draft, period, loadPart, shownPart>>
    BY <1>2 DEF ExportUsage, ExportDone, SwitchTab, CopyParameters, CloseDetail, SignOut
  <2>2. signedIn' => signedIn
    BY <1>2 DEF ExportUsage, ExportDone, SwitchTab, CopyParameters, CloseDetail, SignOut
  <2>3. exporting' \in {exporting, asked, NoQuery} /\ detail' \in {detail, NoLog}
    BY <1>2 DEF ExportUsage, ExportDone, SwitchTab, CopyParameters, CloseDetail, SignOut
  <2>4. DetailInv'
    BY <2>3, AskedIsQuery DEF UsageInv, DetailInv
  <2> QED
    BY <2>1, <2>2, <2>4, DaysQuiet, ListQuiet DEF UsageInv
<1>3. ASSUME NEW i \in UsageRows, OpenDetail(i)
      PROVE  UsageInv'
  <2>1. detail' \in UsageLog
    BY <1>3, ListsArePlaces, LedgerCalls DEF OpenDetail
  <2> QED
    <3>1. UNCHANGED <<today, signedIn, asked, draft, period, loadPart, shownPart, exporting>>
      BY <1>3 DEF OpenDetail
    <3>2. DetailInv'
      BY <2>1, <3>1 DEF UsageInv, DetailInv
    <3> QED
      BY <3>1, <3>2, DaysQuiet, ListQuiet DEF UsageInv
<1>4. CASE Midnight
  <2>1. today' \in 1..LastDay /\ asked.to <= today'
    <3>1. today \in 1..LastDay /\ asked.to <= today
      BY DEF UsageInv, DaysInv
    <3>2. asked.to \in 1..LastDay
      BY AskedIsQuery DEF Query
    <3>3. today < LastDay /\ today' = today + 1
      BY <1>4 DEF Midnight
    <3> QED
      BY <3>1, <3>2, <3>3, DaysAreNumbers
  <2> QED
    <3>1. UNCHANGED <<signedIn, asked, draft, period, loadPart, shownPart, exporting, detailPart>>
      BY <1>4 DEF Midnight
    <3>2. DaysInv'
      BY <2>1, <3>1 DEF UsageInv, DaysInv
    <3> QED
      BY <3>1, <3>2, ListQuiet, DetailQuiet DEF UsageInv
<1> QED
  BY <1>1, <1>2, <1>3, <1>4

LEMMA UsageKept == ASSUME UsageInv, [UsageNext]_usageVars PROVE UsageInv'
<1>1. CASE UNCHANGED usageVars
  BY <1>1 DEF usageVars, UsageInv, DaysInv, ListInv, DetailInv
<1>2. ASSUME NEW a \in 1..LastDay, NEW b \in 1..LastDay, PickDays(a, b)
      PROVE  UsageInv'
  BY <1>2, DaysChosen DEF PickDays
<1>3. CASE RefreshUsage
  <2>1. asked \in Query
    BY DEF UsageInv, DaysInv
  <2>2. ListInv'
    BY <1>3, <2>1, LoadUsageKeeps DEF RefreshUsage
  <2> QED
    BY <1>3, <2>2 DEF RefreshUsage, UsageInv, DaysInv, DetailInv
<1> QED
  BY <1>1, <1>2, <1>3, SelectPeriodKeeps, FilterSteps, ApplyFiltersKeeps, AnswerSteps, DetailSteps
     DEF UsageNext

-----------------------------------------------------------------------------
(* The pages of an account.                                                 *)

USE DEF challengePart, riskServer, joinPart, linkPart, passwordPart, emailPart, settingsPart

Pending == {"sent", "ok", "failed"}
EmailForm == [email: {"", "mine", "next"}, password: {"", "current", "new"}]

\* One wait runs at most, that of the challenge the page has; a challenge is not spent
\* while the form may still send it, and its wait is over when the form sends it.
ChallengeInv ==
    /\ issued \in 0..MaxChallenges /\ spent \subseteq 1..issued /\ waited \subseteq 1..issued
    /\ timers \subseteq 1..issued /\ timerRef \in timers \union {0} /\ timers \subseteq {timerRef}
    /\ asking \in {"sent", "numbered", "free", "failed", "idle", "none"}
    /\ challenge \in 0..issued \union {FreeChallenge}
    /\ asking # "idle" => timers = {} /\ ~challengeReady
    /\ asking = "numbered" => issued # 0 /\ issued \notin spent
    /\ asking = "idle" => /\ challenge # 0 /\ timers \subseteq {challenge}
                          /\ Free \/ challengeReady \/ timers # {}
                          /\ challengeReady /\ ~Free => challenge \in waited
JoinInv ==
    /\ availability \in {"loading", "open", "closed"} /\ joined \in {"form", "verify", "dashboard"}
    /\ joining \in {"idle", "sent", "failed", "verify", "session", "again"}
    /\ joining \in {"sent", "failed", "verify", "session"} => asking = "idle"
    /\ joining = "sent" => joined = "form" /\ (Free \/ challengeReady)
    /\ joined = "form" /\ joining \in {"idle", "sent"} /\ asking = "idle" => challenge \notin spent
    /\ ~tooEarly
\* The link is tried once; a password that is asked for is a password.
LinkInv ==
    /\ link \in [status: {"loading", "success", "error"}, tried: BOOLEAN, token: BOOLEAN, calls: {0, 1}]
    /\ ~link.tried => link.calls = 0
    /\ link.status = "loading" => link.calls = 1 \/ ~link.tried
    /\ reset \in [step: {"idle"} \union Pending, complete: BOOLEAN, token: BOOLEAN,
                  password: Passwords \union {""}]
    /\ reset.step = "sent" => reset.password \in Passwords
\* What was typed, is being saved and was answered is what the account may become.
SettingsInv ==
    /\ account \in [password: Passwords, pending: {"none", "next"}, used: BOOLEAN]
    /\ fields \in PasswordForms \union {Empty}
    /\ saving \in [step: {"idle"} \union Pending, form: PasswordForms \union {Empty}]
    /\ saving.step = "sent" => saving.form \in PasswordForms
    /\ emailFields \in EmailForm
    /\ emailSaving \in [step: {"idle"} \union Pending, form: EmailForm]
    /\ emailSaving.step # "idle" => emailSaving.form.email = "next" /\ emailRequest = "none"
    /\ emailSaving.step = "ok" => account.pending = "next"
    /\ emailRequest \in {"none", account.pending}
AccountInv == ChallengeInv /\ JoinInv /\ LinkInv /\ SettingsInv

LEMMA AccountSound == AccountInv => AccountTypeOK /\ AccountFreed
<1> SUFFICES ASSUME AccountInv PROVE AccountTypeOK /\ AccountFreed
  OBVIOUS
<1>1. AccountTypeOK
  <2>1. account.password \in Passwords /\ account.pending \in {"none", "next"}
    BY DEF AccountInv, SettingsInv
  <2>2. emailFields.email \in {"", "mine", "next"}
    BY DEF AccountInv, SettingsInv, EmailForm
  <2> QED
    BY <2>1, <2>2 DEF AccountInv, ChallengeInv, JoinInv, SettingsInv, AccountTypeOK
<1>2. JoinFreed
  <2> SUFFICES ASSUME RegistrationShows = "form", ~CanJoin, asking = "idle", joining = "idle",
                      timers = {}
               PROVE  FALSE
    BY DEF JoinFreed
  <2> QED
    BY DEF AccountInv, ChallengeInv, CanJoin
<1>3. link.calls <= 1
  <2>1. link.calls \in {0, 1}
    BY DEF AccountInv, LinkInv
  <2> QED
    BY <2>1
<1> QED
  BY <1>1, <1>2, <1>3 DEF AccountInv, JoinInv, LinkInv, SettingsInv, AccountFreed, ChallengeHonoured

LEMMA AccountStart == AccountInit => AccountInv
<1> SUFFICES ASSUME AccountInit PROVE AccountInv
  OBVIOUS
<1>1. ChallengeInv
  <2>1. 0 \in 0..MaxChallenges /\ 0 \in 0..0
    BY AccountAssumption
  <2>2. issued = 0 /\ spent = {} /\ waited = {} /\ timers = {} /\ timerRef = 0
        /\ asking = "sent" /\ challenge = 0
    BY DEF AccountInit
  <2>3. ~challengeReady
    BY DEF AccountInit
  <2> QED
    BY <2>1, <2>2, <2>3 DEF ChallengeInv
<1>2. JoinInv
  BY DEF AccountInit, JoinInv
<1>3. LinkInv
  <2>1. /\ link \in [status: {"loading", "success", "error"}, tried: BOOLEAN, token: BOOLEAN,
                      calls: {0, 1}]
        /\ link.calls = 0 /\ ~link.tried
    <3>1. CASE link = [status |-> "loading", tried |-> FALSE, token |-> TRUE, calls |-> 0]
      BY <3>1
    <3>2. CASE link = [status |-> "error", tried |-> FALSE, token |-> FALSE, calls |-> 0]
      BY <3>2
    <3> QED
      BY <3>1, <3>2 DEF AccountInit
  <2>2. reset = [step |-> "idle", complete |-> FALSE, token |-> link.token, password |-> ""]
    BY DEF AccountInit
  <2>3. link.token \in BOOLEAN
    BY <2>1
  <2>4. /\ reset \in [step: {"idle"} \union Pending, complete: BOOLEAN, token: BOOLEAN,
                       password: Passwords \union {""}]
        /\ reset.step = "idle"
    BY <2>2, <2>3
  <2> QED
    BY <2>1, <2>4 DEF LinkInv
<1>4. SettingsInv
  BY DEF AccountInit, SettingsInv, Passwords, EmailForm, Pending, Empty, NoEmail
<1> QED
  BY <1>1, <1>2, <1>3, <1>4 DEF AccountInv

-----------------------------------------------------------------------------
\* What a step leaves alone it leaves sound.

LEMMA ChallengeQuiet ==
    ASSUME AccountInv, UNCHANGED <<issued, spent, challengePart>> PROVE ChallengeInv'
BY DEF AccountInv, ChallengeInv, Free
LEMMA JoinQuiet ==
    ASSUME AccountInv, UNCHANGED <<spent, challenge, asking, challengeReady, joinPart>> PROVE JoinInv'
BY DEF AccountInv, JoinInv, Free
LEMMA LinkQuiet == ASSUME AccountInv, UNCHANGED <<link, reset>> PROVE LinkInv'
BY DEF AccountInv, LinkInv
LEMMA SettingsQuiet ==
    ASSUME AccountInv, UNCHANGED <<account, passwordPart, emailPart>> PROVE SettingsInv'
BY DEF AccountInv, SettingsInv

-----------------------------------------------------------------------------
(* The registration.                                                        *)

\* The number of a challenge is not the one that stands for no challenge.
LEMMA ChallengesAreNumbers ==
    ASSUME AccountInv
    PROVE  /\ issued \in Nat /\ issued <= MaxChallenges /\ MaxChallenges \in Nat
           /\ FreeChallenge \notin 0..issued /\ FreeChallenge # 0
BY AccountAssumption DEF AccountInv, ChallengeInv, FreeChallenge

LEMMA ServeChallengeKeeps == ASSUME AccountInv, ServeChallenge PROVE ChallengeInv' /\ JoinInv'
<1>1. /\ asking = "sent" /\ timers = {} /\ ~challengeReady
      /\ UNCHANGED <<spent, challenge, challengeReady, timers, timerRef, waited, joinPart>>
  BY DEF ServeChallenge, AccountInv, ChallengeInv
<1>2. JoinInv'
  BY <1>1 DEF ServeChallenge, AccountInv, JoinInv
<1>3. CASE asking' \in {"free", "failed"} /\ UNCHANGED issued
  BY <1>1, <1>2, <1>3 DEF AccountInv, ChallengeInv
<1>4. CASE issued < MaxChallenges /\ issued' = issued + 1 /\ asking' = "numbered"
  <2>1. /\ issued' \in 0..MaxChallenges /\ issued' # 0 /\ issued' \notin 1..issued
        /\ 1..issued \subseteq 1..issued' /\ 0..issued \subseteq 0..issued'
    BY <1>4, ChallengesAreNumbers
  <2> QED
    BY <1>1, <1>2, <1>4, <2>1 DEF AccountInv, ChallengeInv
<1> QED
  BY <1>3, <1>4 DEF ServeChallenge

LEMMA ChallengeAnswerKeeps == ASSUME AccountInv, ChallengeAnswer PROVE ChallengeInv' /\ JoinInv'
<1>1. /\ asking \in {"numbered", "free", "failed"} /\ timers = {} /\ ~challengeReady
      /\ UNCHANGED <<issued, spent, waited, availability, joined, tooEarly>>
      /\ joining \notin {"sent", "failed", "verify", "session"}
  BY DEF ChallengeAnswer, AccountInv, ChallengeInv, JoinInv
<1>2. joining' \in {"idle", "again"}
  <2>1. joining' = IF joining = "again" THEN "idle" ELSE joining
    BY DEF ChallengeAnswer
  <2> QED
    BY <1>1, <2>1 DEF AccountInv, JoinInv
<1>3. FreeChallenge \notin spent
  <2>1. 1..issued \subseteq 0..issued
    BY ChallengesAreNumbers
  <2> QED
    BY <2>1, ChallengesAreNumbers DEF AccountInv, ChallengeInv
<1>4. CASE asking = "numbered"
  <2>1. /\ asking' = "idle" /\ challenge' = issued /\ timers' = {issued} /\ timerRef' = issued
        /\ challengeReady' = challengeReady
    BY <1>1, <1>4 DEF ChallengeAnswer
  <2>2. issued \in 1..issued /\ issued \in 0..issued /\ issued # FreeChallenge /\ issued # 0
    BY <1>4, ChallengesAreNumbers DEF AccountInv, ChallengeInv
  <2>3. ChallengeInv'
    BY <1>1, <2>1, <2>2 DEF AccountInv, ChallengeInv, Free
  <2>4. JoinInv'
    BY <1>1, <1>2, <1>4, <2>1, <2>2 DEF AccountInv, ChallengeInv, JoinInv, Free
  <2> QED
    BY <2>3, <2>4
<1>5. CASE asking = "free"
  <2>1. /\ asking' = "idle" /\ challenge' = FreeChallenge /\ challengeReady' = TRUE
        /\ UNCHANGED <<timers, timerRef>>
    BY <1>5 DEF ChallengeAnswer
  <2>2. ChallengeInv'
    BY <1>1, <2>1, ChallengesAreNumbers DEF AccountInv, ChallengeInv, Free
  <2>3. JoinInv'
    BY <1>1, <1>2, <1>3, <2>1 DEF AccountInv, JoinInv, Free
  <2> QED
    BY <2>2, <2>3
<1>6. CASE asking = "failed"
  <2>1. asking' = "none" /\ challenge' = 0 /\ UNCHANGED <<challengeReady, timers, timerRef>>
    BY <1>6 DEF ChallengeAnswer
  <2>2. 0 \in 0..issued
    BY ChallengesAreNumbers
  <2>3. ChallengeInv'
    BY <1>1, <2>1, <2>2 DEF AccountInv, ChallengeInv
  <2>4. JoinInv'
    BY <1>1, <1>2, <2>1 DEF AccountInv, JoinInv
  <2> QED
    BY <2>3, <2>4
<1> QED
  BY <1>1, <1>4, <1>5, <1>6

\* The one wait that runs is that of the challenge the page has.
LEMMA TimerFiresKeeps ==
    ASSUME AccountInv, NEW n \in timers, TimerFires(n)
    PROVE  ChallengeInv' /\ JoinInv'
<1>1. asking = "idle" /\ timers = {challenge} /\ n = challenge /\ challenge \in 1..issued
      /\ challenge # 0
  BY DEF AccountInv, ChallengeInv
<1>2. /\ timers' = {} /\ timerRef' = 0 /\ challengeReady' = TRUE /\ waited' = waited \union {n}
      /\ UNCHANGED <<issued, spent, challenge, asking, joinPart>>
  BY <1>1 DEF TimerFires
<1>3. ChallengeInv'
  BY <1>1, <1>2 DEF AccountInv, ChallengeInv, Free
<1>4. JoinInv'
  BY <1>2 DEF AccountInv, JoinInv, Free
<1> QED
  BY <1>3, <1>4

LEMMA RegisterKeeps == ASSUME AccountInv, Register PROVE JoinInv'
<1>1. RegistrationShows = "form" /\ joining = "idle" /\ asking = "idle" /\ (Free \/ challengeReady)
  BY DEF Register, CanJoin
<1>2. joined = "form"
  BY <1>1 DEF RegistrationShows, AccountInv, JoinInv
<1>3. /\ joining' = "sent"
      /\ UNCHANGED <<spent, challenge, asking, challengeReady, availability, joined, tooEarly>>
  BY DEF Register
<1> QED
  BY <1>1, <1>2, <1>3 DEF AccountInv, JoinInv, Free

\* The form sends a challenge whose wait is over and that was not spent, so that the
\* server refuses it only if it asks for a challenge and the page has none.
LEMMA ServeRegisterKeeps == ASSUME AccountInv, ServeRegister PROVE ChallengeInv' /\ JoinInv'
<1> DEFINE refused == guarded /\ (Free \/ challenge \in spent \/ challenge \notin waited)
<1>1. /\ joining = "sent" /\ asking = "idle" /\ joined = "form"
      /\ UNCHANGED <<issued, challengePart, availability, joined>>
  BY DEF ServeRegister, AccountInv, JoinInv
<1>2. ~Free => challenge \notin spent /\ challenge \in waited
  BY <1>1 DEF AccountInv, ChallengeInv, JoinInv
<1>3. refused => Free
  BY <1>2
<1>4. joining' \in {"failed", "verify", "session"}
  BY DEF ServeRegister
<1>5. spent' = spent \/ (spent' = spent \union {challenge} /\ ~Free)
  BY DEF ServeRegister
<1>6. ~tooEarly'
  <2>1. ~tooEarly
    BY DEF AccountInv, JoinInv
  <2>2. tooEarly' = (tooEarly \/ (refused /\ ~Free))
    BY DEF ServeRegister
  <2>3. ~(refused /\ ~Free)
    BY <1>3
  <2> QED
    BY <2>1, <2>2, <2>3
<1> HIDE DEF refused
<1>7. spent' \subseteq 1..issued
  <2>1. spent \subseteq 1..issued /\ waited \subseteq 1..issued
    BY DEF AccountInv, ChallengeInv
  <2> QED
    BY <1>2, <1>5, <2>1
<1>8. ChallengeInv'
  BY <1>1, <1>7 DEF AccountInv, ChallengeInv, Free
<1>9. JoinInv'
  BY <1>1, <1>4, <1>6 DEF AccountInv, JoinInv
<1> QED
  BY <1>8, <1>9

\* A failure ends the wait that runs, and a new challenge is asked for.
LEMMA RegisterAnswerKeeps == ASSUME AccountInv, RegisterAnswer PROVE ChallengeInv' /\ JoinInv'
<1>1. UNCHANGED <<issued, spent, waited, availability, tooEarly, challenge>>
  BY DEF RegisterAnswer, LoadChallenge
<1>2. CASE joining = "failed"
  <2>1. /\ timers' = timers \ {timerRef} /\ timerRef' = 0 /\ asking' = "sent"
        /\ challengeReady' = FALSE /\ joining' = "again" /\ joined' = joined
    BY <1>2 DEF RegisterAnswer, LoadChallenge
  <2>2. timers' = {}
    BY <2>1 DEF AccountInv, ChallengeInv
  <2>3. ChallengeInv'
    BY <1>1, <2>1, <2>2 DEF AccountInv, ChallengeInv
  <2>4. JoinInv'
    BY <1>1, <2>1 DEF AccountInv, JoinInv
  <2> QED
    BY <2>3, <2>4
<1>3. CASE joining # "failed"
  <2>1. joined' \in {"verify", "dashboard"} /\ joining' = "idle" /\ UNCHANGED challengePart
    BY <1>3 DEF RegisterAnswer
  <2>2. JoinInv'
    BY <1>1, <2>1 DEF AccountInv, JoinInv
  <2> QED
    BY <1>1, <2>1, <2>2, ChallengeQuiet
<1> QED
  BY <1>2, <1>3

LEMMA RegistrationSteps ==
    ASSUME AccountInv,
           \/ Availability \/ ServeChallenge \/ ChallengeAnswer \/ Guard
           \/ \E n \in timers : TimerFires(n)
           \/ Register \/ ServeRegister \/ RegisterAnswer
    PROVE  AccountInv'
<1>1. UNCHANGED <<link, reset, account, passwordPart, emailPart>>
  BY DEF Availability, ServeChallenge, ChallengeAnswer, Guard, TimerFires, Register,
         ServeRegister, RegisterAnswer
<1>2. LinkInv' /\ SettingsInv'
  BY <1>1, LinkQuiet, SettingsQuiet
<1>3. CASE Availability
  <2>1. JoinInv'
    BY <1>3 DEF Availability, AccountInv, JoinInv, Free
  <2>2. UNCHANGED <<issued, spent, challengePart>>
    BY <1>3 DEF Availability
  <2> QED
    BY <1>2, <2>1, <2>2, ChallengeQuiet DEF AccountInv
<1>4. CASE Guard
  <2>1. UNCHANGED <<issued, spent, challengePart, joinPart>>
    BY <1>4 DEF Guard
  <2> QED
    BY <1>2, <2>1, ChallengeQuiet, JoinQuiet DEF AccountInv
<1>5. CASE Register
  <2>1. UNCHANGED <<issued, spent, challengePart>>
    BY <1>5 DEF Register
  <2> QED
    BY <1>2, <1>5, <2>1, ChallengeQuiet, RegisterKeeps DEF AccountInv
<1>6. CASE ServeChallenge \/ ChallengeAnswer \/ ServeRegister \/ RegisterAnswer
           \/ \E n \in timers : TimerFires(n)
  <2>1. ChallengeInv' /\ JoinInv'
    BY <1>6, ServeChallengeKeeps, ChallengeAnswerKeeps, ServeRegisterKeeps, RegisterAnswerKeeps,
       TimerFiresKeeps
  <2> QED
    BY <1>2, <2>1 DEF AccountInv
<1> QED
  BY <1>3, <1>4, <1>5, <1>6

-----------------------------------------------------------------------------
(* The links and the settings.                                              *)

LEMMA LinkSteps ==
    ASSUME AccountInv,
           \/ VerifyEffect \/ VerifyAnswer \/ AskReset \/ AskResetAnswer \/ EnterAgain
           \/ \E p \in {"short", "new"} : SubmitReset(p)
           \/ ServeReset \/ ResetAnswer
    PROVE  AccountInv'
<1>1. UNCHANGED <<riskServer, challengePart, joinPart, passwordPart, emailPart>>
  BY DEF VerifyEffect, VerifyAnswer, AskReset, AskResetAnswer, EnterAgain, SubmitReset,
         ServeReset, ResetAnswer
<1>2. ChallengeInv' /\ JoinInv'
  BY <1>1, ChallengeQuiet, JoinQuiet
<1>3. CASE AskReset \/ AskResetAnswer \/ EnterAgain
  <2>1. UNCHANGED <<link, reset, account>>
    BY <1>3 DEF AskReset, AskResetAnswer, EnterAgain
  <2> QED
    BY <1>1, <1>2, <2>1, LinkQuiet, SettingsQuiet DEF AccountInv
<1>4. CASE VerifyEffect
  <2>1. UNCHANGED <<reset, account>> /\ link' = [link EXCEPT !.tried = TRUE, !.calls = @ + 1]
    BY <1>4 DEF VerifyEffect
  <2>2. link.calls = 0
    BY <1>4 DEF VerifyEffect, AccountInv, LinkInv
  <2>3. link' = [link EXCEPT !.tried = TRUE, !.calls = 1]
    BY <2>1, <2>2
  <2>4. LinkInv'
    BY <2>1, <2>3 DEF AccountInv, LinkInv
  <2> QED
    BY <1>1, <1>2, <2>1, <2>4, SettingsQuiet DEF AccountInv
<1>5. CASE VerifyAnswer
  <2>1. PICK s \in {"success", "error"} : link' = [link EXCEPT !.calls = @ - 1, !.status = s]
    BY <1>5 DEF VerifyAnswer
  <2>2. UNCHANGED <<reset, account>> /\ link.calls > 0
    BY <1>5 DEF VerifyAnswer
  <2>3. link.calls \in {0, 1}
    BY DEF AccountInv, LinkInv
  <2>4. link.calls = 1
    BY <2>2, <2>3
  <2>5. link' = [link EXCEPT !.calls = 0, !.status = s]
    <3>1. link.calls - 1 = 0
      BY <2>4
    <3> QED
      BY <2>1, <3>1, Zenon
  <2>6. link.tried
    <3>1. link.calls # 0
      BY <2>4
    <3> QED
      BY <3>1, Zenon DEF AccountInv, LinkInv
  <2>7. LinkInv'
    BY <2>2, <2>5, <2>6 DEF AccountInv, LinkInv
  <2> QED
    BY <1>1, <1>2, <2>2, <2>7, SettingsQuiet DEF AccountInv
<1>6. ASSUME NEW p \in {"short", "new"}, SubmitReset(p)
      PROVE  AccountInv'
  <2>1. UNCHANGED <<link, account>> /\ reset' = [reset EXCEPT !.step = "sent", !.password = p]
    BY <1>6 DEF SubmitReset
  <2>2. LinkInv'
    BY <2>1 DEF AccountInv, LinkInv, Passwords, Pending
  <2> QED
    BY <1>1, <1>2, <2>1, <2>2, SettingsQuiet DEF AccountInv
<1>7. CASE ServeReset
  <2>1. PICK step \in {"ok", "failed"} : reset' = [reset EXCEPT !.step = step]
    BY <1>7 DEF ServeReset
  <2>2. link' = link /\ reset.step = "sent"
    BY <1>7 DEF ServeReset
  <2>3. LinkInv'
    BY <2>1, <2>2 DEF AccountInv, LinkInv, Pending
  <2>4. /\ account' \in [password: Passwords, pending: {"none", "next"}, used: BOOLEAN]
        /\ account'.pending = account.pending
    BY <1>7, <2>2 DEF ServeReset, AccountInv, LinkInv, SettingsInv
  <2>5. SettingsInv'
    BY <1>1, <2>4 DEF AccountInv, SettingsInv
  <2> QED
    BY <1>2, <2>3, <2>5 DEF AccountInv
<1>8. CASE ResetAnswer
  <2>1. UNCHANGED <<link, account>>
        /\ reset' = [reset EXCEPT !.step = "idle", !.complete = (reset.step = "ok")]
    BY <1>8 DEF ResetAnswer
  <2>2. LinkInv'
    BY <2>1 DEF AccountInv, LinkInv
  <2> QED
    BY <1>1, <1>2, <2>1, <2>2, SettingsQuiet DEF AccountInv
<1> QED
  BY <1>3, <1>4, <1>5, <1>6, <1>7, <1>8

LEMMA SettingsSteps ==
    ASSUME AccountInv,
           \/ \E has \in BOOLEAN : LoadPerson(has)
           \/ PersonAnswer
           \/ \E f \in PasswordForms : FillPasswords(f)
           \/ \E f \in EmailForms : FillEmail(f)
           \/ UpdatePassword \/ PasswordServed \/ PasswordAnswer
           \/ RequestEmailChange \/ EmailChangeServed \/ EmailChangeAnswer
    PROVE  AccountInv'
<1>1. UNCHANGED <<riskServer, challengePart, joinPart, linkPart>>
  BY DEF LoadPerson, PersonAnswer, FillPasswords, FillEmail, UpdatePassword, PasswordServed,
         PasswordAnswer, RequestEmailChange, EmailChangeServed, EmailChangeAnswer
<1>2. ChallengeInv' /\ JoinInv' /\ LinkInv'
  BY <1>1, ChallengeQuiet, JoinQuiet, LinkQuiet
<1> SUFFICES SettingsInv'
  BY <1>2 DEF AccountInv
<1> USE DEF SettingsInv, Pending
<1>3. CASE (\E has \in BOOLEAN : LoadPerson(has)) \/ PersonAnswer
  BY <1>3, SettingsQuiet DEF LoadPerson, PersonAnswer
<1>4. ASSUME NEW f \in PasswordForms, FillPasswords(f)
      PROVE  SettingsInv'
  BY <1>4 DEF FillPasswords, AccountInv
<1>5. ASSUME NEW f \in EmailForms, FillEmail(f)
      PROVE  SettingsInv'
  <2>1. f \in EmailForm
    BY DEF EmailForms, EmailForm
  <2> QED
    BY <1>5, <2>1 DEF FillEmail, AccountInv
<1>6. CASE UpdatePassword
  <2>1. fields.old # ""
    BY <1>6 DEF UpdatePassword, PasswordButton
  <2>2. Empty.old = ""
    BY DEF Empty
  <2>3. fields \in PasswordForms
    BY <2>1, <2>2 DEF AccountInv
  <2> QED
    BY <1>6, <2>3 DEF UpdatePassword, AccountInv
<1>7. CASE PasswordServed
  <2>1. PICK step \in {"ok", "failed"} : saving' = [saving EXCEPT !.step = step]
    BY <1>7 DEF PasswordServed
  <2>2. saving.form.new \in Passwords
    BY <1>7 DEF PasswordServed, AccountInv, PasswordForms, Passwords
  <2>3. /\ account' \in [password: Passwords, pending: {"none", "next"}, used: BOOLEAN]
        /\ account'.pending = account.pending
    BY <1>7, <2>2 DEF PasswordServed, AccountInv
  <2> QED
    BY <1>7, <2>1, <2>3 DEF PasswordServed, AccountInv
<1>8. CASE PasswordAnswer
  BY <1>8 DEF PasswordAnswer, AccountInv
<1>9. CASE RequestEmailChange
  <2>1. emailFields.email = "next"
    BY <1>9 DEF RequestEmailChange, EmailButton, AccountInv, EmailForm
  <2> QED
    BY <1>9, <2>1 DEF RequestEmailChange, AccountInv
<1>10. CASE EmailChangeServed
  <2>1. PICK step \in {"ok", "failed"} : emailSaving' = [emailSaving EXCEPT !.step = step]
    BY <1>10 DEF EmailChangeServed
  <2>2. emailSaving.form.email = "next" /\ emailRequest = "none"
    BY <1>10 DEF EmailChangeServed, AccountInv
  <2>3. /\ account' \in [password: Passwords, pending: {"none", "next"}, used: BOOLEAN]
        /\ account'.pending \in {account.pending, "next"}
        /\ emailSaving'.step = "ok" => account'.pending = "next"
    BY <1>10, <2>2 DEF EmailChangeServed, AccountInv
  <2> QED
    BY <1>10, <2>1, <2>2, <2>3 DEF EmailChangeServed, AccountInv
<1>11. CASE EmailChangeAnswer
  <2>1. emailSaving' = [step |-> "idle", form |-> NoEmail] /\ NoEmail \in EmailForm
    BY <1>11 DEF EmailChangeAnswer, NoEmail, EmailForm
  <2>2. emailFields' \in EmailForm
    BY <1>11 DEF EmailChangeAnswer, AccountInv, EmailForm
  <2>3. emailRequest' \in {"none", account.pending}
    BY <1>11 DEF EmailChangeAnswer, AccountInv
  <2>4. UNCHANGED <<account, fields, saving>>
    BY <1>11 DEF EmailChangeAnswer
  <2>5. emailSaving'.step = "idle"
    BY <2>1
  <2>6. emailSaving' \in [step: {"idle"} \union Pending, form: EmailForm]
    BY <2>1
  <2> QED
    BY <2>2, <2>3, <2>4, <2>5, <2>6 DEF AccountInv
<1> QED
  BY <1>3, <1>4, <1>5, <1>6, <1>7, <1>8, <1>9, <1>10, <1>11

LEMMA AccountKept == ASSUME AccountInv, [AccountNext]_accountVars PROVE AccountInv'
<1>1. CASE UNCHANGED accountVars
  BY <1>1, ChallengeQuiet, JoinQuiet, LinkQuiet, SettingsQuiet DEF accountVars, AccountInv
<1> QED
  BY <1>1, RegistrationSteps, LinkSteps, SettingsSteps DEF AccountNext

-----------------------------------------------------------------------------
(* The site: a step of it is one of each part, which may leave it alone.    *)

PortalInv ==
    /\ SessionInv /\ PlaygroundTypeOK /\ SelectionInv /\ NoticesInv
    /\ KeysInv /\ BillingInv /\ UsageInv /\ AccountInv

LEMMA StepOfEachPart ==
    ASSUME [SiteNext]_siteVars
    PROVE  /\ [Next]_vars /\ [PlaygroundNext]_playgroundVars /\ [NoticesNext]_noticeVars
           /\ [KeysNext]_keyVars /\ [BillingNext]_billingVars /\ [UsageNext]_usageVars
           /\ [AccountNext]_accountVars
BY Zenon DEF SiteNext, siteVars

LEMMA PortalInductive == SiteSpec => []PortalInv
<1>1. SiteInit => PortalInv
  BY SessionStart, PlaygroundStart, SelectionStart, NoticesStart, KeysStart, BillingStart,
     UsageStart, AccountStart
     DEF SiteInit, PortalInv
<1>2. PortalInv /\ [SiteNext]_siteVars => PortalInv'
  BY StepOfEachPart, SessionKept, PlaygroundKept, SelectionKept, NoticesKept, KeysKept,
     BillingKept, UsageKept, AccountKept
     DEF PortalInv
<1> QED
  BY <1>1, <1>2, PTL DEF SiteSpec

\* Every variable of every page has its type, whatever is done on the pages and however
\* the answers come in.
THEOREM PortalTyped == SiteSpec => []PortalTypeOK
<1>1. PortalInv => PortalTypeOK
  BY SessionInvSound, NoticesSound, KeysSound, BillingSound, UsageSound, AccountSound
     DEF PortalInv, PortalTypeOK
<1> QED
  BY <1>1, PortalInductive, PTL

\* No button of any page stays disabled, and no spinner turns, without a request or a
\* wait that will end it; a list that has stopped loading is that of its filters, and
\* its cards add up; and the server never refuses a challenge as used or as early.
THEOREM ControlsAreFreed == SiteSpec => []NoControlStuck
<1>1. PortalInv => NoControlStuck
  BY KeysSound, BillingSound, UsageSound, AccountSound, SelectionSound
     DEF PortalInv, NoControlStuck
<1> QED
  BY <1>1, PortalInductive, PTL

\* An announcement leaves the list only when the account signed it, or claimed its
\* reward, or the server withdrew it, or all of them are asked for again.
THEOREM NothingUnreadIsHidden == SiteSpec => NothingUnreadHidden
<1>1. PortalInv /\ [SiteNext]_siteVars => [NoticesStep]_noticeVars
  BY StepOfEachPart, NoticesKept DEF PortalInv
<1> QED
  BY <1>1, PortalInductive, PTL DEF SiteSpec, NothingUnreadHidden, NoticesStep
=============================================================================
