------------------------------ MODULE ConsoleUpdate ------------------------------
(***************************************************************************)
(* The system update panel of the settings page, with the build check that *)
(* runs under every page of the console. Checks of the version, polls      *)
(* while an update is active, checks of the build and the request that     *)
(* starts an update overlap, and an older answer may replace a newer one.  *)
(* An update ends in a new build or in a rollback; meanwhile the console's *)
(* own server, which tells the build, goes away.                           *)
(***************************************************************************)
EXTENDS Naturals, FiniteSets

CONSTANTS MaxBuild,      \* builds that are released
          MaxPanelActs,  \* clicks of the administrator
          MaxUnanswered  \* calls of a kind that are under way at a time

ASSUME ConsoleUpdateAssumption == MaxUnanswered \in Nat \ {0}

VARIABLES worker, built, released,   \* server: status; the build that runs, the latest
          pageBuild,     \* the build the page was loaded from
          info,          \* what the panel shows, or NoInfo
          previous,      \* previousStatus
          updateCalls,   \* requests and answers under way
          checking, submitting, confirming,
          reloading,     \* a timer will load the page anew
          panelActs

updateVars == <<worker, built, released, pageBuild, info, previous, updateCalls, checking,
                submitting, confirming, reloading, panelActs>>
server == <<worker, built, released>>
panel == <<pageBuild, info, previous, reloading>>

activeStatuses == {"queued", "waiting_idle", "updating", "rolling_back"}
Statuses == activeStatuses \union {"idle", "success", "failed"}
NoInfo == [status |-> "none", available |-> FALSE]
View == [status |-> worker, available |-> released > built]
Active == info.status \in activeStatuses
PanelAct == panelActs < MaxPanelActs /\ panelActs' = panelActs + 1
\* A call, with its number among those of its kind that are under way.
Request(kind, n) ==
    [kind |-> kind, n |-> n, step |-> "sent", view |-> NoInfo, version |-> 0]
Numbers == 1..MaxUnanswered
Taken(kind) == {c.n : c \in {d \in updateCalls : d.kind = kind}}
Send(kind) ==
    \E n \in Numbers \ Taken(kind) :
        /\ \A m \in Numbers \ Taken(kind) : n <= m
        /\ updateCalls' = updateCalls \union {Request(kind, n)}

UpdateInit ==
    /\ worker = "idle" /\ built = 0 /\ released = 1 /\ pageBuild = 0
    /\ info = NoInfo /\ previous = "none" /\ updateCalls = {Request("first", 1)}
    /\ checking = FALSE /\ submitting = FALSE /\ confirming = "no"
    /\ reloading = FALSE /\ panelActs = 0

\* The button 检查更新, the 3 s interval while an update is active, and the first
\* and the 30 s check of the build in AdminShell.
CheckVersion ==
    /\ PanelAct
    /\ ~checking /\ ~Active
    /\ checking' = TRUE
    /\ Send("check")
    /\ UNCHANGED <<server, panel, submitting, confirming>>
Poll ==
    /\ Active
    /\ Send("poll")
    /\ UNCHANGED <<server, panel, checking, submitting, confirming, panelActs>>
checkBuild ==
    /\ Send("build")
    /\ UNCHANGED <<server, panel, checking, submitting, confirming, panelActs>>

\* openConfirm, and startUpdate when the question is answered: the button was
\* enabled when the question was asked, what it asks for may be over by then.
CanStart(mode) ==
    /\ info # NoInfo /\ ~submitting
    /\ \/ info.available /\ ~Active
       \/ mode = "force" /\ info.status = "waiting_idle"
OpenConfirm(mode) ==
    /\ PanelAct /\ confirming = "no"
    /\ CanStart(mode)
    /\ confirming' = mode
    /\ UNCHANGED <<server, panel, updateCalls, checking, submitting>>
StartUpdate ==
    /\ confirming # "no" /\ confirming' = "no"
    /\ \/ /\ submitting' = TRUE
          /\ updateCalls' = updateCalls \union {Request(confirming, 1)}
       \/ UNCHANGED <<submitting, updateCalls>>
    /\ UNCHANGED <<server, panel, checking, panelActs>>

\* The server answers with what it knows; it queues the update, or refuses it. While
\* its container is replaced there is no answer but an error. The check of the build is
\* answered by the console's own server, with the build it is of.
Told(c, view, version) ==
    updateCalls' = (updateCalls \ {c}) \union
                       {[c EXCEPT !.step = "ok", !.view = view, !.version = version]}
Serve(c) ==
    /\ c \in updateCalls /\ c.step = "sent"
    /\ \/ /\ c.kind \notin {"wait", "force"}
          /\ IF c.kind = "build" THEN Told(c, NoInfo, built) ELSE Told(c, View, 0)
          /\ UNCHANGED worker
       \/ /\ c.kind \in {"wait", "force"}
          /\ \/ worker \notin activeStatuses /\ released > built
                /\ worker' \in IF c.kind = "force" THEN {"queued"} ELSE {"queued", "waiting_idle"}
             \/ c.kind = "force" /\ worker = "waiting_idle" /\ worker' = "queued"
          /\ Told(c, [status |-> worker', available |-> TRUE], 0)
       \/ /\ UNCHANGED worker
          /\ updateCalls' = (updateCalls \ {c}) \union {[c EXCEPT !.step = "failed"]}
    /\ UNCHANGED <<built, released, panel, checking, submitting, confirming, panelActs>>

\* The effect on the status: an active one that became a success loads the page anew.
Seen(view) ==
    /\ info' = view
    /\ previous' = view.status
    /\ reloading' = (reloading \/ (view.status = "success" /\ previous \in activeStatuses))
\* AdminShell's check: the answer names another build than the page's.
NewBuildLater(c) == c.step = "ok" /\ c.version > pageBuild + 1
NewBuild(c) == c.step = "ok" /\ c.version # pageBuild
\* An answer, in any order; a failed poll says nothing. load clears `checking`,
\* whichever call raised it.
CallAnswer(c) ==
    /\ c \in updateCalls /\ c.step # "sent"
    /\ updateCalls' = updateCalls \ {c}
    /\ IF c.kind = "build"
       THEN /\ reloading' = (reloading \/ NewBuild(c))
            /\ UNCHANGED <<info, previous>>
       ELSE IF c.step = "ok" THEN Seen(c.view) ELSE UNCHANGED <<info, previous, reloading>>
    /\ checking' = (checking /\ c.kind \in {"wait", "force", "build"})
    /\ submitting' = (submitting /\ c.kind \notin {"wait", "force"})
    /\ UNCHANGED <<server, pageBuild, confirming, panelActs>>

\* reloadForBuild: a new page of the build that runs.
ReloadPage ==
    /\ reloading /\ reloading' = FALSE
    /\ pageBuild' = built
    /\ info' = NoInfo /\ previous' = "none" /\ updateCalls' = {Request("first", 1)}
    /\ checking' = FALSE /\ submitting' = FALSE /\ confirming' = "no"
    /\ UNCHANGED <<server, panelActs>>

\* The worker of the server, and a release on GitHub.
Work ==
    /\ \/ worker = "waiting_idle" /\ worker' = "queued" /\ UNCHANGED built
       \/ worker = "queued" /\ worker' = "updating" /\ UNCHANGED built
       \/ worker = "updating" /\ worker' = "success" /\ built' = released
       \/ worker = "updating" /\ worker' = "rolling_back" /\ UNCHANGED built
       \/ worker = "rolling_back" /\ worker' = "failed" /\ UNCHANGED built
    /\ UNCHANGED <<released, panel, updateCalls, checking, submitting, confirming, panelActs>>
NewRelease ==
    /\ released < MaxBuild /\ worker \notin activeStatuses
    /\ released' = released + 1
    /\ UNCHANGED <<worker, built, panel, updateCalls, checking, submitting, confirming,
                   panelActs>>

UpdateStep == Poll \/ checkBuild \/ Work \/ ReloadPage
              \/ \E c \in updateCalls : Serve(c) \/ CallAnswer(c)
UpdateNext ==
    \/ CheckVersion
    \/ \E mode \in {"wait", "force"} : OpenConfirm(mode)
    \/ StartUpdate \/ NewRelease \/ UpdateStep

\* The build is checked again and again, its request does not fail every time, and what
\* was answered arrives.
BuildServed == \E c \in updateCalls :
    c.kind = "build" /\ Serve(c) /\ \E d \in updateCalls' : d = [c EXCEPT !.step = "ok", !.version = built]
BuildTold(n) == \E c \in updateCalls : c.kind = "build" /\ c.n = n /\ CallAnswer(c)
UpdateFairness ==
    /\ WF_updateVars(checkBuild) /\ WF_updateVars(ReloadPage)
    /\ SF_updateVars(BuildServed) /\ \A n \in Numbers : WF_updateVars(BuildTold(n))

-----------------------------------------------------------------------------
UpdateTypeOK ==
    /\ worker \in Statuses /\ pageBuild \in 0..built
    /\ info = NoInfo \/ info.status \in Statuses
    /\ {checking, submitting, reloading} \subseteq BOOLEAN
    /\ submitting <=> \E c \in updateCalls : c.kind \in {"wait", "force"}

\* A console page never stays on an old build, whatever answers it missed or got late.
PageRenewed == (pageBuild < built) ~> (pageBuild = built)
=============================================================================
