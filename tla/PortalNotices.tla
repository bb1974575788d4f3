---------------------------- MODULE PortalNotices ----------------------------
(***************************************************************************)
(* What the frame of the customer site shows above every page: the         *)
(* announcements, which are confirmed or whose reward is claimed one at a  *)
(* time; the alert about the image service, polled behind a latch; and the *)
(* button that sends the verification mail again. A new build of the site  *)
(* reloads the page, which starts all of it anew.                          *)
(***************************************************************************)
CONSTANTS News, NoNews,
          Popups,      \* announcements shown as a dialog; the others are banners
          Rewarding    \* announcements with a reward to claim

ASSUME NoticesAssumption ==
    /\ NoNews \notin News
    /\ Popups \subseteq News /\ Rewarding \subseteq News

VARIABLES signed,      \* server: confirmed by the account
          claimed,     \* server: reward paid to the account
          withdrawn,   \* server: deleted or disabled since
          newsLoad,    \* the request for the list, with what the answer says
          listed,      \* announcements shown
          taken,       \* of those, the ones shown as claimed
          signing, signReply,   \* the one being confirmed, and the answer
          claiming, claimReply, \* the one being claimed, and the answer
          dismiss,     \* whether the claim was pressed in the dialog
          incident,    \* server: the image service fails
          alert, alertPoll,     \* whether the alert is shown; its poll
          mail,        \* the verification mail: idle, sending, cooling
          deployed     \* a new build: not yet, running, loaded (one is modelled)

newsShown == <<newsLoad, listed, taken>>
newsServer == <<signed, claimed, withdrawn>>
signPart == <<signing, signReply>>
claimPart == <<claiming, claimReply, dismiss>>
alertPart == <<incident, alert, alertPoll>>
noticeVars == <<newsServer, newsShown, signPart, claimPart, alertPart, mail, deployed>>

Asked == [step |-> "sent", list |-> {}, claimed |-> {}]

NoticesInit ==
    /\ signed = {} /\ claimed = {} /\ withdrawn = {}
    /\ newsLoad = Asked /\ listed = {} /\ taken = {}
    /\ signing = NoNews /\ signReply = "none"
    /\ claiming = NoNews /\ claimReply = "none" /\ dismiss = FALSE
    /\ incident = FALSE /\ alert = FALSE /\ alertPoll = "sent"
    /\ mail = "idle" /\ deployed = "not yet"

\* The list of the server: every banner, and the popups that are not confirmed or,
\* when there is a reward, not claimed.
Visible == {a \in News \ withdrawn :
              a \in Popups => a \notin (IF a \in Rewarding THEN claimed ELSE signed)}

\* The list is read once, when the frame is ready; a failure leaves it empty.
ServeNews ==
    /\ newsLoad = Asked
    /\ newsLoad' \in {[step |-> "read", list |-> Visible, claimed |-> claimed \intersect Visible],
                     [Asked EXCEPT !.step = "idle"]}
    /\ UNCHANGED <<newsServer, listed, taken, signPart, claimPart, alertPart, mail, deployed>>
NewsArrives ==
    /\ newsLoad.step = "read"
    /\ listed' = newsLoad.list /\ taken' = newsLoad.claimed
    /\ newsLoad' = [Asked EXCEPT !.step = "idle"]
    /\ UNCHANGED <<newsServer, signPart, claimPart, alertPart, mail, deployed>>

\* notificationAnnouncement: the first popup, or else the first banner when the
\* bell is pressed; which one is first is left open.
InDialog(a) == a \in listed /\ (listed \intersect Popups # {} => a \in Popups)
Idle == signing = NoNews /\ claiming = NoNews

\* handlePopupAction without a reward: signAnnouncement.
Sign(a) ==
    /\ InDialog(a) /\ Idle
    /\ a \notin Rewarding
    /\ signing' = a /\ UNCHANGED signReply
    /\ UNCHANGED <<newsServer, newsShown, claimPart, alertPart, mail, deployed>>
\* claimAnnouncementReward, from the dialog or from a banner.
ClaimReward(a, inDialog) ==
    /\ a \in listed \intersect Rewarding
    /\ claiming = NoNews
    /\ IF inDialog THEN InDialog(a) /\ Idle ELSE a \notin Popups \union taken
    /\ claiming' = a /\ dismiss' = inDialog /\ UNCHANGED claimReply
    /\ UNCHANGED <<newsServer, newsShown, signPart, alertPart, mail, deployed>>

\* The server does it, once for each account, unless it does not exist any more; or
\* it fails. The answer may be lost, whatever the server did.
ServeSign ==
    /\ signing # NoNews /\ signReply = "none"
    /\ \/ /\ signing \notin withdrawn
          /\ signed' = signed \union {signing} /\ signReply' \in {"ok", "failed"}
       \/ /\ UNCHANGED signed
          /\ signReply' \in {IF signing \in withdrawn THEN "gone" ELSE "failed", "failed"}
    /\ UNCHANGED <<claimed, withdrawn, newsShown, signing, claimPart, alertPart, mail, deployed>>
ServeClaim ==
    /\ claiming # NoNews /\ claimReply = "none"
    /\ \/ /\ claiming \notin withdrawn
          /\ signed' = signed \union {claiming} /\ claimed' = claimed \union {claiming}
          /\ claimReply' \in {"ok", "failed"}
       \/ claimReply' = "failed" /\ UNCHANGED <<signed, claimed>>
    /\ UNCHANGED <<withdrawn, newsShown, claiming, dismiss, signPart, alertPart, mail, deployed>>

\* Confirmed, or gone at the server (404, 409): it leaves the list.
SignedAnyway == TRUE
Signed == signReply # "failed"
SignAnswer ==
    /\ signing # NoNews /\ signReply # "none"
    /\ listed' = IF Signed THEN listed \ {signing} ELSE listed
    /\ signing' = NoNews /\ signReply' = "none"
    /\ UNCHANGED <<newsServer, newsLoad, taken, claimPart, alertPart, mail, deployed>>
\* Claimed now or before: it leaves the dialog, or is shown as claimed. Any
\* failure leaves it where it is, also when the announcement no longer exists.
ClaimAnswer ==
    /\ claiming # NoNews /\ claimReply # "none"
    /\ listed' = IF claimReply = "ok" /\ dismiss THEN listed \ {claiming} ELSE listed
    /\ taken' = IF claimReply = "ok" /\ ~dismiss THEN taken \union {claiming} ELSE taken
    /\ claiming' = NoNews /\ claimReply' = "none" /\ UNCHANGED dismiss
    /\ UNCHANGED <<newsServer, newsLoad, signPart, alertPart, mail, deployed>>
\* The administrator deletes or disables an announcement.
Withdraw(a) ==
    /\ withdrawn = {} /\ withdrawn' = {a}
    /\ UNCHANGED <<signed, claimed, newsShown, signPart, claimPart, alertPart, mail, deployed>>

-----------------------------------------------------------------------------
\* loadOpenAIStatus, every minute and whenever the tab is looked at: `loading`
\* lets one through at a time. A failed poll keeps the alert that is shown.
PollAlert ==
    /\ alertPoll = "idle" /\ alertPoll' = "sent"
    /\ UNCHANGED <<newsServer, newsShown, signPart, claimPart, incident, alert, mail, deployed>>
AlertAnswer ==
    /\ alertPoll = "sent" /\ alertPoll' = "idle"
    /\ alert' \in {incident, alert}
    /\ UNCHANGED <<newsServer, newsShown, signPart, claimPart, incident, mail, deployed>>
Incident ==
    /\ incident' = ~incident
    /\ UNCHANGED <<newsServer, newsShown, signPart, claimPart, alert, alertPoll, mail, deployed>>

\* resendEmailVerification; sent, or refused because one was sent (429), the
\* button rests for a minute; any other failure leaves it usable.
ResendMail ==
    /\ mail = "idle" /\ mail' = "sending"
    /\ UNCHANGED <<newsServer, newsShown, signPart, claimPart, alertPart, deployed>>
MailAnswer ==
    /\ mail = "sending" /\ mail' \in {"cooling", "idle"}
    /\ UNCHANGED <<newsServer, newsShown, signPart, claimPart, alertPart, deployed>>
Cooled ==
    /\ mail = "cooling" /\ mail' = "idle"
    /\ UNCHANGED <<newsServer, newsShown, signPart, claimPart, alertPart, deployed>>

Deploy ==
    /\ deployed = "not yet" /\ deployed' = "running"
    /\ UNCHANGED <<newsServer, newsShown, signPart, claimPart, alertPart, mail>>
\* checkBuild: the running build is not the page's. Everything starts anew, in the
\* middle of whatever the page was doing.
CheckBuild ==
    /\ deployed = "running" /\ deployed' = "loaded"
    /\ newsLoad' = Asked /\ listed' = {} /\ taken' = {}
    /\ signing' = NoNews /\ signReply' = "none"
    /\ claiming' = NoNews /\ claimReply' = "none" /\ dismiss' = FALSE
    /\ alert' = FALSE /\ alertPoll' = "sent" /\ mail' = "idle"
    /\ UNCHANGED <<newsServer, incident>>

NoticesNext ==
    \/ ServeNews \/ NewsArrives
    \/ \E a \in News : Sign(a) \/ ClaimReward(a, TRUE) \/ ClaimReward(a, FALSE) \/ Withdraw(a)
    \/ ServeSign \/ ServeClaim \/ SignAnswer \/ ClaimAnswer
    \/ PollAlert \/ AlertAnswer \/ Incident
    \/ ResendMail \/ MailAnswer \/ Cooled
    \/ Deploy \/ CheckBuild

-----------------------------------------------------------------------------
NoticesTypeOK ==
    /\ listed \subseteq News /\ taken \subseteq News
    /\ newsLoad \in [step : {"sent", "read", "idle"}, list : SUBSET News, claimed : SUBSET News]
    /\ signReply \in {"none", "ok", "gone", "failed"} /\ claimReply \in {"none", "ok", "failed"}
    /\ mail \in {"idle", "sending", "cooling"} /\ deployed \in {"not yet", "running", "loaded"}
    /\ signing \in News \union {NoNews} /\ claiming \in News \union {NoNews}

\* An announcement leaves the screen only when the server has the confirmation, or
\* paid the reward, or it does not exist any more (or the page is reloaded): lost
\* answers, and the two requests that may be in flight together, hide nothing
\* unread, and nothing is marked as claimed that was not.
NothingUnreadHidden ==
    [][ /\ taken' \subseteq claimed'
        /\ \A a \in listed \ listed' :
              \/ newsLoad' = Asked \/ a \in withdrawn
              \/ IF a \in Rewarding THEN a \in claimed ELSE a \in signed ]_noticeVars
=============================================================================
