------------------------------ MODULE MCPortal ------------------------------
(* The customer site: each behaviour is that of one part of it, the `scene`; *)
(* the session of two tabs, or one page in one tab.                          *)
EXTENDS PortalSession, PortalKeys, PortalBilling, PortalPlayground, PortalNotices,
        PortalUsage, PortalAccount

CONSTANTS k1, k2, k3, n1, n2
VARIABLE scene

Scenes == {"session", "keys", "billing", "playground", "notices", "usage", "account"}
OldKeys == <<k1, k2>>
\* A call of each kind; the second was cancelled, and one runs.
Finished == [day |-> 1, found |-> TRUE, status |-> "success", seconds |-> 65,
             stored |-> FALSE, task |-> TRUE, images |-> 0, quantity |-> 2, format |-> "base64"]
AccountCalls ==
    << [Finished EXCEPT !.status = "processing", !.day = 2, !.seconds = -1],
       [Finished EXCEPT !.status = "cancelled", !.found = FALSE], Finished >>

siteVars == <<scene, vars, keyVars, billingVars, playgroundVars, noticeVars,
              usageVars, accountVars>>

SiteInit ==
    /\ scene \in Scenes
    /\ Init /\ KeysInit /\ BillingInit /\ PlaygroundInit /\ NoticesInit
    /\ UsageInit /\ AccountInit
    /\ scene # "playground" => activeKeys = {}
    /\ scene # "account" => place = "register" /\ guarded /\ link.token
SiteNext ==
    /\ UNCHANGED scene
    /\ \/ /\ scene = "session" /\ Next
          /\ UNCHANGED <<keyVars, billingVars, playgroundVars, noticeVars, usageVars, accountVars>>
       \/ /\ scene = "keys" /\ KeysNext
          /\ UNCHANGED <<vars, billingVars, playgroundVars, noticeVars, usageVars, accountVars>>
       \/ /\ scene = "billing" /\ BillingNext
          /\ UNCHANGED <<vars, keyVars, playgroundVars, noticeVars, usageVars, accountVars>>
       \/ /\ scene = "playground" /\ PlaygroundNext
          /\ UNCHANGED <<vars, keyVars, billingVars, noticeVars, usageVars, accountVars>>
       \/ /\ scene = "notices" /\ NoticesNext
          /\ UNCHANGED <<vars, keyVars, billingVars, playgroundVars, usageVars, accountVars>>
       \/ /\ scene = "usage" /\ UsageNext
          /\ UNCHANGED <<vars, keyVars, billingVars, playgroundVars, noticeVars, accountVars>>
       \/ /\ scene = "account" /\ AccountNext
          /\ UNCHANGED <<vars, keyVars, billingVars, playgroundVars, noticeVars, usageVars>>
\* Nothing that must happen is enabled in a page before it is used.
SiteSpec ==
    SiteInit /\ [][SiteNext]_siteVars /\ Fairness /\ BillingFairness

\* Every variable of every page has its type.
PortalTypeOK ==
    TypeOK /\ KeysTypeOK /\ BillingTypeOK /\ PlaygroundTypeOK /\ NoticesTypeOK
    /\ UsageTypeOK /\ AccountTypeOK
\* No button of any page stays disabled, and no spinner turns, without a request in
\* flight or a wait that will end it; a list that has stopped loading is that of its
\* filters; and no registration is spent on a challenge used before or not due yet.
NoControlStuck ==
    KeysFreed /\ BillingFreed /\ PlaygroundFreed /\ UsageFreed /\ AccountFreed
=============================================================================
