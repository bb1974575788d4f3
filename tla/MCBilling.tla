------------------------------ MODULE MCBilling ------------------------------
(* One account, a few requests and plans for model checking GenerationBilling. *)
EXTENDS GenerationBilling, TLC

CONSTANTS u1, t1, t2, t3

One == {u1}
Two == {t1, t2}
Both == {t1, t3}
Three == {t1, t2, t3}

MCOwner == [t \in Tasks |-> u1]
\* t1 and t2 compete for a balance or a quota that covers one of them; t3 can be
\* admitted beside either.
MCMode  == [t \in Tasks |-> IF t = t3 THEN "balance" ELSE "auto"]
MCPrice == [t \in Tasks |-> IF t = t3 THEN 1 ELSE 2]
MCUnits == [t \in Tasks |-> 1]
MCCredits == [u \in Users |-> 3]
SubMode == [t \in Tasks |-> IF t = t1 THEN "subscription" ELSE "auto"]
NoDeltas == {}
Clawbacks == {-2, 1}

\* A behaviour either has no subscription, or begins with a grant and is about
\* t1 and t2 without faults.  The account stays enabled: a disabled one only
\* refuses requests, which any request may meet anyway.
Asked(T) == \E t \in T : status[t] # "absent" \/ quote[t] # NoQuote
MoneyOrQuota ==
    /\ period[u1] = 0 /\ period'[u1] > 0 => ~Asked(Tasks)
    /\ period'[u1] > 0 => ~Asked({t3})' /\ faults' = 0
    /\ UNCHANGED active

\* Requests with the same owner, mode, price and units are interchangeable.
Symmetry == Permutations(Two)
=============================================================================
