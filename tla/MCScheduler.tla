---------------------------- MODULE MCScheduler ----------------------------
EXTENDS Scheduler

CONSTANTS a1, a2, b1, c1, w1, w2

NoKey == "none"

\* Two jobs of key a, admitted with the limits 1 and 2; one of key b; one that
\* no key limits.
KeyOf == [j \in {a1, a2, b1, c1} |->
            CASE j \in {a1, a2} -> "a" [] j = b1 -> "b" [] j = c1 -> NoKey]
RisingLimit == [j \in {a1, a2, b1, c1} |-> IF j = a2 THEN 2 ELSE 1]

JobsAB == {a1, a2, b1}
TwoKeys == {a1, c1}
ScopeAB == [j \in JobsAB |-> KeyOf[j]]
ScopeTwo == [j \in TwoKeys |-> KeyOf[j]]
LimitAB == [j \in JobsAB |-> RisingLimit[j]]
LimitTwo == [j \in TwoKeys |-> RisingLimit[j]]

TwoWorkers == {w1, w2}
=============================================================================
