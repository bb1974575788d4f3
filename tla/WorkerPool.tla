----------------------------- MODULE WorkerPool -----------------------------
(***************************************************************************)
(* What the scheduler promises about an API key: a delivered job of the    *)
(* key is handed to the workers only while fewer jobs of that key than the *)
(* limit it was admitted with are held by them.  Limits are computed per   *)
(* request, so that jobs of one key may carry different ones; a job that   *)
(* is delivered twice may be held twice.                                   *)
(***************************************************************************)
EXTENDS ApiKeys, Totals

VARIABLE held  \* held[j]: copies of j that workers hold or will take next

\* Jobs of the key that were admitted with at most the limit n.
Within(s, n) == {j \in OfScope(s) : Limit[j] <= n}

Init == held = [j \in Jobs |-> 0]

\* The job's own limit bounds all jobs of its key, not only its equals.
Room(j) == Scope[j] # NoScope => Total(held, OfScope(Scope[j])) < Limit[j]

Grant(j) ==
    /\ Room(j)
    /\ held' = [held EXCEPT ![j] = @ + 1]

Return(j) ==
    /\ held[j] > 0
    /\ held' = [held EXCEPT ![j] = @ - 1]

Next == \E j \in Jobs : Grant(j) \/ Return(j)

Spec == Init /\ [][Next]_held

\* Of the jobs of a key that were admitted with at most the limit of one of
\* them, at most that many are held at a time, whatever limits the other
\* requests of the key got.  Code: nextEligibleJob.
KeyLimit ==
    \A j \in Jobs : Scope[j] # NoScope =>
        Total(held, Within(Scope[j], Limit[j])) <= Limit[j]
=============================================================================
