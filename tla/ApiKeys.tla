------------------------------ MODULE ApiKeys ------------------------------
(* Jobs, the API keys they are counted for, and their concurrency limits.   *)
EXTENDS Integers, FiniteSets

CONSTANTS
    Jobs,    \* jobs, by task id
    Scope,   \* Scope[j]: the API key the job is counted for
    Limit,   \* Limit[j]: the concurrency limit the job was admitted with
    NoScope  \* scope of the jobs that no key limits

ASSUME JobsAssumption == IsFiniteSet(Jobs) /\ Limit \in [Jobs -> Nat \ {0}]

\* The jobs that are counted for a key.
OfScope(s) == {j \in Jobs : Scope[j] = s}
=============================================================================
