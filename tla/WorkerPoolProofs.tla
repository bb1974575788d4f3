--------------------------- MODULE WorkerPoolProofs ---------------------------
(* Proof that the rule by which a job is granted keeps every key within the  *)
(* limits of its jobs, for any jobs, keys and limits.                        *)
EXTENDS WorkerPool, TotalsTheorems

TypeOK == held \in [Jobs -> Nat]

\* The jobs of a key are finitely many, and so are those within a limit.
LEMMA SubsetsFinite ==
    ASSUME NEW s, NEW n
    PROVE  /\ OfScope(s) \subseteq Jobs /\ IsFiniteSet(OfScope(s))
           /\ Within(s, n) \subseteq OfScope(s) /\ IsFiniteSet(Within(s, n))
<1>1. OfScope(s) \subseteq Jobs /\ Within(s, n) \subseteq OfScope(s)
  BY DEF OfScope, Within
<1> QED
  BY <1>1, JobsAssumption, FS_Subset

\* One more copy of a job adds one to the totals it is counted in, one copy
\* less takes one away, and other totals stay as they are.
LEMMA OneChanged ==
    ASSUME NEW S, IsFiniteSet(S), NEW c, NEW d,
           \A x \in S : c[x] \in Nat /\ d[x] \in Nat,
           NEW j \in S, \A x \in S \ {j} : d[x] = c[x]
    PROVE  Total(d, S) = Total(c, S) - c[j] + d[j]
<1>1. Total(c, S) = Total(c, S \ {j}) + c[j]
  BY TotalRemove
<1>2. Total(d, S) = Total(d, S \ {j}) + d[j]
  BY TotalRemove
<1>3. Total(c, S \ {j}) = Total(d, S \ {j})
  BY TotalSame
<1>4. Total(c, S \ {j}) \in Nat
  BY FS_RemoveElement, TotalType
<1> QED
  BY <1>1, <1>2, <1>3, <1>4

THEOREM TypeCorrect == Spec => []TypeOK
<1>1. Init => TypeOK
  BY DEF Init, TypeOK
<1>2. TypeOK /\ [Next]_held => TypeOK'
  BY DEF TypeOK, Next, Grant, Return
<1> QED
  BY <1>1, <1>2, PTL DEF Spec

\* Nothing is held at first.
LEMMA KeyLimitInit == Init => KeyLimit
<1> SUFFICES ASSUME Init, NEW j \in Jobs, Scope[j] # NoScope
             PROVE  Total(held, Within(Scope[j], Limit[j])) <= Limit[j]
  BY DEF KeyLimit
<1>1. \A x \in Within(Scope[j], Limit[j]) : held[x] = 0
  BY DEF Init, Within, OfScope
<1>2. Total(held, Within(Scope[j], Limit[j])) = 0
  BY <1>1, TotalZero
<1> QED
  BY <1>2, JobsAssumption

\* A job is granted against all jobs of its key, so that no total over some of
\* them exceeds its limit, nor a larger one.
LEMMA KeyLimitGrant ==
    ASSUME TypeOK, KeyLimit, NEW g \in Jobs, Grant(g)
    PROVE  KeyLimit'
<1> SUFFICES ASSUME NEW j \in Jobs, Scope[j] # NoScope
             PROVE  Total(held', Within(Scope[j], Limit[j])) <= Limit[j]
  BY DEF KeyLimit, Within, OfScope
<1> DEFINE W == Within(Scope[j], Limit[j])
           O == OfScope(Scope[j])
<1>1. IsFiniteSet(W) /\ W \subseteq O /\ W \subseteq Jobs /\ IsFiniteSet(O) /\ O \subseteq Jobs
  BY SubsetsFinite
<1>2. Total(held, W) <= Limit[j] /\ Limit[j] \in Nat
  BY JobsAssumption DEF KeyLimit
<1>3. held' \in [Jobs -> Nat] /\ \A x \in Jobs \ {g} : held'[x] = held[x]
  BY DEF Grant, TypeOK
<1>4. held'[g] = held[g] + 1 /\ held[g] \in Nat
  BY DEF Grant, TypeOK
<1>5. Total(held, W) \in Nat /\ Total(held, O) \in Nat
  BY <1>1, TotalType DEF TypeOK
<1>6. CASE g \in W
  <2>1. Scope[g] = Scope[j] /\ Limit[g] <= Limit[j]
    BY <1>6 DEF Within, OfScope
  <2>2. Total(held, O) < Limit[g]
    BY <2>1 DEF Grant, Room
  <2>3. Total(held, W) <= Total(held, O)
    BY <1>1, TotalMonotone DEF TypeOK
  <2>4. Total(held', W) = Total(held, W) - held[g] + held'[g]
    <3>1. \A x \in W : held[x] \in Nat /\ held'[x] \in Nat
      BY <1>1, <1>3 DEF TypeOK
    <3>2. \A x \in W \ {g} : held'[x] = held[x]
      BY <1>1, <1>3
    <3> HIDE DEF W
    <3> QED
      BY <1>1, <1>6, <3>1, <3>2, OneChanged
  <2>5. Limit[g] \in Nat
    BY JobsAssumption
  <2> HIDE DEF W, O
  <2> QED
    BY <1>2, <1>4, <1>5, <2>1, <2>2, <2>3, <2>4, <2>5 DEF W
<1>7. CASE g \notin W
  <2>1. \A x \in W : held[x] = held'[x]
    BY <1>1, <1>3, <1>7
  <2> HIDE DEF W
  <2>2. Total(held, W) = Total(held', W)
    BY <2>1, TotalSame
  <2> QED
    BY <1>2, <2>2 DEF W
<1> QED
  BY <1>6, <1>7

\* A returned job only lowers totals.
LEMMA KeyLimitReturn ==
    ASSUME TypeOK, KeyLimit, NEW g \in Jobs, Return(g)
    PROVE  KeyLimit'
<1> SUFFICES ASSUME NEW j \in Jobs, Scope[j] # NoScope
             PROVE  Total(held', Within(Scope[j], Limit[j])) <= Limit[j]
  BY DEF KeyLimit, Within, OfScope
<1> DEFINE W == Within(Scope[j], Limit[j])
<1>1. IsFiniteSet(W) /\ W \subseteq Jobs
  BY SubsetsFinite
<1>2. Total(held, W) <= Limit[j] /\ Limit[j] \in Nat
  BY JobsAssumption DEF KeyLimit
<1>3. held' \in [Jobs -> Nat] /\ \A x \in Jobs \ {g} : held'[x] = held[x]
  BY DEF Return, TypeOK
<1>4. held'[g] = held[g] - 1 /\ held[g] \in Nat
  BY DEF Return, TypeOK
<1>5. Total(held, W) \in Nat
  BY <1>1, TotalType DEF TypeOK
<1>6. \A x \in W : held[x] \in Nat /\ held'[x] \in Nat
  BY <1>1, <1>3 DEF TypeOK
<1>7. \A x \in W \ {g} : held'[x] = held[x]
  BY <1>1, <1>3
<1> HIDE DEF W
<1>8. CASE g \in W
  <2>1. Total(held', W) = Total(held, W) - held[g] + held'[g]
    BY <1>1, <1>6, <1>7, <1>8, OneChanged
  <2> QED
    BY <1>2, <1>4, <1>5, <2>1 DEF W
<1>9. CASE g \notin W
  <2>1. Total(held, W) = Total(held', W)
    BY <1>6, <1>7, <1>9, TotalSame
  <2> QED
    BY <1>2, <2>1 DEF W
<1> QED
  BY <1>8, <1>9

\* No key ever holds more workers than the limits of its jobs allow, whatever
\* limits its other jobs were admitted with.  Code: nextEligibleJob.
THEOREM KeysWithinLimits == Spec => []KeyLimit
<1>1. TypeOK /\ KeyLimit /\ [Next]_held => KeyLimit'
  <2> SUFFICES ASSUME TypeOK, KeyLimit, [Next]_held
               PROVE  KeyLimit'
    OBVIOUS
  <2>1. CASE UNCHANGED held
    BY <2>1 DEF KeyLimit
  <2>2. ASSUME NEW g \in Jobs, Grant(g)
        PROVE  KeyLimit'
    BY <2>2, KeyLimitGrant
  <2>3. ASSUME NEW g \in Jobs, Return(g)
        PROVE  KeyLimit'
    BY <2>3, KeyLimitReturn
  <2> QED
    BY <2>1, <2>2, <2>3 DEF Next
<1> QED
  BY <1>1, KeyLimitInit, TypeCorrect, PTL DEF Spec
=============================================================================
