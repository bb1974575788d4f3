--------------------------- MODULE SchedulerProofs ---------------------------
(* Proofs about the scheduler: its channels and lists keep their bounds, its *)
(* counts are exact, and the keys stay within the limits of their jobs, for  *)
(* any jobs, keys, limits, workers and capacity.                             *)
EXTENDS Scheduler, FiniteSetTheorems, FunctionTheorems, SequenceTheorems, TLAPS

One(P) == IF P THEN 1 ELSE 0

-----------------------------------------------------------------------------
(* Counting positions and workers *)

\* A channel holds finitely many jobs of a set.
LEMMA QueuedFinite ==
    ASSUME NEW T, NEW q \in Seq(T), NEW S
    PROVE  /\ Queued(q, S) \subseteq 1 .. Len(q)
           /\ IsFiniteSet(Queued(q, S)) /\ Cardinality(Queued(q, S)) \in Nat
<1>1. Queued(q, S) \subseteq 1 .. Len(q)
  BY DEF Queued
<1>2. IsFiniteSet(1 .. Len(q))
  BY FS_Interval, LenProperties
<1>3. IsFiniteSet(Queued(q, S))
  BY <1>1, <1>2, FS_Subset
<1> QED
  BY <1>1, <1>3, FS_CardinalityType

\* A message sent to a channel counts once.
LEMMA QueuedAppend ==
    ASSUME NEW T, NEW q \in Seq(T), NEW x \in T, NEW S
    PROVE  Cardinality(Queued(Append(q, x), S)) = Cardinality(Queued(q, S)) + One(x \in S)
<1> DEFINE n == Len(q) + 1
           r == Append(q, x)
<1>1. /\ Len(q) \in Nat /\ Len(r) = n
      /\ \A i \in 1 .. Len(q) : r[i] = q[i]
      /\ r[n] = x
  BY AppendProperties, LenProperties
<1> HIDE DEF r
<1>2. IsFiniteSet(Queued(q, S)) /\ n \notin Queued(q, S)
  BY <1>1, QueuedFinite
<1>3. CASE x \in S
  <2>1. Queued(r, S) = Queued(q, S) \cup {n}
    BY <1>1, <1>3 DEF Queued
  <2>2. Cardinality(Queued(q, S) \cup {n}) = Cardinality(Queued(q, S)) + 1
    BY <1>2, FS_AddElement
  <2> QED
    BY <1>3, <2>1, <2>2 DEF One, r
<1>4. CASE x \notin S
  <2>1. Queued(r, S) = Queued(q, S)
    BY <1>1, <1>4 DEF Queued
  <2>2. Cardinality(Queued(q, S)) \in Nat
    BY QueuedFinite
  <2> QED
    BY <1>4, <2>1, <2>2 DEF One, r
<1> QED
  BY <1>3, <1>4

\* A message received from a channel no longer counts.
LEMMA QueuedTail ==
    ASSUME NEW T, NEW q \in Seq(T), q # <<>>, NEW S
    PROVE  Cardinality(Queued(q, S)) = Cardinality(Queued(Tail(q), S)) + One(Head(q) \in S)
<1> DEFINE r == Tail(q)
           later == Queued(q, S) \ {1}
<1>1. /\ Len(q) \in Nat \ {0} /\ Len(r) = Len(q) - 1
      /\ \A i \in 1 .. Len(r) : r[i] = q[i + 1]
      /\ Head(q) = q[1] /\ r \in Seq(T)
  <2>1. Len(q) \in Nat \ {0}
    BY EmptySeq
  <2>2. r \in Seq(T) /\ Len(r) = Len(q) - 1 /\ \A i \in 1 .. Len(r) : r[i] = q[i + 1]
    BY HeadTailProperties
  <2>3. Head(q) = q[1]
    OBVIOUS
  <2> QED
    BY <2>1, <2>2, <2>3
<1> HIDE DEF r
<1>2. IsFiniteSet(Queued(q, S)) /\ IsFiniteSet(Queued(r, S))
  BY <1>1, QueuedFinite
<1>3. IsFiniteSet(later) /\ later \subseteq 2 .. Len(q)
  <2>1. IsFiniteSet(later)
    BY <1>2, FS_RemoveElement
  <2>2. later \subseteq 2 .. Len(q)
    BY <1>1 DEF Queued
  <2> QED
    BY <2>1, <2>2
<1>4. Cardinality(later) = Cardinality(Queued(r, S))
  <2> DEFINE shift == [i \in Queued(r, S) |-> i + 1]
  <2>1. Queued(r, S) \subseteq Nat
    BY <1>1 DEF Queued
  <2>2. shift \in [Queued(r, S) -> later]
    BY <1>1 DEF Queued
  <2>3. \A i, k \in Queued(r, S) : shift[i] = shift[k] => i = k
    BY <2>1
  <2>4. \A k \in later : \E i \in Queued(r, S) : shift[i] = k
    <3> SUFFICES ASSUME NEW k \in later
                 PROVE  k - 1 \in Queued(r, S) /\ shift[k - 1] = k
      OBVIOUS
    <3>1. k \in 2 .. Len(q) /\ q[k] \in S
      BY <1>3 DEF Queued
    <3>2. k - 1 \in 1 .. Len(r) /\ r[k - 1] = q[k]
      BY <1>1, <3>1
    <3> QED
      BY <3>1, <3>2 DEF Queued
  <2>5. shift \in Bijection(Queued(r, S), later)
    BY <2>2, <2>3, <2>4, Fun_IsBij, Zenon
  <2>6. ExistsBijection(Queued(r, S), later)
    BY <2>5, Zenon DEF ExistsBijection
  <2> HIDE DEF later
  <2> QED
    BY <1>2, <2>6, FS_Bijection
<1>5. CASE q[1] \in S
  <2>1. 1 \in Queued(q, S)
    BY <1>1, <1>5 DEF Queued
  <2>2. Cardinality(later) = Cardinality(Queued(q, S)) - 1
    BY <1>2, <2>1, FS_RemoveElement
  <2>3. Cardinality(Queued(q, S)) \in Nat
    BY QueuedFinite
  <2> QED
    BY <1>1, <1>4, <1>5, <2>2, <2>3 DEF One, r
<1>6. CASE q[1] \notin S
  <2>1. later = Queued(q, S)
    BY <1>6 DEF Queued
  <2>2. Cardinality(Queued(q, S)) \in Nat
    BY QueuedFinite
  <2>3. One(Head(q) \in S) = 0
    BY <1>1, <1>6 DEF One
  <2> HIDE DEF later
  <2> QED
    BY <1>4, <2>1, <2>2, <2>3 DEF r
<1> QED
  BY <1>5, <1>6

\* The worker that takes a job counts with it, and no longer once it rests.
LEMMA BusyFinite ==
    ASSUME NEW S
    PROVE  IsFiniteSet(Busy(S)) /\ Cardinality(Busy(S)) \in Nat
<1>1. Busy(S) \subseteq Workers
  BY DEF Busy
<1>2. IsFiniteSet(Busy(S))
  BY <1>1, WorkersAssumption, FS_Subset
<1> QED
  BY <1>2, FS_CardinalityType

LEMMA BusyTake ==
    ASSUME TypeOK, NEW S \in SUBSET Jobs, NEW w \in Workers, NEW j \in Jobs,
           working[w] = NoJob, working' = [working EXCEPT ![w] = j]
    PROVE  Cardinality(Busy(S)') = Cardinality(Busy(S)) + One(j \in S)
<1>1. IsFiniteSet(Busy(S)) /\ Cardinality(Busy(S)) \in Nat
  BY BusyFinite
<1>2. w \notin Busy(S)
  BY NoJobAssumption DEF Busy
<1>3. CASE j \in S
  <2>1. Busy(S)' = Busy(S) \cup {w}
    BY <1>3 DEF Busy, TypeOK
  <2> QED
    BY <1>1, <1>2, <1>3, <2>1, FS_AddElement DEF One
<1>4. CASE j \notin S
  <2>1. Busy(S)' = Busy(S)
    BY <1>2, <1>4 DEF Busy, TypeOK
  <2> QED
    BY <1>1, <1>4, <2>1 DEF One
<1> QED
  BY <1>3, <1>4

LEMMA BusyRelease ==
    ASSUME TypeOK, NEW S \in SUBSET Jobs, NEW w \in Workers,
           working' = [working EXCEPT ![w] = NoJob]
    PROVE  Cardinality(Busy(S)) = Cardinality(Busy(S)') + One(working[w] \in S)
<1>1. IsFiniteSet(Busy(S)) /\ Cardinality(Busy(S)) \in Nat
  BY BusyFinite
<1>2. Busy(S)' = Busy(S) \ {w}
  BY NoJobAssumption DEF Busy, TypeOK
<1>3. CASE working[w] \in S
  <2>1. w \in Busy(S)
    BY <1>3 DEF Busy
  <2>2. Cardinality(Busy(S) \ {w}) = Cardinality(Busy(S)) - 1
    BY <1>1, <2>1, FS_RemoveElement
  <2> QED
    BY <1>1, <1>2, <1>3, <2>2 DEF One
<1>4. CASE working[w] \notin S
  <2>1. Busy(S)' = Busy(S)
    BY <1>2, <1>4 DEF Busy
  <2> QED
    BY <1>1, <1>4, <2>1 DEF One
<1> QED
  BY <1>3, <1>4

-----------------------------------------------------------------------------
(* Types *)

LEMMA TypeInit == Init => TypeOK
<1> SUFFICES ASSUME Init PROVE TypeOK
  OBVIOUS
<1>1. \A T : <<>> \in Seq(T) /\ Len(<<>>) = 0
  BY EmptySeq
<1>2. 0 <= Capacity
  BY CapacityAssumption
<1> QED
  BY <1>1, <1>2 DEF Init, TypeOK

\* What the counting of a key makes of the counts.
LEMMA CountsType ==
    ASSUME TypeOK, NEW s \in Scopes
    PROVE  CountedUp(s) \in [Scopes -> Nat] /\ CountedDown(s) \in [Scopes -> Nat]
BY DEF TypeOK, CountedUp, CountedDown

\* A list without one of its elements is a shorter list.
LEMMA WithoutType ==
    ASSUME NEW T, NEW q \in Seq(T), NEW i \in 1 .. Len(q)
    PROVE  Without(q, i) \in Seq(T) /\ Len(Without(q, i)) = Len(q) - 1
<1> DEFINE l == SubSeq(q, 1, i - 1)
           r == SubSeq(q, i + 1, Len(q))
<1>1. Len(q) \in Nat /\ \A k \in 1 .. Len(q) : q[k] \in T
  BY ElementOfSeq, LenProperties
<1>2. l \in Seq(T) /\ Len(l) = i - 1
  <2>1. \A k \in 1 .. (i - 1) : q[k] \in T
    BY <1>1
  <2> QED
    BY <1>1, <2>1, SubSeqProperties
<1>3. r \in Seq(T) /\ Len(r) = Len(q) - i
  <2>1. \A k \in (i + 1) .. Len(q) : q[k] \in T
    BY <1>1
  <2> QED
    BY <1>1, <2>1, SubSeqProperties
<1>4. Without(q, i) = l \o r
  BY DEF Without
<1> HIDE DEF l, r
<1>5. l \o r \in Seq(T) /\ Len(l \o r) = Len(l) + Len(r)
  BY <1>2, <1>3, ConcatProperties
<1> QED
  BY <1>1, <1>2, <1>3, <1>4, <1>5

\* Sending to a channel with room, and receiving, keep it a bounded channel.
LEMMA SendType ==
    ASSUME NEW T, NEW q \in Seq(T), NEW x \in T, Len(q) < Capacity
    PROVE  Append(q, x) \in Seq(T) /\ Len(Append(q, x)) <= Capacity
BY AppendProperties, LenProperties, CapacityAssumption

LEMMA ReceiveType ==
    ASSUME NEW T, NEW q \in Seq(T), q # <<>>, Len(q) <= Capacity
    PROVE  Head(q) \in T /\ Tail(q) \in Seq(T) /\ Len(Tail(q)) <= Capacity
<1>1. Len(q) \in Nat
  BY LenProperties
<1> QED
  BY <1>1, HeadTailProperties, CapacityAssumption

LEMMA TypeNext == TypeOK /\ [Next]_vars => TypeOK'
<1> SUFFICES ASSUME TypeOK, [Next]_vars
             PROVE  TypeOK'
  OBVIOUS
<1> USE DEF TypeOK
<1>1. CASE UNCHANGED vars
  BY <1>1 DEF vars
<1>2. ASSUME NEW j \in Jobs, Deliver(j)
      PROVE  TypeOK'
  BY <1>2, SendType DEF Deliver
<1>3. ASSUME NEW i \in 1 .. Len(pending), HandOut(i)
      PROVE  TypeOK'
  <2>1. pending[i] \in Jobs
    BY ElementOfSeq
  <2>2. active' \in [Scopes -> Nat]
    BY <1>3, <2>1, CountsType DEF HandOut, Scopes
  <2>3. jobs' \in Seq(Jobs) /\ Len(jobs') <= Capacity
    BY <1>3, <2>1, SendType DEF HandOut
  <2>4. pending' \in Seq(Jobs) /\ Len(pending') <= Capacity
    <3>1. Len(pending) \in Nat
      BY LenProperties
    <3> QED
      BY <1>3, <3>1, WithoutType, CapacityAssumption DEF HandOut
  <2> QED
    BY <1>3, <2>2, <2>3, <2>4 DEF HandOut
<1>4. CASE Wait
  BY <1>4 DEF Wait
<1>5. CASE Receive
  <2>1. Head(incoming) \in Jobs /\ incoming' \in Seq(Jobs) /\ Len(incoming') <= Capacity
    BY <1>5, ReceiveType DEF Receive
  <2>2. pending' \in Seq(Jobs) /\ Len(pending') <= Capacity
    BY <1>5, <2>1, SendType DEF Receive, Receives
  <2> QED
    BY <1>5, <2>1, <2>2 DEF Receive
<1>6. CASE CountDown
  <2>1. Head(releases) \in Scopes /\ releases' \in Seq(Scopes) /\ Len(releases') <= Capacity
    BY <1>6, ReceiveType DEF CountDown
  <2>2. active' \in [Scopes -> Nat]
    BY <1>6, <2>1, CountsType DEF CountDown
  <2> QED
    BY <1>6, <2>1, <2>2 DEF CountDown
<1>7. ASSUME NEW w \in Workers, Take(w)
      PROVE  TypeOK'
  <2>1. Head(jobs) \in Jobs /\ jobs' \in Seq(Jobs) /\ Len(jobs') <= Capacity
    BY <1>7, ReceiveType DEF Take
  <2>2. Head(jobs) # NoJob
    BY <2>1, NoJobAssumption
  <2> QED
    BY <1>7, <2>1, <2>2 DEF Take
<1>8. ASSUME NEW w \in Workers, End(w)
      PROVE  TypeOK'
  BY <1>8 DEF End
<1>9. ASSUME NEW w \in Workers, Release(w)
      PROVE  TypeOK'
  <2>1. working[w] \in Jobs
    BY <1>9 DEF Release
  <2>2. releases' \in Seq(Scopes) /\ Len(releases') <= Capacity
    BY <1>9, <2>1, SendType DEF Release, Scopes
  <2> QED
    BY <1>9, <2>2 DEF Release
<1> QED
  BY <1>1, <1>2, <1>3, <1>4, <1>5, <1>6, <1>7, <1>8, <1>9 DEF Next, Schedule, Work

\* Every channel and list keeps its type and its capacity.
THEOREM TypeCorrect == Spec => []TypeOK
BY TypeInit, TypeNext, PTL DEF Spec

-----------------------------------------------------------------------------
(* The counts *)

\* What is held is a natural number.
LEMMA HeldType ==
    ASSUME TypeOK, NEW S
    PROVE  Held(S) \in Nat
BY QueuedFinite, BusyFinite DEF Held, TypeOK

LEMMA HeldTypeNext ==
    ASSUME TypeOK', NEW S
    PROVE  Held(S)' \in Nat
<1>1. Cardinality(Queued(jobs, S)') \in Nat
  <2>1. Queued(jobs, S)' = Queued(jobs', S)
    BY DEF Queued
  <2> QED
    BY <2>1, QueuedFinite DEF TypeOK
<1>2. Cardinality(Busy(S)') \in Nat
  <2>1. Busy(S)' \subseteq Workers
    BY DEF Busy
  <2>2. IsFiniteSet(Busy(S)')
    BY <2>1, WorkersAssumption, FS_Subset
  <2> QED
    BY <2>2, FS_CardinalityType
<1>3. Held(S)' = Cardinality(Queued(jobs, S)') + Cardinality(Busy(S)')
  BY DEF Held
<1> QED
  BY <1>1, <1>2, <1>3

LEMMA HeldHandOut ==
    ASSUME TypeOK, NEW S \in SUBSET Jobs, NEW i \in 1 .. Len(pending), HandOut(i)
    PROVE  /\ pending[i] \in Jobs
           /\ Held(S)' = Held(S) + One(pending[i] \in S)
<1>1. pending[i] \in Jobs
  BY ElementOfSeq DEF TypeOK
<1>2. jobs' = Append(jobs, pending[i]) /\ working' = working
  BY DEF HandOut
<1>3. Cardinality(Queued(jobs, S)') = Cardinality(Queued(jobs, S)) + One(pending[i] \in S)
  <2>1. Queued(jobs, S)' = Queued(Append(jobs, pending[i]), S)
    BY <1>2 DEF Queued
  <2> QED
    BY <1>1, <2>1, QueuedAppend DEF TypeOK
<1>4. Busy(S)' = Busy(S)
  BY <1>2 DEF Busy
<1>5. Cardinality(Queued(jobs, S)) \in Nat /\ Cardinality(Busy(S)) \in Nat
  BY QueuedFinite, BusyFinite DEF TypeOK
<1> QED
  BY <1>1, <1>3, <1>4, <1>5 DEF Held, One

LEMMA HeldTake ==
    ASSUME TypeOK, NEW S \in SUBSET Jobs, NEW w \in Workers, Take(w)
    PROVE  Held(S)' = Held(S)
<1>1. /\ working[w] = NoJob /\ working' = [working EXCEPT ![w] = Head(jobs)]
      /\ jobs # <<>> /\ jobs' = Tail(jobs)
  BY DEF Take
<1>2. Head(jobs) \in Jobs
  BY <1>1, ReceiveType DEF TypeOK
<1>3. Cardinality(Queued(jobs, S)) = Cardinality(Queued(jobs, S)') + One(Head(jobs) \in S)
  <2>1. Queued(jobs, S)' = Queued(Tail(jobs), S)
    BY <1>1 DEF Queued
  <2> QED
    BY <1>1, <2>1, QueuedTail DEF TypeOK
<1>4. Cardinality(Busy(S)') = Cardinality(Busy(S)) + One(Head(jobs) \in S)
  BY <1>1, <1>2, BusyTake
<1>5. /\ Cardinality(Queued(jobs, S)) \in Nat /\ Cardinality(Busy(S)) \in Nat
      /\ Cardinality(Queued(jobs, S)') \in Nat
  <2>1. Tail(jobs) \in Seq(Jobs)
    BY <1>1, ReceiveType DEF TypeOK
  <2>2. Queued(jobs, S)' = Queued(Tail(jobs), S)
    BY <1>1 DEF Queued
  <2> QED
    BY <2>1, <2>2, QueuedFinite, BusyFinite DEF TypeOK
<1> QED
  BY <1>3, <1>4, <1>5 DEF Held, One

LEMMA HeldRelease ==
    ASSUME TypeOK, NEW S \in SUBSET Jobs, NEW w \in Workers, Release(w)
    PROVE  /\ working[w] \in Jobs
           /\ Held(S) = Held(S)' + One(working[w] \in S)
<1>1. working[w] \in Jobs /\ working' = [working EXCEPT ![w] = NoJob] /\ jobs' = jobs
  BY DEF Release, TypeOK
<1>2. Cardinality(Busy(S)) = Cardinality(Busy(S)') + One(working[w] \in S)
  BY <1>1, BusyRelease
<1>3. Queued(jobs, S)' = Queued(jobs, S)
  BY <1>1 DEF Queued
<1>4. Cardinality(Queued(jobs, S)) \in Nat /\ Cardinality(Busy(S)') \in Nat
  <2>1. Busy(S)' \subseteq Busy(S)
    BY <1>1, NoJobAssumption DEF Busy, TypeOK
  <2>2. IsFiniteSet(Busy(S)')
    BY <2>1, BusyFinite, FS_Subset
  <2>3. Cardinality(Busy(S)') \in Nat
    BY <2>2, FS_CardinalityType
  <2> QED
    BY <2>3, QueuedFinite DEF TypeOK
<1> QED
  BY <1>1, <1>2, <1>3, <1>4 DEF Held, One

\* The other steps neither hand out nor release.
LEMMA HeldSame ==
    ASSUME NEW S, jobs' = jobs, working' = working
    PROVE  Held(S)' = Held(S)
BY DEF Held, Queued, Busy

LEMMA ReleasesSame ==
    ASSUME NEW s, releases' = releases
    PROVE  Queued(releases, {s})' = Queued(releases, {s})
BY DEF Queued

LEMMA CountExactInit == Init => CountExact
<1> SUFFICES ASSUME Init, NEW s \in Scopes \ {NoScope}
             PROVE  active[s] = Held(OfScope(s)) + Cardinality(Queued(releases, {s}))
  BY DEF CountExact
<1>1. Queued(jobs, OfScope(s)) = {} /\ Queued(releases, {s}) = {}
  <2>1. jobs = <<>> /\ releases = <<>> /\ Len(<<>>) = 0
    BY EmptySeq DEF Init
  <2> QED
    BY <2>1 DEF Queued
<1>2. Busy(OfScope(s)) = {}
  BY NoJobAssumption DEF Init, Busy, OfScope
<1>3. Cardinality({}) = 0
  BY FS_EmptySet
<1>4. active[s] = 0
  BY DEF Init
<1>5. Held(OfScope(s)) = 0 + 0
  BY <1>1, <1>2, <1>3 DEF Held
<1> QED
  BY <1>1, <1>3, <1>4, <1>5

LEMMA CountExactNext ==
    ASSUME TypeOK, CountExact, [Next]_vars
    PROVE  CountExact'
<1> SUFFICES ASSUME NEW s \in Scopes \ {NoScope}
             PROVE  active'[s] = Held(OfScope(s))' + Cardinality(Queued(releases, {s})')
  BY DEF CountExact, OfScope
<1> DEFINE H == Held(OfScope(s))
           R == Cardinality(Queued(releases, {s}))
<1>1. active[s] = H + R /\ active[s] \in Nat /\ s \in Scopes /\ s # NoScope
  BY DEF CountExact, TypeOK
<1>2. H \in Nat /\ R \in Nat /\ OfScope(s) \subseteq Jobs
  BY HeldType, QueuedFinite DEF TypeOK, OfScope
<1>3. ASSUME UNCHANGED <<jobs, releases, working, active>>
      PROVE  active'[s] = H' + R'
  <2>1. H' = H
    BY <1>3, HeldSame DEF OfScope
  <2>2. R' = R
    BY <1>3, ReleasesSame
  <2> QED
    BY <1>1, <1>3, <2>1, <2>2
<1>4. ASSUME NEW i \in 1 .. Len(pending), HandOut(i)
      PROVE  active'[s] = H' + R'
  <2>1. pending[i] \in Jobs /\ H' = H + One(pending[i] \in OfScope(s))
    <3>1. OfScope(s)' = OfScope(s)
      BY DEF OfScope
    <3> QED
      BY <1>2, <1>4, <3>1, HeldHandOut
  <2>2. R' = R
    BY <1>4, ReleasesSame DEF HandOut
  <2>3. active'[s] = active[s] + One(pending[i] \in OfScope(s))
    BY <1>1, <1>4, <2>1 DEF HandOut, CountedUp, OfScope, One, TypeOK
  <2> HIDE DEF H, R
  <2> QED
    BY <1>1, <1>2, <2>1, <2>2, <2>3 DEF One
<1>5. ASSUME CountDown
      PROVE  active'[s] = H' + R'
  <2> DEFINE h == Head(releases)
  <2>1. releases # <<>> /\ releases' = Tail(releases) /\ active' = CountedDown(h)
    BY <1>5 DEF CountDown
  <2>2. H' = H
    BY <1>5, HeldSame DEF CountDown, OfScope
  <2>3. R = R' + One(h \in {s})
    <3>1. Queued(releases, {s})' = Queued(Tail(releases), {s})
      BY <2>1 DEF Queued
    <3> QED
      BY <2>1, <3>1, QueuedTail DEF TypeOK
  <2>4. R' \in Nat
    <3>1. Queued(releases, {s})' = Queued(Tail(releases), {s})
      BY <2>1 DEF Queued
    <3>2. Tail(releases) \in Seq(Scopes)
      BY <2>1, ReceiveType DEF TypeOK
    <3> QED
      BY <3>1, <3>2, QueuedFinite
  <2>5. active'[s] = IF h = s THEN IF active[s] > 1 THEN active[s] - 1 ELSE 0 ELSE active[s]
    BY <1>1, <2>1 DEF CountedDown, TypeOK
  <2>6. One(h \in {s}) = IF h = s THEN 1 ELSE 0
    BY DEF One
  <2> HIDE DEF H, R, h
  <2>7. CASE h = s
    BY <1>1, <1>2, <2>2, <2>3, <2>4, <2>5, <2>6, <2>7
  <2>8. CASE h # s
    BY <1>1, <1>2, <2>2, <2>3, <2>4, <2>5, <2>6, <2>8
  <2> QED
    BY <2>7, <2>8
<1>6. ASSUME NEW w \in Workers, Take(w)
      PROVE  active'[s] = H' + R'
  <2>1. H' = H
    BY <1>2, <1>6, HeldTake DEF OfScope
  <2>2. R' = R /\ active' = active
    BY <1>6, ReleasesSame DEF Take
  <2> QED
    BY <1>1, <2>1, <2>2
<1>7. ASSUME NEW w \in Workers, Release(w)
      PROVE  active'[s] = H' + R'
  <2> DEFINE k == Scope[working[w]]
  <2>1. working[w] \in Jobs /\ H = H' + One(working[w] \in OfScope(s))
    <3>1. OfScope(s)' = OfScope(s)
      BY DEF OfScope
    <3> QED
      BY <1>2, <1>7, <3>1, HeldRelease
  <2>2. k \in Scopes
    BY <2>1 DEF Scopes
  <2>3. R' = R + One(k \in {s})
    <3>1. Queued(releases, {s})' = Queued(Append(releases, k), {s})
      BY <1>7 DEF Release, Queued
    <3> HIDE DEF k
    <3> QED
      BY <2>2, <3>1, QueuedAppend DEF TypeOK
  <2>4. One(k \in {s}) = One(working[w] \in OfScope(s))
    BY <2>1 DEF One, OfScope
  <2>5. active' = active
    BY <1>7 DEF Release
  <2>6. H' \in Nat
    BY TypeNext, HeldTypeNext DEF OfScope
  <2> HIDE DEF H, R, k
  <2> QED
    BY <1>1, <1>2, <2>1, <2>3, <2>4, <2>5, <2>6 DEF One
<1> QED
  BY <1>3, <1>4, <1>5, <1>6, <1>7 DEF Next, Schedule, Work, vars, Deliver, Wait, Receive, End

\* The scheduler's count of a key never leaks and is never taken down twice: it
\* is what is handed out and not yet counted down.  Code: scheduleJobs, worker.
THEOREM CountsAreExact == Spec => []CountExact
<1>1. TypeOK /\ CountExact /\ [Next]_vars => CountExact'
  BY CountExactNext
<1> QED
  BY <1>1, CountExactInit, TypeCorrect, PTL DEF Spec

-----------------------------------------------------------------------------
(* The limits *)

LEMMA HeldMonotone ==
    ASSUME TypeOK, NEW S, NEW T \in SUBSET S
    PROVE  Held(T) <= Held(S)
<1>1. Queued(jobs, T) \subseteq Queued(jobs, S) /\ Busy(T) \subseteq Busy(S)
  BY DEF Queued, Busy
<1>2. Cardinality(Queued(jobs, T)) <= Cardinality(Queued(jobs, S))
  BY <1>1, QueuedFinite, FS_Subset DEF TypeOK
<1>3. Cardinality(Busy(T)) <= Cardinality(Busy(S))
  BY <1>1, BusyFinite, FS_Subset
<1>4. /\ Cardinality(Queued(jobs, T)) \in Nat /\ Cardinality(Queued(jobs, S)) \in Nat
      /\ Cardinality(Busy(T)) \in Nat /\ Cardinality(Busy(S)) \in Nat
  BY QueuedFinite, BusyFinite DEF TypeOK
<1> QED
  BY <1>2, <1>3, <1>4 DEF Held

\* A job is handed out while its key holds less than the job's limit.
LEMMA HandedOutBelowLimit ==
    ASSUME TypeOK, CountExact, NEW i \in 1 .. Len(pending), HandOut(i),
           NEW s, s = Scope[pending[i]], s # NoScope
    PROVE  Held(OfScope(s)) < Limit[pending[i]]
<1>1. pending[i] \in Jobs
  BY ElementOfSeq DEF TypeOK
<1>2. s \in Scopes \ {NoScope}
  BY <1>1 DEF Scopes
<1>3. active[s] < Limit[pending[i]]
  BY DEF HandOut, FirstEligible, Eligible
<1>4. active[s] = Held(OfScope(s)) + Cardinality(Queued(releases, {s}))
  BY <1>2 DEF CountExact
<1>5. Held(OfScope(s)) \in Nat /\ Cardinality(Queued(releases, {s})) \in Nat
  BY HeldType, QueuedFinite DEF TypeOK
<1>6. Limit[pending[i]] \in Nat
  BY <1>1, JobsAssumption
<1> QED
  BY <1>3, <1>4, <1>5, <1>6

LEMMA KeyLimitInit == Init => KeyLimit
<1> SUFFICES ASSUME Init, NEW S \in SUBSET Jobs, NEW j \in Jobs
             PROVE  Held(S) <= Limit[j]
  <2>1. \A s \in Scopes : \A j \in OfScope(s) : {k \in OfScope(s) : Limit[k] <= Limit[j]} \in SUBSET Jobs
    BY DEF OfScope
  <2> QED
    BY <2>1 DEF KeyLimit, OfScope
<1>1. Queued(jobs, S) = {} /\ Busy(S) = {}
  <2>1. jobs = <<>> /\ Len(<<>>) = 0
    BY EmptySeq DEF Init
  <2> QED
    BY <2>1, NoJobAssumption DEF Init, Queued, Busy
<1>2. Held(S) = 0 + 0
  BY <1>1, FS_EmptySet DEF Held
<1> QED
  BY <1>2, JobsAssumption

LEMMA KeyLimitNext ==
    ASSUME TypeOK, CountExact, KeyLimit, [Next]_vars
    PROVE  KeyLimit'
<1> SUFFICES ASSUME NEW s \in Scopes \ {NoScope}, NEW j \in OfScope(s)
             PROVE  Held({k \in OfScope(s) : Limit[k] <= Limit[j]})' <= Limit[j]
  BY DEF KeyLimit, OfScope
<1> DEFINE S == {k \in OfScope(s) : Limit[k] <= Limit[j]}
<1>1. S \in SUBSET Jobs /\ S \in SUBSET OfScope(s) /\ S' = S /\ Limit[j] \in Nat
  BY JobsAssumption DEF OfScope
<1>2. Held(S) <= Limit[j] /\ Held(S) \in Nat
  BY HeldType DEF KeyLimit
<1>3. ASSUME jobs' = jobs, working' = working
      PROVE  Held(S)' = Held(S)
  BY <1>3, HeldSame DEF OfScope
<1>4. ASSUME NEW i \in 1 .. Len(pending), HandOut(i)
      PROVE  Held(S)' <= Limit[j]
  <2>1. pending[i] \in Jobs /\ Held(S)' = Held(S) + One(pending[i] \in S)
    BY <1>1, <1>4, HeldHandOut
  <2>2. CASE pending[i] \in S
    <3>1. Scope[pending[i]] = s /\ Limit[pending[i]] <= Limit[j] /\ Limit[pending[i]] \in Nat
      BY <2>2, JobsAssumption DEF OfScope
    <3>2. Held(OfScope(s)) < Limit[pending[i]]
      BY <1>4, <3>1, HandedOutBelowLimit
    <3>3. Held(S) <= Held(OfScope(s)) /\ Held(OfScope(s)) \in Nat
      BY <1>1, HeldMonotone, HeldType
    <3> HIDE DEF S
    <3> QED
      BY <1>1, <1>2, <2>1, <2>2, <3>1, <3>2, <3>3 DEF One
  <2>3. CASE pending[i] \notin S
    <3> HIDE DEF S
    <3> QED
      BY <1>1, <1>2, <2>1, <2>3 DEF One
  <2> QED
    BY <2>2, <2>3
<1>5. ASSUME NEW w \in Workers, Take(w)
      PROVE  Held(S)' = Held(S)
  BY <1>1, <1>5, HeldTake
<1>6. ASSUME NEW w \in Workers, Release(w)
      PROVE  Held(S)' <= Limit[j]
  <2>1. Held(S) = Held(S)' + One(working[w] \in S)
    BY <1>1, <1>6, HeldRelease
  <2>2. Held(S)' \in Nat
    BY <1>1, TypeNext, HeldTypeNext
  <2> HIDE DEF S
  <2> QED
    BY <1>1, <1>2, <2>1, <2>2 DEF One
<1>7. CASE jobs' = jobs /\ working' = working
  BY <1>2, <1>3, <1>7
<1> QED
  BY <1>2, <1>4, <1>5, <1>6, <1>7
     DEF Next, Schedule, Work, vars, Deliver, Wait, Receive, CountDown, End

\* A key never holds more workers than its jobs' limits allow, duplicates of a
\* delivery included, for any number of keys and workers.  Code: nextEligibleJob.
THEOREM KeysWithinLimits == Spec => []KeyLimit
<1>1. TypeOK /\ CountExact /\ KeyLimit /\ [Next]_vars => KeyLimit'
  BY KeyLimitNext
<1> QED
  BY <1>1, KeyLimitInit, TypeCorrect, CountsAreExact, PTL DEF Spec

-----------------------------------------------------------------------------
(* The refinement of the worker pool *)

HeldCopies == [j \in Jobs |-> Held({j})]

\* What a set of jobs holds: positions in the channel and workers.
Items(S) == (Queued(jobs, S) \X {0}) \cup (Busy(S) \X {1})

LEMMA ItemsCount ==
    ASSUME TypeOK, NEW S
    PROVE  IsFiniteSet(Items(S)) /\ Cardinality(Items(S)) = Held(S)
<1> DEFINE Q == Queued(jobs, S)
           B == Busy(S)
           Q0 == Q \X {0}
           B1 == B \X {1}
<1>1. IsFiniteSet(Q) /\ Cardinality(Q) \in Nat /\ IsFiniteSet(B) /\ Cardinality(B) \in Nat
  BY QueuedFinite, BusyFinite DEF TypeOK
<1> HIDE DEF Q, B
<1>2. \A x : IsFiniteSet({x}) /\ Cardinality({x}) = 1
  BY FS_Singleton
<1>3. IsFiniteSet(Q0) /\ Cardinality(Q0) = Cardinality(Q)
  <2>1. IsFiniteSet(Q0) /\ Cardinality(Q0) = Cardinality(Q) * Cardinality({0})
    BY <1>1, <1>2, FS_Product
  <2>2. Cardinality(Q) * Cardinality({0}) = Cardinality(Q)
    <3>1. Cardinality({0}) = 1
      BY <1>2
    <3>2. Cardinality(Q) * 1 = Cardinality(Q)
      BY <1>1
    <3> QED
      BY <3>1, <3>2
  <2> HIDE DEF Q0
  <2> QED
    BY <2>1, <2>2
<1>4. IsFiniteSet(B1) /\ Cardinality(B1) = Cardinality(B)
  <2>1. IsFiniteSet(B1) /\ Cardinality(B1) = Cardinality(B) * Cardinality({1})
    BY <1>1, <1>2, FS_Product
  <2>2. Cardinality(B) * Cardinality({1}) = Cardinality(B)
    <3>1. Cardinality({1}) = 1
      BY <1>2
    <3>2. Cardinality(B) * 1 = Cardinality(B)
      BY <1>1
    <3> QED
      BY <3>1, <3>2
  <2> HIDE DEF B1
  <2> QED
    BY <2>1, <2>2
<1>5. Q0 \cap B1 = {}
  OBVIOUS
<1> HIDE DEF Q0, B1
<1>6. IsFiniteSet(Q0 \cup B1) /\ Cardinality(Q0 \cup B1) = Cardinality(Q0) + Cardinality(B1) - Cardinality(Q0 \cap B1)
  BY <1>3, <1>4, FS_Union
<1>7. Cardinality(Q0 \cap B1) = 0
  BY <1>5, FS_EmptySet
<1>8. Items(S) = Q0 \cup B1 /\ Held(S) = Cardinality(Q) + Cardinality(B)
  BY DEF Items, Held, Q0, B1, Q, B
<1> QED
  BY <1>1, <1>3, <1>4, <1>6, <1>7, <1>8

\* The copies of the jobs of a set add up to what the set holds.
LEMMA CopiesAddUp ==
    ASSUME TypeOK, NEW S \in SUBSET Jobs
    PROVE  Pool!Total(HeldCopies, S) = Held(S)
<1> DEFINE P == Pool!Parts(HeldCopies, S)
           b == [x \in Jobs |-> CHOOSE f : f \in Bijection(1 .. Held({x}), Items({x}))]
           F == [p \in P |-> b[p[1]][p[2]]]
<1>1. ASSUME NEW x \in Jobs
      PROVE  b[x] \in Bijection(1 .. Held({x}), Items({x}))
  <2>1. ExistsBijection(1 .. Held({x}), Items({x}))
    BY ItemsCount, FS_CardinalityType
  <2> QED
    BY <2>1 DEF ExistsBijection
<1>2. \A p : p \in P <=> \E x \in S : \E n \in 1 .. Held({x}) : p = <<x, n>>
  <2>1. \A x \in S : HeldCopies[x] = Held({x})
    BY DEF HeldCopies
  <2>2. P = UNION {{x} \X (1 .. HeldCopies[x]) : x \in S}
    BY DEF Pool!Parts
  <2> HIDE DEF P
  <2>3. \A p : p \in P <=> \E x \in S : p \in {x} \X (1 .. HeldCopies[x])
    BY <2>2
  <2>4. \A p : p \in P <=> \E x \in S : p \in {x} \X (1 .. Held({x}))
    BY <2>1, <2>3
  <2>5. ASSUME NEW p, NEW x, NEW D
        PROVE  p \in {x} \X D <=> \E n \in D : p = <<x, n>>
    OBVIOUS
  <2>6. \A p : \A x \in S : p \in {x} \X (1 .. Held({x})) <=> \E n \in 1 .. Held({x}) : p = <<x, n>>
    BY <2>5
  <2> QED
    BY <2>4, <2>6, Zenon
<1>3. ASSUME NEW x \in S
      PROVE  Items({x}) \subseteq Items(S)
  BY DEF Items, Queued, Busy
<1>4. ASSUME NEW x \in S, NEW y \in S, NEW i \in Items({x}), i \in Items({y})
      PROVE  x = y
  BY <1>4 DEF Items, Queued, Busy
<1>5. ASSUME NEW i \in Items(S)
      PROVE  \E x \in S : i \in Items({x})
  <2>1. CASE i \in Queued(jobs, S) \X {0}
    BY <2>1 DEF Items, Queued
  <2>2. CASE i \in Busy(S) \X {1}
    BY <2>2 DEF Items, Busy
  <2> QED
    BY <2>1, <2>2 DEF Items
<1>6. ASSUME NEW x \in S
      PROVE  /\ \A n \in 1 .. Held({x}) : b[x][n] \in Items({x})
             /\ \A m, n \in 1 .. Held({x}) : b[x][m] = b[x][n] => m = n
             /\ \A i \in Items({x}) : \E n \in 1 .. Held({x}) : b[x][n] = i
  <2> DEFINE D == 1 .. Held({x})
             R == Items({x})
             f == b[x]
  <2>1. f \in Bijection(D, R)
    BY <1>1
  <2> HIDE DEF D, R, f
  <2>2. /\ f \in [D -> R]
        /\ \A m, n \in D : f[m] = f[n] => m = n
        /\ \A i \in R : \E n \in D : f[n] = i
    BY <2>1, Fun_BijectionProperties
  <2>3. \A n \in D : f[n] \in R
    BY <2>2
  <2> QED
    BY <2>2, <2>3 DEF D, R, f
<1> HIDE DEF b, P
<1>7. F \in [P -> Items(S)]
  <2> SUFFICES ASSUME NEW p \in P
               PROVE  b[p[1]][p[2]] \in Items(S)
    OBVIOUS
  <2>1. PICK x \in S : \E n \in 1 .. Held({x}) : p = <<x, n>>
    BY <1>2
  <2>2. PICK n \in 1 .. Held({x}) : p = <<x, n>>
    BY <2>1
  <2> QED
    BY <1>3, <1>6, <2>2
<1>8. ASSUME NEW p \in P, NEW q \in P, F[p] = F[q]
      PROVE  p = q
  <2>1. PICK x \in S : \E n \in 1 .. Held({x}) : p = <<x, n>>
    BY <1>2
  <2>2. PICK n \in 1 .. Held({x}) : p = <<x, n>>
    BY <2>1
  <2>3. PICK y \in S : \E m \in 1 .. Held({y}) : q = <<y, m>>
    BY <1>2
  <2>4. PICK m \in 1 .. Held({y}) : q = <<y, m>>
    BY <2>3
  <2>5. b[x][n] = b[y][m]
    BY <1>8, <2>2, <2>4
  <2>6. x = y
    BY <1>4, <1>6, <2>5
  <2> QED
    BY <1>6, <2>2, <2>4, <2>5, <2>6
<1>9. ASSUME NEW i \in Items(S)
      PROVE  \E p \in P : F[p] = i
  <2>1. PICK x \in S : i \in Items({x})
    BY <1>5
  <2>2. PICK n \in 1 .. Held({x}) : b[x][n] = i
    BY <1>6, <2>1
  <2>3. <<x, n>> \in P
    BY <1>2
  <2> QED
    BY <2>2, <2>3
<1> HIDE DEF F
<1>10. F \in Bijection(P, Items(S))
  BY <1>7, <1>8, <1>9, Fun_IsBij
<1>11. ExistsBijection(Items(S), P)
  BY <1>10, Fun_ExistsBijSymmetric DEF ExistsBijection
<1>12. Cardinality(P) = Held(S)
  BY <1>11, ItemsCount, FS_Bijection
<1>13. Pool!Total(HeldCopies, S) = Pool!Cardinality(P)
  BY DEF Pool!Total, P
<1>14. Pool!Cardinality(P) = Cardinality(P)
  BY DEF Pool!Cardinality, Cardinality
<1> QED
  BY <1>12, <1>13, <1>14

\* At first nothing is held.
LEMMA PoolInit == Init => Pool!Init
<1> SUFFICES ASSUME Init, NEW j \in Jobs
             PROVE  Held({j}) = 0
  BY DEF Pool!Init
<1>1. Queued(jobs, {j}) = {} /\ Busy({j}) = {}
  <2>1. jobs = <<>> /\ Len(<<>>) = 0
    BY EmptySeq DEF Init
  <2> QED
    BY <2>1, NoJobAssumption DEF Init, Queued, Busy
<1>2. Held({j}) = 0 + 0
  BY <1>1, FS_EmptySet DEF Held
<1> QED
  BY <1>2

\* Handing out grants the job; the release of its worker returns it; no other
\* step changes what is held.
LEMMA PoolStep ==
    ASSUME TypeOK, CountExact, [Next]_vars
    PROVE  [Pool!Next]_HeldCopies
<1>1. \A j \in Jobs : HeldCopies[j] \in Nat /\ HeldCopies[j] = Held({j})
  BY HeldType DEF HeldCopies
<1>2. \A j \in Jobs : HeldCopies'[j] = Held({j})'
  BY DEF HeldCopies
<1>3. ASSUME jobs' = jobs, working' = working
      PROVE  HeldCopies' = HeldCopies
  BY <1>3, HeldSame DEF HeldCopies
<1>4. ASSUME NEW i \in 1 .. Len(pending), HandOut(i)
      PROVE  Pool!Grant(pending[i]) /\ pending[i] \in Jobs
  <2> DEFINE g == pending[i]
  <2>1. g \in Jobs
    BY ElementOfSeq DEF TypeOK
  <2>2. \A j \in Jobs : Held({j})' = Held({j}) + One(g \in {j})
    BY <1>4, HeldHandOut
  <2>3. HeldCopies' = [HeldCopies EXCEPT ![g] = @ + 1]
    <3>1. \A j \in Jobs : Held({j})' = IF j = g THEN Held({j}) + 1 ELSE Held({j})
      <4> SUFFICES ASSUME NEW j \in Jobs
                   PROVE  Held({j})' = IF j = g THEN Held({j}) + 1 ELSE Held({j})
        OBVIOUS
      <4>1. Held({j})' = Held({j}) + One(g \in {j}) /\ Held({j}) \in Nat
        BY <2>2, HeldType
      <4>2. One(g \in {j}) = IF j = g THEN 1 ELSE 0
        BY DEF One
      <4> HIDE DEF g
      <4> QED
        BY <4>1, <4>2
    <3> QED
      BY <2>1, <3>1 DEF HeldCopies
  <2>4. Pool!Room(g)
    <3> SUFFICES ASSUME Scope[g] # NoScope
                 PROVE  Pool!Total(HeldCopies, Pool!OfScope(Scope[g])) < Limit[g]
      BY DEF Pool!Room, HeldCopies
    <3>1. Pool!OfScope(Scope[g]) = OfScope(Scope[g]) /\ OfScope(Scope[g]) \in SUBSET Jobs
      BY DEF Pool!OfScope, OfScope
    <3>2. Held(OfScope(Scope[g])) < Limit[g]
      BY <1>4, HandedOutBelowLimit
    <3> QED
      BY <3>1, <3>2, CopiesAddUp
  <2> QED
    BY <2>1, <2>3, <2>4 DEF Pool!Grant, HeldCopies
<1>5. ASSUME NEW w \in Workers, Release(w)
      PROVE  Pool!Return(working[w]) /\ working[w] \in Jobs
  <2> DEFINE g == working[w]
  <2>1. g \in Jobs /\ \A j \in Jobs : Held({j}) = Held({j})' + One(g \in {j})
    BY <1>5, HeldRelease DEF Release, TypeOK
  <2>2. \A j \in Jobs : Held({j})' \in Nat
    BY TypeNext, HeldTypeNext
  <2>3. Held({g}) > 0
    BY <2>1, <2>2 DEF One
  <2>4. HeldCopies' = [HeldCopies EXCEPT ![g] = @ - 1]
    <3>1. \A j \in Jobs : Held({j})' = IF j = g THEN Held({j}) - 1 ELSE Held({j})
      <4> SUFFICES ASSUME NEW j \in Jobs
                   PROVE  Held({j})' = IF j = g THEN Held({j}) - 1 ELSE Held({j})
        OBVIOUS
      <4>1. Held({j}) = Held({j})' + One(g \in {j}) /\ Held({j})' \in Nat
        BY <2>1, <2>2
      <4>2. One(g \in {j}) = IF j = g THEN 1 ELSE 0
        BY DEF One
      <4> HIDE DEF g
      <4> QED
        BY <4>1, <4>2
    <3> QED
      BY <2>1, <3>1 DEF HeldCopies
  <2> QED
    BY <1>1, <2>1, <2>3, <2>4 DEF Pool!Return, HeldCopies
<1>6. ASSUME NEW w \in Workers, Take(w)
      PROVE  HeldCopies' = HeldCopies
  BY <1>6, HeldTake DEF HeldCopies
<1> QED
  BY <1>3, <1>4, <1>5, <1>6
     DEF Next, Schedule, Work, vars, Deliver, Wait, Receive, CountDown, End, Pool!Next

\* The scheduler implements the worker pool: a job is handed to the workers
\* only within its key's limit, counting everything the key holds.
\* Code: scheduleJobs, nextEligibleJob, worker.
THEOREM SchedulerImplementsPool == Spec => PoolSpec
<1>1. TypeOK /\ CountExact /\ [Next]_vars => [Pool!Next]_HeldCopies
  BY PoolStep
<1> QED
  BY <1>1, PoolInit, TypeCorrect, CountsAreExact, PTL
     DEF Spec, PoolSpec, Pool!Spec, HeldCopies
=============================================================================
