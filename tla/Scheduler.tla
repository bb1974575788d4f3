----------------------------- MODULE Scheduler -----------------------------
(***************************************************************************)
(* The goroutines between the stream reader and the workers: the reader    *)
(* and the recovery loop put delivered messages into the channel incoming; *)
(* scheduleJobs moves them to a pending list and from there, past jobs     *)
(* whose key is at its limit, to the channel jobs; a worker that is done   *)
(* sends the key of its job to the channel releases, on which the          *)
(* scheduler counts it down.  All three channels are bounded, and all      *)
(* three block.  A job may be delivered again while it is anywhere on its  *)
(* way.                                                                    *)
(***************************************************************************)
EXTENDS ApiKeys, Sequences, Totals

CONSTANTS
    Workers,    \* worker goroutines
    Capacity,   \* buffer size of each channel (2 * workers in the code)
    SlowScopes  \* keys whose upstream calls need not end (fairness only)

ASSUME CapacityAssumption == Capacity \in Nat \ {0}
ASSUME WorkersAssumption == IsFiniteSet(Workers)

NoJob == <<"no job">>
ASSUME NoJobAssumption == NoJob \notin Jobs
Scopes == {Scope[j] : j \in Jobs}

VARIABLES
    incoming, jobs, releases,  \* the channels
    pending,    \* scheduler: jobs it has received and not handed out
    active,     \* scheduler: its count of handed-out jobs per key
    selecting,  \* scheduler: it waits in its select statement
    working,    \* working[w]: the job of worker w
    done        \* done[w]: that job has ended, the release is to be sent

vars == <<incoming, jobs, releases, pending, active, selecting, working, done>>

-----------------------------------------------------------------------------
\* nextEligibleJob: the first pending job whose key is below the job's limit.
EligibleHead(i) ==  \* mutant: a blocked job blocks those behind it
    i = 1 /\ (Scope[pending[i]] = NoScope \/ active[Scope[pending[i]]] < Limit[pending[i]])
EligibleOff(i) ==  \* mutant: off by one
    Scope[pending[i]] = NoScope \/ active[Scope[pending[i]]] <= Limit[pending[i]]
Eligible(i) ==
    Scope[pending[i]] = NoScope \/ active[Scope[pending[i]]] < Limit[pending[i]]

FirstEligible(i) ==
    /\ i \in 1 .. Len(pending)
    /\ Eligible(i)
    /\ \A k \in 1 .. (i - 1) : ~Eligible(k)

Without(q, i) == SubSeq(q, 1, i - 1) \o SubSeq(q, i + 1, Len(q))

CountedUp(s) == IF s = NoScope THEN active ELSE [active EXCEPT ![s] = @ + 1]
CountedDownStuck(s) ==  \* mutant: the last job of a key is never counted down
    IF s = NoScope THEN active ELSE [active EXCEPT ![s] = IF @ > 1 THEN @ - 1 ELSE @]
CountedDown(s) ==
    IF s = NoScope THEN active ELSE [active EXCEPT ![s] = IF @ > 1 THEN @ - 1 ELSE 0]

\* The scheduler stops receiving while it holds a buffer's worth of jobs.
ReceivesAlways == TRUE  \* mutant: an unbounded pending list
Receives == Len(pending) < Capacity

Init ==
    /\ incoming = <<>> /\ jobs = <<>> /\ releases = <<>>
    /\ pending = <<>>
    /\ active = [s \in Scopes |-> 0]
    /\ selecting = FALSE
    /\ working = [w \in Workers |-> NoJob]
    /\ done = [w \in Workers |-> FALSE]

-----------------------------------------------------------------------------
\* The reader or the recovery loop gets a message through; it may be one that
\* is on its way already.
Deliver(j) ==
    /\ Len(incoming) < Capacity
    /\ incoming' = Append(incoming, j)
    /\ UNCHANGED <<jobs, releases, pending, active, selecting, working, done>>

\* Hand out the first eligible job, if the channel has room ...
HandOut(i) ==
    /\ ~selecting
    /\ FirstEligible(i)
    /\ Len(jobs) < Capacity
    /\ jobs' = Append(jobs, pending[i])
    /\ active' = CountedUp(Scope[pending[i]])
    /\ pending' = Without(pending, i)
    /\ UNCHANGED <<incoming, releases, selecting, working, done>>

\* ... else wait for a new job or for a release.
Wait ==
    /\ ~selecting
    /\ (\A i \in 1 .. Len(pending) : ~Eligible(i)) \/ Len(jobs) >= Capacity
    /\ selecting' = TRUE
    /\ UNCHANGED <<incoming, jobs, releases, pending, active, working, done>>

Receive ==
    /\ selecting
    /\ Receives
    /\ incoming # <<>>
    /\ pending' = Append(pending, Head(incoming))
    /\ incoming' = Tail(incoming)
    /\ selecting' = FALSE
    /\ UNCHANGED <<jobs, releases, active, working, done>>

CountDown ==
    /\ selecting
    /\ releases # <<>>
    /\ active' = CountedDown(Head(releases))
    /\ releases' = Tail(releases)
    /\ selecting' = FALSE
    /\ UNCHANGED <<incoming, jobs, pending, working, done>>

-----------------------------------------------------------------------------
\* The worker goroutine: take a job, run it, send its key.
Take(w) ==
    /\ working[w] = NoJob
    /\ jobs # <<>>
    /\ working' = [working EXCEPT ![w] = Head(jobs)]
    /\ jobs' = Tail(jobs)
    /\ UNCHANGED <<incoming, releases, pending, active, selecting, done>>

\* The task ends, fails, panics, or turns out to be claimed by another worker.
End(w) ==
    /\ working[w] # NoJob /\ ~done[w]
    /\ done' = [done EXCEPT ![w] = TRUE]
    /\ UNCHANGED <<incoming, jobs, releases, pending, active, selecting, working>>

Release(w) ==
    /\ done[w]
    /\ Len(releases) < Capacity
    /\ releases' = Append(releases, Scope[working[w]])
    /\ working' = [working EXCEPT ![w] = NoJob]
    /\ done' = [done EXCEPT ![w] = FALSE]
    /\ UNCHANGED <<incoming, jobs, pending, active, selecting>>

-----------------------------------------------------------------------------
Schedule == (\E i \in 1 .. Len(pending) : HandOut(i)) \/ Wait \/ Receive \/ CountDown
Work(w) == Take(w) \/ End(w) \/ Release(w)

Next ==
    \/ \E j \in Jobs : Deliver(j)
    \/ Schedule
    \/ \E w \in Workers : Work(w)

Spec == Init /\ [][Next]_vars

\* A select with several ready cases picks one at random, so that no case is
\* passed over for ever; receivers of a channel are served in turn; a call ends
\* by its timeout, except that those of slow keys may outlast the observation.
\* Nothing is assumed of deliveries.
Fairness ==
    /\ WF_vars(\E i \in 1 .. Len(pending) : HandOut(i)) /\ WF_vars(Wait)
    /\ SF_vars(Receive) /\ SF_vars(CountDown)
    /\ \A w \in Workers :
         /\ SF_vars(Take(w)) /\ SF_vars(Release(w))
         /\ WF_vars(working[w] # NoJob /\ Scope[working[w]] \notin SlowScopes /\ End(w))

FairSpec == Spec /\ Fairness

-----------------------------------------------------------------------------
(* Properties *)

\* Positions of a channel that hold a job of a set; workers that hold one.
Queued(q, S) == {i \in 1 .. Len(q) : q[i] \in S}
Busy(S) == {w \in Workers : working[w] \in S}
Held(S) == Cardinality(Queued(jobs, S)) + Cardinality(Busy(S))

\* Type invariant; no channel and no list exceeds its capacity.
TypeOK ==
    /\ incoming \in Seq(Jobs) /\ Len(incoming) <= Capacity
    /\ jobs \in Seq(Jobs) /\ Len(jobs) <= Capacity
    /\ pending \in Seq(Jobs) /\ Len(pending) <= Capacity
    /\ releases \in Seq(Scopes) /\ Len(releases) <= Capacity
    /\ active \in [Scopes -> Nat]
    /\ selecting \in BOOLEAN
    /\ working \in [Workers -> Jobs \cup {NoJob}]
    /\ done \in [Workers -> BOOLEAN]
    /\ \A w \in Workers : done[w] => working[w] # NoJob

\* The scheduler's count of a key is exactly what is handed out and not yet
\* counted down: jobs waiting for a worker, jobs held by one, releases on their
\* way.  A leak would lower the key's limit for ever, a double release lift it.
CountExact ==
    \A s \in Scopes \ {NoScope} :
        active[s] = Held(OfScope(s)) + Cardinality(Queued(releases, {s}))

\* The scheduler implements the worker pool, whose jobs are held from the
\* channel until their worker has released them.
Pool == INSTANCE WorkerPool WITH held <- [j \in Jobs |-> Held({j})]
PoolSpec == Pool!Spec

\* Jobs admitted with a limit of at most n never hold more than n workers of
\* their key, duplicates of a delivery included.
KeyLimit ==
    \A s \in Scopes \ {NoScope} : \A j \in OfScope(s) :
        Held({k \in OfScope(s) : Limit[k] <= Limit[j]}) <= Limit[j]

\* scheduler.go promises that one busy API key cannot stall unrelated customers.
\* The half of it that the pending list gives: a job in the list is started
\* whatever the jobs before it wait for, unless every worker is at a call of a
\* slow key.  Code: nextEligibleJob.
Started(j) == \E w \in Workers : working[w] = j
AllSlow == Busy({j \in Jobs : Scope[j] \in SlowScopes}) = Workers
ScansPast ==
    \A j \in Jobs : Scope[j] \notin SlowScopes =>
        (Queued(pending, {j}) # {} ~> (Started(j) \/ AllSlow))

\* The whole of it: a job that was delivered is started, unless its own key is
\* slow.
Arrived(j) == Queued(incoming, {j}) # {} \/ Queued(pending, {j}) # {}
OthersProceed ==
    \A j \in Jobs : Scope[j] \notin SlowScopes => (Arrived(j) ~> Started(j))
=============================================================================
