---------------------------- MODULE ConsoleOperations ----------------------------
(***************************************************************************)
(* The page of live operations: the running calls every 5 s behind a latch *)
(* that drops what comes while a request is out, the ranking of customers  *)
(* every 60 s with numbered requests, the state of the upstream every 30 s,*)
(* and the grouping of the running calls by customer that the page shows.  *)
(***************************************************************************)
EXTENDS Naturals, FiniteSets, Sequences

CONSTANTS Snapshots,     \* what may run when the server is asked: sequences of calls
          Ranges, FirstRange, NoRange,
          MaxOpsActs, MaxTicks   \* clicks; intervals that go off

\* AdminOperationsActiveCall, in what the groups are made of; "" is what it lacks.
RunningCalls == [user : STRING, email : STRING, key : STRING, label : STRING, task : STRING,
                 status : STRING, elapsedSeconds : Nat, createdAt : Nat, activeForKey : Nat,
                 concurrencyLimit : Nat]

ASSUME ConsoleOperationsAssumption == FirstRange \in Ranges /\ Snapshots \subseteq Seq(RunningCalls)

VARIABLES live,          \* the running calls shown, and what the server counted of them
          liveCall,      \* the request for them: "none", "quiet" or "loud"
          liveLoading,
          range, ranking, rankCalls, lastRank, rankingLoading, rankFailed,
          stability, stabilityCalls, stabilityLoading,
          expandedUser, opsActs, ticks

opsVars == <<live, liveCall, liveLoading, range, ranking, rankCalls, lastRank, rankingLoading,
             rankFailed, stability, stabilityCalls, stabilityLoading, expandedUser, opsActs,
             ticks>>
livePart == <<live, liveCall, liveLoading>>
rankPart == <<range, ranking, rankCalls, lastRank, rankingLoading, rankFailed>>
stabilityPart == <<stability, stabilityCalls, stabilityLoading>>

OpsAct == opsActs < MaxOpsActs /\ opsActs' = opsActs + 1 /\ UNCHANGED ticks
Tick == ticks < MaxTicks /\ ticks' = ticks + 1 /\ UNCHANGED opsActs
AtLeastOne(n) == IF n < 1 THEN 1 ELSE n
Larger(m, n) == IF m < n THEN n ELSE m

-----------------------------------------------------------------------------
(* What the server tells of the running calls, whose activeForKey it fills in. *)

AdminOperationsLive(rows) ==
    [activeCalls |->
         [i \in DOMAIN rows |->
              [rows[i] EXCEPT !.activeForKey =
                   Cardinality({j \in DOMAIN rows : rows[j].key = rows[i].key})]],
     activeRequests |-> Len(rows),
     queuedRequests |-> Cardinality({i \in DOMAIN rows : rows[i].status # "processing"}),
     slowRequests |-> Cardinality({i \in DOMAIN rows : rows[i].elapsedSeconds >= 120})]
EMPTY_LIVE == [activeCalls |-> << >>, activeRequests |-> 0, queuedRequests |-> 0,
               slowRequests |-> 0]
LiveSnapshots == {AdminOperationsLive(rows) : rows \in Snapshots} \union {EMPTY_LIVE}

-----------------------------------------------------------------------------
(* activeCallUserGroups: the calls one after the other into groups.         *)

groupKey(call) == IF call.user # "" THEN call.user ELSE IF call.email # "" THEN call.email
                  ELSE IF call.key # "" THEN call.key ELSE call.task
\* What its use is counted under: its API key, else its group and the key's label.
keyId(call) == IF call.key # "" THEN <<call.key>> ELSE <<groupKey(call), call.label>>
NewGroup(call) ==
    [taskCount |-> 0, queuedCount |-> 0, processingCount |-> 0, slowCount |-> 0,
     representativeStatus |-> call.status, firstCreatedAt |-> call.createdAt,
     keys |-> << >>, calls |-> << >>]
\* keyConcurrency, by keyId.
Concurrency(keys, call) ==
    LET id == keyId(call)
        old == IF id \in DOMAIN keys THEN keys[id] ELSE [used |-> 0, limit |-> 0]
        new == [used |-> Larger(old.used, AtLeastOne(call.activeForKey)),
                limit |-> Larger(old.limit, AtLeastOne(call.concurrencyLimit))]
    IN  [k \in DOMAIN keys \union {id} |-> IF k = id THEN new ELSE keys[k]]
CountedLast(group, call) ==
    [group EXCEPT !.taskCount = @ + 1,
        !.processingCount = IF call.status = "processing" THEN @ + 1 ELSE @,
        !.queuedCount = IF call.status = "processing" THEN @ ELSE @ + 1,
        !.representativeStatus = call.status,
        !.slowCount = IF call.elapsedSeconds >= 120 THEN @ + 1 ELSE @,
        !.firstCreatedAt = IF call.createdAt < @ THEN call.createdAt ELSE @,
        !.keys = Concurrency(@, call),
        !.calls = Append(@, call)]
Counted(group, call) ==
    [group EXCEPT !.taskCount = @ + 1,
        !.processingCount = IF call.status = "processing" THEN @ + 1 ELSE @,
        !.queuedCount = IF call.status = "processing" THEN @ ELSE @ + 1,
        !.representativeStatus = IF call.status = "processing" THEN "processing" ELSE @,
        !.slowCount = IF call.elapsedSeconds >= 120 THEN @ + 1 ELSE @,
        !.firstCreatedAt = IF call.createdAt < @ THEN call.createdAt ELSE @,
        !.keys = Concurrency(@, call),
        !.calls = Append(@, call)]
AddCall(groups, call) ==
    LET g == groupKey(call)
        old == IF g \in DOMAIN groups THEN groups[g] ELSE NewGroup(call)
    IN  [h \in DOMAIN groups \union {g} |-> IF h = g THEN Counted(old, call) ELSE groups[h]]
\* The groups when the loop is through with the first n calls.
groupsAfter(calls) ==
    LET after[n \in 0..Len(calls)] ==
            IF n = 0 THEN << >> ELSE AddCall(after[n - 1], calls[n])
    IN  after
activeCallUserGroups(calls) == groupsAfter(calls)[Len(calls)]

-----------------------------------------------------------------------------
OpsInit ==
    /\ live = EMPTY_LIVE /\ liveCall = "loud" /\ liveLoading = TRUE
    /\ range = FirstRange /\ ranking = NoRange
    /\ rankCalls = {[n |-> 1, range |-> FirstRange]} /\ lastRank = 1
    /\ rankingLoading = TRUE /\ rankFailed = FALSE
    /\ stability = "unknown" /\ stabilityCalls = {"loud"} /\ stabilityLoading = TRUE
    /\ expandedUser = "" /\ opsActs = 0 /\ ticks = 0

\* loadLive: nothing while a request is out. loadStability has no such latch.
LoadLive(how) ==
    IF liveCall # "none" THEN UNCHANGED livePart
    ELSE /\ liveCall' = how
         /\ liveLoading' = (liveLoading \/ how = "loud")
         /\ UNCHANGED live
LoadRanking(r) ==
    /\ lastRank' = lastRank + 1
    /\ rankCalls' = rankCalls \union {[n |-> lastRank + 1, range |-> r]}
    /\ rankingLoading' = TRUE
    /\ UNCHANGED <<ranking, rankFailed>>
LoadStability(how) ==
    /\ stabilityCalls' = stabilityCalls \union {how}
    /\ stabilityLoading' = (stabilityLoading \/ how = "loud")
    /\ UNCHANGED stability

\* The intervals, while the page is visible.
LiveTick == /\ Tick /\ LoadLive("quiet")
            /\ UNCHANGED <<rankPart, stabilityPart, expandedUser>>
RankingTick == /\ Tick /\ LoadRanking(range)
               /\ UNCHANGED <<livePart, range, stabilityPart, expandedUser>>
StabilityTick == /\ Tick /\ LoadStability("quiet")
                 /\ UNCHANGED <<livePart, rankPart, expandedUser>>

\* refreshAll, behind the three flags; the choice of a range (or a metric); a group
\* opened or closed.
refreshing == liveLoading \/ rankingLoading \/ stabilityLoading
RefreshOps ==
    /\ OpsAct /\ ~refreshing
    /\ LoadLive("loud") /\ LoadRanking(range) /\ LoadStability("loud")
    /\ UNCHANGED <<range, expandedUser>>
ChooseRange(r) ==
    /\ OpsAct
    /\ range # r /\ range' = r
    /\ LoadRanking(r)
    /\ UNCHANGED <<livePart, stabilityPart, expandedUser>>
Expand(g) ==
    /\ OpsAct
    /\ g \in DOMAIN activeCallUserGroups(live.activeCalls)
    /\ expandedUser' = IF expandedUser = g THEN "" ELSE g
    /\ UNCHANGED <<livePart, rankPart, stabilityPart>>

\* The answers, or errors that leave what is shown.
LiveAnswer ==
    /\ liveCall # "none" /\ liveCall' = "none"
    /\ \/ UNCHANGED live
       \/ \E rows \in Snapshots : live' = AdminOperationsLive(rows)
    /\ liveLoading' = (liveLoading /\ liveCall = "quiet")
    /\ UNCHANGED <<rankPart, stabilityPart, expandedUser, opsActs, ticks>>
RankingAnswer(c) ==
    /\ c \in rankCalls /\ rankCalls' = rankCalls \ {c}
    /\ IF c.n # lastRank THEN UNCHANGED <<ranking, rankingLoading, rankFailed>>
       ELSE /\ rankingLoading' = FALSE
            /\ \/ ranking' = c.range /\ rankFailed' = FALSE
               \/ UNCHANGED ranking /\ rankFailed' = TRUE
    /\ UNCHANGED <<livePart, range, lastRank, stabilityPart, expandedUser, opsActs, ticks>>
StabilityAnswer(how) ==
    /\ how \in stabilityCalls /\ stabilityCalls' = stabilityCalls \ {how}
    /\ stability' \in {"healthy", "failing", stability}
    /\ stabilityLoading' = (stabilityLoading /\ how = "quiet")
    /\ UNCHANGED <<livePart, rankPart, expandedUser, opsActs, ticks>>

\* runState: what the head of the page says, by the counts of the server.
runState == IF stability = "failing" THEN "upstream"
            ELSE IF live.slowRequests > 0 THEN "slow"
            ELSE IF live.queuedRequests > 0 THEN "queued"
            ELSE IF live.activeRequests > 0 THEN "running" ELSE "idle"

OpsAnswer == \/ LiveAnswer
             \/ \E c \in rankCalls : RankingAnswer(c)
             \/ \E how \in stabilityCalls : StabilityAnswer(how)
OpsNext ==
    \/ LiveTick \/ RankingTick \/ StabilityTick
    \/ RefreshOps
    \/ \E r \in Ranges : ChooseRange(r)
    \/ \E g \in DOMAIN activeCallUserGroups(live.activeCalls) : Expand(g)
    \/ OpsAnswer

-----------------------------------------------------------------------------
OpsTypeOK ==
    /\ liveCall \in {"none", "quiet", "loud"} /\ range \in Ranges
    /\ live \in LiveSnapshots
    /\ ranking \in Ranges \union {NoRange} /\ stabilityCalls \subseteq {"quiet", "loud"}

\* Every running call is shown in one group, that of its customer, and what a group
\* says of itself is what its calls are, in whatever order they came; of no key it shows
\* less use than it has calls with that key; the head of the page, which the server's
\* counts decide, agrees with the groups, which the page counts.
GroupsOfCalls ==
    LET calls == live.activeCalls
        groups == activeCallUserGroups(calls)
        Of(g) == {i \in DOMAIN calls : groupKey(calls[i]) = g}
    IN  /\ \A g \in DOMAIN groups \union {groupKey(calls[i]) : i \in DOMAIN calls} :
               /\ g \in DOMAIN groups
               /\ groups[g].taskCount = Cardinality(Of(g))
               /\ groups[g].taskCount = groups[g].processingCount + groups[g].queuedCount
               /\ groups[g].representativeStatus = "processing"
                      <=> \E i \in Of(g) : calls[i].status = "processing"
               /\ \A i \in Of(g) :
                      /\ groups[g].firstCreatedAt <= calls[i].createdAt
                      /\ groups[g].keys[keyId(calls[i])].used >=
                             Cardinality({j \in Of(g) : keyId(calls[j]) = keyId(calls[i])})
        /\ runState = "idle" => groups = << >>
        /\ runState = "slow" => \E g \in DOMAIN groups : groups[g].slowCount > 0
        /\ runState = "queued" => \E g \in DOMAIN groups : groups[g].queuedCount > 0
\* The ranking shown is of the range that is chosen once no request is under way.
RankingOfRange == ~rankingLoading /\ ~rankFailed => ranking = range
=============================================================================
