---------------------- MODULE GenerationBillingProofs ----------------------
(* Theorems about GenerationBilling, for every choice of its constants: what *)
(* an account reserves, that exactly the delivered tasks are charged and the *)
(* admitted ones can be paid, and that quota comes back and is not created.  *)
EXTENDS GenerationBilling, TotalsTheorems

-----------------------------------------------------------------------------
(* Sums over the tasks of an account *)

LEMMA TasksFinite ==
    ASSUME NEW u, NEW S
    PROVE  With(u, S) \in SUBSET Tasks /\ IsFiniteSet(With(u, S))
<1>1. With(u, S) \in SUBSET Tasks
  BY DEF With
<1> QED
  BY <1>1, TasksAssumption, FS_Subset

\* Under the type invariant, the sums the code reads are natural numbers.
LEMMA SumsTyped ==
    ASSUME cost \in [Tasks -> Nat], units \in [Tasks -> Nat], NEW u
    PROVE  /\ LiveCost(u) \in Nat
           /\ Delivered(u) \in Nat
           /\ Used(u) \in Nat
           /\ UnitsOf({t \in Tasks : Owner[t] = u}) \in Nat
<1>1. ASSUME NEW S
      PROVE  CostOf(With(u, S)) \in Nat
  <2>1. IsFiniteSet(With(u, S)) /\ \A t \in With(u, S) : cost[t] \in Nat
    BY TasksFinite DEF With
  <2> QED
    BY <2>1, TotalType DEF CostOf
<1>2. ASSUME NEW S \in SUBSET Tasks
      PROVE  UnitsOf(S) \in Nat
  <2>1. IsFiniteSet(S)
    BY TasksAssumption, FS_Subset
  <2> QED
    BY <2>1, TotalType DEF UnitsOf
<1>3. Used(u) \in Nat
  BY <1>2 DEF Used, With
<1>4. UnitsOf({t \in Tasks : Owner[t] = u}) \in Nat
  BY <1>2
<1> QED
  BY <1>1, <1>3, <1>4 DEF LiveCost, Delivered

-----------------------------------------------------------------------------
(* Type correctness *)

LEMMA TypeInit == Init => TypeOK
BY RequestsAssumption, AccountsAssumption
   DEF Init, TypeOK, Statuses, Stages, Kinds, NoQuote, NoLock

LEMMA TypeRequest ==
    ASSUME TypeOK, NEW t \in Tasks, Request(t)
    PROVE  TypeOK'
<1> USE RequestsAssumption
<1>1. CASE Quote(t)
  <2>1. PICK q \in [cost : Nat, units : Nat, period : Nat] :
          quote' = [quote EXCEPT ![t] = q]
    BY <1>1 DEF Quote, TypeOK
  <2>2. quote' \in [Tasks -> {NoQuote} \cup [cost : Nat, units : Nat, period : Nat]]
    BY <2>1 DEF TypeOK
  <2> QED
    BY <1>1, <2>2 DEF Quote, TypeOK, userVars, taskVars, subVars, logVars
<1>2. CASE Admit(t)
  <2> DEFINE q == quote[t]
             u == Owner[t]
  <2>1. u \in Users /\ q \in [cost : Nat, units : Nat, period : Nat]
    BY <1>2 DEF Admit, TypeOK
  <2>2. quota[u] - q.units \in Nat
    BY <1>2, <2>1 DEF Admit, QuotaLeft, TypeOK
  <2>3. q.cost \in Nat /\ q.units \in Nat /\ reserved[u] + q.cost \in Nat
    BY <2>1 DEF TypeOK
  <2>4. created' \in [Tasks -> Nat]
    BY <1>2, <2>1 DEF Admit, TypeOK
  <2> QED
    BY <1>2, <2>1, <2>2, <2>3, <2>4
       DEF Admit, TypeOK, Statuses, Live, logVars
<1>3. CASE Refuse(t)
  BY <1>3 DEF Refuse, TypeOK, userVars, taskVars, subVars, logVars
<1> QED
  BY <1>1, <1>2, <1>3 DEF Request

LEMMA TypeWork ==
    ASSUME TypeOK, NEW t \in Tasks, Work(t)
    PROVE  TypeOK'
<1> USE RequestsAssumption
<1>1. CASE Claim(t)
  BY <1>1 DEF Claim, TypeOK, Statuses, Live, userVars, subVars, logVars
<1>2. ASSUME Charge(t)
      PROVE  /\ credits' \in [Users -> Nat] /\ deducts' \in [Tasks -> Nat]
             /\ status' \in [Tasks -> Statuses]
  <2>1. Owner[t] \in Users /\ credits[Owner[t]] - cost[t] \in Nat
    BY <1>2 DEF Charge, TypeOK
  <2> QED
    BY <1>2, <2>1 DEF Charge, TypeOK, Statuses, Terminal
<1>3. CASE Settle(t)
  <2>1. Charge(t)
    BY <1>3 DEF Settle
  <2>2. after' \in [Kinds -> [Tasks -> Stages]] /\ running' \subseteq Tasks
    BY <1>3 DEF Settle, Then, TypeOK, Kinds, Stages
  <2> QED
    BY <1>2, <1>3, <2>1, <2>2 DEF Settle, Charge, TypeOK, subVars
<1>4. CASE SettleAckLost(t)
  <2>1. Charge(t) /\ UNCHANGED <<running, after>> /\ faults' \in Nat
    BY <1>4 DEF SettleAckLost, Fault, TypeOK
  <2> QED
    BY <1>2, <2>1 DEF Charge, TypeOK, subVars
<1>5. CASE WorkerFails(t)
  <2>1. after' \in [Kinds -> [Tasks -> Stages]]
    BY <1>5 DEF WorkerFails, Then, TypeOK, Kinds, Stages
  <2>2. status' \in [Tasks -> Statuses]
    BY <1>5 DEF WorkerFails, FailedStatus, TypeOK, Statuses, Terminal
  <2> QED
    BY <1>5, <2>1, <2>2 DEF WorkerFails, TypeOK, userVars, subVars, logVars
<1>6. CASE WorkerYields(t)
  BY <1>6 DEF WorkerYields, TypeOK, userVars, taskVars, subVars, logVars
<1>7. CASE WorkerFinishError(t)
  BY <1>7 DEF WorkerFinishError, Fault, TypeOK, userVars, taskVars, subVars, logVars
<1> QED
  BY <1>1, <1>3, <1>4, <1>5, <1>6, <1>7 DEF Work

LEMMA TypeCancelTask ==
    ASSUME TypeOK, NEW t \in Tasks, CancelTask(t)
    PROVE  TypeOK'
<1>1. after' \in [Kinds -> [Tasks -> Stages]]
  BY DEF CancelTask, Then, TypeOK, Kinds, Stages
<1>2. status' \in [Tasks -> Statuses]
  BY DEF CancelTask, TypeOK, Statuses, Terminal
<1> QED
  BY <1>1, <1>2 DEF CancelTask, TypeOK, userVars, subVars, logVars

LEMMA TypeSweep ==
    ASSUME TypeOK, Sweep
    PROVE  TypeOK'
<1>1. ASSUME NEW S \in SUBSET Tasks, SweepSelect(S)
      PROVE  TypeOK'
  BY <1>1 DEF SweepSelect, TypeOK, userVars, taskVars, subVars, logVars
<1>2. ASSUME NEW t \in Tasks, SweepFail(t)
      PROVE  TypeOK'
  <2>1. status' \in [Tasks -> Statuses] /\ batch' \subseteq Tasks
    BY <1>2 DEF SweepFail, TypeOK, Statuses, Terminal
  <2> QED
    BY <1>2, <2>1 DEF SweepFail, TypeOK, userVars, subVars, logVars
<1>3. ASSUME NEW t \in Tasks, SweepFollowUp(t)
      PROVE  TypeOK'
  <2>1. after' \in [Kinds -> [Tasks -> Stages]]
    BY <1>3 DEF SweepFollowUp, Then, TypeOK, Kinds, Stages
  <2> QED
    BY <1>3, <2>1 DEF SweepFollowUp, TypeOK, userVars, taskVars, subVars, logVars
<1>4. CASE SweepError
  BY <1>4 DEF SweepError, Fault, TypeOK, userVars, taskVars, subVars, logVars
<1> QED
  BY <1>1, <1>2, <1>3, <1>4 DEF Sweep

LEMMA TypeFollowUp ==
    ASSUME TypeOK, NEW k \in Kinds, NEW t \in Tasks, FollowUp(k, t)
    PROVE  TypeOK'
<1> DEFINE u == Owner[t]
<1> u \in Users
  BY RequestsAssumption
<1>1. ASSUME NEW stage \in Stages, after' = Then(k, t, stage)
      PROVE  after' \in [Kinds -> [Tasks -> Stages]]
  BY <1>1 DEF Then, TypeOK
<1>2. NextStage(k) \in Stages /\ "none" \in Stages
  BY DEF NextStage, Stages
<1>3. CASE ReconcileSum(k, t)
  <2>1. LiveCost(u) \in Nat
    BY SumsTyped DEF TypeOK
  <2>2. sum' \in [Users -> Nat]
    BY <1>3, <2>1 DEF ReconcileSum, TypeOK
  <2>3. lock' \in [Users -> {NoLock} \cup (Kinds \X Tasks)]
    BY <1>3 DEF ReconcileSum, TypeOK
  <2> QED
    BY <1>3, <2>2, <2>3 DEF ReconcileSum, TypeOK, userVars, taskVars, subVars, logVars
<1>4. CASE ReconcileWrite(k, t)
  <2>1. after' \in [Kinds -> [Tasks -> Stages]]
    BY <1>1, <1>2, <1>4 DEF ReconcileWrite
  <2>2. reserved' \in [Users -> Nat] /\ sum' \in [Users -> Nat]
    BY <1>4 DEF ReconcileWrite, TypeOK
  <2>3. lock' \in [Users -> {NoLock} \cup (Kinds \X Tasks)]
    BY <1>4 DEF ReconcileWrite, TypeOK
  <2> QED
    BY <1>4, <2>1, <2>2, <2>3 DEF ReconcileWrite, TypeOK, taskVars, subVars, logVars
<1>5. CASE ReconcileError(k, t)
  <2>1. after' \in [Kinds -> [Tasks -> Stages]] /\ faults' \in Nat
    BY <1>1, <1>2, <1>5 DEF ReconcileError, Fault, TypeOK
  <2>2. /\ sum' \in [Users -> Nat]
        /\ lock' \in [Users -> {NoLock} \cup (Kinds \X Tasks)]
    <3>1. CASE lock[u] = <<k, t>>
      <4>1. lock' = [lock EXCEPT ![u] = NoLock] /\ sum' = [sum EXCEPT ![u] = 0]
        BY <1>5, <3>1, Zenon DEF ReconcileError
      <4> QED
        BY <4>1 DEF TypeOK
    <3>2. CASE lock[u] # <<k, t>>
      BY <1>5, <3>2 DEF ReconcileError, TypeOK
    <3> QED
      BY <3>1, <3>2
  <2>3. UNCHANGED <<userVars, taskVars, subVars, logVars, quote, running, cands, batch>>
    BY <1>5 DEF ReconcileError
  <2> QED
    BY <2>1, <2>2, <2>3 DEF TypeOK, userVars, taskVars, subVars, logVars
<1>6. CASE Release(k, t)
  <2>1. after' \in [Kinds -> [Tasks -> Stages]]
    BY <1>1, <1>2, <1>6 DEF Release
  <2>2. quota' \in [Users -> Nat] /\ units' \in [Tasks -> Nat]
    BY <1>6 DEF Release, UnitsReturned, TypeOK
  <2> QED
    BY <1>6, <2>1, <2>2 DEF Release, TypeOK, userVars, logVars
<1>7. CASE ReleaseError(k, t)
  <2>1. after' \in [Kinds -> [Tasks -> Stages]] /\ faults' \in Nat
    BY <1>1, <1>2, <1>7 DEF ReleaseError, Fault, TypeOK
  <2> QED
    BY <1>7, <2>1 DEF ReleaseError, TypeOK, userVars, taskVars, subVars, logVars
<1> QED
  BY <1>3, <1>4, <1>5, <1>6, <1>7 DEF FollowUp

LEMMA TypeAccount ==
    ASSUME TypeOK, NEW u \in Users, Account(u)
    PROVE  TypeOK'
<1>1. ASSUME NEW d \in Deltas, AdjustCredits(u, d)
      PROVE  TypeOK'
  <2>1. credits[u] + d \in Nat /\ adjusted[u] + d \in Int
    BY <1>1, AccountsAssumption DEF AdjustCredits, TypeOK
  <2> QED
    BY <1>1, <2>1 DEF AdjustCredits, TypeOK, taskVars, subVars, procVars
<1>2. CASE SetUserStatus(u)
  BY <1>2 DEF SetUserStatus, TypeOK, taskVars, subVars, logVars, procVars
<1> QED
  BY <1>1, <1>2 DEF Account

LEMMA TypeSubscription ==
    ASSUME TypeOK, NEW u \in Users, Subscription(u)
    PROVE  TypeOK'
<1>1. Used(u) \in Nat /\ UnitsOf({t \in Tasks : Owner[t] = u}) \in Nat
  BY SumsTyped DEF TypeOK
<1>2. CASE GrantSubscription(u)
  <2> DEFINE carried == IF Paid(u) /\ limit[u] - Used(u) > 0
                        THEN limit[u] - Used(u) ELSE 0
  <2>1. PlanQuota + carried \in Nat
    BY <1>1, PlansAssumption DEF TypeOK
  <2>2. /\ quota' = [quota EXCEPT ![u] = PlanQuota + carried]
        /\ limit' = [limit EXCEPT ![u] = PlanQuota + carried]
    BY <1>2 DEF GrantSubscription
  <2>3. quota' \in [Users -> Nat] /\ limit' \in [Users -> Nat]
    BY <2>1, <2>2 DEF TypeOK
  <2>4. /\ granted' \in [Users -> Nat] /\ period' \in [Users -> Nat]
        /\ subStatus' \in [Users -> {"none", "active", "canceled"}]
        /\ unexpired' \in [Users -> BOOLEAN]
    BY <1>2, PlansAssumption DEF GrantSubscription, TypeOK
  <2> QED
    BY <1>2, <2>3, <2>4 DEF GrantSubscription, TypeOK, userVars, taskVars, procVars
<1>3. CASE CancelSubscription(u)
  BY <1>3 DEF CancelSubscription, TypeOK, userVars, taskVars, logVars, procVars
<1>4. CASE ExpireSubscription(u)
  BY <1>4 DEF ExpireSubscription, TypeOK, userVars, taskVars, logVars, procVars
<1>5. ASSUME NEW q \in AdjustTo, AdjustQuota(u, q)
      PROVE  TypeOK'
  <2>1. q \in Nat
    BY PlansAssumption
  <2>2. /\ limit' \in [Users -> Nat] /\ quota' \in [Users -> Nat]
        /\ granted' \in [Users -> Nat]
    BY <1>1, <1>5, <2>1 DEF AdjustQuota, TypeOK
  <2> QED
    BY <1>5, <2>2 DEF AdjustQuota, TypeOK, userVars, taskVars, procVars
<1>6. ASSUME NEW q \in AdjustTo \cup {limit[u]}, ResetUsage(u, q)
      PROVE  TypeOK'
  <2>1. q \in Nat
    BY PlansAssumption DEF TypeOK
  <2>2. /\ limit' \in [Users -> Nat] /\ quota' \in [Users -> Nat]
        /\ granted' \in [Users -> Nat] /\ period' \in [Users -> Nat]
    BY <1>1, <1>6, <2>1 DEF ResetUsage, TypeOK
  <2> QED
    BY <1>6, <2>2 DEF ResetUsage, TypeOK, userVars, taskVars, procVars
<1> QED
  BY <1>2, <1>3, <1>4, <1>5, <1>6 DEF Subscription

LEMMA TypeCrash ==
    ASSUME TypeOK, CrashAndRestart
    PROVE  TypeOK'
<1>1. \A u \in Users : LiveCost(u) \in Nat
  BY SumsTyped DEF TypeOK
<1>2. reserved' \in [Users -> Nat] /\ sum' \in [Users -> Nat]
  BY <1>1 DEF CrashAndRestart
<1>3. /\ after' \in [Kinds -> [Tasks -> Stages]]
      /\ lock' \in [Users -> {NoLock} \cup (Kinds \X Tasks)]
      /\ quote' \in [Tasks -> {NoQuote} \cup [cost : Nat, units : Nat, period : Nat]]
      /\ faults' \in Nat
  BY DEF CrashAndRestart, Fault, TypeOK, Stages
<1> QED
  BY <1>2, <1>3 DEF CrashAndRestart, TypeOK, taskVars, subVars, logVars

LEMMA TypeStutter ==
    ASSUME TypeOK, UNCHANGED vars
    PROVE  TypeOK'
BY DEF TypeOK, vars, userVars, taskVars, subVars, logVars, procVars

LEMMA TypeNext == TypeOK /\ [Next]_vars => TypeOK'
BY TypeRequest, TypeWork, TypeCancelTask, TypeSweep, TypeFollowUp, TypeAccount,
   TypeSubscription, TypeCrash, TypeStutter DEF Next

\* Every variable keeps its type: no balance, reservation or quota is negative.
THEOREM TypeCorrect == Spec => []TypeOK
BY TypeInit, TypeNext, PTL DEF Spec

-----------------------------------------------------------------------------
(* How the sums change in a step *)

\* Without a write to a status or a cost, no sum over them changes.
LEMMA SumsSame ==
    ASSUME UNCHANGED <<status, cost>>, NEW u
    PROVE  LiveCost(u)' = LiveCost(u) /\ Delivered(u)' = Delivered(u)
BY DEF LiveCost, Delivered, CostOf, With

\* A task that leaves the live statuses, or none, can only lower LiveCost.
LEMMA LiveShrinks ==
    ASSUME TypeOK, cost' = cost, NEW u,
           \A t \in Tasks : status'[t] \in Live => status[t] \in Live
    PROVE  /\ LiveCost(u)' <= LiveCost(u)
           /\ LiveCost(u) \in Nat /\ LiveCost(u)' \in Nat
<1> DEFINE S == With(u, Live)
           T == With(u, Live)'
<1>1. T \in SUBSET S
  BY DEF With, Live
<1>2. IsFiniteSet(S) /\ \A t \in S : cost[t] \in Nat
  <2>1. cost \in [Tasks -> Nat]
    BY DEF TypeOK
  <2>2. IsFiniteSet(S) /\ S \in SUBSET Tasks
    BY TasksFinite
  <2> HIDE DEF S
  <2> QED
    BY <2>1, <2>2
<1>3. LiveCost(u) = Total(cost, S) /\ LiveCost(u)' = Total(cost, T)
  BY DEF LiveCost, CostOf
<1> HIDE DEF S, T
<1>4. IsFiniteSet(T) /\ \A t \in T : cost[t] \in Nat
  BY <1>1, <1>2, FS_Subset
<1> QED
  BY <1>1, <1>2, <1>3, <1>4, TotalMonotone, TotalType

\* An admission adds its cost to the live tasks of its owner only.
LEMMA LiveGrows ==
    ASSUME TypeOK, NEW t \in Tasks, status[t] = "absent", NEW c \in Nat,
           status' = [status EXCEPT ![t] = "queued"],
           cost' = [cost EXCEPT ![t] = c], NEW u
    PROVE  /\ LiveCost(u)' = LiveCost(u) + (IF Owner[t] = u THEN c ELSE 0)
           /\ Delivered(u)' = Delivered(u)
<1> DEFINE S == With(u, Live)
           D == With(u, {"success"})
<1>1. /\ t \notin S /\ t \notin D
      /\ With(u, Live)' = IF Owner[t] = u THEN S \cup {t} ELSE S
      /\ With(u, {"success"})' = D
  BY DEF TypeOK, With, Live
<1>2. /\ IsFiniteSet(S) /\ S \subseteq Tasks
      /\ IsFiniteSet(D) /\ D \subseteq Tasks
  BY TasksFinite
<1>3. cost'[t] = c /\ \A s \in Tasks : s # t => cost'[s] = cost[s]
  BY DEF TypeOK
<1>4. cost \in [Tasks -> Nat] /\ cost' \in [Tasks -> Nat]
  BY DEF TypeOK
<1>5. /\ LiveCost(u) = Total(cost, S) /\ Delivered(u) = Total(cost, D)
      /\ LiveCost(u)' = Total(cost', With(u, Live)')
      /\ Delivered(u)' = Total(cost', D)
  BY <1>1 DEF LiveCost, Delivered, CostOf
<1> HIDE DEF S, D
<1>6. \A s \in S \cup D : cost'[s] = cost[s]
  BY <1>1, <1>2, <1>3
<1>7. Total(cost', S) = Total(cost, S) /\ Total(cost', D) = Total(cost, D)
  BY <1>6, TotalSame
<1>8. Total(cost', S \cup {t}) = Total(cost', S) + cost'[t]
  BY <1>1, <1>2, <1>4, TotalAdd
<1>9. Total(cost, S) \in Nat
  BY <1>2, <1>4, TotalType
<1> QED
  BY <1>1, <1>3, <1>5, <1>7, <1>8, <1>9

\* A settlement moves its cost from the live to the delivered tasks.
LEMMA LiveDelivered ==
    ASSUME TypeOK, NEW t \in Tasks, status[t] = "processing", cost' = cost,
           status' = [status EXCEPT ![t] = "success"], NEW u
    PROVE  LET c == IF Owner[t] = u THEN cost[t] ELSE 0
           IN  /\ LiveCost(u) = LiveCost(u)' + c
               /\ Delivered(u)' = Delivered(u) + c
<1> DEFINE S == With(u, Live)
           D == With(u, {"success"})
<1>1. /\ With(u, Live)' = IF Owner[t] = u THEN S \ {t} ELSE S
      /\ With(u, {"success"})' = IF Owner[t] = u THEN D \cup {t} ELSE D
      /\ Owner[t] = u => t \in S
      /\ t \notin D
  BY DEF TypeOK, With, Live
<1>2. /\ IsFiniteSet(S) /\ S \subseteq Tasks
      /\ IsFiniteSet(D) /\ D \subseteq Tasks
  BY TasksFinite
<1>3. cost \in [Tasks -> Nat]
  BY DEF TypeOK
<1>4. /\ LiveCost(u) = Total(cost, S) /\ Delivered(u) = Total(cost, D)
      /\ LiveCost(u)' = Total(cost, With(u, Live)')
      /\ Delivered(u)' = Total(cost, With(u, {"success"})')
  BY DEF LiveCost, Delivered, CostOf
<1> HIDE DEF S, D
<1>5. t \in S => Total(cost, S) = Total(cost, S \ {t}) + cost[t]
  BY <1>2, <1>3, TotalRemove
<1>6. Total(cost, D \cup {t}) = Total(cost, D) + cost[t]
  BY <1>1, <1>2, <1>3, TotalAdd
<1>7. Total(cost, S) \in Nat /\ Total(cost, D) \in Nat
  BY <1>2, <1>3, TotalType
<1> QED
  BY <1>1, <1>4, <1>5, <1>6, <1>7

-----------------------------------------------------------------------------
(* The reservation covers the live tasks *)

\* Steps that touch neither the tasks nor the reservations keep the invariant.
LEMMA ReservationQuiet ==
    ASSUME ReservationInv, TypeOK',
           UNCHANGED <<status, cost, reserved, quote, lock, sum>>
    PROVE  ReservationInv'
BY SumsSame DEF ReservationInv, ReservationCovers, SumCovers, FreshQuotes, Unlocked

\* So do steps by which tasks only end, or move from one live status to another.
LEMMA ReservationEnds ==
    ASSUME ReservationInv, TypeOK', UNCHANGED <<cost, reserved, quote, lock, sum>>,
           \A t \in Tasks : status'[t] \in Live => status[t] \in Live,
           \A t \in Tasks : status[t] = "absent" => status'[t] = "absent"
    PROVE  ReservationInv'
<1>1. ASSUME NEW u \in Users
      PROVE  /\ LiveCost(u)' <= LiveCost(u)
             /\ LiveCost(u) \in Nat /\ LiveCost(u)' \in Nat
             /\ reserved[u] \in Nat /\ sum[u] \in Nat
  BY LiveShrinks DEF ReservationInv, TypeOK
<1>2. ReservationCovers' /\ SumCovers'
  BY <1>1 DEF ReservationInv, ReservationCovers, SumCovers, Unlocked
<1>3. FreshQuotes'
  BY DEF ReservationInv, FreshQuotes
<1> QED
  BY <1>2, <1>3 DEF ReservationInv

LEMMA ReservationRequest ==
    ASSUME ReservationInv, TypeOK', NEW t \in Tasks, Request(t)
    PROVE  ReservationInv'
<1> USE RequestsAssumption DEF ReservationInv
<1>1. ASSUME Quote(t) \/ Refuse(t)
      PROVE  ReservationInv'
  <2>1. UNCHANGED <<status, cost, reserved, lock, sum>>
    BY <1>1 DEF Quote, Refuse, userVars, taskVars
  <2>2. FreshQuotes'
    BY <1>1 DEF Quote, Refuse, FreshQuotes, TypeOK, taskVars
  <2> QED
    BY <2>1, <2>2, SumsSame DEF ReservationCovers, SumCovers, Unlocked
<1>2. CASE Admit(t)
  <2> DEFINE q == quote[t]
             o == Owner[t]
  <2>1. /\ status[t] = "absent" /\ q.cost \in Nat /\ o \in Users
        /\ status' = [status EXCEPT ![t] = "queued"]
        /\ cost' = [cost EXCEPT ![t] = q.cost]
    BY <1>2 DEF Admit, FreshQuotes, TypeOK
  <2>2. ASSUME NEW u \in Users
        PROVE  /\ LiveCost(u)' = LiveCost(u) + (IF o = u THEN q.cost ELSE 0)
               /\ LiveCost(u) \in Nat /\ reserved[u] \in Nat /\ sum[u] \in Nat
               /\ reserved'[u] = reserved[u] + (IF o = u THEN q.cost ELSE 0)
    <3>1. LiveCost(u)' = LiveCost(u) + (IF o = u THEN q.cost ELSE 0)
      BY <2>1, LiveGrows
    <3>2. LiveCost(u) \in Nat
      BY SumsTyped DEF TypeOK
    <3>3. reserved'[u] = reserved[u] + (IF o = u THEN q.cost ELSE 0)
      BY <1>2, <2>1 DEF Admit, TypeOK
    <3> QED
      BY <3>1, <3>2, <3>3 DEF TypeOK
  <2>3. ReservationCovers'
    BY <2>1, <2>2 DEF ReservationCovers
  <2>4. SumCovers'
    <3>1. lock' = lock /\ sum' = sum /\ (q.cost > 0 => lock[o] = NoLock)
      BY <1>2 DEF Admit, Unlocked
    <3> QED
      BY <2>1, <2>2, <3>1 DEF SumCovers, Unlocked
  <2>5. FreshQuotes'
    BY <1>2, <2>1 DEF Admit, FreshQuotes, TypeOK
  <2> QED
    BY <2>3, <2>4, <2>5
<1> QED
  BY <1>1, <1>2 DEF Request

LEMMA ReservationWork ==
    ASSUME ReservationInv, TypeOK', NEW t \in Tasks, Work(t)
    PROVE  ReservationInv'
<1> USE DEF ReservationInv
<1>1. UNCHANGED <<cost, reserved, quote, lock, sum>>
  BY DEF Work, Claim, Settle, SettleAckLost, Charge, WorkerFails, WorkerYields,
         WorkerFinishError, userVars, taskVars
<1>2. \A s \in Tasks : /\ status'[s] \in Live => status[s] \in Live
                       /\ status[s] = "absent" => status'[s] = "absent"
  BY DEF Work, Claim, Settle, SettleAckLost, Charge, Chargeable, WorkerFails,
         FailedStatus, WorkerYields, WorkerFinishError, taskVars, TypeOK, Live
<1> QED
  BY <1>1, <1>2, ReservationEnds

LEMMA ReservationCancelTask ==
    ASSUME ReservationInv, TypeOK', NEW t \in Tasks, CancelTask(t)
    PROVE  ReservationInv'
<1>1. UNCHANGED <<cost, reserved, quote, lock, sum>>
  BY DEF CancelTask, userVars
<1>2. \A s \in Tasks : /\ status'[s] \in Live => status[s] \in Live
                       /\ status[s] = "absent" => status'[s] = "absent"
  BY DEF CancelTask, ReservationInv, TypeOK, Live
<1> QED
  BY <1>1, <1>2, ReservationEnds

LEMMA ReservationSweep ==
    ASSUME ReservationInv, TypeOK', Sweep
    PROVE  ReservationInv'
<1>1. UNCHANGED <<cost, reserved, quote, lock, sum>>
  BY DEF Sweep, SweepSelect, SweepFail, SweepFollowUp, SweepError, userVars, taskVars
<1>2. \A s \in Tasks : /\ status'[s] \in Live => status[s] \in Live
                       /\ status[s] = "absent" => status'[s] = "absent"
  BY DEF Sweep, SweepSelect, SweepFail, SweepFollowUp, SweepError, taskVars,
         ReservationInv, TypeOK, Live
<1> QED
  BY <1>1, <1>2, ReservationEnds

LEMMA ReservationFollowUp ==
    ASSUME ReservationInv, TypeOK', NEW k \in Kinds, NEW t \in Tasks, FollowUp(k, t)
    PROVE  ReservationInv'
<1> USE RequestsAssumption
<1> DEFINE o == Owner[t]
<1>1. CASE ReconcileSum(k, t)
  <2>1. /\ UNCHANGED <<status, cost, reserved, quote>>
        /\ lock' = [lock EXCEPT ![o] = <<k, t>>]
        /\ sum' = [sum EXCEPT ![o] = LiveCost(o)]
    BY <1>1 DEF ReconcileSum, userVars, taskVars
  <2>2. ASSUME NEW u \in Users
        PROVE  LiveCost(u)' = LiveCost(u) /\ LiveCost(u) \in Nat
    BY <2>1, SumsSame, SumsTyped DEF ReservationInv, TypeOK
  <2>3. SumCovers'
    BY <2>1, <2>2 DEF ReservationInv, TypeOK, SumCovers, Unlocked
  <2> QED
    BY <2>1, <2>2, <2>3 DEF ReservationInv, ReservationCovers, FreshQuotes
<1>2. CASE ReconcileWrite(k, t)
  <2>1. /\ UNCHANGED <<status, cost, quote>>
        /\ lock[o] = <<k, t>>
        /\ lock' = [lock EXCEPT ![o] = NoLock]
        /\ sum' = [sum EXCEPT ![o] = 0]
        /\ reserved' = [reserved EXCEPT ![o] = sum[o]]
    BY <1>2 DEF ReconcileWrite, taskVars
  <2>2. ASSUME NEW u \in Users
        PROVE  LiveCost(u)' = LiveCost(u) /\ LiveCost(u) \in Nat
    BY <2>1, SumsSame, SumsTyped DEF ReservationInv, TypeOK
  <2>3. sum[o] >= LiveCost(o)
    <3>1. o \in Users
      OBVIOUS
    <3>2. <<k, t>> # << >>
      OBVIOUS
    <3>3. ~Unlocked(o)
      BY <2>1, <3>2 DEF Unlocked, NoLock
    <3> QED
      BY <3>1, <3>3 DEF ReservationInv, SumCovers
  <2>4. ReservationCovers'
    BY <2>1, <2>2, <2>3 DEF ReservationInv, TypeOK, ReservationCovers
  <2>5. SumCovers'
    BY <2>1, <2>2 DEF ReservationInv, TypeOK, SumCovers, Unlocked
  <2> QED
    BY <2>1, <2>4, <2>5 DEF ReservationInv, FreshQuotes
<1>3. CASE ReconcileError(k, t)
  <2>1. UNCHANGED <<status, cost, reserved, quote>>
    BY <1>3 DEF ReconcileError, userVars, taskVars
  <2>2. \A u \in Users : ~Unlocked(u)' => ~Unlocked(u) /\ sum'[u] = sum[u]
    <3>1. CASE lock[o] = <<k, t>>
      <4>1. lock' = [lock EXCEPT ![o] = NoLock] /\ sum' = [sum EXCEPT ![o] = 0]
        BY <1>3, <3>1, Zenon DEF ReconcileError
      <4> QED
        BY <4>1 DEF ReservationInv, TypeOK, Unlocked
    <3>2. CASE lock[o] # <<k, t>>
      <4>1. UNCHANGED <<lock, sum>>
        BY <1>3, <3>2, Zenon DEF ReconcileError
      <4> QED
        BY <4>1 DEF Unlocked
    <3> QED
      BY <3>1, <3>2
  <2>3. \A u \in Users : LiveCost(u)' = LiveCost(u)
    BY <2>1, SumsSame
  <2> QED
    BY <2>1, <2>2, <2>3 DEF ReservationInv, ReservationCovers, SumCovers, FreshQuotes
<1>4. ASSUME Release(k, t) \/ ReleaseError(k, t)
      PROVE  ReservationInv'
  <2>1. UNCHANGED <<status, cost, reserved, quote, lock, sum>>
    BY <1>4 DEF Release, ReleaseError, userVars, taskVars
  <2> QED
    BY <2>1, ReservationQuiet
<1> QED
  BY <1>1, <1>2, <1>3, <1>4 DEF FollowUp

LEMMA ReservationAdmin ==
    ASSUME ReservationInv, TypeOK', NEW u \in Users, Account(u) \/ Subscription(u)
    PROVE  ReservationInv'
<1>1. UNCHANGED <<status, cost, reserved, quote, lock, sum>>
  BY DEF Account, AdjustCredits, SetUserStatus, Subscription, GrantSubscription,
         CancelSubscription, ExpireSubscription, AdjustQuota, ResetUsage,
         userVars, taskVars, procVars
<1> QED
  BY <1>1, ReservationQuiet

LEMMA ReservationCrash ==
    ASSUME ReservationInv, TypeOK', CrashAndRestart
    PROVE  ReservationInv'
<1>1. /\ UNCHANGED <<status, cost>>
      /\ reserved' = [u \in Users |-> LiveCost(u)]
      /\ lock' = [u \in Users |-> NoLock]
      /\ quote' = [t \in Tasks |-> NoQuote]
  BY DEF CrashAndRestart, taskVars
<1>2. \A u \in Users : LiveCost(u)' = LiveCost(u) /\ LiveCost(u) \in Nat
  BY <1>1, SumsSame, SumsTyped DEF ReservationInv, TypeOK
<1> QED
  BY <1>1, <1>2 DEF ReservationInv, ReservationCovers, SumCovers, FreshQuotes, Unlocked

LEMMA ReservationInit == Init => ReservationInv
<1> SUFFICES ASSUME Init PROVE ReservationInv
  OBVIOUS
<1>1. TypeOK
  BY TypeInit
<1>2. \A u : LiveCost(u) = 0
  BY TotalZero DEF Init, LiveCost, CostOf, With
<1> QED
  BY <1>1, <1>2
     DEF Init, ReservationInv, ReservationCovers, SumCovers, FreshQuotes, Unlocked

LEMMA ReservationNext == ReservationInv /\ [Next]_vars => ReservationInv'
<1> SUFFICES ASSUME ReservationInv, [Next]_vars PROVE ReservationInv'
  OBVIOUS
<1>1. TypeOK'
  BY TypeNext DEF ReservationInv
<1>2. CASE UNCHANGED vars
  BY <1>1, <1>2, ReservationQuiet DEF vars, userVars, taskVars, procVars
<1> QED
  BY <1>1, <1>2, ReservationRequest, ReservationWork, ReservationCancelTask,
     ReservationSweep, ReservationFollowUp, ReservationAdmin, ReservationCrash DEF Next

\* The inductive invariant: a sum that a reconciliation has read and not yet
\* written covers the live tasks as well, and quotes are for tasks not inserted.
THEOREM ReservationsInvariant == Spec => []ReservationInv
BY ReservationInit, ReservationNext, PTL DEF Spec

\* For any accounts, requests and faults, the cached reservation never falls
\* below the cost of the live tasks.
THEOREM ReservationsCovered == Spec => []ReservationCovers
<1>1. ReservationInv => ReservationCovers
  BY DEF ReservationInv
<1> QED
  BY <1>1, ReservationsInvariant, PTL

-----------------------------------------------------------------------------
(* The reservation is exact *)

\* Task s will still rebuild the reservation of its owner, by other means than
\* the reconciliation h that already has the row lock.
Waits(s, h) ==
    \/ s \in running /\ status[s] = "success"
    \/ s \in batch
    \/ \E j \in Kinds : after[j][s] = "reconcile" /\ <<j, s>> # h

\* What reserved will be once the row lock of the account is free.
Upcoming(u) == IF Unlocked(u) THEN reserved[u] ELSE sum[u]

\* A row lock belongs to a reconciliation of one of the account's tasks.
LockHeld ==
    \A u \in Users, k \in Kinds, t \in Tasks :
        lock[u] = <<k, t>> => Owner[t] = u /\ after[k][t] = "reconcile"

\* A worker has started its task, and nobody has followed up on its outcome.
WorkOnce ==
    \A t \in Tasks :
        /\ t \in running => status[t] \notin {"absent", "queued"}
        /\ t \in running \/ status[t] \in {"absent", "queued"}
              => after["settle"][t] = "none" /\ after["worker"][t] = "none"

\* Unless somebody else is still to rebuild it, the reservation (the sum about
\* to be written, when there is one) is the cost of the live tasks.
UpcomingExact ==
    \A u \in Users : \/ \E s \in Tasks : Owner[s] = u /\ Waits(s, lock[u])
                     \/ Upcoming(u) = LiveCost(u)

ExactInv == ReservationInv /\ LockHeld /\ WorkOnce /\ UpcomingExact

\* While a reconciliation holds the lock it is pending itself; otherwise the
\* reservation is what UpcomingExact says.
LEMMA ExactInvImplies == ExactInv => ReservationExact
<1> SUFFICES ASSUME ExactInv, NEW u \in Users
             PROVE  ReconcilePending(u) \/ reserved[u] = LiveCost(u)
  BY DEF ReservationExact
<1>1. CASE Unlocked(u)
  BY <1>1 DEF ExactInv, UpcomingExact, Upcoming, Waits, ReconcilePending
<1>2. CASE ~Unlocked(u)
  <2>1. lock[u] \in Kinds \X Tasks
    BY <1>2 DEF ExactInv, ReservationInv, TypeOK, Unlocked
  <2>2. PICK k \in Kinds, t \in Tasks : lock[u] = <<k, t>>
    BY <2>1
  <2>3. Owner[t] = u /\ after[k][t] = "reconcile"
    BY <2>2 DEF ExactInv, LockHeld
  <2> QED
    BY <2>3 DEF ReconcilePending
<1> QED
  BY <1>1, <1>2

\* Steps that leave the reservations and the locks alone: nobody who waits
\* gives up, and whoever ends a task (or starts one) waits afterwards.
LEMMA ExactKept ==
    ASSUME ExactInv, UNCHANGED <<cost, reserved, lock, sum>>,
           \A s \in Tasks :
               /\ Waits(s, lock[Owner[s]]) => Waits(s, lock[Owner[s]])'
               /\ \/ status'[s] \in Live <=> status[s] \in Live
                  \/ Waits(s, lock[Owner[s]])'
    PROVE  UpcomingExact'
<1> SUFFICES ASSUME NEW u \in Users,
                    ~ \E s \in Tasks : Owner[s] = u /\ Waits(s, lock[u])'
             PROVE  Upcoming(u)' = LiveCost(u)'
  BY DEF UpcomingExact
<1>1. \A s \in Tasks : Owner[s] = u => /\ ~Waits(s, lock[u])
                                       /\ status'[s] \in Live <=> status[s] \in Live
  OBVIOUS
<1>2. Upcoming(u) = LiveCost(u)
  BY <1>1 DEF ExactInv, UpcomingExact
<1>3. With(u, Live)' = With(u, Live)
  BY <1>1 DEF With
<1>4. LiveCost(u)' = LiveCost(u)
  BY <1>3 DEF LiveCost, CostOf
<1> QED
  BY <1>2, <1>4 DEF Upcoming, Unlocked

\* Waiting is about three things only.
LEMMA WaitsSame ==
    ASSUME UNCHANGED <<status, running, batch, after>>, NEW s, NEW h
    PROVE  Waits(s, h)' <=> Waits(s, h)
BY DEF Waits

\* Steps outside the life of a task and of its follow-up work.
LEMMA ExactQuiet ==
    ASSUME ExactInv, UNCHANGED <<status, cost, reserved, running, batch, after, lock, sum>>
    PROVE  LockHeld' /\ WorkOnce' /\ UpcomingExact'
<1>1. UpcomingExact'
  BY ExactKept, WaitsSame
<1> QED
  BY <1>1 DEF ExactInv, LockHeld, WorkOnce

LEMMA ExactRequest ==
    ASSUME ExactInv, TypeOK', NEW t \in Tasks, Request(t)
    PROVE  LockHeld' /\ WorkOnce' /\ UpcomingExact'
<1>1. ASSUME Quote(t) \/ Refuse(t)
      PROVE  LockHeld' /\ WorkOnce' /\ UpcomingExact'
  BY <1>1, ExactQuiet DEF Quote, Refuse, userVars, taskVars
<1>2. CASE Admit(t)
  <2> DEFINE q == quote[t]
             o == Owner[t]
  <2>1. /\ status[t] = "absent" /\ q.cost \in Nat /\ o \in Users
        /\ status' = [status EXCEPT ![t] = "queued"]
        /\ cost' = [cost EXCEPT ![t] = q.cost]
        /\ reserved' = [reserved EXCEPT ![o] = @ + q.cost]
        /\ q.cost > 0 => Unlocked(o)
        /\ UNCHANGED <<running, batch, after, lock, sum>>
    BY <1>2, RequestsAssumption
       DEF Admit, ExactInv, ReservationInv, FreshQuotes, TypeOK
  <2> HIDE DEF q
  <2>2. ASSUME NEW u \in Users
        PROVE  /\ LiveCost(u)' = LiveCost(u) + (IF o = u THEN q.cost ELSE 0)
               /\ Upcoming(u)' = Upcoming(u) + (IF o = u THEN q.cost ELSE 0)
    <3>1. LiveCost(u)' = LiveCost(u) + (IF o = u THEN q.cost ELSE 0)
      BY <2>1, LiveGrows DEF ExactInv, ReservationInv
    <3>2. Upcoming(u)' = Upcoming(u) + (IF o = u THEN q.cost ELSE 0)
      BY <2>1 DEF Upcoming, Unlocked, ExactInv, ReservationInv, TypeOK
    <3> QED
      BY <3>1, <3>2
  <2>3. \A s \in Tasks : \A h : Waits(s, h) => Waits(s, h)'
    BY <2>1 DEF Waits, ExactInv, ReservationInv, TypeOK
  <2>4. UpcomingExact'
    BY <2>1, <2>2, <2>3 DEF ExactInv, UpcomingExact
  <2>5. WorkOnce'
    BY <2>1 DEF ExactInv, ReservationInv, TypeOK, WorkOnce
  <2> QED
    BY <2>1, <2>4, <2>5 DEF ExactInv, LockHeld
<1> QED
  BY <1>1, <1>2 DEF Request

\* An actor whose follow-up for t had not begun starts it: it joins those who wait.
LEMMA FollowUpStarts ==
    ASSUME ExactInv, NEW k \in Kinds, NEW t \in Tasks, after[k][t] = "none",
           after' = Then(k, t, "reconcile"), lock' = lock
    PROVE  /\ Waits(t, lock[Owner[t]])'
           /\ LockHeld'
<1>1. after'[k][t] = "reconcile"
  BY DEF Then, ExactInv, ReservationInv, TypeOK
<1>2. \A j \in Kinds, s \in Tasks : after[j][s] = "reconcile" => after'[j][s] = "reconcile"
  BY DEF Then, ExactInv, ReservationInv, TypeOK
<1>3. lock[Owner[t]] # <<k, t>>
  BY RequestsAssumption DEF ExactInv, LockHeld
<1> QED
  BY <1>1, <1>2, <1>3 DEF Waits, ExactInv, LockHeld

LEMMA ExactWork ==
    ASSUME ExactInv, "dbfail" \notin FaultKinds, TypeOK', NEW t \in Tasks, Work(t)
    PROVE  LockHeld' /\ WorkOnce' /\ UpcomingExact'
<1> DEFINE h(s) == lock[Owner[s]]
<1>1. CASE Claim(t)
  <2>1. /\ UNCHANGED <<cost, reserved, lock, sum, batch, after>>
        /\ status[t] = "queued" /\ status' = [status EXCEPT ![t] = "processing"]
        /\ running' = running \cup {t}
    BY <1>1 DEF Claim, userVars
  <2>2. ASSUME NEW s \in Tasks
        PROVE  /\ Waits(s, h(s)) => Waits(s, h(s))'
               /\ status'[s] \in Live <=> status[s] \in Live
    BY <2>1 DEF Waits, Live, ExactInv, ReservationInv, TypeOK
  <2>3. UpcomingExact'
    BY <2>1, <2>2, ExactKept
  <2>4. WorkOnce'
    BY <2>1 DEF WorkOnce, ExactInv, ReservationInv, TypeOK
  <2> QED
    BY <2>1, <2>3, <2>4 DEF LockHeld, ExactInv
<1>2. CASE Settle(t)
  <2>1. /\ UNCHANGED <<cost, reserved, lock, sum, batch>>
        /\ t \in running /\ status[t] = "processing"
        /\ status' = [status EXCEPT ![t] = "success"]
        /\ running' = running \ {t}
        /\ after' = Then("settle", t, "reconcile")
    BY <1>2 DEF Settle, Charge, Chargeable
  <2>2. after["settle"][t] = "none" /\ "settle" \in Kinds
    BY <2>1 DEF ExactInv, WorkOnce, Kinds
  <2>3. Waits(t, h(t))' /\ LockHeld'
    BY <2>1, <2>2, FollowUpStarts
  <2>4. \A s \in Tasks \ {t} : /\ Waits(s, h(s)) => Waits(s, h(s))'
                               /\ status'[s] = status[s]
    BY <2>1 DEF Waits, Then, ExactInv, ReservationInv, TypeOK
  <2>5. UpcomingExact'
    BY <2>1, <2>3, <2>4, ExactKept
  <2>6. WorkOnce'
    BY <2>1 DEF WorkOnce, Then, ExactInv, ReservationInv, TypeOK
  <2> QED
    BY <2>3, <2>5, <2>6
<1>3. CASE SettleAckLost(t)
  <2>1. /\ UNCHANGED <<cost, reserved, lock, sum, batch, running, after>>
        /\ t \in running /\ status[t] = "processing"
        /\ status' = [status EXCEPT ![t] = "success"]
    BY <1>3 DEF SettleAckLost, Charge, Chargeable
  <2>2. Waits(t, h(t))'
    BY <2>1 DEF Waits, ExactInv, ReservationInv, TypeOK
  <2>3. \A s \in Tasks \ {t} : /\ Waits(s, h(s)) => Waits(s, h(s))'
                               /\ status'[s] = status[s]
    BY <2>1 DEF Waits, ExactInv, ReservationInv, TypeOK
  <2>4. UpcomingExact'
    BY <2>1, <2>2, <2>3, ExactKept
  <2> QED
    BY <2>1, <2>4 DEF ExactInv, ReservationInv, TypeOK, LockHeld, WorkOnce
<1>4. CASE WorkerFails(t)
  <2>1. /\ UNCHANGED <<cost, reserved, lock, sum, batch>>
        /\ t \in running
        /\ status' = [status EXCEPT ![t] = FailedStatus(t)]
        /\ running' = running \ {t}
        /\ after' = Then("worker", t, "reconcile")
    BY <1>4 DEF WorkerFails, userVars
  <2>2. after["worker"][t] = "none" /\ "worker" \in Kinds
    BY <2>1 DEF ExactInv, WorkOnce, Kinds
  <2>3. Waits(t, h(t))' /\ LockHeld'
    BY <2>1, <2>2, FollowUpStarts
  <2>4. \A s \in Tasks \ {t} : /\ Waits(s, h(s)) => Waits(s, h(s))'
                               /\ status'[s] = status[s]
    BY <2>1 DEF Waits, Then, ExactInv, ReservationInv, TypeOK
  <2>5. UpcomingExact'
    BY <2>1, <2>3, <2>4, ExactKept
  <2>6. WorkOnce'
    BY <2>1 DEF WorkOnce, Then, FailedStatus, ExactInv, ReservationInv, TypeOK
  <2> QED
    BY <2>3, <2>5, <2>6
<1>5. CASE WorkerYields(t)
  <2>1. /\ UNCHANGED <<status, cost, reserved, lock, sum, batch, after>>
        /\ status[t] \in {"failed", "canceled"} /\ running' = running \ {t}
    BY <1>5 DEF WorkerYields, userVars, taskVars
  <2>2. \A s \in Tasks : Waits(s, h(s)) => Waits(s, h(s))'
    BY <2>1 DEF Waits
  <2>3. UpcomingExact'
    BY <2>1, <2>2, ExactKept
  <2> QED
    BY <2>1, <2>3 DEF ExactInv, LockHeld, WorkOnce
<1>6. ~WorkerFinishError(t)
  BY DEF WorkerFinishError, Fault
<1> QED
  BY <1>1, <1>2, <1>3, <1>4, <1>5, <1>6 DEF Work

LEMMA ExactCancelTask ==
    ASSUME ExactInv, TypeOK', NEW t \in Tasks, CancelTask(t)
    PROVE  LockHeld' /\ WorkOnce' /\ UpcomingExact'
<1> DEFINE h(s) == lock[Owner[s]]
<1>1. /\ UNCHANGED <<cost, reserved, lock, sum, batch, running>>
      /\ status[t] \in Live \cup {"canceled"}
      /\ status' = [status EXCEPT ![t] = "canceled"]
      /\ after["cancel"][t] = "none" /\ "cancel" \in Kinds
      /\ after' = Then("cancel", t, "reconcile")
  BY DEF CancelTask, userVars, Kinds
<1>2. Waits(t, h(t))' /\ LockHeld'
  BY <1>1, FollowUpStarts
<1>3. \A s \in Tasks \ {t} : /\ Waits(s, h(s)) => Waits(s, h(s))'
                             /\ status'[s] = status[s]
  BY <1>1 DEF Waits, Then, ExactInv, ReservationInv, TypeOK
<1>4. UpcomingExact'
  BY <1>1, <1>2, <1>3, ExactKept
<1>5. WorkOnce'
  BY <1>1 DEF WorkOnce, Then, ExactInv, ReservationInv, TypeOK
<1> QED
  BY <1>2, <1>4, <1>5

LEMMA ExactSweep ==
    ASSUME ExactInv, "dbfail" \notin FaultKinds, TypeOK', Sweep
    PROVE  LockHeld' /\ WorkOnce' /\ UpcomingExact'
<1> DEFINE h(s) == lock[Owner[s]]
<1>1. ASSUME NEW S \in SUBSET Tasks, SweepSelect(S)
      PROVE  LockHeld' /\ WorkOnce' /\ UpcomingExact'
  BY <1>1, ExactQuiet DEF SweepSelect, userVars, taskVars
<1>2. ASSUME NEW t \in Tasks, SweepFail(t)
      PROVE  LockHeld' /\ WorkOnce' /\ UpcomingExact'
  <2>1. UNCHANGED <<cost, reserved, lock, sum, running, after>>
    BY <1>2 DEF SweepFail, userVars
  <2>2. CASE status[t] \in Live
    <3>1. /\ status' = [status EXCEPT ![t] = "failed"]
          /\ batch' = batch \cup {t}
      BY <1>2, <2>2 DEF SweepFail
    <3>2. Waits(t, h(t))'
      BY <3>1 DEF Waits
    <3>3. \A s \in Tasks \ {t} : /\ Waits(s, h(s)) => Waits(s, h(s))'
                                 /\ status'[s] = status[s]
      BY <2>1, <3>1 DEF Waits, ExactInv, ReservationInv, TypeOK
    <3>4. UpcomingExact'
      BY <2>1, <3>2, <3>3, ExactKept
    <3>5. WorkOnce'
      BY <2>1, <3>1 DEF WorkOnce, ExactInv, ReservationInv, TypeOK
    <3> QED
      BY <2>1, <3>4, <3>5 DEF ExactInv, LockHeld
  <2>3. CASE status[t] \notin Live
    BY <1>2, <2>1, <2>3, ExactQuiet DEF SweepFail
  <2> QED
    BY <2>2, <2>3
<1>3. ASSUME NEW t \in Tasks, SweepFollowUp(t)
      PROVE  LockHeld' /\ WorkOnce' /\ UpcomingExact'
  <2>1. /\ UNCHANGED <<status, cost, reserved, lock, sum, running>>
        /\ batch' = batch \ {t}
        /\ after["sweep"][t] = "none" /\ "sweep" \in Kinds
        /\ after' = Then("sweep", t, "reconcile")
    BY <1>3 DEF SweepFollowUp, userVars, taskVars, Kinds
  <2>2. Waits(t, h(t))' /\ LockHeld'
    BY <2>1, FollowUpStarts
  <2>3. \A s \in Tasks \ {t} : Waits(s, h(s)) => Waits(s, h(s))'
    BY <2>1 DEF Waits, Then, ExactInv, ReservationInv, TypeOK
  <2>4. UpcomingExact'
    BY <2>1, <2>2, <2>3, ExactKept
  <2>5. WorkOnce'
    BY <2>1 DEF WorkOnce, Then, ExactInv, ReservationInv, TypeOK
  <2> QED
    BY <2>2, <2>4, <2>5
<1>4. ~SweepError
  BY DEF SweepError, Fault
<1> QED
  BY <1>1, <1>2, <1>3, <1>4 DEF Sweep

LEMMA ExactFollowUp ==
    ASSUME ExactInv, "dbfail" \notin FaultKinds, TypeOK',
           NEW k \in Kinds, NEW t \in Tasks, FollowUp(k, t)
    PROVE  LockHeld' /\ WorkOnce' /\ UpcomingExact'
<1> DEFINE o == Owner[t]
<1> o \in Users
  BY RequestsAssumption
<1>1. CASE ReconcileSum(k, t)
  <2>1. /\ UNCHANGED <<status, cost, reserved, running, batch, after>>
        /\ after[k][t] = "reconcile" /\ lock[o] = NoLock
        /\ lock' = [lock EXCEPT ![o] = <<k, t>>]
        /\ sum' = [sum EXCEPT ![o] = LiveCost(o)]
    BY <1>1 DEF ReconcileSum, Unlocked, userVars, taskVars
  <2>2. lock'[o] = <<k, t>> /\ sum'[o] = LiveCost(o) /\ <<k, t>> # NoLock
    BY <2>1 DEF NoLock, ExactInv, ReservationInv, TypeOK
  <2>3. \A u \in Users \ {o} : lock'[u] = lock[u] /\ sum'[u] = sum[u]
    BY <2>1 DEF ExactInv, ReservationInv, TypeOK
  <2>4. \A u \in Users : LiveCost(u)' = LiveCost(u)
    BY <2>1, SumsSame
  <2>5. \A s \in Tasks : \A h : Waits(s, h)' <=> Waits(s, h)
    BY <2>1, WaitsSame
  <2>6. UpcomingExact'
    <3>1. Upcoming(o)' = LiveCost(o)'
      BY <2>2, <2>4 DEF Upcoming, Unlocked
    <3>2. \A u \in Users \ {o} : Upcoming(u)' = Upcoming(u)
      BY <2>1, <2>3 DEF Upcoming, Unlocked
    <3> QED
      BY <2>3, <2>4, <2>5, <3>1, <3>2 DEF ExactInv, UpcomingExact
  <2>7. LockHeld'
    BY <2>1, <2>2, <2>3 DEF ExactInv, LockHeld
  <2> QED
    BY <2>1, <2>6, <2>7 DEF ExactInv, WorkOnce
<1>2. CASE ReconcileWrite(k, t)
  <2>1. /\ UNCHANGED <<status, cost, running, batch>>
        /\ lock[o] = <<k, t>>
        /\ reserved' = [reserved EXCEPT ![o] = sum[o]]
        /\ lock' = [lock EXCEPT ![o] = NoLock]
        /\ sum' = [sum EXCEPT ![o] = 0]
        /\ after' = Then(k, t, NextStage(k))
    BY <1>2 DEF ReconcileWrite, taskVars
  <2>2. /\ lock'[o] = NoLock /\ lock[o] # NoLock /\ reserved'[o] = sum[o]
        /\ \A j \in Kinds, s \in Tasks : <<j, s>> # NoLock
    BY <2>1 DEF NoLock, ExactInv, ReservationInv, TypeOK
  <2>3. \A u \in Users \ {o} : /\ lock'[u] = lock[u] /\ sum'[u] = sum[u]
                               /\ reserved'[u] = reserved[u]
    BY <2>1 DEF ExactInv, ReservationInv, TypeOK
  <2>4. \A u \in Users : LiveCost(u)' = LiveCost(u)
    BY <2>1, SumsSame
  <2>5. \A j \in Kinds, s \in Tasks :
          <<j, s>> # <<k, t>> => after'[j][s] = after[j][s]
    BY <2>1 DEF Then, ExactInv, ReservationInv, TypeOK
  <2>6. \A s \in Tasks : Waits(s, <<k, t>>) => Waits(s, NoLock)'
    BY <2>1, <2>2, <2>5 DEF Waits
  <2>7. ASSUME NEW u \in Users \ {o}, NEW s \in Tasks, Owner[s] = u, Waits(s, lock[u])
        PROVE  Waits(s, lock[u])'
    BY <2>1, <2>3, <2>5, <2>7 DEF Waits
  <2>8. UpcomingExact'
    <3>1. Upcoming(o)' = Upcoming(o)
      BY <2>1, <2>2 DEF Upcoming, Unlocked
    <3>2. \A u \in Users \ {o} : Upcoming(u)' = Upcoming(u)
      BY <2>3 DEF Upcoming, Unlocked
    <3>3. \/ \E s \in Tasks : Owner[s] = o /\ Waits(s, lock[o])'
          \/ Upcoming(o)' = LiveCost(o)'
      BY <2>1, <2>2, <2>4, <2>6, <3>1 DEF ExactInv, UpcomingExact
    <3>4. ASSUME NEW u \in Users \ {o}
          PROVE  \/ \E s \in Tasks : Owner[s] = u /\ Waits(s, lock[u])'
                 \/ Upcoming(u)' = LiveCost(u)'
      BY <2>3, <2>4, <2>7, <3>2 DEF ExactInv, UpcomingExact
    <3> QED
      BY <3>3, <3>4 DEF UpcomingExact
  <2>9. LockHeld'
    <3> SUFFICES ASSUME NEW u \in Users, NEW j \in Kinds, NEW s \in Tasks,
                        lock'[u] = <<j, s>>
                 PROVE  Owner[s] = u /\ after'[j][s] = "reconcile"
      BY DEF LockHeld
    <3>1. u # o
      BY <2>2
    <3>2. Owner[s] = u /\ after[j][s] = "reconcile"
      BY <2>3, <3>1 DEF ExactInv, LockHeld
    <3>3. <<j, s>> # <<k, t>>
      BY <3>1, <3>2
    <3> QED
      BY <2>5, <3>2, <3>3
  <2>10. WorkOnce'
    <3>1. after[k][t] = "reconcile"
      BY <2>1 DEF ExactInv, LockHeld
    <3> QED
      BY <2>1, <2>5, <3>1 DEF ExactInv, WorkOnce, Kinds
  <2> QED
    BY <2>8, <2>9, <2>10
<1>3. CASE Release(k, t)
  <2>1. /\ UNCHANGED <<status, cost, reserved, running, batch, lock, sum>>
        /\ after[k][t] = "release" /\ after' = Then(k, t, "none")
    BY <1>3 DEF Release, userVars
  <2>2. \A j \in Kinds, s \in Tasks :
          after'[j][s] = IF j = k /\ s = t THEN "none" ELSE after[j][s]
    BY <2>1 DEF Then, ExactInv, ReservationInv, TypeOK
  <2>3. \A s \in Tasks : \A h : Waits(s, h) => Waits(s, h)'
    BY <2>1, <2>2 DEF Waits
  <2>4. UpcomingExact'
    BY <2>1, <2>3, ExactKept
  <2>5. LockHeld'
    BY <2>1, <2>2 DEF ExactInv, LockHeld
  <2>6. WorkOnce'
    BY <2>1, <2>2 DEF ExactInv, WorkOnce, Kinds
  <2> QED
    BY <2>4, <2>5, <2>6
<1>4. ~ReconcileError(k, t) /\ ~ReleaseError(k, t)
  BY DEF ReconcileError, ReleaseError, Fault
<1> QED
  BY <1>1, <1>2, <1>3, <1>4 DEF FollowUp

LEMMA ExactAdmin ==
    ASSUME ExactInv, NEW u \in Users, Account(u) \/ Subscription(u)
    PROVE  LockHeld' /\ WorkOnce' /\ UpcomingExact'
<1>1. UNCHANGED <<status, cost, reserved, running, batch, after, lock, sum>>
  BY DEF Account, AdjustCredits, SetUserStatus, Subscription, GrantSubscription,
         CancelSubscription, ExpireSubscription, AdjustQuota, ResetUsage,
         userVars, taskVars, procVars
<1> QED
  BY <1>1, ExactQuiet

\* A restart forgets all follow-up work, and makes it unnecessary.
LEMMA ExactCrash ==
    ASSUME ExactInv, CrashAndRestart
    PROVE  LockHeld' /\ WorkOnce' /\ UpcomingExact'
<1>1. /\ UNCHANGED <<status, cost>> /\ running' = {}
      /\ after' = [k \in Kinds |-> [t \in Tasks |-> "none"]]
      /\ lock' = [u \in Users |-> NoLock]
      /\ reserved' = [u \in Users |-> LiveCost(u)]
  BY DEF CrashAndRestart, taskVars
<1>2. UpcomingExact'
  BY <1>1, SumsSame DEF UpcomingExact, Upcoming, Unlocked
<1>3. LockHeld'
  BY <1>1 DEF LockHeld, NoLock
<1> QED
  BY <1>1, <1>2, <1>3 DEF WorkOnce, Kinds

LEMMA ExactInit == Init => ExactInv
<1> SUFFICES ASSUME Init PROVE ExactInv
  OBVIOUS
<1>1. \A u \in Users : Upcoming(u) = 0 /\ LiveCost(u) = 0
  BY TotalZero DEF Init, Upcoming, Unlocked, LiveCost, CostOf, With
<1>2. LockHeld /\ WorkOnce
  BY DEF Init, LockHeld, NoLock, WorkOnce, Kinds
<1> QED
  BY <1>1, <1>2, ReservationInit DEF ExactInv, UpcomingExact

LEMMA ExactNext ==
    ASSUME "dbfail" \notin FaultKinds
    PROVE  ExactInv /\ [Next]_vars => ExactInv'
<1> SUFFICES ASSUME ExactInv, [Next]_vars PROVE ExactInv'
  OBVIOUS
<1>1. ReservationInv' /\ TypeOK'
  BY ReservationNext DEF ExactInv, ReservationInv
<1>2. CASE UNCHANGED vars
  BY <1>1, <1>2, ExactQuiet DEF ExactInv, vars, userVars, taskVars, procVars
<1>3. CASE Next
  BY <1>1, <1>3, ExactRequest, ExactWork, ExactCancelTask, ExactSweep,
     ExactFollowUp, ExactAdmin, ExactCrash DEF Next, ExactInv
<1> QED
  BY <1>2, <1>3

\* As long as no database call of the follow-up work fails, crashes and lost
\* answers included: whenever nobody has a reconciliation left to do, the
\* reservation of an account is exactly the cost of its live tasks.
THEOREM ReservationsExact ==
    ASSUME "dbfail" \notin FaultKinds
    PROVE  Spec => []ReservationExact
<1>1. ExactInv /\ [Next]_vars => ExactInv'
  BY ExactNext
<1>2. Spec => []ExactInv
  BY <1>1, ExactInit, PTL DEF Spec
<1> QED
  BY <1>2, ExactInvImplies, PTL

-----------------------------------------------------------------------------
(* The money's actors implement the life cycle of a task *)

LEMMA LifecycleInit == Init => LC!Init
BY DEF Init, LC!Init

LEMMA LifecycleStep == ReservationInv /\ [Next]_vars => [LC!Next]_status
<1> SUFFICES ASSUME ReservationInv, [Next]_vars PROVE [LC!Next]_status
  OBVIOUS
<1> USE DEF LC!Next, LC!Final, LC!Unfinished, Live
<1>1. ASSUME NEW t \in Tasks, Request(t)
      PROVE  [LC!Next]_status
  <2>1. CASE Admit(t)
    BY <2>1 DEF Admit, ReservationInv, FreshQuotes, LC!Insert
  <2>2. CASE Quote(t) \/ Refuse(t)
    BY <2>2 DEF Quote, Refuse, taskVars
  <2> QED
    BY <1>1, <2>1, <2>2 DEF Request
<1>2. ASSUME NEW t \in Tasks, Work(t)
      PROVE  [LC!Next]_status
  <2>1. CASE Claim(t)
    BY <2>1 DEF Claim, LC!Start
  <2>2. CASE Settle(t) \/ SettleAckLost(t)
    BY <2>2 DEF Settle, SettleAckLost, Charge, Chargeable, LC!End
  <2>3. CASE WorkerFails(t)
    BY <2>3 DEF WorkerFails, FailedStatus, LC!End, ReservationInv, TypeOK
  <2>4. CASE WorkerYields(t) \/ WorkerFinishError(t)
    BY <2>4 DEF WorkerYields, WorkerFinishError, taskVars
  <2> QED
    BY <1>2, <2>1, <2>2, <2>3, <2>4 DEF Work
<1>3. ASSUME NEW t \in Tasks, CancelTask(t)
      PROVE  [LC!Next]_status
  BY <1>3 DEF CancelTask, LC!End, ReservationInv, TypeOK
<1>4. CASE Sweep
  <2>1. ASSUME NEW t \in Tasks, SweepFail(t)
        PROVE  [LC!Next]_status
    BY <2>1 DEF SweepFail, LC!End
  <2> QED
    BY <1>4, <2>1 DEF Sweep, SweepSelect, SweepFollowUp, SweepError, taskVars
<1>5. ASSUME NEW k \in Kinds, NEW t \in Tasks, FollowUp(k, t)
      PROVE  UNCHANGED status
  BY <1>5 DEF FollowUp, ReconcileSum, ReconcileWrite, ReconcileError, Release,
     ReleaseError, taskVars
<1>6. ASSUME NEW u \in Users, Account(u) \/ Subscription(u)
      PROVE  UNCHANGED status
  BY <1>6 DEF Account, AdjustCredits, SetUserStatus, Subscription,
     GrantSubscription, CancelSubscription, ExpireSubscription, AdjustQuota,
     ResetUsage, taskVars
<1>7. CASE CrashAndRestart
  BY <1>7 DEF CrashAndRestart, taskVars
<1>8. CASE UNCHANGED vars
  BY <1>8 DEF vars, taskVars
<1> QED
  BY <1>1, <1>2, <1>3, <1>4, <1>5, <1>6, <1>7, <1>8 DEF Next

\* Settlement, failure, cancellation, sweep and follow-up work implement the
\* life cycle of TaskLifecycle: a task is started once, and an ended task keeps
\* its outcome.
THEOREM BillingImplementsLifecycle == Spec => Lifecycle
<1>1. Spec => []ReservationInv
  BY ReservationInit, ReservationNext, PTL DEF Spec
<1> QED
  BY <1>1, LifecycleInit, LifecycleStep, PTL DEF Spec, Lifecycle, LC!Spec

-----------------------------------------------------------------------------
(* Exactly the delivered tasks are charged *)

ChargedInv == ReservationInv /\ ChargedIffDelivered

\* Without a change to the set of successes or to the ledger, nothing changes.
LEMMA ChargedQuiet ==
    ASSUME ChargedInv, UNCHANGED <<cost, credits, adjusted, deducts>>,
           \A t \in Tasks : status'[t] = "success" <=> status[t] = "success"
    PROVE  ChargedIffDelivered'
<1>1. ASSUME NEW u
      PROVE  Delivered(u)' = Delivered(u)
  BY DEF Delivered, CostOf, With
<1> QED
  BY <1>1 DEF ChargedInv, ChargedIffDelivered

LEMMA ChargedAdmit ==
    ASSUME ChargedInv, NEW t \in Tasks, Admit(t)
    PROVE  ChargedIffDelivered'
<1> DEFINE c == quote[t].cost
<1>1. /\ status[t] = "absent" /\ c \in Nat
      /\ status' = [status EXCEPT ![t] = "queued"]
      /\ cost' = [cost EXCEPT ![t] = c]
      /\ UNCHANGED <<credits, adjusted, deducts>>
  BY DEF Admit, logVars, ChargedInv, ReservationInv, FreshQuotes, TypeOK
<1> HIDE DEF c
<1>2. ASSUME NEW u
      PROVE  Delivered(u)' = Delivered(u)
  BY <1>1, LiveGrows DEF ChargedInv, ReservationInv
<1>3. \A s \in Tasks : /\ status'[s] = "success" <=> status[s] = "success"
                       /\ status[s] = "success" => cost'[s] = cost[s]
  BY <1>1 DEF ChargedInv, ReservationInv, TypeOK
<1> QED
  BY <1>1, <1>2, <1>3 DEF ChargedInv, ChargedIffDelivered

\* The only step that charges makes the task a success.
LEMMA ChargedCharge ==
    ASSUME ChargedInv, NEW t \in Tasks, Charge(t)
    PROVE  ChargedIffDelivered'
<1> DEFINE o == Owner[t]
<1>1. /\ status[t] = "processing" /\ o \in Users /\ cost[t] \in Nat
      /\ status' = [status EXCEPT ![t] = "success"]
      /\ cost' = cost /\ adjusted' = adjusted
      /\ credits' = [credits EXCEPT ![o] = @ - cost[t]]
      /\ deducts' = [deducts EXCEPT ![t] = @ + (IF cost[t] > 0 THEN 1 ELSE 0)]
  BY RequestsAssumption DEF Charge, Chargeable, ChargedInv, ReservationInv, TypeOK
<1>2. ASSUME NEW u \in Users
      PROVE  /\ Delivered(u)' = Delivered(u) + (IF o = u THEN cost[t] ELSE 0)
             /\ Delivered(u) \in Nat
             /\ credits'[u] = credits[u] - (IF o = u THEN cost[t] ELSE 0)
             /\ credits[u] \in Nat /\ adjusted[u] \in Int
  <2>1. Delivered(u)' = Delivered(u) + (IF o = u THEN cost[t] ELSE 0)
    BY <1>1, LiveDelivered DEF ChargedInv, ReservationInv
  <2>2. Delivered(u) \in Nat
    BY SumsTyped DEF ChargedInv, ReservationInv, TypeOK
  <2>3. credits'[u] = credits[u] - (IF o = u THEN cost[t] ELSE 0)
    BY <1>1 DEF ChargedInv, ReservationInv, TypeOK
  <2> QED
    BY <2>1, <2>2, <2>3 DEF ChargedInv, ReservationInv, TypeOK
<1>3. \A u \in Users : credits'[u] + Delivered(u)' = InitialCredits[u] + adjusted'[u]
  BY <1>1, <1>2, AccountsAssumption DEF ChargedInv, ChargedIffDelivered
<1>4. \A s \in Tasks : deducts'[s] = IF status'[s] = "success" /\ cost'[s] > 0
                                     THEN 1 ELSE 0
  BY <1>1 DEF ChargedInv, ReservationInv, TypeOK, ChargedIffDelivered
<1> QED
  BY <1>3, <1>4 DEF ChargedIffDelivered

LEMMA ChargedAdjust ==
    ASSUME ChargedInv, NEW u \in Users, NEW d \in Deltas, AdjustCredits(u, d)
    PROVE  ChargedIffDelivered'
<1>1. /\ UNCHANGED <<status, cost, deducts>>
      /\ credits' = [credits EXCEPT ![u] = @ + d]
      /\ adjusted' = [adjusted EXCEPT ![u] = @ + d]
  BY DEF AdjustCredits, taskVars
<1>2. ASSUME NEW v \in Users
      PROVE  /\ Delivered(v)' = Delivered(v) /\ Delivered(v) \in Nat
             /\ credits[v] \in Nat /\ adjusted[v] \in Int /\ d \in Int
             /\ credits'[v] = credits[v] + (IF u = v THEN d ELSE 0)
             /\ adjusted'[v] = adjusted[v] + (IF u = v THEN d ELSE 0)
  <2>1. Delivered(v)' = Delivered(v)
    BY <1>1, SumsSame
  <2>2. Delivered(v) \in Nat
    BY SumsTyped DEF ChargedInv, ReservationInv, TypeOK
  <2>3. credits[v] \in Nat /\ adjusted[v] \in Int /\ d \in Int
    BY AccountsAssumption DEF ChargedInv, ReservationInv, TypeOK
  <2>4. /\ credits'[v] = credits[v] + (IF u = v THEN d ELSE 0)
        /\ adjusted'[v] = adjusted[v] + (IF u = v THEN d ELSE 0)
    BY <1>1 DEF ChargedInv, ReservationInv, TypeOK
  <2> QED
    BY <2>1, <2>2, <2>3, <2>4
<1>3. \A v \in Users : credits'[v] + Delivered(v)' = InitialCredits[v] + adjusted'[v]
  <2> TAKE v \in Users
  <2>1. credits[v] + Delivered(v) = InitialCredits[v] + adjusted[v]
    BY DEF ChargedInv, ChargedIffDelivered
  <2>2. InitialCredits[v] \in Nat
    BY AccountsAssumption
  <2> QED
    BY <1>2, <2>1, <2>2
<1> QED
  BY <1>1, <1>3 DEF ChargedInv, ChargedIffDelivered

LEMMA ChargedNext == ChargedInv /\ [Next]_vars => ChargedInv'
<1> SUFFICES ASSUME ChargedInv, [Next]_vars PROVE ChargedIffDelivered'
  BY ReservationNext DEF ChargedInv
<1>1. ASSUME NEW t \in Tasks, Request(t)
      PROVE  ChargedIffDelivered'
  <2>1. CASE Quote(t) \/ Refuse(t)
    BY <2>1, ChargedQuiet DEF Quote, Refuse, userVars, taskVars, logVars
  <2> QED
    BY <1>1, <2>1, ChargedAdmit DEF Request
<1>2. ASSUME NEW t \in Tasks, Work(t)
      PROVE  ChargedIffDelivered'
  <2>1. CASE Claim(t) \/ WorkerFails(t) \/ WorkerYields(t) \/ WorkerFinishError(t)
    <3>1. UNCHANGED <<cost, credits, adjusted, deducts>>
      BY <2>1 DEF Claim, WorkerFails, WorkerYields, WorkerFinishError, userVars,
         taskVars, logVars
    <3>2. \A s \in Tasks : status'[s] = "success" <=> status[s] = "success"
      BY <2>1 DEF Claim, WorkerFails, FailedStatus, WorkerYields, WorkerFinishError,
         taskVars, ChargedInv, ReservationInv, TypeOK
    <3> QED
      BY <3>1, <3>2, ChargedQuiet
  <2>2. CASE Settle(t) \/ SettleAckLost(t)
    BY <2>2, ChargedCharge DEF Settle, SettleAckLost
  <2> QED
    BY <1>2, <2>1, <2>2 DEF Work
<1>3. ASSUME NEW t \in Tasks, CancelTask(t)
      PROVE  ChargedIffDelivered'
  <2>1. UNCHANGED <<cost, credits, adjusted, deducts>>
    BY <1>3 DEF CancelTask, userVars, logVars
  <2>2. \A s \in Tasks : status'[s] = "success" <=> status[s] = "success"
    BY <1>3 DEF CancelTask, Live, ChargedInv, ReservationInv, TypeOK
  <2> QED
    BY <2>1, <2>2, ChargedQuiet
<1>4. CASE Sweep
  <2>1. UNCHANGED <<cost, credits, adjusted, deducts>>
    BY <1>4 DEF Sweep, SweepSelect, SweepFail, SweepFollowUp, SweepError, userVars,
       taskVars, logVars
  <2>2. \A s \in Tasks : status'[s] = "success" <=> status[s] = "success"
    BY <1>4 DEF Sweep, SweepSelect, SweepFail, SweepFollowUp, SweepError, taskVars,
       Live, ChargedInv, ReservationInv, TypeOK
  <2> QED
    BY <2>1, <2>2, ChargedQuiet
<1>5. ASSUME NEW k \in Kinds, NEW t \in Tasks, FollowUp(k, t)
      PROVE  ChargedIffDelivered'
  <2>1. UNCHANGED <<status, cost, credits, adjusted, deducts>>
    BY <1>5 DEF FollowUp, ReconcileSum, ReconcileWrite, ReconcileError, Release,
       ReleaseError, userVars, taskVars, logVars
  <2> QED
    BY <2>1, ChargedQuiet
<1>6. ASSUME NEW u \in Users, Account(u) \/ Subscription(u)
      PROVE  ChargedIffDelivered'
  <2>1. CASE \E d \in Deltas : AdjustCredits(u, d)
    BY <2>1, ChargedAdjust
  <2>2. CASE SetUserStatus(u) \/ Subscription(u)
    <3>1. UNCHANGED <<status, cost, credits, adjusted, deducts>>
      BY <2>2 DEF SetUserStatus, Subscription, GrantSubscription, CancelSubscription,
         ExpireSubscription, AdjustQuota, ResetUsage, userVars, taskVars, logVars
    <3> QED
      BY <3>1, ChargedQuiet
  <2> QED
    BY <1>6, <2>1, <2>2 DEF Account
<1>7. CASE CrashAndRestart \/ UNCHANGED vars
  BY <1>7, ChargedQuiet DEF CrashAndRestart, vars, userVars, taskVars, logVars
<1> QED
  BY <1>1, <1>2, <1>3, <1>4, <1>5, <1>6, <1>7 DEF Next

LEMMA ChargedInit == Init => ChargedInv
<1> SUFFICES ASSUME Init PROVE ChargedInv
  OBVIOUS
<1>1. ReservationInv
  BY ReservationInit
<1>2. \A u : Delivered(u) = 0
  BY TotalZero DEF Init, Delivered, CostOf, With
<1> QED
  BY <1>1, <1>2, AccountsAssumption DEF Init, ChargedInv, ChargedIffDelivered

\* For any requests, races and faults, the balance of an account is its initial
\* balance plus the adjustments minus the cost of exactly its successful tasks,
\* each of which is charged once.
THEOREM DeliveredAreCharged == Spec => []ChargedIffDelivered
<1>1. Spec => []ChargedInv
  BY ChargedInit, ChargedNext, PTL DEF Spec
<1>2. ChargedInv => ChargedIffDelivered
  BY DEF ChargedInv
<1> QED
  BY <1>1, <1>2, PTL

-----------------------------------------------------------------------------
(* Every admitted task can be paid for *)

SolventInv == ReservationInv /\ Solvent

\* Steps that leave the balances alone and let tasks only end.
LEMMA SolventQuiet ==
    ASSUME SolventInv, UNCHANGED <<cost, credits>>,
           \A t \in Tasks : status'[t] \in Live => status[t] \in Live
    PROVE  Solvent'
<1>1. ASSUME NEW u \in Users
      PROVE  /\ LiveCost(u)' <= LiveCost(u) /\ LiveCost(u) <= credits[u]
             /\ LiveCost(u) \in Nat /\ LiveCost(u)' \in Nat /\ credits[u] \in Nat
  BY LiveShrinks DEF SolventInv, Solvent, ReservationInv, TypeOK
<1> QED
  BY <1>1 DEF Solvent

\* An admission reserves from what is left after all reservations, and these
\* cover the live tasks.
LEMMA SolventAdmit ==
    ASSUME SolventInv, NEW t \in Tasks, Admit(t)
    PROVE  Solvent'
<1> DEFINE c == quote[t].cost
           o == Owner[t]
<1>1. /\ status[t] = "absent" /\ c \in Nat /\ o \in Users
      /\ status' = [status EXCEPT ![t] = "queued"]
      /\ cost' = [cost EXCEPT ![t] = c]
      /\ credits' = credits
      /\ c > 0 => credits[o] - reserved[o] >= c
  BY RequestsAssumption
     DEF Admit, Affordable, SolventInv, ReservationInv, FreshQuotes, TypeOK
<1> HIDE DEF c, o
<1>2. ASSUME NEW u \in Users
      PROVE  credits'[u] >= LiveCost(u)'
  <2>1. LiveCost(u)' = LiveCost(u) + (IF Owner[t] = u THEN c ELSE 0)
    BY <1>1, LiveGrows DEF SolventInv, ReservationInv
  <2>2. LiveCost(u) \in Nat /\ credits[u] \in Nat /\ reserved[u] \in Nat
    BY SumsTyped DEF SolventInv, ReservationInv, TypeOK
  <2>3. reserved[u] >= LiveCost(u) /\ credits[u] >= LiveCost(u)
    BY DEF SolventInv, ReservationInv, ReservationCovers, Solvent
  <2> QED
    BY <1>1, <2>1, <2>2, <2>3 DEF o
<1> QED
  BY <1>2 DEF Solvent

LEMMA SolventCharge ==
    ASSUME SolventInv, NEW t \in Tasks, Charge(t)
    PROVE  Solvent'
<1>1. /\ status[t] = "processing" /\ Owner[t] \in Users /\ cost[t] \in Nat
      /\ status' = [status EXCEPT ![t] = "success"] /\ cost' = cost
      /\ credits' = [credits EXCEPT ![Owner[t]] = @ - cost[t]]
  BY RequestsAssumption DEF Charge, Chargeable, SolventInv, ReservationInv, TypeOK
<1>2. ASSUME NEW u \in Users
      PROVE  credits'[u] >= LiveCost(u)'
  <2>1. LiveCost(u) = LiveCost(u)' + (IF Owner[t] = u THEN cost[t] ELSE 0)
    BY <1>1, LiveDelivered DEF SolventInv, ReservationInv
  <2>2. LiveCost(u) \in Nat /\ LiveCost(u)' \in Nat /\ credits[u] \in Nat
    <3>1. \A s \in Tasks : status'[s] \in Live => status[s] \in Live
      BY <1>1 DEF SolventInv, ReservationInv, TypeOK, Live
    <3> QED
      BY <1>1, <3>1, LiveShrinks DEF SolventInv, ReservationInv, TypeOK
  <2>3. credits[u] >= LiveCost(u)
    BY DEF SolventInv, Solvent
  <2>4. credits'[u] = credits[u] - (IF Owner[t] = u THEN cost[t] ELSE 0)
    BY <1>1 DEF SolventInv, ReservationInv, TypeOK
  <2> QED
    BY <1>1, <2>1, <2>2, <2>3, <2>4
<1> QED
  BY <1>2 DEF Solvent

LEMMA SolventAdjust ==
    ASSUME SolventInv, \A d \in Deltas : d >= 0,
           NEW u \in Users, NEW d \in Deltas, AdjustCredits(u, d)
    PROVE  Solvent'
<1>1. /\ UNCHANGED <<status, cost>>
      /\ credits' = [credits EXCEPT ![u] = @ + d]
      /\ d \in Nat
  BY AccountsAssumption DEF AdjustCredits, taskVars
<1>2. ASSUME NEW v \in Users
      PROVE  credits'[v] >= LiveCost(v)'
  <2>1. LiveCost(v)' = LiveCost(v)
    BY <1>1, SumsSame
  <2>2. LiveCost(v) \in Nat
    BY SumsTyped DEF SolventInv, ReservationInv, TypeOK
  <2>3. credits[v] \in Nat /\ credits'[v] = credits[v] + (IF u = v THEN d ELSE 0)
    BY <1>1 DEF SolventInv, ReservationInv, TypeOK
  <2>4. credits[v] >= LiveCost(v)
    BY DEF SolventInv, Solvent
  <2> QED
    BY <1>1, <2>1, <2>2, <2>3, <2>4
<1> QED
  BY <1>2 DEF Solvent

LEMMA SolventNext ==
    ASSUME \A d \in Deltas : d >= 0
    PROVE  SolventInv /\ [Next]_vars => SolventInv'
<1> SUFFICES ASSUME SolventInv, [Next]_vars PROVE Solvent'
  BY ReservationNext DEF SolventInv
<1>1. ASSUME NEW t \in Tasks, Request(t)
      PROVE  Solvent'
  <2>1. CASE Quote(t) \/ Refuse(t)
    BY <2>1, SolventQuiet DEF Quote, Refuse, userVars, taskVars
  <2> QED
    BY <1>1, <2>1, SolventAdmit DEF Request
<1>2. ASSUME NEW t \in Tasks, Work(t)
      PROVE  Solvent'
  <2>1. CASE Claim(t) \/ WorkerFails(t) \/ WorkerYields(t) \/ WorkerFinishError(t)
    <3>1. UNCHANGED <<cost, credits>>
      BY <2>1 DEF Claim, WorkerFails, WorkerYields, WorkerFinishError, userVars,
         taskVars
    <3>2. \A s \in Tasks : status'[s] \in Live => status[s] \in Live
      BY <2>1 DEF Claim, WorkerFails, FailedStatus, WorkerYields, WorkerFinishError,
         taskVars, Live, SolventInv, ReservationInv, TypeOK
    <3> QED
      BY <3>1, <3>2, SolventQuiet
  <2>2. CASE Settle(t) \/ SettleAckLost(t)
    BY <2>2, SolventCharge DEF Settle, SettleAckLost
  <2> QED
    BY <1>2, <2>1, <2>2 DEF Work
<1>3. ASSUME NEW t \in Tasks, CancelTask(t)
      PROVE  Solvent'
  <2>1. UNCHANGED <<cost, credits>>
    BY <1>3 DEF CancelTask, userVars
  <2>2. \A s \in Tasks : status'[s] \in Live => status[s] \in Live
    BY <1>3 DEF CancelTask, Live, SolventInv, ReservationInv, TypeOK
  <2> QED
    BY <2>1, <2>2, SolventQuiet
<1>4. CASE Sweep
  <2>1. UNCHANGED <<cost, credits>>
    BY <1>4 DEF Sweep, SweepSelect, SweepFail, SweepFollowUp, SweepError, userVars,
       taskVars
  <2>2. \A s \in Tasks : status'[s] \in Live => status[s] \in Live
    BY <1>4 DEF Sweep, SweepSelect, SweepFail, SweepFollowUp, SweepError, taskVars,
       Live, SolventInv, ReservationInv, TypeOK
  <2> QED
    BY <2>1, <2>2, SolventQuiet
<1>5. ASSUME NEW k \in Kinds, NEW t \in Tasks, FollowUp(k, t)
      PROVE  Solvent'
  <2>1. UNCHANGED <<status, cost, credits>>
    BY <1>5 DEF FollowUp, ReconcileSum, ReconcileWrite, ReconcileError, Release,
       ReleaseError, userVars, taskVars
  <2> QED
    BY <2>1, SolventQuiet
<1>6. ASSUME NEW u \in Users, Account(u) \/ Subscription(u)
      PROVE  Solvent'
  <2>1. CASE \E d \in Deltas : AdjustCredits(u, d)
    BY <2>1, SolventAdjust
  <2>2. CASE SetUserStatus(u) \/ Subscription(u)
    <3>1. UNCHANGED <<status, cost, credits>>
      BY <2>2 DEF SetUserStatus, Subscription, GrantSubscription, CancelSubscription,
         ExpireSubscription, AdjustQuota, ResetUsage, userVars, taskVars
    <3> QED
      BY <3>1, SolventQuiet
  <2> QED
    BY <1>6, <2>1, <2>2 DEF Account
<1>7. CASE CrashAndRestart \/ UNCHANGED vars
  BY <1>7, SolventQuiet DEF CrashAndRestart, vars, userVars, taskVars
<1> QED
  BY <1>1, <1>2, <1>3, <1>4, <1>5, <1>6, <1>7 DEF Next

LEMMA SolventInit == Init => SolventInv
<1> SUFFICES ASSUME Init PROVE SolventInv
  OBVIOUS
<1>1. \A u : LiveCost(u) = 0
  BY TotalZero DEF Init, LiveCost, CostOf, With
<1> QED
  BY <1>1, ReservationInit, AccountsAssumption DEF Init, SolventInv, Solvent

\* As long as administrators take no money away, the balance of an account
\* always pays for all its admitted tasks, however many were admitted at once.
THEOREM AdmittedArePayable ==
    ASSUME \A d \in Deltas : d >= 0
    PROVE  Spec => []Solvent
<1>1. Init => SolventInv
  BY SolventInit
<1>2. SolventInv /\ [Next]_vars => SolventInv'
  BY SolventNext
<1>3. SolventInv => Solvent
  BY DEF SolventInv
<1> QED
  BY <1>1, <1>2, <1>3, PTL DEF Spec

-----------------------------------------------------------------------------
(* The quota of an ended task finds its way back *)

\* Somebody is on the way to follow up on the end of a task.
InHand(t) == t \in batch \/ \E k \in Kinds : after[k][t] # "none"

\* What follows a settlement follows a success, which keeps its quota.
SettledSucceeded ==
    \A t \in Tasks : after["settle"][t] # "none" => status[t] = "success"

ReturnInv == ExactInv /\ SettledSucceeded /\ QuotaReturned

\* Steps that write neither units nor the outcome of a task, nor drop it.
LEMMA ReturnQuiet ==
    ASSUME ReturnInv, UNCHANGED <<status, units, batch, after>>
    PROVE  SettledSucceeded' /\ QuotaReturned'
BY DEF ReturnInv, SettledSucceeded, QuotaReturned, Refundable

\* Steps of one task t, which is in hand afterwards or has nothing to return.
LEMMA ReturnOne ==
    ASSUME ReturnInv, NEW t \in Tasks,
           \A s \in Tasks \ {t} :
               /\ status'[s] = status[s] /\ units'[s] = units[s]
               /\ s \in batch => s \in batch'
               /\ \A k \in Kinds : after'[k][s] = after[k][s],
           InHand(t)' \/ ~Refundable(t)',
           after'["settle"][t] # "none" => status'[t] = "success"
    PROVE  SettledSucceeded' /\ QuotaReturned'
BY DEF ReturnInv, SettledSucceeded, QuotaReturned, Refundable, InHand, Kinds

LEMMA ReturnRequest ==
    ASSUME ReturnInv, NEW t \in Tasks, Request(t)
    PROVE  SettledSucceeded' /\ QuotaReturned'
<1>1. ASSUME Quote(t) \/ Refuse(t)
      PROVE  SettledSucceeded' /\ QuotaReturned'
  BY <1>1, ReturnQuiet DEF Quote, Refuse, taskVars
<1>2. CASE Admit(t)
  <2>1. /\ status[t] = "absent" /\ UNCHANGED <<batch, after>>
        /\ status' = [status EXCEPT ![t] = "queued"]
        /\ units' = [units EXCEPT ![t] = quote[t].units]
    BY <1>2 DEF Admit, ReturnInv, ExactInv, ReservationInv, FreshQuotes
  <2>2. status'[t] = "queued" /\ after["settle"][t] = "none"
    BY <2>1 DEF ReturnInv, ExactInv, ReservationInv, TypeOK, WorkOnce
  <2>3. ~Refundable(t)'
    BY <2>2 DEF Refundable
  <2>4. \A s \in Tasks \ {t} : status'[s] = status[s] /\ units'[s] = units[s]
    BY <2>1 DEF ReturnInv, ExactInv, ReservationInv, TypeOK
  <2> QED
    BY <2>1, <2>2, <2>3, <2>4, ReturnOne
<1> QED
  BY <1>1, <1>2 DEF Request

\* A first step of follow-up work takes its task in hand.
LEMMA TakenInHand ==
    ASSUME ReturnInv, NEW k \in Kinds, NEW t \in Tasks,
           after' = Then(k, t, "reconcile")
    PROVE  /\ InHand(t)'
           /\ \A s \in Tasks \ {t}, j \in Kinds : after'[j][s] = after[j][s]
           /\ k # "settle" => after'["settle"] = after["settle"]
<1>1. after'[k][t] = "reconcile"
  BY DEF Then, ReturnInv, ExactInv, ReservationInv, TypeOK
<1> QED
  BY <1>1 DEF InHand, Then, ReturnInv, ExactInv, ReservationInv, TypeOK, Kinds

LEMMA ReturnWork ==
    ASSUME ReturnInv, "dbfail" \notin FaultKinds, NEW t \in Tasks, Work(t)
    PROVE  SettledSucceeded' /\ QuotaReturned'
<1>1. CASE Claim(t)
  <2>1. /\ status[t] = "queued" /\ status' = [status EXCEPT ![t] = "processing"]
        /\ UNCHANGED <<units, batch, after>>
    BY <1>1 DEF Claim
  <2>2. \A s \in Tasks \ {t} : status'[s] = status[s]
    BY <2>1 DEF ReturnInv, ExactInv, ReservationInv, TypeOK
  <2>3. ~Refundable(t)' /\ after'["settle"][t] = "none"
    BY <2>1 DEF Refundable, ReturnInv, ExactInv, ReservationInv, TypeOK, WorkOnce
  <2> QED
    BY <2>1, <2>2, <2>3, ReturnOne
<1>2. ASSUME Settle(t) \/ SettleAckLost(t)
      PROVE  SettledSucceeded' /\ QuotaReturned'
  <2>1. status' = [status EXCEPT ![t] = "success"] /\ UNCHANGED <<units, batch>>
    BY <1>2 DEF Settle, SettleAckLost, Charge
  <2>2. /\ status'[t] = "success"
        /\ \A s \in Tasks \ {t} : status'[s] = status[s]
    BY <2>1 DEF ReturnInv, ExactInv, ReservationInv, TypeOK
  <2>3. \A s \in Tasks \ {t}, j \in Kinds : after'[j][s] = after[j][s]
    BY <1>2, TakenInHand DEF Settle, SettleAckLost, Kinds
  <2>4. ~Refundable(t)'
    BY <2>2 DEF Refundable
  <2> QED
    BY <2>1, <2>2, <2>3, <2>4, ReturnOne
<1>3. CASE WorkerFails(t)
  <2>1. /\ status' = [status EXCEPT ![t] = FailedStatus(t)]
        /\ after' = Then("worker", t, "reconcile") /\ "worker" \in Kinds
        /\ t \in running /\ UNCHANGED <<units, batch>>
    BY <1>3 DEF WorkerFails, Kinds
  <2>2. \A s \in Tasks \ {t} : status'[s] = status[s]
    BY <2>1 DEF ReturnInv, ExactInv, ReservationInv, TypeOK
  <2>3. after["settle"][t] = "none"
    BY <2>1 DEF ReturnInv, ExactInv, WorkOnce
  <2> QED
    BY <2>1, <2>2, <2>3, TakenInHand, ReturnOne
<1>4. CASE WorkerYields(t)
  BY <1>4, ReturnQuiet DEF WorkerYields, taskVars
<1>5. ~WorkerFinishError(t)
  BY DEF WorkerFinishError, Fault
<1> QED
  BY <1>1, <1>2, <1>3, <1>4, <1>5 DEF Work

LEMMA ReturnCancelTask ==
    ASSUME ReturnInv, NEW t \in Tasks, CancelTask(t)
    PROVE  SettledSucceeded' /\ QuotaReturned'
<1>1. /\ status[t] # "success" /\ status' = [status EXCEPT ![t] = "canceled"]
      /\ after' = Then("cancel", t, "reconcile") /\ "cancel" \in Kinds
      /\ UNCHANGED <<units, batch>>
  BY DEF CancelTask, Kinds, Live
<1>2. \A s \in Tasks \ {t} : status'[s] = status[s]
  BY <1>1 DEF ReturnInv, ExactInv, ReservationInv, TypeOK
<1>3. after["settle"][t] = "none"
  BY <1>1 DEF ReturnInv, SettledSucceeded
<1> QED
  BY <1>1, <1>2, <1>3, TakenInHand, ReturnOne

LEMMA ReturnSweep ==
    ASSUME ReturnInv, "dbfail" \notin FaultKinds, Sweep
    PROVE  SettledSucceeded' /\ QuotaReturned'
<1>1. ASSUME NEW S \in SUBSET Tasks, SweepSelect(S)
      PROVE  SettledSucceeded' /\ QuotaReturned'
  BY <1>1, ReturnQuiet DEF SweepSelect, taskVars
<1>2. ASSUME NEW t \in Tasks, SweepFail(t)
      PROVE  SettledSucceeded' /\ QuotaReturned'
  <2>1. UNCHANGED <<units, after>>
    BY <1>2 DEF SweepFail
  <2>2. CASE status[t] \in Live
    <3>1. /\ status' = [status EXCEPT ![t] = "failed"]
          /\ batch' = batch \cup {t} /\ status[t] # "success"
      BY <1>2, <2>2 DEF SweepFail, Live
    <3>2. InHand(t)' /\ after["settle"][t] = "none"
      BY <3>1 DEF InHand, ReturnInv, SettledSucceeded
    <3>3. \A s \in Tasks \ {t} : status'[s] = status[s]
      BY <3>1 DEF ReturnInv, ExactInv, ReservationInv, TypeOK
    <3> QED
      BY <2>1, <3>1, <3>2, <3>3, ReturnOne
  <2>3. CASE status[t] \notin Live
    BY <1>2, <2>1, <2>3, ReturnQuiet DEF SweepFail
  <2> QED
    BY <2>2, <2>3
<1>3. ASSUME NEW t \in Tasks, SweepFollowUp(t)
      PROVE  SettledSucceeded' /\ QuotaReturned'
  <2>1. /\ after' = Then("sweep", t, "reconcile") /\ "sweep" \in Kinds
        /\ UNCHANGED <<status, units>> /\ batch' = batch \ {t}
    BY <1>3 DEF SweepFollowUp, taskVars, Kinds
  <2> QED
    BY <2>1, TakenInHand, ReturnOne DEF ReturnInv, SettledSucceeded
<1>4. ~SweepError
  BY DEF SweepError, Fault
<1> QED
  BY <1>1, <1>2, <1>3, <1>4 DEF Sweep

\* A reconciliation passes a failure on to its release, the release takes the
\* units off the task: neither leaves them behind.
LEMMA ReturnFollowUp ==
    ASSUME ReturnInv, "dbfail" \notin FaultKinds,
           NEW k \in Kinds, NEW t \in Tasks, FollowUp(k, t)
    PROVE  SettledSucceeded' /\ QuotaReturned'
<1>1. CASE ReconcileSum(k, t)
  BY <1>1, ReturnQuiet DEF ReconcileSum, taskVars
<1>2. CASE ReconcileWrite(k, t)
  <2>1. /\ lock[Owner[t]] = <<k, t>> /\ UNCHANGED <<status, units, batch>>
        /\ after' = Then(k, t, NextStage(k))
    BY <1>2 DEF ReconcileWrite, taskVars
  <2>2. after[k][t] = "reconcile"
    BY <2>1, RequestsAssumption DEF ReturnInv, ExactInv, LockHeld
  <2>3. after'[k][t] = NextStage(k) /\ \A s \in Tasks, j \in Kinds :
            <<j, s>> # <<k, t>> => after'[j][s] = after[j][s]
    BY <2>1 DEF Then, ReturnInv, ExactInv, ReservationInv, TypeOK
  <2>4. CASE k = "settle"
    <3>1. status[t] = "success"
      BY <2>2, <2>4 DEF ReturnInv, SettledSucceeded
    <3>2. ~Refundable(t)'
      BY <2>1, <3>1 DEF Refundable
    <3> QED
      BY <2>1, <2>3, <3>1, <3>2, ReturnOne
  <2>5. CASE k # "settle"
    <3>1. InHand(t)'
      BY <2>3, <2>5 DEF InHand, NextStage
    <3>2. after'["settle"][t] = after["settle"][t]
      BY <2>3, <2>5 DEF Kinds
    <3> QED
      BY <2>1, <2>3, <3>1, <3>2, ReturnOne DEF ReturnInv, SettledSucceeded
  <2> QED
    BY <2>4, <2>5
<1>3. CASE Release(k, t)
  <2>1. after' = Then(k, t, "none") /\ UNCHANGED <<status, batch>>
    BY <1>3 DEF Release
  <2>2. /\ after'[k][t] = "none"
        /\ \A s \in Tasks, j \in Kinds :
             <<j, s>> # <<k, t>> => after'[j][s] = after[j][s]
    BY <2>1 DEF Then, ReturnInv, ExactInv, ReservationInv, TypeOK
  <2>3. ~Refundable(t)' /\ \A s \in Tasks \ {t} : units'[s] = units[s]
    <3>1. CASE Refundable(t)
      <4>1. units' = [units EXCEPT ![t] = 0]
        BY <1>3, <3>1 DEF Release, UnitsReturned
      <4>2. units'[t] = 0 /\ \A s \in Tasks \ {t} : units'[s] = units[s]
        BY <4>1 DEF ReturnInv, ExactInv, ReservationInv, TypeOK
      <4> QED
        BY <4>2 DEF Refundable
    <3>2. CASE ~Refundable(t)
      <4>1. units' = units
        BY <1>3, <3>2 DEF Release
      <4> QED
        BY <2>1, <3>2, <4>1 DEF Refundable
    <3> QED
      BY <3>1, <3>2
  <2>4. after'["settle"][t] # "none" => status'[t] = "success"
    BY <2>1, <2>2 DEF ReturnInv, SettledSucceeded, Kinds
  <2> QED
    BY <2>1, <2>2, <2>3, <2>4, ReturnOne
<1>4. ~ReconcileError(k, t) /\ ~ReleaseError(k, t)
  BY DEF ReconcileError, ReleaseError, Fault
<1> QED
  BY <1>1, <1>2, <1>3, <1>4 DEF FollowUp

LEMMA ReturnAdmin ==
    ASSUME ReturnInv, NEW u \in Users, Account(u) \/ Subscription(u)
    PROVE  SettledSucceeded' /\ QuotaReturned'
<1>1. UNCHANGED <<status, units, batch, after>>
  BY DEF Account, AdjustCredits, SetUserStatus, Subscription, GrantSubscription,
         CancelSubscription, ExpireSubscription, AdjustQuota, ResetUsage,
         taskVars, procVars
<1> QED
  BY <1>1, ReturnQuiet

LEMMA ReturnNext ==
    ASSUME {"crash", "dbfail"} \cap FaultKinds = {}
    PROVE  ReturnInv /\ [Next]_vars => ReturnInv'
<1> SUFFICES ASSUME ReturnInv, [Next]_vars PROVE ReturnInv'
  OBVIOUS
<1>1. "crash" \notin FaultKinds /\ "dbfail" \notin FaultKinds
  OBVIOUS
<1>2. ExactInv'
  BY <1>1, ExactNext DEF ReturnInv
<1>3. CASE UNCHANGED vars
  BY <1>2, <1>3, ReturnQuiet DEF ReturnInv, vars, taskVars, procVars
<1>4. CASE Next
  <2>1. ~CrashAndRestart
    BY <1>1 DEF CrashAndRestart, Fault
  <2> QED
    BY <1>1, <1>2, <1>4, <2>1, ReturnRequest, ReturnWork, ReturnCancelTask, ReturnSweep,
       ReturnFollowUp, ReturnAdmin DEF Next, ReturnInv
<1> QED
  BY <1>3, <1>4

\* While the process runs and its database calls succeed: a failed or canceled
\* task that still holds subscription quota always has somebody at work who
\* will give it back, whatever failure, cancellation, sweep and lost answer
\* came together.
THEOREM QuotaIsReturned ==
    ASSUME {"crash", "dbfail"} \cap FaultKinds = {}
    PROVE  Spec => []QuotaReturned
<1>1. Init => ReturnInv
  BY ExactInit DEF Init, ReturnInv, SettledSucceeded, QuotaReturned, Refundable, Kinds
<1>2. ReturnInv /\ [Next]_vars => ReturnInv'
  BY ReturnNext
<1>3. ReturnInv => QuotaReturned
  BY DEF ReturnInv
<1> QED
  BY <1>1, <1>2, <1>3, PTL DEF Spec

-----------------------------------------------------------------------------
(* Quota is not created *)

\* The quota that the tasks of an account remember: held, used or to be returned.
Remembered(u) == UnitsOf({t \in Tasks : Owner[t] = u})

\* Tasks that are not admitted yet remember no quota.
NothingYet == \A t \in Tasks : status[t] = "absent" => units[t] = 0

WithinInv == ReservationInv /\ NothingYet /\ QuotaWithinGrants

LEMMA RememberedSame ==
    ASSUME units' = units, NEW u
    PROVE  Remembered(u)' = Remembered(u)
BY DEF Remembered, UnitsOf

\* A task that changes its units changes the sum of its owner by as much.
LEMMA RememberedOne ==
    ASSUME TypeOK, NEW t \in Tasks, NEW n \in Nat,
           units' = [units EXCEPT ![t] = n], NEW u \in Users
    PROVE  /\ Remembered(u) \in Nat
           /\ Remembered(u)' = Remembered(u)
                               + (IF Owner[t] = u THEN n - units[t] ELSE 0)
<1> DEFINE S == {s \in Tasks : Owner[s] = u}
<1>1. IsFiniteSet(S) /\ S \subseteq Tasks
  BY TasksAssumption, FS_Subset
<1>2. units \in [Tasks -> Nat] /\ units' \in [Tasks -> Nat]
  BY DEF TypeOK
<1>3. Remembered(u) = Total(units, S) /\ Remembered(u)' = Total(units', S)
  BY DEF Remembered, UnitsOf
<1>4. (Owner[t] = u) <=> t \in S
  OBVIOUS
<1> HIDE DEF S
<1>5. Total(units, S) \in Nat /\ Total(units', S) \in Nat
  BY <1>1, <1>2, TotalType
<1>6. CASE t \notin S
  <2>1. \A s \in S : units'[s] = units[s]
    BY <1>1, <1>6 DEF TypeOK
  <2>2. Total(units', S) = Total(units, S)
    BY <2>1, TotalSame
  <2> QED
    BY <1>3, <1>4, <1>5, <1>6, <2>2
<1>7. CASE t \in S
  <2>1. IsFiniteSet(S \ {t})
    BY <1>1, FS_Subset
  <2>2. /\ Total(units, S) = Total(units, S \ {t}) + units[t]
        /\ Total(units', S) = Total(units', S \ {t}) + units'[t]
    BY <1>1, <1>2, <1>7, TotalRemove
  <2>3. \A s \in S \ {t} : units'[s] = units[s]
    BY <1>1 DEF TypeOK
  <2>4. Total(units', S \ {t}) = Total(units, S \ {t})
    BY <2>3, TotalSame
  <2>5. Total(units, S \ {t}) \in Nat
    BY <1>1, <1>2, <2>1, TotalType
  <2>6. units'[t] = n /\ units[t] \in Nat
    BY DEF TypeOK
  <2> QED
    BY <1>3, <1>4, <1>7, <2>2, <2>4, <2>5, <2>6
<1> QED
  BY <1>6, <1>7

LEMMA WithinQuiet ==
    ASSUME WithinInv, UNCHANGED <<quota, units, granted>>,
           \A t \in Tasks : status'[t] = "absent" => status[t] = "absent"
    PROVE  NothingYet' /\ QuotaWithinGrants'
BY RememberedSame DEF WithinInv, NothingYet, QuotaWithinGrants, Remembered

LEMMA WithinAdmit ==
    ASSUME WithinInv, NEW t \in Tasks, Admit(t)
    PROVE  NothingYet' /\ QuotaWithinGrants'
<1> DEFINE n == quote[t].units
           o == Owner[t]
<1>1. /\ status[t] = "absent" /\ n \in Nat /\ o \in Users
      /\ status' = [status EXCEPT ![t] = "queued"]
      /\ units' = [units EXCEPT ![t] = n]
      /\ quota' = [quota EXCEPT ![o] = @ - n]
      /\ granted' = granted
  BY RequestsAssumption
     DEF Admit, WithinInv, ReservationInv, FreshQuotes, TypeOK, logVars
<1> HIDE DEF n
<1>2. units[t] = 0
  BY <1>1 DEF WithinInv, NothingYet
<1>3. ASSUME NEW u \in Users
      PROVE  /\ Remembered(u) \in Nat
             /\ Remembered(u)' = Remembered(u) + (IF o = u THEN n ELSE 0)
             /\ quota'[u] = quota[u] - (IF o = u THEN n ELSE 0)
             /\ quota[u] \in Nat /\ granted[u] \in Nat
             /\ quota[u] + Remembered(u) <= granted[u]
  <2>1. /\ Remembered(u) \in Nat
        /\ Remembered(u)' = Remembered(u) + (IF o = u THEN n - units[t] ELSE 0)
    BY <1>1, RememberedOne DEF WithinInv, ReservationInv
  <2>2. /\ quota'[u] = quota[u] - (IF o = u THEN n ELSE 0)
        /\ quota[u] \in Nat /\ granted[u] \in Nat
    BY <1>1 DEF WithinInv, ReservationInv, TypeOK
  <2>3. quota[u] + Remembered(u) <= granted[u]
    BY DEF WithinInv, QuotaWithinGrants, Remembered
  <2> QED
    BY <1>1, <1>2, <2>1, <2>2, <2>3
<1>4. \A u \in Users : quota'[u] + Remembered(u)' <= granted'[u]
  BY <1>1, <1>3
<1>5. NothingYet'
  BY <1>1 DEF WithinInv, ReservationInv, NothingYet, TypeOK
<1> QED
  BY <1>4, <1>5 DEF QuotaWithinGrants, Remembered

\* Quota that is returned leaves the task; quota that is lost does too.
LEMMA WithinRelease ==
    ASSUME WithinInv, NEW k \in Kinds, NEW t \in Tasks, Release(k, t)
    PROVE  NothingYet' /\ QuotaWithinGrants'
<1> DEFINE o == Owner[t]
           back == IF subStatus[o] = "active" THEN units[t] ELSE 0
<1>1. CASE Refundable(t)
  <2>1. /\ quota' = [quota EXCEPT ![o] = @ + back]
        /\ units' = [units EXCEPT ![t] = 0]
        /\ UNCHANGED <<status, granted>> /\ o \in Users
    BY <1>1, RequestsAssumption DEF Release, UnitsReturned, logVars
  <2>2. back \in Nat /\ units[t] \in Nat /\ back <= units[t]
    BY DEF WithinInv, ReservationInv, TypeOK
  <2> HIDE DEF back
  <2>3. ASSUME NEW u \in Users
        PROVE  quota'[u] + Remembered(u)' <= granted'[u]
    <3>1. /\ Remembered(u) \in Nat
          /\ Remembered(u)' = Remembered(u) + (IF o = u THEN 0 - units[t] ELSE 0)
      BY <2>1, RememberedOne DEF WithinInv, ReservationInv
    <3>2. /\ quota'[u] = quota[u] + (IF o = u THEN back ELSE 0)
          /\ quota[u] \in Nat /\ granted[u] \in Nat
      BY <2>1 DEF WithinInv, ReservationInv, TypeOK
    <3>3. quota[u] + Remembered(u) <= granted[u]
      BY DEF WithinInv, QuotaWithinGrants, Remembered
    <3> QED
      BY <2>1, <2>2, <3>1, <3>2, <3>3
  <2>4. NothingYet'
    BY <2>1 DEF WithinInv, ReservationInv, NothingYet, TypeOK
  <2> QED
    BY <2>3, <2>4 DEF QuotaWithinGrants, Remembered
<1>2. CASE ~Refundable(t)
  BY <1>2, WithinQuiet DEF Release, logVars
<1> QED
  BY <1>1, <1>2

\* Renewing a running subscription carries quota over; everything else an
\* account is granted is added to what it was entitled to.
Renewal(u) == Paid(u) /\ GrantSubscription(u)

LEMMA WithinSubscription ==
    ASSUME WithinInv, NEW u \in Users, Subscription(u), ~Renewal(u)
    PROVE  NothingYet' /\ QuotaWithinGrants'
<1>1. UNCHANGED <<status, units>>
  BY DEF Subscription, GrantSubscription, CancelSubscription, ExpireSubscription,
         AdjustQuota, ResetUsage, taskVars
<1>2. NothingYet'
  BY <1>1 DEF WithinInv, NothingYet
<1>3. ASSUME NEW v \in Users
      PROVE  /\ Remembered(v)' = Remembered(v) /\ Remembered(v) \in Nat
             /\ quota[v] \in Nat /\ granted[v] \in Nat
             /\ quota[v] + Remembered(v) <= granted[v]
  BY <1>1, RememberedSame, SumsTyped
     DEF WithinInv, ReservationInv, TypeOK, QuotaWithinGrants, Remembered
<1>4. CASE GrantSubscription(u)
  <2>1. ~Paid(u)
    BY <1>4 DEF Renewal
  <2>2. /\ quota' = [quota EXCEPT ![u] = PlanQuota + 0]
        /\ granted' = [granted EXCEPT ![u] = @ + PlanQuota]
    BY <1>4, <2>1 DEF GrantSubscription
  <2>3. \A v \in Users :
          /\ quota'[v] = IF v = u THEN PlanQuota ELSE quota[v]
          /\ granted'[v] = IF v = u THEN granted[v] + PlanQuota ELSE granted[v]
    BY <2>2, PlansAssumption DEF WithinInv, ReservationInv, TypeOK
  <2>4. \A v \in Users : quota'[v] + Remembered(v)' <= granted'[v]
    BY <1>3, <2>3, PlansAssumption
  <2> QED
    BY <1>2, <2>4 DEF QuotaWithinGrants, Remembered
<1>5. CASE CancelSubscription(u) \/ ExpireSubscription(u)
  BY <1>1, <1>5, WithinQuiet DEF CancelSubscription, ExpireSubscription, logVars
<1>6. ASSUME NEW q \in AdjustTo \cup {limit[u]}, AdjustQuota(u, q) \/ ResetUsage(u, q)
      PROVE  QuotaWithinGrants'
  <2>1. q \in Nat
    BY PlansAssumption DEF WithinInv, ReservationInv, TypeOK
  <2>2. /\ quota' = [quota EXCEPT ![u] = q]
        /\ granted' = [granted EXCEPT ![u] = q + Remembered(u)]
    BY <1>6 DEF AdjustQuota, ResetUsage, Remembered
  <2>3. \A v \in Users :
          /\ quota'[v] = IF v = u THEN q ELSE quota[v]
          /\ granted'[v] = IF v = u THEN q + Remembered(u) ELSE granted[v]
    BY <2>2 DEF WithinInv, ReservationInv, TypeOK
  <2>4. \A v \in Users : quota'[v] + Remembered(v)' <= granted'[v]
    BY <1>3, <2>1, <2>3
  <2> QED
    BY <2>4 DEF QuotaWithinGrants, Remembered
<1> QED
  BY <1>2, <1>4, <1>5, <1>6 DEF Subscription

LEMMA WithinNext ==
    ASSUME WithinInv, [Next /\ \A u \in Users : ~Renewal(u)]_vars
    PROVE  WithinInv'
<1>1. ReservationInv'
  BY ReservationNext DEF WithinInv
<1> SUFFICES NothingYet' /\ QuotaWithinGrants'
  BY <1>1 DEF WithinInv
<1>2. CASE UNCHANGED vars
  BY <1>2, WithinQuiet DEF vars, taskVars, subVars, logVars
<1>3. ASSUME NEW t \in Tasks, Request(t) \/ Work(t) \/ CancelTask(t)
      PROVE  NothingYet' /\ QuotaWithinGrants'
  <2>1. CASE Admit(t)
    BY <2>1, WithinAdmit
  <2>2. CASE Quote(t) \/ Refuse(t)
    BY <2>2, WithinQuiet DEF Quote, Refuse, taskVars, subVars, logVars
  <2>3. ASSUME Work(t) \/ CancelTask(t)
        PROVE  NothingYet' /\ QuotaWithinGrants'
    <3>1. UNCHANGED <<quota, units, granted>>
      BY <2>3 DEF Work, Claim, Settle, SettleAckLost, Charge, WorkerFails,
         WorkerYields, WorkerFinishError, CancelTask, taskVars, subVars, logVars
    <3>2. \A s \in Tasks : status'[s] = "absent" => status[s] = "absent"
      BY <2>3 DEF Work, Claim, Settle, SettleAckLost, Charge, WorkerFails,
         FailedStatus, WorkerYields, WorkerFinishError, CancelTask, taskVars,
         WithinInv, ReservationInv, TypeOK
    <3> QED
      BY <3>1, <3>2, WithinQuiet
  <2> QED
    BY <1>3, <2>1, <2>2, <2>3 DEF Request
<1>4. CASE Sweep
  <2>1. UNCHANGED <<quota, units, granted>>
    BY <1>4 DEF Sweep, SweepSelect, SweepFail, SweepFollowUp, SweepError,
       taskVars, subVars, logVars
  <2>2. \A s \in Tasks : status'[s] = "absent" => status[s] = "absent"
    BY <1>4 DEF Sweep, SweepSelect, SweepFail, SweepFollowUp, SweepError,
       taskVars, WithinInv, ReservationInv, TypeOK
  <2> QED
    BY <2>1, <2>2, WithinQuiet
<1>5. ASSUME NEW k \in Kinds, NEW t \in Tasks, FollowUp(k, t)
      PROVE  NothingYet' /\ QuotaWithinGrants'
  <2>1. CASE Release(k, t)
    BY <2>1, WithinRelease
  <2>2. CASE ~Release(k, t)
    BY <1>5, <2>2, WithinQuiet DEF FollowUp, ReconcileSum, ReconcileWrite,
       ReconcileError, ReleaseError, taskVars, subVars, logVars
  <2> QED
    BY <2>1, <2>2
<1>6. ASSUME NEW u \in Users, Account(u)
      PROVE  NothingYet' /\ QuotaWithinGrants'
  BY <1>6, WithinQuiet
     DEF Account, AdjustCredits, SetUserStatus, taskVars, subVars, logVars
<1>7. CASE CrashAndRestart
  BY <1>7, WithinQuiet DEF CrashAndRestart, taskVars, subVars, logVars
<1> QED
  BY <1>2, <1>3, <1>4, <1>5, <1>6, <1>7, WithinSubscription DEF Next

LEMMA WithinInit == Init => WithinInv
<1> SUFFICES ASSUME Init PROVE WithinInv
  OBVIOUS
<1>1. \A u \in Users : Remembered(u) = 0
  BY TotalZero DEF Init, Remembered, UnitsOf
<1> QED
  BY <1>1, ReservationInit
     DEF Init, WithinInv, NothingYet, QuotaWithinGrants, Remembered

\* As long as no running subscription is renewed, whatever else is granted,
\* adjusted, reset, canceled, used, returned or lost in faults: the quota that
\* is left and the quota that tasks remember are at most what was granted.
THEOREM QuotaUnlessRenewed ==
    Init /\ [][Next /\ \A u \in Users : ~Renewal(u)]_vars => []QuotaWithinGrants
<1>1. WithinInv => QuotaWithinGrants
  BY DEF WithinInv
<1> QED
  BY <1>1, WithinInit, WithinNext, PTL

\* An account with a subscription has had a period of it.
PeriodOfPaid == \A u \in Users : Paid(u) => period[u] > 0

LEMMA PeriodNext ==
    ASSUME TypeOK, PeriodOfPaid, [Next]_vars
    PROVE  PeriodOfPaid'
<1>1. ASSUME UNCHANGED subVars
      PROVE  PeriodOfPaid'
  BY <1>1 DEF PeriodOfPaid, Paid, subVars
<1>2. ASSUME NEW u \in Users, Subscription(u)
      PROVE  PeriodOfPaid'
  <2>1. ASSUME period' = [period EXCEPT ![u] = @ + 1],
               \A v \in Users \ {u} : Paid(v)' = Paid(v)
        PROVE  PeriodOfPaid'
    BY <2>1 DEF PeriodOfPaid, TypeOK
  <2>2. CASE GrantSubscription(u)
    <3>1. \A v \in Users \ {u} : Paid(v)' = Paid(v)
      BY <2>2 DEF GrantSubscription, Paid, TypeOK
    <3> QED
      BY <2>1, <2>2, <3>1 DEF GrantSubscription
  <2>3. ASSUME CancelSubscription(u) \/ ExpireSubscription(u)
        PROVE  PeriodOfPaid'
    <3>1. period' = period /\ \A v \in Users : Paid(v)' => Paid(v)
      BY <2>3 DEF CancelSubscription, ExpireSubscription, Paid, TypeOK
    <3> QED
      BY <3>1 DEF PeriodOfPaid
  <2>4. ASSUME NEW q, AdjustQuota(u, q) \/ ResetUsage(u, q)
        PROVE  PeriodOfPaid'
    <3>1. \A v \in Users : Paid(v)' = Paid(v)
      BY <2>4 DEF AdjustQuota, ResetUsage, Paid
    <3> QED
      BY <2>1, <2>4, <3>1 DEF AdjustQuota, ResetUsage, PeriodOfPaid
  <2> QED
    BY <1>2, <2>2, <2>3, <2>4 DEF Subscription
<1>3. ASSUME NEW t \in Tasks, Request(t) \/ Work(t) \/ CancelTask(t)
      PROVE  UNCHANGED <<subStatus, unexpired, period>>
  BY <1>3 DEF Request, Quote, Admit, Refuse, Work, Claim, Settle, SettleAckLost,
     Charge, WorkerFails, WorkerYields, WorkerFinishError, CancelTask, subVars
<1>4. ASSUME Sweep
      PROVE  UNCHANGED <<subStatus, unexpired, period>>
  BY <1>4 DEF Sweep, SweepSelect, SweepFail, SweepFollowUp, SweepError, subVars
<1>5. ASSUME NEW k \in Kinds, NEW t \in Tasks, FollowUp(k, t)
      PROVE  UNCHANGED <<subStatus, unexpired, period>>
  BY <1>5 DEF FollowUp, ReconcileSum, ReconcileWrite, ReconcileError, Release,
     ReleaseError, subVars
<1>6. ASSUME NEW u \in Users, Account(u)
      PROVE  UNCHANGED subVars
  BY <1>6 DEF Account, AdjustCredits, SetUserStatus
<1>7. ASSUME CrashAndRestart \/ UNCHANGED vars
      PROVE  UNCHANGED subVars
  BY <1>7 DEF CrashAndRestart, vars
<1> QED
  BY <1>1, <1>2, <1>3, <1>4, <1>5, <1>6, <1>7 DEF Next, PeriodOfPaid, Paid

\* With at most one period ever granted to an account (resets by an
\* administrator may start more), no subscription is renewed, and quota is not
\* created.  With two, it can be: run refund_twice.
THEOREM QuotaNotCreated ==
    ASSUME MaxPeriods <= 1
    PROVE  Spec => []QuotaWithinGrants
<1>1. Init => WithinInv /\ PeriodOfPaid
  BY WithinInit DEF Init, PeriodOfPaid, Paid
<1>2. ASSUME WithinInv, PeriodOfPaid, [Next]_vars
      PROVE  WithinInv' /\ PeriodOfPaid'
  <2>1. \A u \in Users : ~Renewal(u)
    BY <1>2, PlansAssumption
       DEF Renewal, GrantSubscription, PeriodOfPaid, WithinInv, ReservationInv, TypeOK
  <2>2. WithinInv'
    BY <1>2, <2>1, WithinNext
  <2>3. PeriodOfPaid'
    BY <1>2, PeriodNext DEF WithinInv, ReservationInv
  <2> QED
    BY <2>2, <2>3
<1>3. WithinInv => QuotaWithinGrants
  BY DEF WithinInv
<1> QED
  BY <1>1, <1>2, <1>3, PTL DEF Spec
=============================================================================
