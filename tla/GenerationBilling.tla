------------------------- MODULE GenerationBilling -------------------------
(***************************************************************************)
(* How an image request is paid for, from the price quote to the last      *)
(* refund.  A request is quoted against the account (or its subscription)  *)
(* and admitted by one transaction that inserts the task and reserves the  *)
(* money or the quota it may consume.  A worker claims the task, calls the *)
(* upstream and settles it; an administrator may cancel it and the timeout *)
(* sweep may fail it at any moment.  Whoever makes the task terminal then  *)
(* has follow-up work: rebuild the cached sum of reservations and give the *)
(* quota back, each in a transaction of its own that may fail, or never    *)
(* run when the process stops.                                             *)
(*                                                                         *)
(* Money and quota are counted in their smallest unit, so a cost is a      *)
(* natural number.  A database transaction is one action when its row      *)
(* locks keep every other writer of the rows it reads away until commit;   *)
(* the reconciliation reads task rows it does not lock and is two actions. *)
(***************************************************************************)
EXTENDS Integers, FiniteSets, Totals

CONSTANTS
    Users,          \* accounts
    Tasks,          \* task ids: one per request, never reused (a UUID)
    Owner,          \* Owner[t]: the account that sends request t
    Mode,           \* Mode[t]: billing mode of the API key used for t
    Price,          \* Price[t]: balance cost of the whole request
    Units,          \* Units[t]: subscription quota of the whole request
    InitialCredits, \* InitialCredits[u]: balance at the start
    Deltas,         \* amounts by which an administrator may adjust a balance
    MaxCredits,     \* bound: adjustments never lift a balance above it
    PlanQuota,      \* quota that one subscription plan grants
    AdjustTo,       \* remaining quotas an administrator may set
    MaxPeriods,     \* bound: periods up to which a subscription is granted
    MaxResets,      \* bound: periods that resets may add
    FaultKinds,     \* which faults happen: "crash", "dbfail", "acklost"
    MaxFaults       \* bound: number of faults

Modes == {"auto", "subscription", "balance"}
Faults == {"crash", "dbfail", "acklost"}

ASSUME UsersAssumption == IsFiniteSet(Users)
ASSUME TasksAssumption == IsFiniteSet(Tasks)
ASSUME RequestsAssumption ==
    /\ Owner \in [Tasks -> Users]
    /\ Mode  \in [Tasks -> Modes]
    /\ Price \in [Tasks -> Nat]
    /\ Units \in [Tasks -> Nat]
ASSUME AccountsAssumption ==
    /\ InitialCredits \in [Users -> Nat]
    /\ Deltas \subseteq Int
    /\ MaxCredits \in Nat
ASSUME PlansAssumption ==
    /\ PlanQuota \in Nat
    /\ AdjustTo \subseteq Nat
    /\ MaxPeriods \in Nat /\ MaxResets \in Nat
ASSUME FaultsAssumption == FaultKinds \subseteq Faults /\ MaxFaults \in Nat

-----------------------------------------------------------------------------
\* Statuses of a generation_tasks row.  The code's guards also name "pending",
\* which nothing writes into this table.
Live     == {"queued", "processing"}
Terminal == {"success", "failed", "canceled"}
Statuses == {"absent"} \cup Live \cup Terminal

\* Who may have follow-up work for a task it made (or found) terminal:
\* the settlement of a success, a failing worker, the cancel handler, the sweep.
Kinds == {"settle", "worker", "cancel", "sweep"}
Stages == {"none", "reconcile", "release"}

NoLock  == <<>>
NoQuote == <<>>

VARIABLES
    \* users
    credits,        \* users.credits
    reserved,       \* users.generation_reserved_credits
    active,         \* users.status = 'active'
    \* generation_tasks
    status, cost,   \* status and cost_credits
    units,          \* quantity * subscription_quota_units
    created,        \* created_at, as the subscription period it falls in
    \* user_subscriptions: one row per account
    subStatus,      \* status, "none" when there is no row
    unexpired,      \* expires_at > NOW()
    quota,          \* quota_remaining
    limit,          \* quotaImages of plan_snapshot
    period,         \* started_at, as the number of periods started so far
    \* credit_logs
    deducts,        \* rows of type 'deduct' written for the task
    adjusted,       \* sum of the amounts of all other rows of the account
    granted,        \* history: quota the account was ever entitled to
    \* the process
    quote,          \* request handler: the quote it read, before its transaction
    running,        \* tasks a worker is processing
    cands,          \* timeout sweep: candidates still to be updated
    batch,          \* timeout sweep: tasks it failed, follow-up to be done
    after,          \* after[k][t]: next follow-up step of actor k for task t
    lock,           \* users row lock of a running reconciliation
    sum,            \* the sum that reconciliation has read (0 without one)
    faults          \* faults so far

userVars == <<credits, reserved, active>>
taskVars == <<status, cost, units, created>>
subVars  == <<subStatus, unexpired, quota, limit, period>>
logVars  == <<deducts, adjusted, granted>>
procVars == <<quote, running, cands, batch, after, lock, sum>>
vars == <<userVars, taskVars, subVars, logVars, procVars, faults>>

-----------------------------------------------------------------------------
\* SUM(cost_credits) and SUM(quantity * quota units) over a set of tasks.
CostOf(S)  == Total(cost, S)
UnitsOf(S) == Total(units, S)

With(u, S) == {t \in Tasks : Owner[t] = u /\ status[t] \in S}
LiveCost(u) == CostOf(With(u, Live))
Delivered(u) == CostOf(With(u, {"success"}))

\* An entitlement the quote and the reservation accept.
Paid(u) == subStatus[u] = "active" /\ unexpired[u]

\* generationUsage: quota used by the tasks created in the current period.
Used(u) == UnitsOf({t \in With(u, Live \cup {"success"}) : created[t] = period[u]})

\* The row lock of the account is free, so that a transaction can take it.
NeverLocked(u) == TRUE  \* mutant: no SELECT ... FOR UPDATE
Unlocked(u) == lock[u] = NoLock

\* reserveGenerationBalance: the balance that is not reserved pays for it.
AffordableGross(u, c) == credits[u] >= c  \* mutant: ignores reservations
Affordable(u, c) == credits[u] - reserved[u] >= c

\* reserveSubscriptionQuota: the quota left covers it.
QuotaGranted(u, n) == Paid(u)  \* mutant: trusts the quote
QuotaLeft(u, n) == Paid(u) /\ quota[u] >= n

\* The guard of the settlement, read under the lock of the task.
ChargeableAny(t) == status[t] # "success"  \* mutant: only repeats are caught
Chargeable(t) == status[t] = "processing"

\* FinishFailedWithDetails: UPDATE ... WHERE status = 'processing'.
FailedAlways(t) == "failed"  \* mutant: UPDATE without the status
FailedStatus(t) == IF status[t] = "processing" THEN "failed" ELSE status[t]

\* A terminal task whose quota goes back, and what it remembers afterwards.
Refundable(t) == status[t] \in {"failed", "canceled"} /\ units[t] > 0
UnitsKept(t) == units[t]  \* mutant: the units are not cleared
UnitsReturned(t) == 0

Then(k, t, stage) == [after EXCEPT ![k][t] = stage]
Fault(kind) == kind \in FaultKinds /\ faults < MaxFaults /\ faults' = faults + 1

-----------------------------------------------------------------------------
Init ==
    /\ credits = InitialCredits
    /\ reserved = [u \in Users |-> 0]
    /\ active = [u \in Users |-> TRUE]
    /\ status = [t \in Tasks |-> "absent"]
    /\ cost = [t \in Tasks |-> 0]
    /\ units = [t \in Tasks |-> 0]
    /\ created = [t \in Tasks |-> 0]
    /\ subStatus = [u \in Users |-> "none"]
    /\ unexpired = [u \in Users |-> FALSE]
    /\ quota = [u \in Users |-> 0]
    /\ limit = [u \in Users |-> 0]
    /\ period = [u \in Users |-> 0]
    /\ deducts = [t \in Tasks |-> 0]
    /\ adjusted = [u \in Users |-> 0]
    /\ granted = [u \in Users |-> 0]
    /\ quote = [t \in Tasks |-> NoQuote]
    /\ running = {}
    /\ cands = {}
    /\ batch = {}
    /\ after = [k \in Kinds |-> [t \in Tasks |-> "none"]]
    /\ lock = [u \in Users |-> NoLock]
    /\ sum = [u \in Users |-> 0]
    /\ faults = 0

-----------------------------------------------------------------------------
(* Admission *)

\* generationBillingQuote reads the entitlement before the transaction: a paid
\* subscription with enough quota costs quota, otherwise (not in subscription
\* mode) the request costs money.  A refused quote leaves no state behind.
Quote(t) ==
    LET u == Owner[t] IN
    /\ status[t] = "absent" /\ quote[t] = NoQuote
    /\ \/ /\ Mode[t] # "balance" /\ Paid(u) /\ quota[u] >= Units[t]
          /\ quote' = [quote EXCEPT ![t] =
                         [cost |-> 0, units |-> Units[t], period |-> period[u]]]
       \/ /\ Mode[t] = "balance" \/ (Mode[t] = "auto" /\ ~Paid(u))
          /\ quote' = [quote EXCEPT ![t] =
                         [cost |-> Price[t], units |-> 0, period |-> period[u]]]
    /\ UNCHANGED <<userVars, taskVars, subVars, logVars, running, cands, batch,
                   after, lock, sum, faults>>

\* The admission transaction: insert the task, take the quota and the balance
\* by conditional updates that re-check what the quote saw.  created_at is the
\* start of the transaction, which may lie in any period since the quote.
Admit(t) ==
    LET u == Owner[t]  q == quote[t] IN
    /\ q # NoQuote
    /\ active[u]
    /\ q.units > 0 => QuotaLeft(u, q.units)
    /\ q.cost > 0 => Unlocked(u) /\ Affordable(u, q.cost)
    /\ status' = [status EXCEPT ![t] = "queued"]
    /\ cost' = [cost EXCEPT ![t] = q.cost]
    /\ units' = [units EXCEPT ![t] = q.units]
    /\ \E p \in q.period .. period[u] : created' = [created EXCEPT ![t] = p]
    /\ quota' = [quota EXCEPT ![u] = @ - q.units]
    /\ reserved' = [reserved EXCEPT ![u] = @ + q.cost]
    /\ quote' = [quote EXCEPT ![t] = NoQuote]
    /\ UNCHANGED <<credits, active, subStatus, unexpired, limit, period, logVars,
                   running, cands, batch, after, lock, sum, faults>>

\* The transaction rolls back (402, 403, 500) or the client has gone.
Refuse(t) ==
    /\ quote[t] # NoQuote
    /\ quote' = [quote EXCEPT ![t] = NoQuote]
    /\ UNCHANGED <<userVars, taskVars, subVars, logVars, running, cands, batch,
                   after, lock, sum, faults>>

-----------------------------------------------------------------------------
(* The worker *)

\* ClaimForProcessing is a compare-and-swap on the status: a message delivered
\* twice starts one worker.  It refreshes updated_at, so a sweep that had read
\* the task as stale no longer updates it.
Claim(t) ==
    /\ status[t] = "queued"
    /\ status' = [status EXCEPT ![t] = "processing"]
    /\ running' = running \cup {t}
    /\ cands' = cands \ {t}
    /\ UNCHANGED <<userVars, cost, units, created, subVars, logVars, quote, batch,
                   after, lock, sum, faults>>

\* The settlement transaction, under the locks of the user and of the task.
Charge(t) ==
    LET u == Owner[t] IN
    /\ t \in running
    /\ Unlocked(u)
    /\ Chargeable(t)
    /\ credits[u] >= cost[t]
    /\ credits' = [credits EXCEPT ![u] = @ - cost[t]]
    /\ deducts' = [deducts EXCEPT ![t] = @ + (IF cost[t] > 0 THEN 1 ELSE 0)]
    /\ status' = [status EXCEPT ![t] = "success"]
    /\ UNCHANGED <<reserved, active, cost, units, created, subVars, adjusted,
                   granted, quote, cands, batch, lock, sum>>

\* mutant: the success is not reconciled
SettleOnly(t) == Charge(t) /\ running' = running \ {t} /\ UNCHANGED <<after, faults>>

\* finishSuccessWithBilling commits; only the reconciliation is left to do.
Settle(t) ==
    /\ Charge(t)
    /\ running' = running \ {t}
    /\ after' = Then("settle", t, "reconcile")
    /\ UNCHANGED faults

\* The commit succeeds but its answer is lost.  The worker will take the error
\* path (WorkerFails), where FinishFailedWithDetails finds no processing task and
\* the follow-up work of a failure runs on a task that has succeeded.
SettleAckLost(t) ==
    /\ Fault("acklost")
    /\ Charge(t)
    /\ UNCHANGED <<running, after>>

\* Disabled model, upstream error, duplicate images, no credits left, a lost
\* answer: the failure is conditional on 'processing', the follow-up work is not.
WorkerFails(t) ==
    /\ t \in running
    /\ status' = [status EXCEPT ![t] = FailedStatus(t)]
    /\ running' = running \ {t}
    /\ after' = Then("worker", t, "reconcile")
    /\ UNCHANGED <<userVars, cost, units, created, subVars, logVars, quote, cands,
                   batch, lock, sum, faults>>

\* The settlement finds the task ended by someone else (ErrTaskNotProcessing),
\* or the canceled worker finds it canceled: it leaves the follow-up to them.
WorkerYields(t) ==
    /\ t \in running
    /\ status[t] \in {"failed", "canceled"}
    /\ running' = running \ {t}
    /\ UNCHANGED <<userVars, taskVars, subVars, logVars, quote, cands, batch,
                   after, lock, sum, faults>>

\* FinishFailedWithDetails itself fails: there is no task to follow up on and
\* the row stays 'processing' until the sweep.
WorkerFinishError(t) ==
    /\ Fault("dbfail")
    /\ t \in running
    /\ running' = running \ {t}
    /\ UNCHANGED <<userVars, taskVars, subVars, logVars, quote, cands, batch,
                   after, lock, sum>>

-----------------------------------------------------------------------------
(* Cancellation and the timeout sweep *)

\* cancelTask: a conditional update, then the follow-up unless the task ended
\* otherwise (409).  Cancelling a canceled task again repeats the follow-up.
CancelTask(t) ==
    /\ status[t] \in Live \cup {"canceled"}
    /\ after["cancel"][t] = "none"
    /\ status' = [status EXCEPT ![t] = "canceled"]
    /\ after' = Then("cancel", t, "reconcile")
    /\ UNCHANGED <<userVars, cost, units, created, subVars, logVars, quote,
                   running, cands, batch, lock, sum, faults>>

SweepIdle == cands = {} /\ batch = {} /\ \A t \in Tasks : after["sweep"][t] = "none"

\* failTimedOut selects stale tasks (any live ones: age is not modelled) ...
StaleQueued(t) == status[t] = "queued"  \* mutant: only waiting tasks
Stale(t) == status[t] \in Live

SweepSelect(S) ==
    /\ SweepIdle
    /\ S # {} /\ \A t \in S : Stale(t)
    /\ cands' = S
    /\ UNCHANGED <<userVars, taskVars, subVars, logVars, quote, running, batch,
                   after, lock, sum, faults>>

\* ... and fails them one row at a time, if they are still stale.
SweepFail(t) ==
    /\ t \in cands
    /\ cands' = cands \ {t}
    /\ IF status[t] \in Live
       THEN /\ status' = [status EXCEPT ![t] = "failed"]
            /\ batch' = batch \cup {t}
       ELSE UNCHANGED <<status, batch>>
    /\ UNCHANGED <<userVars, cost, units, created, subVars, logVars, quote,
                   running, after, lock, sum, faults>>

\* An error between two rows: FailTimedOut returns before any follow-up.
SweepError ==
    /\ Fault("dbfail")
    /\ cands # {}
    /\ cands' = {} /\ batch' = {}
    /\ UNCHANGED <<userVars, taskVars, subVars, logVars, quote, running, after,
                   lock, sum>>

\* After the last row, the follow-up of one failed task after another.
SweepFollowUp(t) ==
    /\ cands = {} /\ t \in batch
    /\ \A s \in Tasks : after["sweep"][s] = "none"
    /\ batch' = batch \ {t}
    /\ after' = Then("sweep", t, "reconcile")
    /\ UNCHANGED <<userVars, taskVars, subVars, logVars, quote, running, cands,
                   lock, sum, faults>>

-----------------------------------------------------------------------------
(* Follow-up work *)

\* A success is only reconciled; every failure also returns its quota.
NextStageNone(k) == "none"  \* mutant: a failure is only reconciled
NextStage(k) == IF k = "settle" THEN "none" ELSE "release"

\* ReconcileGenerationBalanceReservation: lock the user, read the sum ...
ReconcileSum(k, t) ==
    LET u == Owner[t] IN
    /\ after[k][t] = "reconcile"
    /\ Unlocked(u)
    /\ lock' = [lock EXCEPT ![u] = <<k, t>>]
    /\ sum' = [sum EXCEPT ![u] = LiveCost(u)]
    /\ UNCHANGED <<userVars, taskVars, subVars, logVars, quote, running, cands,
                   batch, after, faults>>

\* ... write it and commit.  Tasks may have ended in between.
ReconcileWrite(k, t) ==
    LET u == Owner[t] IN
    /\ lock[u] = <<k, t>>
    /\ reserved' = [reserved EXCEPT ![u] = sum[u]]
    /\ lock' = [lock EXCEPT ![u] = NoLock]
    /\ sum' = [sum EXCEPT ![u] = 0]
    /\ after' = Then(k, t, NextStage(k))
    /\ UNCHANGED <<credits, active, taskVars, subVars, logVars, quote, running,
                   cands, batch, faults>>

\* The reconciliation fails (a database error, its deadline, a cancel request
\* whose client has gone); the error is logged and the next step follows.
ReconcileError(k, t) ==
    LET u == Owner[t] IN
    /\ Fault("dbfail")
    /\ after[k][t] = "reconcile"
    /\ IF lock[u] = <<k, t>>
       THEN lock' = [lock EXCEPT ![u] = NoLock] /\ sum' = [sum EXCEPT ![u] = 0]
       ELSE UNCHANGED <<lock, sum>>
    /\ after' = Then(k, t, NextStage(k))
    /\ UNCHANGED <<userVars, taskVars, subVars, logVars, quote, running, cands,
                   batch>>

\* ReleaseSubscriptionQuotaForTerminalTask: whatever subscription is active
\* now gets the units back, and the task forgets them.
Release(k, t) ==
    LET u == Owner[t] IN
    /\ after[k][t] = "release"
    /\ after' = Then(k, t, "none")
    /\ IF Refundable(t)
       THEN /\ quota' = [quota EXCEPT ![u] =
                           @ + (IF subStatus[u] = "active" THEN units[t] ELSE 0)]
            /\ units' = [units EXCEPT ![t] = UnitsReturned(t)]
       ELSE UNCHANGED <<quota, units>>
    /\ UNCHANGED <<userVars, status, cost, created, subStatus, unexpired, limit,
                   period, logVars, quote, running, cands, batch, lock, sum,
                   faults>>

ReleaseError(k, t) ==
    /\ Fault("dbfail")
    /\ after[k][t] = "release"
    /\ after' = Then(k, t, "none")
    /\ UNCHANGED <<userVars, taskVars, subVars, logVars, quote, running, cands,
                   batch, lock, sum>>

-----------------------------------------------------------------------------
(* Accounts and subscriptions *)

\* AdjustCredits and SetCredits lock the user row and keep the balance >= 0.
AdjustCredits(u, d) ==
    /\ Unlocked(u)
    /\ credits[u] + d \in 0 .. MaxCredits
    /\ credits' = [credits EXCEPT ![u] = @ + d]
    /\ adjusted' = [adjusted EXCEPT ![u] = @ + d]
    /\ UNCHANGED <<reserved, active, taskVars, subVars, deducts, granted,
                   procVars, faults>>

\* An administrator disables or enables the account.
SetUserStatus(u) ==
    /\ Unlocked(u)
    /\ active' = [active EXCEPT ![u] = ~@]
    /\ UNCHANGED <<credits, reserved, taskVars, subVars, logVars, procVars, faults>>

\* grantSubscriptionPlanInTx: renewing a running subscription carries over what
\* the usage of its period leaves of its quota.  The user row is locked first.
GrantSubscription(u) ==
    LET left == limit[u] - Used(u)
        carried == IF Paid(u) /\ left > 0 THEN left ELSE 0
    IN
    /\ Unlocked(u)
    /\ period[u] < MaxPeriods
    /\ subStatus' = [subStatus EXCEPT ![u] = "active"]
    /\ unexpired' = [unexpired EXCEPT ![u] = TRUE]
    /\ quota' = [quota EXCEPT ![u] = PlanQuota + carried]
    /\ limit' = [limit EXCEPT ![u] = PlanQuota + carried]
    /\ period' = [period EXCEPT ![u] = @ + 1]
    /\ granted' = [granted EXCEPT ![u] = @ + PlanQuota]
    /\ UNCHANGED <<userVars, taskVars, deducts, adjusted, procVars, faults>>

CancelSubscription(u) ==
    /\ Paid(u)
    /\ subStatus' = [subStatus EXCEPT ![u] = "canceled"]
    /\ UNCHANGED <<userVars, taskVars, unexpired, quota, limit, period, logVars,
                   procVars, faults>>

\* Time passes expires_at; the row keeps its status.
ExpireSubscription(u) ==
    /\ unexpired[u]
    /\ unexpired' = [unexpired EXCEPT ![u] = FALSE]
    /\ UNCHANGED <<userVars, taskVars, subStatus, quota, limit, period, logVars,
                   procVars, faults>>

\* AdjustSubscriptionQuota, keeping the period ...
AdjustQuota(u, q) ==
    /\ Paid(u)
    /\ limit' = [limit EXCEPT ![u] = Used(u) + q]
    /\ quota' = [quota EXCEPT ![u] = q]
    /\ granted' = [granted EXCEPT ![u] = q + UnitsOf({t \in Tasks : Owner[t] = u})]
    /\ UNCHANGED <<userVars, taskVars, subStatus, unexpired, period, deducts,
                   adjusted, procVars, faults>>

\* ... or starting a new one (resetUsage) with the plan's quota or the given one.
ResetUsage(u, q) ==
    /\ Paid(u)
    /\ period[u] < MaxPeriods + MaxResets
    /\ limit' = [limit EXCEPT ![u] = q]
    /\ quota' = [quota EXCEPT ![u] = q]
    /\ period' = [period EXCEPT ![u] = @ + 1]
    /\ granted' = [granted EXCEPT ![u] = q + UnitsOf({t \in Tasks : Owner[t] = u})]
    /\ UNCHANGED <<userVars, taskVars, subStatus, unexpired, deducts, adjusted,
                   procVars, faults>>

-----------------------------------------------------------------------------
\* The process stops, losing every handler, worker and sweep with its open
\* transactions; the migrations of the next start rebuild the reservations.
CrashAndRestart ==
    /\ Fault("crash")
    /\ quote' = [t \in Tasks |-> NoQuote]
    /\ running' = {} /\ cands' = {} /\ batch' = {}
    /\ after' = [k \in Kinds |-> [t \in Tasks |-> "none"]]
    /\ lock' = [u \in Users |-> NoLock]
    /\ reserved' = [u \in Users |-> LiveCost(u)]
    /\ sum' = [u \in Users |-> 0]
    /\ UNCHANGED <<credits, active, taskVars, subVars, logVars>>

FollowUp(k, t) ==
    \/ ReconcileSum(k, t) \/ ReconcileWrite(k, t) \/ ReconcileError(k, t)
    \/ Release(k, t) \/ ReleaseError(k, t)

Request(t) == Quote(t) \/ Admit(t) \/ Refuse(t)

Work(t) == \/ Claim(t) \/ Settle(t) \/ SettleAckLost(t) \/ WorkerFails(t)
           \/ WorkerYields(t) \/ WorkerFinishError(t)

Sweep == \/ \E S \in SUBSET Tasks : SweepSelect(S)
         \/ \E t \in Tasks : SweepFail(t) \/ SweepFollowUp(t)
         \/ SweepError

Account(u) == \/ \E d \in Deltas : AdjustCredits(u, d)
              \/ SetUserStatus(u)

Subscription(u) ==
    \/ GrantSubscription(u) \/ CancelSubscription(u) \/ ExpireSubscription(u)
    \/ \E q \in AdjustTo : AdjustQuota(u, q)
    \/ \E q \in AdjustTo \cup {limit[u]} : ResetUsage(u, q)

Next ==
    \/ \E t \in Tasks : Request(t) \/ Work(t) \/ CancelTask(t)
    \/ Sweep
    \/ \E k \in Kinds, t \in Tasks : FollowUp(k, t)
    \/ \E u \in Users : Account(u) \/ Subscription(u)
    \/ CrashAndRestart

\* Every goroutine that has work goes on; deliveries reach a worker (module
\* TaskStream); a 'processing' task nobody works on grows stale and the
\* 30-second ticker selects it; a failed task's sweep is finished.
Fairness ==
    /\ \A t \in Tasks :
         /\ WF_vars(Claim(t))
         /\ WF_vars(Settle(t) \/ WorkerFails(t) \/ WorkerYields(t))
         /\ WF_vars(\E S \in SUBSET Tasks :
                      t \in S /\ status[t] = "processing" /\ SweepSelect(S))
    /\ WF_vars(\E t \in Tasks : SweepFail(t))
    /\ WF_vars(\E t \in Tasks : SweepFollowUp(t))
    /\ WF_vars(\E k \in Kinds, t \in Tasks : ReconcileWrite(k, t))
    /\ \A k \in Kinds :
         /\ SF_vars(\E t \in Tasks : ReconcileSum(k, t))
         /\ WF_vars(\E t \in Tasks : Release(k, t))

Spec == Init /\ [][Next]_vars
FairSpec == Spec /\ Fairness

-----------------------------------------------------------------------------
(* Properties *)

\* Every variable has its type: balances, reservations, quotas and sums never
\* go below zero, whatever is interleaved.
TypeOK ==
    /\ credits \in [Users -> Nat] /\ reserved \in [Users -> Nat]
    /\ active \in [Users -> BOOLEAN]
    /\ status \in [Tasks -> Statuses] /\ cost \in [Tasks -> Nat]
    /\ units \in [Tasks -> Nat] /\ created \in [Tasks -> Nat]
    /\ subStatus \in [Users -> {"none", "active", "canceled"}]
    /\ unexpired \in [Users -> BOOLEAN]
    /\ quota \in [Users -> Nat] /\ limit \in [Users -> Nat]
    /\ period \in [Users -> Nat]
    /\ deducts \in [Tasks -> Nat] /\ adjusted \in [Users -> Int]
    /\ granted \in [Users -> Nat]
    /\ quote \in [Tasks -> {NoQuote} \cup [cost : Nat, units : Nat, period : Nat]]
    /\ running \subseteq Tasks /\ cands \subseteq Tasks /\ batch \subseteq Tasks
    /\ after \in [Kinds -> [Tasks -> Stages]]
    /\ lock \in [Users -> {NoLock} \cup (Kinds \X Tasks)]
    /\ sum \in [Users -> Nat]
    /\ faults \in Nat

\* The cached reservation of an account (users.generation_reserved_credits)
\* never undercounts what its live tasks may still cost, although it is rebuilt
\* from task rows nobody locks while admissions and settlements go on.
ReservationCovers == \A u \in Users : reserved[u] >= LiveCost(u)

\* Why it holds: a sum that was read under the row lock can only shrink until it
\* is written, since admissions wait, and a quote is for a task not yet inserted.
SumCovers == \A u \in Users : ~Unlocked(u) => sum[u] >= LiveCost(u)
FreshQuotes == \A t \in Tasks : quote[t] # NoQuote => status[t] = "absent"
ReservationInv == TypeOK /\ ReservationCovers /\ SumCovers /\ FreshQuotes

\* Without an administrator taking money away, every admitted task can be paid
\* for when it succeeds: concurrent admissions never spend a credit twice.
Solvent == \A u \in Users : credits[u] >= LiveCost(u)

\* Work that will still rebuild the reservation of an account.
ReconcilePending(u) ==
    \E t \in Tasks : /\ Owner[t] = u
                     /\ \/ t \in running /\ status[t] = "success"
                        \/ t \in batch
                        \/ \E k \in Kinds : after[k][t] = "reconcile"

\* Once nobody has a reconciliation left to do, the reservation is exactly the
\* cost of the live tasks: no balance stays blocked by a task that ended.
ReservationExact ==
    \A u \in Users : ReconcilePending(u) \/ reserved[u] = LiveCost(u)

\* The balance is what it was, plus the adjustments, minus the cost of exactly
\* the tasks that succeeded; each of those has one 'deduct' row, no other task
\* has any, even if a settlement's answer is lost or races a cancellation.
ChargedIffDelivered ==
    /\ \A u \in Users : credits[u] + Delivered(u) = InitialCredits[u] + adjusted[u]
    /\ \A t \in Tasks : deducts[t] = IF status[t] = "success" /\ cost[t] > 0
                                     THEN 1 ELSE 0

\* The money's actors implement the life cycle of a task: one worker starts it,
\* and it keeps its outcome, whichever of settlement, failure, cancellation and
\* sweep comes later.
LC == INSTANCE TaskLifecycle
Lifecycle == LC!Spec

\* Quota is not created: what is left of it plus what tasks hold or have used
\* is at most what the plans and the administrator granted.
QuotaWithinGrants ==
    \A u \in Users :
        quota[u] + UnitsOf({t \in Tasks : Owner[t] = u}) <= granted[u]

\* The quota of a failed or canceled task is never stranded: as long as the
\* task remembers it, somebody is on the way to give it back.
QuotaReturned ==
    \A t \in Tasks :
        Refundable(t) => t \in batch \/ \E k \in Kinds : after[k][t] # "none"

\* Every admitted task ends.
EveryTaskEnds ==
    \A t \in Tasks : status[t] = "queued" ~> status[t] \in Terminal

\* Again and again, the balance blocked by ended tasks is freed.
ReservationsFreed == \A u \in Users : []<>(reserved[u] = LiveCost(u))

=============================================================================
