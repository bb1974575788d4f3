# A TLA+ model of AI-PAI

AI-PAI sells image generation through an OpenAI-compatible HTTP API. The Go
server (`src/go-server`) admits a request, reserves what it may cost, queues it
through an outbox and Redis streams, runs it on a worker pool against an
upstream provider, settles it, and answers the waiting client. Customers use a
site (`src/apps/web`): they sign in, pay, make API keys, try a model, look at
their calls. Administrators use a console (`src/apps/admin`) that talks to the
Go server through a proxy of its own. This directory models the server's core
and the two applications in TLA+, checks them with TLC on small instances and
proves theorems about them with TLAPS for every instance.

Paths of Go files are relative to `src/go-server/internal/`, those of TypeScript
files to `src/apps/web/src/` or, for the console, `src/apps/admin/src/`.

## 1. The system and its parts

| Component | State | Operations | Hard part |
|---|---|---|---|
| Generation billing and settlement (`httpserver/generation_billing.go`, `generation_locks.go`, `openai_compat_handlers.go`, `task_handlers.go`, `generation/service.go`, `generation/billing.go`, `tasks/repository.go`) | `users.credits`, `users.generation_reserved_credits`, `generation_tasks.status/cost_credits/subscription_quota_units`, `credit_logs` | quote, admission, claim, settlement, failure, cancellation, timeout sweep, reconciliation of the reservation, return of the quota | four actors end the same task; every one has follow-up work in transactions of its own; the reservation is a cache rebuilt from rows nobody locks |
| Subscriptions (`operations/repository.go`) | `user_subscriptions.status/expires_at/started_at/quota_remaining/plan_snapshot` | grant and renew (with carry-over), cancel, expire, adjust, reset | two notions of what is left: the counter `quota_remaining` and the plan quota minus the usage of the period |
| Accounts (`users/repository.go`) | `users.credits`, `users.status` | set and adjust the balance, enable and disable | races with admission and settlement |
| Outbox and Redis streams (`generation/outbox.go`, `redis_queue.go`) | `generation_outbox`, streams, the consumer group's pending entries | publish, re-check, read, autoclaim, acknowledge and delete | publication and its record are two writes; a message is delivered again while its first delivery is still being worked on |
| Scheduler and workers (`generation/scheduler.go`, `queue.go`) | channels `incoming`, `jobs`, `releases`; the pending list; the active count of each API key; `active` cancel functions | schedule, take, run, release, pause, cancel | bounded channels, per-key limits, duplicated deliveries |
| Completion waiters and inline results (`generation/redis_queue.go`, `result_store.go`) | `waiters`, result items, timers | subscribe, notify, remember, take, forget, expire, evict | a wake-up between the read of the task and the wait; a timer of an older entry |
| API access log (`apiaccess/repository.go`) | `api_access_logs.status/charged_credits` | create, mark processing, finish by worker, sweep, handler | several writers decide the outcome that the client is billed for |
| Recharge orders (`operations/repository.go`, `order_expiry.go`, `httpserver/operation_handlers.go`, `alipay_helpers.go`) | `recharge_orders.status`, `users.credits`, rebates | create, notify, ask, complete, close after 30 minutes | a payment notification that is repeated, races the page's own question, or arrives after the close; two orders that add to one balance |
| Invitations (`operations/repository.go`, `httpserver/invite_rewards.go`) | `user_invites` with reward state, subscriptions of both sides | bind, finalise, review, delete | rewards granted once, revoked only if granted |
| Upstream adapter (`generation/adapter.go`, `upstream_image.go`) | none that persists | batches of upstream calls, retries | partial batches |
| API keys, sessions, e-mail tokens | single rows | authentication, one-time tokens | expiry |
| Self-update (`httpserver/system_update_handlers.go`, `src/deploy/ai-pai-update-worker.sh`) | request and status files | request, run, report | two processes share files |
| Clean-up workers and caches | files, log rows | periodic deletion | none that this project models |
| Content, settings, providers, models, pricing | configuration rows | create, read, update, delete | none |
| Customer site: session and frame (`lib/portal-api.ts`, `components/common/AppShell.tsx`, `app/(auth)/login`, `components/auth/RootAuthFlow.tsx`) | one record in localStorage for all tabs; in each tab the account shown, its announcements, an alert | sign in and out, check, poll, refresh, claim a reward, confirm, change of address | an answer arrives after the account it was asked for has gone, in this tab or another |
| Customer site: pages (`app/(user)/api-keys`, `billing`, `playground`, `usage`, `settings`, `app/(auth)/register`, `forgot-password`) | rows, dialogs, spinners, the order on the screen, the selected key and its secret, filters, a registration challenge | load, turn pages, create, reveal, switch, delete, pay, ask again, export | requests that are not numbered and answers that overtake each other; buttons disabled by one flag for several requests |
| Console: sign-in, proxy, shell (`components/AdminShell.tsx`, `app/login`, `app/api/**/route.ts`, `lib/admin-api.ts`) | cookies shared by tabs, the identity each tab shows | sign in and out, check, forward an allowed request | an answer clears cookies that another tab has renewed; two lists of routes kept apart by hand |
| Console: pages (`app/(dashboard)/users`, `settings`, `api-access`, `api-operations`, `components/settings/SystemUpdatePanel.tsx`) | lists with filters and selections, forms behind one flag, secrets never shown, the progress of an update, running calls | search, edit, delete, store, update, cancel a call | superseded requests, forms opened under a request, a server that restarts while it is asked |
| Console: other pages; dashboard and public pages of the site | lists and forms | create, read, update, delete | none of their own |

Interaction: the request handler writes task, access log, outbox row and
reservations in one transaction and wakes the dispatcher. The dispatcher
publishes outbox rows to Redis; the consumer loop and the autoclaim loop hand
messages to the scheduler, which hands them to workers. A worker claims the
task in the database, calls the upstream, settles or fails the task and then
acknowledges the message. The timeout sweep and the administrator end tasks
behind the worker's back. Whoever ends a task publishes its completion, which
wakes the handler that waits for it. A page of the site or of the console sends
requests and writes their answers into its state, whatever that state is by then;
the tabs of a browser share a record (site) or cookies (console), which each of
them reads when it sends and writes when an answer comes. An order that the
billing page creates is paid at Alipay and completed by Alipay's notification or
by the page's question, whichever comes first.

What makes each part correct:

* billing: no credit or quota unit is promised twice, exactly the delivered
  tasks are charged, exactly once, and what an ended task held is freed;
* dispatch: no admitted task is lost and none is run twice;
* scheduling: an API key never exceeds its limit, and a busy key does not
  stall the others;
* waiters: a handler that waits for a task is woken when it ends;
* access log: its outcome and charge agree with the task;
* orders and invitations: every payment and reward is granted once;
* sessions: no record joins two accounts, nobody is shown another's data, a
  disabled account leaves the screen, and what is shown becomes current;
* pages: no button stays disabled for nothing, what is shown answers the last
  question, an answer is used for the row, key or account it was asked for.

## 2. Plan

1. `GenerationBilling` (done): the money and quota of a request.
2. `TaskStream` (done): outbox, streams and consumer group over the abstract
   task life cycle `TaskLifecycle`, which both it and `GenerationBilling`
   implement. Claim once, never lose, eventually acknowledge, under crashes of
   the server and lost Redis answers.
3. `Scheduler` with the abstract `WorkerPool` it implements (done): per-key
   limits, progress of unrelated keys, no deadlock of the three channels.
4. `RechargeOrders` (done): the completion of a payment under repeated
   notifications, expiry and roll-backs.
5. `PortalSession` and the pages of the site, `PortalKeys`, `PortalBilling`,
   `PortalPlayground`, `PortalNotices`, `PortalUsage`, `PortalAccount` (done).
6. `ConsoleSession` with `ConsoleRoutes`, and the pages `ConsoleUsers`,
   `ConsoleSettings`, `ConsoleUpdate`, `ConsoleAccess`, `ConsoleOperations` (done).
7. Proofs (done): the inductive invariants of 1 to 4, of every page of the site
   and of the console; exactness of the reservation and the return of quota, each
   under the faults it survives.
8. Open: completion waiters (no lost wake-up, the byte accounting of the inline
   results), the access log (agreement with the charge), invitations (rewards
   granted once and revoked only if granted). Section 7 says what that leaves out.

Abstract specifications: the task life cycle (absent, queued, processing, one
terminal status, for ever) and the worker pool (a job is granted only within the
limit of its key), both stated and implemented; a ledger (balance = grants -
charges) is an invariant of `GenerationBilling` so far.

## 3. Modules

### Totals, TotalsTheorems

`Total(c, S)` is SQL's `SUM(c)` over the rows `S`, defined by counting
(`Cardinality` of the disjoint parts) and not by recursion, so that
`TotalsTheorems` can prove what the other proofs need: a total is a natural
number, grows and shrinks by the value of the element added or removed, is
monotone in the set, and depends on the values inside the set only.

### GenerationBilling

The life of a request's money. Variables are named after the columns they
stand for. The table gives the code behind each action.

| Action | Code |
|---|---|
| `Quote` | `generationBillingQuote`: entitlement or balance, read outside the transaction |
| `Admit`, `Refuse` | the closure of `withUserGenerationLock` in `compatImageRequestWithInput` with `reserveSubscriptionQuota` and `reserveGenerationBalance` |
| `Claim` | `ClaimForProcessing` |
| `Settle`, `SettleAckLost` | `finishSuccessWithBillingOnce`; the second loses the answer of the commit |
| `WorkerFails`, `WorkerYields`, `WorkerFinishError` | the error paths of `ProcessWithOptions` |
| `CancelTask` | `cancelTask` with `Repository.Cancel` |
| `SweepSelect`, `SweepFail`, `SweepError`, `SweepFollowUp` | `failTimedOut` and `FailTimedOut` |
| `ReconcileSum`, `ReconcileWrite`, `ReconcileError` | `ReconcileGenerationBalanceReservation`, two steps because the rows it sums are not locked |
| `Release`, `ReleaseError` | `ReleaseSubscriptionQuotaForTerminalTask` |
| `AdjustCredits`, `SetUserStatus` | `SetCredits`, `AdjustCredits`, `Update` of the user repository |
| `GrantSubscription`, `CancelSubscription`, `ExpireSubscription`, `AdjustQuota`, `ResetUsage` | the subscription operations of the operations repository |
| `CrashAndRestart` | the loss of all goroutines and the rebuild of the reservations in `EnsureSchema` |

`after[k][t]` is the follow-up work that actor `k` (settlement, worker, cancel
handler, sweep) still has to do for task `t`: reconcile, then (except after a
success) release. `lock[u]` is the row lock that a reconciliation holds between
reading and writing; every other transaction on the account row waits for it.

Abstractions: money and quota are natural numbers (the code rounds to 1/10000);
a request carries its price and its units as constants; a subscription period is
a counter, and `created[t]` is the period in which the task was created, which
may be older than the period whose quota it took when a renewal commits during
the admission transaction; the age of a task is not modelled, so the sweep may
take any live task at any time; the SQL database is read committed and a
transaction whose row locks exclude the other writers of what it reads is one
action. `granted[u]` is a history variable.

### TaskLifecycle

The abstract specification of one task row: `Insert`, `Start` (of a queued task
only) and `End` (of an unfinished one only, a success only of a started one).
`GenerationBilling` and `TaskStream` look at the same column from two sides;
both declare `LC == INSTANCE TaskLifecycle` and `Lifecycle == LC!Spec`.

### TaskStream

The way of a task from its admission to a worker and the way of its message out
of Redis. Three groups of variables: the database (`status`, `outbox`,
`sentAs`), Redis (`entries`, `fresh`, `pel`, `group`) and the process (the row
the dispatcher works on, the `inbox` of delivered messages, each worker's stage
and message, the cancel functions `active`). A crash loses the third group only.

| Action | Code |
|---|---|
| `Admit` | `InsertOutboxWithTx` in the admission transaction |
| `SelectRow`, `CheckRow`, `PublishRow`, `MarkRow` | `dispatchOutboxBatch`, `publishOutboxRows`, `markOutboxPublished`: select, XRANGE, XADD and UPDATE are separate steps |
| `Read`, `EnsureGroup` | `consumeStreamLoop`, `ensureConsumerGroups` |
| `Autoclaim` | `recoverPendingLoop` |
| `Take`, `Begin` | `worker`, `process`: wait while paused, register the cancel function |
| `Claim`, `LoseClaim` | `ClaimForProcessing` at the head of `ProcessWithOptions` |
| `Attempt`, `CallAnswers`, `DuplicateImage`, `Settle`, `RunFails`, `NoAttempt`, `FinishFailed` | the loop of `ProcessWithOptions`: an attempt to generate, its answer, the settlement that commits, finds the task ended or finds an image of another task (then another attempt, up to `upstreamDuplicateGuardAttempts`), and the last UPDATE of a run that failed |
| `Acknowledge`, `Delete`, `RemoveRow`, `LeavePending` | `finishStreamJob`: look-up, XACK, XDEL, DELETE, one step each |
| `Sweep`, `CancelTask`, `StopWorker` | `sweepTimedOutTasks`, `Repository.Cancel`, `Queue.Cancel` |
| `SetPaused` | `upstreamMaintenance` with `SetPaused` |
| `...Fails`, `ReadLost`, `CrashAndRestart`, `RedisLosesMessages` | ignored errors, lost answers, restarts |

Abstractions: shards do not interact and are one stream; rows of a batch are
handled one by one; ages (2 minutes of a sent row, 30 seconds of a pending
message, the timeout of a task) are not modelled, what waits for an age may
happen at any time; a sweep reads the pause and updates the row in one step; a
worker that panics behaves like one whose final update fails. An attempt is one
call here: the batches of the adapter and its HTTP retries (`adapter.go:46-73`,
`upstream_image.go:44-66`) are not modelled, so that nothing is said of the number
of HTTP requests. `claims` and `calls` (attempts begun) are history variables.

### ApiKeys, WorkerPool, Scheduler

`ApiKeys` declares jobs, keys and limits. `Scheduler` has the goroutine `scheduleJobs` (`HandOut`, `Wait`, `Receive`,
`CountDown`: its inner loop and its `select`), the goroutines that feed it
(`Deliver`) and the workers (`Take`, `End`, `Release`), joined by three bounded
channels. `WorkerPool` is what they promise together: `held[j]` copies of a job
are in the hands of workers, `Grant(j)` needs room under the limit `j` was
admitted with, counting all jobs of its key. `Pool == INSTANCE WorkerPool WITH
held <- [j \in Jobs |-> Held({j})]` maps a job to the copies that wait in the
channel `jobs` or are with a worker.

### RechargeOrders

The server's side of a payment. `CompleteOrder` is four steps of a request `h`,
because its transaction takes three row locks one after the other and other
transactions run in between: `LockOrder`, `LockPayer`, `LockInviter` and
`Commit`. What it reads under a lock is kept in `handler[h]` and is what it
writes. A lock is not a variable: a row is free when no handler is in a stage in
which it holds it (`OrderFree`, `UserFree`).

| Action | Code |
|---|---|
| `CreateOrder` | `recharge`; Alipay is told of the trade first, the code is shown last |
| `Notify`, `SyncPaid` | `alipayNotify` and `syncRechargeOrder` up to the call of `CompleteOrder` |
| `LockOrder`, `LockPayer`, `LockInviter`, `Commit` | `CompleteOrder` with `applyInviteRechargeRebateInTx` |
| `CommitAnswerLost`, `RollBack` | the commit's or the server's answer is lost; an error, the timeout or the end of the process |
| `CloseExpired` | `CloseExpiredPendingOrders` |
| `SetActive` | the user repository's `Update` |
| `Pay`, and `owed` | Alipay, which repeats a notification until it is answered with success (external) |

Abstractions: amounts and shares are constants of a trade (the rebate's percentage
and switches are those in force when it is completed); the age of an order is not
modelled; `credits` holds what orders added, because every other writer of the
column takes the same row lock before it reads what it changes.

### PortalSession

The record in localStorage is `stored`; tab `t` shows page `route[t]`, the
account `user[t]` (React state of `AppShell`) and the announcements `news[t]`.
A request is a record in one of `MaxCalls` slots: it leaves (`Visit`, `Poll`,
`PageRefresh`, `Claim`, `SubmitLogin`, `OpenLink`), is served by the Go handlers
(`Serve`), and its answer arrives (`Deliver`, one operator per kind of request:
`LoginAnswer`, `CheckAnswer`, `PollAnswer`, `SavingAnswer`, `NewsAnswer`,
`ChangeAnswer`). `as` is the session captured when it left, `active` the flag
that the clean-up of a React effect clears. `Logout` and the storage event that
another tab's write raises (`Saved`) complete it. A session is reduced to whose
id and whose token it has and to one value that the server changes (`credits`).

### The pages of the site

Each module is one page in one tab: React state is VARIABLES under the names of
the code, a handler is an action up to its `await`, and what follows the `await`
is an action of its own, so that everything else can happen in between. Requests
in flight are a set; two that ask for the same at the same time are kept as one.

| Module | Page | Left out |
|---|---|---|
| `PortalKeys` | `app/(user)/api-keys`: pages of keys, dialogs, row switches | names and limits of a key |
| `PortalBilling` | `app/(user)/billing`: summary, order history, creating and reopening an order, the interval that asks for it, the payment dialog | amounts, cards of plans |
| `PortalPlayground` | `app/(user)/playground`: list, secret and models of a key, generation, reference images | prompts and pictures |
| `PortalNotices` | the part of `AppShell` above every page: announcements, alert, mail button, build check | texts |
| `PortalUsage` | `app/(user)/usage`: filters, periods, pages, export, details; the summary's arithmetic as operators; lists and pages are sets of places of the ledger | dates are day numbers, labels |
| `PortalAccount` | `register`, `forgot-password`, the links of `RootAuthFlow`, `app/(user)/settings` | passwords are reduced to what the checks tell apart |

### The console

`ConsoleRoutes` is the list of routes that the proxy lets through
(`app/api/backend/[...path]/route.ts`) and the list of calls the client makes
(`lib/admin-api.ts`). `ConsoleSession` has the cookies (`jar`), the tokens that
Go still accepts, the state of Go (`up`, `failing` with 5xx answers, `down`),
whether the console was opened under its own origin, and per tab the page and the
identity that `AdminShell` keeps. A request for the session carries the cookie of
the moment it was sent; it is served (`ServeSession`: accepted, refused, or lost
when nothing answers) and later its answer arrives (`SessionAnswer`), which clears
the cookies unless it was an acceptance or lost, whatever they hold by then, and
which the shell ignores once its effect was cleaned up. `vouched[f]` is history:
whose token Go has accepted for tab `f` since its page was mounted. The proxy
(`ProxyAnswer`) refuses a route that is not listed (404), a change from another
origin (403) and a request without a token (401), says 502 when Go is down, and
hands every other answer on. The page modules are built like those of the site. A
request may fail before it is done, or do its work and lose the answer:

| Module | Page | What is particular |
|---|---|---|
| `ConsoleUsers` | `users` | superseded loads are aborted; one `saving` flag for five forms; `works` are the mutations under way, sent, served (`ServeWork`) and answered at different times; an account is created active and, where the form says so, disabled by a second request that may fail by itself (`ServeCreation`); a row is replaced by the one in the answer; a visibility setting that was never stored (`initialized`) is shown with the paying accounts chosen; administrators are not deleted; which controls can be used is a set of names computed as the page computes `disabled` |
| `ConsoleSettings` | `settings` | one value stands for all visible settings, one key for the secrets, `hidden` for what the form does not show; loads and saves are served (`ServeLoad`, `ServeSave`) before their answer arrives or is lost |
| `ConsoleUpdate` | `SystemUpdatePanel`, and the build check of `AdminShell` | calls of one kind overlap and overtake one another; the answer of a build check carries the build that ran when it was given; an update ends in a new build or a rollback, with the console away meanwhile (the shell worker of the update is external) |
| `ConsoleAccess` | `api-access` | numbered loads of two lists, debounced, and row actions that reload the list they were started under, after a deletion no page beyond the last; an action's flag is lowered when its own reload is answered or aborted |
| `ConsoleOperations` | `api-operations` | three intervals; the counts at the head are the server's (`AdminOperationsLive`), those of the groups the page's; `activeCallUserGroups` as a recursive function of how many calls the loop is through with, with its fall-backs for a call without a customer or a key |

## 4. Runs

### Billing

These runs use module `MCBilling`: one account (accounts share no row, and the
sweep that serves all of them is indifferent to owners), three credits, and two
or three requests. `t1` and `t2`, of price 2, are in auto mode and interchangeable
(symmetry); `t3` pays with the balance. In `refund_twice` `t1` is in subscription
mode. `billing_core` has two kinds of behaviours (action constraint
`MoneyOrQuota`): without a subscription, all three requests compete for the balance
and one answer is lost; or a grant comes first, and `t1` and `t2` compete for its one unit of
quota, or for the balance once it is canceled or has expired. Its account stays
enabled: a disabled one only refuses requests, and `Refuse` can happen to any
request. `SetUserStatus` is taken in `billing_faults` and `billing_live`.

| Run | Checks | Shows |
|---|---|---|
| `billing_core` | `TypeOK`, `ReservationCovers`, `ReservationExact`, `Solvent`, `QuotaWithinGrants`, `QuotaReturned`, `Lifecycle` | three requests for a balance and one lost commit answer: all interleavings keep the balance sound; two requests for one unit of quota, with a grant, adjustments, a reset, cancellation and expiry: quota is neither created nor stranded, and none goes below zero |
| `billing_faults` | `ReservationInv`, `ChargedIffDelivered` | `t1` and `t3`, which fit the balance together; two faults of any kind and an administrator who takes money away: the inductive invariant of the proof, and exact charges |
| `billing_live` | `EveryTaskEnds`, `ReservationsFreed` | `t1` and `t3` under fairness and with a crash: every admitted task ends and balances are freed |
| `refund_twice` | `QuotaWithinGrants`, violated | a renewal between failure and refund pays it twice |

Bounds: the number of requests (two are needed for a race, three for a race
besides an unrelated request), `MaxFaults`, `MaxPeriods` (renewals: with
one grant `QuotaWithinGrants` holds, with two `refund_twice` refutes it),
`MaxResets` and `MaxCredits`. Each
follow-up actor works on one task at a time in the code and here; no other
counter is bounded.

Deadlock is not checked: a system in which all requests have ended rests.

Fairness (`Fairness` in `GenerationBilling`): every goroutine that has work goes
on; an admitted task is delivered to a worker (`TaskStream` shows it); the 30-second ticker selects a stale `processing` task again and
again; a reconciliation gets the row lock if it is free again and again (strong
fairness, the database queues lock waiters). Nothing is assumed of requests,
administrators or faults.

### Dispatch

These runs use module `MCStream`. `stream_faults` has no maintenance (constraint
`Unpaused`): a pause only makes jobs and the sweep wait, so that whatever happens to
tasks with pauses happens without them, too; the other two runs pause and resume.

| Run | Instance | Checks | Shows |
|---|---|---|---|
| `stream_faults` | 1 task, 2 workers (symmetry), 2 publications, 2 faults of 4 kinds | `NotLost`, `OneRun`, `Lifecycle` | no admitted task is lost; each is claimed once, run by one worker at a time, and tried no more often than one run tries |
| `stream_live` | 1 task, 1 worker, 3 publications, 1 fault | `EveryTaskEnds`, `EverythingRemoved` | a lost message is published again and the task ends; nothing of an ended task stays in Redis or in the outbox unless the fault comes |
| `stream_cancel` | 1 task, 2 workers | `CancelStopsRun`, violated | a redelivery disarms the cancellation of the run |

Bounds: `MaxPublications` (two make a duplicate; `stream_live` needs one more
than its fault can destroy), `MaxFaults`, and two attempts per run where the code
has three: one repetition shows what another one would, and `TaskRunOnce` is about
any number. A second worker is needed for a
redelivery that meets the run; a third meets nothing new, because all that have
lost the claim behave alike.

Tasks share workers and the dispatcher only; that they do not disturb each other
is left to the proofs, which are about any number of them.

Deadlock is not checked: a system in which all tasks have ended rests.

Fairness: each loop and goroutine goes on when it has work (weak); the batch
query orders rows by age, so that no row is passed over for ever (strong, the
batch is disturbed by others); a delivered message gets a worker (strong, the
`Scheduler` runs show under which condition); an upstream call has a timeout, and
the sweep finds a task that is left in `processing`. Nothing is assumed of the
sweep of queued tasks, so that `EveryTaskEnds` is a property of the dispatch and
not of the timeout. Nothing is assumed of deliveries by administrators or of
faults; while the queue is paused nothing is promised.

### Scheduling

These runs use module `MCScheduler`. Jobs `a1` and `a2` have key `a` and the
limits 1 and 2, `b1` has key `b`, `c1` has none; two workers, channels of two.
Any job may be delivered at any time and again; calls of key `a` may never end.

| Run | Jobs | Checks | Shows |
|---|---|---|---|
| `sched_keys` | `a1`, `a2`, `b1` | `TypeOK`, `CountExact`, `KeyLimit`, `PoolSpec`, `ScansPast` | nothing overflows, counts are exact, limits hold, the pool is implemented, and a job in the pending list passes the blocked ones while a worker is left |
| `sched_stall` | `a1`, `c1` | `OthersProceed`, violated | a full pending list stalls a job that no key limits |

Channels of two are the smallest in which a job waits behind another one; two
workers let one key hold a worker while another runs. Deadlock is checked in
these runs: deliveries never end, so that a state without a step would be three
goroutines waiting on each other. Fairness: a `select` with several ready cases
picks one at random, so that a case that is ready again and again is taken
(strong); receivers and senders of a channel are served in turn (strong); a call
ends by its timeout, except that calls of `SlowScopes` may outlast the
observation.

### The customer site

`portal` uses module `MCPortal`: a behaviour is one of seven scenes, the session
of two tabs or one of the pages in one tab; the variables of the others rest.
The pages share no state but the session, and ask the frame for it (their
requests that write it back are actions of `PortalSession`), so that nothing is
lost by looking at one at a time. It checks

* `SessionSound`, `NewsForShownUser`, `EventuallyFresh`, `DisabledLeaves`: two
  accounts, two tabs, two requests in flight, two moves of the people and one
  event (a payment, a disabled account, a lost request). Two accounts and two tabs
  are what one answer for the wrong account needs; two requests are what
  overtaking needs.
* `PaidSettles`: two orders, two status requests in flight, two clicks.
* `NothingUnreadHidden`: a popup and a banner, one of which has a reward.
* `SecretOfSelected`: two keys, two requests for a key's secret, two lists.
* `NoControlStuck`: keys, billing, playground, usage and account together (three
  keys on pages of one, three calls of different kinds in the ledger, two
  challenges).
* `PortalTypeOK`.

The bounds are on what people do (`MaxMoves`, `MaxActs`, `MaxBillingActs`,
`MaxUsageActs`), on requests in flight (`MaxCalls`, `MaxSyncs`, `MaxLists`,
`MaxRequests`), on the server's own changes (`MaxBalance`, `MaxEvents`) and on what
is issued (`MaxChallenges`).

Fairness: requests are answered, or fail; the timer of a visible frame keeps
firing; the billing page's interval keeps firing while its order is open and its
requests do not fail every time. People are assumed to do nothing.

### The console and the recharge orders

Both runs use module `MCConsole`, again one scene at a time. `console` has all the
scenes and checks safety:

* `ConsoleSessionSound`: two tabs, one administrator, four steps, and one outage,
  failure of Go or ended token; under the console's origin and under another.
* `FormsFreed`, `AnswersBelong`: the users page with two accounts (one has a
  subscription; the other is an administrator and may be created first) and two
  clicks, each a search, a page, a dialog or a row action; forms may be sent without
  limit, so that a second form is opened while the first is being saved; the API
  access page with two keys on pages of one, one running call and three clicks; the
  live operations page with every order of three running calls.
* `GroupsOfCalls`: the grouping of running calls, for all those orders and for calls
  without customer or key; the head, which the server counts, agrees with the groups.
* `SecretsKept`: four edits, loads, saves or changes of others.
* `OnlyBulkDeleteUnrouted`: every call of the client is let through by the proxy,
  except the deletion of several users at once.
* `ConsoleTypeOK`, in all of them, the recharge orders included.

`console_live` has the scenes `update` and `recharge`:

* `PageRenewed`: one new build, two calls of each kind under way at a time
  (`MaxUnanswered`; one in `console`) and one click (`MaxPanelActs`; two in
  `console`). Two calls are what it takes for an answer to be overtaken, or for a
  poll to leave before the last one was answered.
* `CreditsExact`, `PaymentsCredited`: two orders of two customers, the first of whom
  the second has invited, two requests at a time, and one transaction rolled back or
  answer lost. Both ways of two orders to meet at a balance occur: as two payments'
  locks and as payment and rebate.

`console` visits about 861,000 states in two to three minutes, most of them on the
users page (443,000) and the API access page (223,000); tabs, and API keys, can be
exchanged for one another, so that they are symmetric there. No symmetry is used in
`console_live` (81,000 states, one minute), because its properties are of liveness.

Fairness: the timer of the build check keeps firing (weak); a check is not answered
with an error every time (strong), each answer arrives and a reload that was begun
is carried out (weak); nothing is assumed of the worker, of polls or of the
administrator. A request that completes an order goes on when the rows it waits for
are free (weak), and Alipay repeats a notification that was not acknowledged (weak).
The page need not ask, and nothing is assumed of payments, expiry or administrators.

Deadlock is not checked in these two runs: a page nobody uses rests.

## 5. Proofs

`GenerationBillingProofs` proves, for every choice of the constants that
satisfies their assumptions:

* `TypeCorrect`: `Spec => []TypeOK`. Non-trivial conjuncts are those that
  subtract: the charge (`credits[u] >= cost[t]`), the quota reservation and the
  adjustments; `Used` and `LiveCost` are natural numbers by `TotalsTheorems`.
* `ReservationsInvariant` and `ReservationsCovered`: `Spec => []ReservationInv`,
  `Spec => []ReservationCovers`. `ReservationCovers` is
  not inductive: `ReconcileWrite` stores a sum read earlier. The strengthening
  `ReservationInv` adds `SumCovers` (a sum read under the row lock covers the
  live tasks until it is written, because an admission that costs money needs the
  lock and every other step only shrinks the live tasks) and `FreshQuotes` (a
  quote belongs to a task that is not inserted yet, so that an admission adds to
  the live cost exactly what it adds to the reservation). `billing_faults` checks
  `ReservationInv`.

* `BillingImplementsLifecycle`: `Spec => Lifecycle`. `FreshQuotes` is what excludes
  an admission of a task that exists; the compare-and-swap guards do the rest.
* `DeliveredAreCharged`: `Spec => []ChargedIffDelivered`, whatever the faults.
  The only step that adds to the delivered cost (`Charge`) takes the same amount
  from the balance and writes the one `deduct` row (`LiveDelivered` moves the
  cost from the live to the delivered sum).
* `AdmittedArePayable`: if no adjustment is negative, `Spec => []Solvent`. An
  admission needs `credits - reserved >= cost`, and `ReservationCovers` turns
  that into a statement about the live tasks.
* `ReservationsExact`: if no database call of the follow-up work fails ("dbfail" is
  not among the faults), `Spec => []ReservationExact`, crashes and lost answers
  included. The hypothesis is the code's: the error of a reconciliation is logged
  and nobody tries again. `ExactInv` says that a row lock belongs to a
  reconciliation of that account (`LockHeld`), that a worker follows up on a task
  once and after its outcome (`WorkOnce`), and what the reservation will be:
  `UpcomingExact`, the live cost unless somebody else is still to rebuild it, where
  the sum that the holder of the lock has read counts as written.
* `QuotaIsReturned`: without crash and failed calls, `Spec => []QuotaReturned`. Both
  hypotheses are needed: the release is a later transaction than the failure, and
  nothing repeats it (section 6).
* `QuotaUnlessRenewed`: no behaviour in which no running subscription is renewed
  creates quota (`QuotaWithinGrants`), whatever else is granted, adjusted, reset,
  canceled, used, returned or lost; `QuotaNotCreated`: nor does one in which an
  account gets at most one period (`MaxPeriods <= 1`), by `PeriodOfPaid`: an
  account with a subscription has had a period of it. Run `refund_twice` shows that
  the hypothesis cannot go.

`TaskStreamProofs` proves from one inductive invariant, `StreamInv`:

* `AdmittedAreNotLost` (`NotLost`), `TaskRunOnce` (`OneRun`) and
  `DispatchImplementsLifecycle` (`Lifecycle`), for any tasks, workers,
  publications and any set and number of faults. `NotLost` is about queued
  tasks; it becomes inductive when said of the things that could break it: an
  unfinished task has its row (`RowKept`), a message that left the group belongs
  to a finished task (`AckedEnded`), a worker that deletes has seen its task
  finished, and finished is final (`FinishersEnded`), and a row points to a
  message of its own task (`RowsOwnMessages`). `OneRun` needs `ClaimsCounted` (only
  a started task was claimed or tried) and `RunsCounted` (a run works on a started
  task, alone, and its attempts are all there were): a claim finds a queued task,
  hence no run and no attempt before it.

`WorkerPoolProofs` proves `KeyLimit` of the abstract pool with the lemmas on
totals. `SchedulerProofs` proves of the scheduler, for any jobs, keys, limits,
workers and capacity:

* `TypeCorrect`: no channel and no list exceeds its capacity;
* `CountsAreExact`: `CountExact` is inductive with the types. Its proof counts
  positions of the channels (`QueuedAppend`, `QueuedTail`: a message counts from
  its send to its receipt) and workers (`BusyTake`, `BusyRelease`);
* `KeysWithinLimits`: a job is handed out below its limit (`HandedOutBelowLimit`,
  from the exact count), and groups with smaller limits are subsets of it;
* `SchedulerImplementsPool`: `HandOut` is `Grant`, `Release` is `Return`,
  everything else stutters. `CopiesAddUp` shows that the copies of single jobs
  add up to what their key holds, by a bijection instead of an induction.

`RechargeProofs` proves `RechargesExact` (`CreditsExact`), for any customers,
trades, inviters and number of requests. The sum alone is not inductive: a commit
writes what was read two steps earlier. `RechargeInv` adds that the order a
request has locked is unpaid (`UnpaidLocked`), that what it has read of a balance
is still that balance (`ReadCurrent`), that no two requests hold the same row
(`Exclusive`), and that requests are about trades that Alipay has taken money for
(`OfTrade`). A commit then moves one order from unpaid to paid and adds to each
side of the equation the same amount, by the lemmas on totals.

`PortalProofs` proves every safety property of the customer site, over the whole of
it (`SiteSpec`) or over the part it is about, for any accounts, tabs, keys, orders,
announcements, ledger, passwords and requests in flight. `StepOfEachPart` takes a
step of the site apart, and `PortalInv` joins the invariants of the parts:

* session: `SessionsAreSound` (`SessionSound`) and `NewsOfShownUser`
  (`NewsForShownUser`). Every session, stored, shown and captured by a request, is
  one whose token is that of its id (`SoundSession`, `SoundCall`); an awaited answer
  that still counts is about the account its tab shows (`Good`), and a tab outside
  the shell shows nobody. That is what the clean-up of an effect keeps true, and
  what the code relies on when an answer comes.
* playground: `SecretIsOfSelected` (`SecretOfSelected`). No number exceeds the last
  one, the request with the last number is for the selected key, and the secret
  shown is none or that key's (`LastIsSelected`).
* announcements: `NothingUnreadIsHidden` (`NothingUnreadHidden`). What is taken off
  the list is what the server has recorded: the reply that a handler holds belongs to
  the announcement it is about (`NoticesInv`).
* all pages: `ControlsAreFreed` (`NoControlStuck`) and `PortalTyped`
  (`PortalTypeOK`). A flag that disables a button is tied to the request that clears
  it. What else they need: of the keys that at most one secret is asked for and that
  `revealing` names it (`RowsInv`); of the billing page that every order it shows,
  asks about or was answered exists (`PayInv`, `ReopenInv`, `PollInv`); of the usage
  page that the last request is the only one left or has been answered (`ListInv`),
  and that the cards of the summary add up, by cardinalities of places
  (`CardsAdd`); of the registration that at most one wait runs, that a challenge the
  page holds is not spent, and that it is sent only after its wait
  (`ChallengeInv`, `JoinInv`), so that the server refuses none as early or used.

`ConsoleProofs` does the same for the console, over `SiteSpec` of `MCConsole`, with
the recharge orders in it: `ConsoleInv` joins `SignInInv`, `UsersInv`,
`SettingsInv`, `UpdateInv`, `AccessInv`, `RankingInv` and `RechargeInv`.

* `SignInSound`: an acceptance that is on its way to a console that still listens was
  given for a token that Go has accepted for this very tab since the page was mounted
  (`Heard`), so that the identity it brings is one of `vouched`; and a tab that
  shows nobody has a request under way that still counts.
* `OneCallRefused`: by the two lists of routes.
* `FormsAreFreed`: the flag is up exactly while there is one mutation among the works
  that needs it (`SavingLatch`), and a dialog that would start another is closed or
  disabled then (`FormsInv`).
  An action on a row keeps its flag only while it is at the server or waits for its
  list (`FlagsInv`).
* `AnswersAreOfTheLast`: every request that counts is the one last asked for
  (`loads[l]` holds no other than `asked[l]`; a load of credit logs is for the account
  of the open dialog; the request with the last number is for the chosen range).
* `SecretsAreKept`: a form under way with Bark enabled has a key, its own or the
  stored one, and so has the server's answer that is on its way (`SettingsInv`).
* `CallsAreGrouped` (`GroupsOfCalls`), for running calls of any number in any order.
  The loop is a recursive function. `NatInd`, induction stated with a set, follows
  from the well-foundedness of `<`; with it `LoopRuns` shows that the function exists,
  `LoopStep` unfolds it, and `AllGrouped` that after n calls the groups count, cover
  and bound the first n (`Sums`). One more call is `CountedSums`.
* `ConsoleTyped` and `ConsoleCreditsExact`.

The assumptions on constants are finiteness, natural numbers, positive limits
and capacities, that the markers for "none" are not real values, that
the keys an account has are distinct, that no order is one of the words that name
the steps of a request, that the server's lists (ledger, running calls) are
sequences of records of the declared types, and that nobody invites himself.

Model-checked only: liveness (`EveryTaskEnds`, `ReservationsFreed`,
`EverythingRemoved`, `ScansPast`, `EventuallyFresh`, `DisabledLeaves`,
`PaidSettles`, `PageRenewed`, `PaymentsCredited`), which needs ENABLED. The three
properties that runs refute have no theorem but `QuotaUnlessRenewed` and
`QuotaNotCreated` on the part of the first that holds.

## 6. What the runs found

* A refund can be paid twice (`refund_twice`): `grantSubscriptionPlanInTx`
  carries over the plan quota minus `generationUsage`, in which a task that has
  just failed no longer counts; the pending refund then adds its units again.
* A cancellation can miss the run (`stream_cancel`): the second delivery of a
  running task replaces the task's cancel function and then deletes it.
* A busy key can stall others (`sched_stall`): the pending list is bounded, and
  admission does not bound the queued tasks of a key. `ScansPast` is the part
  of the promise that holds.

Met while modelling, in the server:

* A refund can be lost: the release is a later transaction than the failure,
  nobody repeats it after a crash, and the start-up repair covers the balance only.
  `billing_core` has no crash; with `Tasks <- Two`, `Mode <- SubMode`,
  `PlanQuota = 1`, `MaxPeriods = 1`, `FaultKinds = {"crash"}` and `MaxFaults = 1`
  TLC refutes `QuotaReturned`.
* An order that was closed and is paid late is credited: `CompleteOrder` accepts
  it. Of the statuses the code writes none leads to `ErrRechargeOrderClosed`.
* A process that stops between XACK and XDEL leaves a stream entry that is never
  delivered again, and a row that is re-checked every two minutes for ever.
* A job that was admitted with a low limit can be overtaken for ever by jobs of
  the same key that were admitted with a higher one.
* When the reconciliation after a settlement fails, the error is only logged
  (billing.go:160) and the reservation of the success stays until some later
  event of the account, or the next start, reconciles it; the comment above it
  (155-158) promises the release. `ReservationExact` therefore needs that no
  statement fails, as in `billing_core`.

Met while modelling, in the customer site:

* API keys: the text promises that a created key is in the list, but on page 1
  `setKeyPage(1)` loads nothing; a deleted key's row stays until the next load; the
  answer to a deletion closes whatever question is open by then; an older load
  overwrites rows and page of a newer one.
* Billing: a late status answer replaces a newer order on the screen
  (`PaidSettles` is about the order that stays).
* Playground: a list without active keys does not advance `keyRequestRef`, so that
  an older request may still bring a secret (`SecretOfSelected` is therefore said
  of a page that lists keys).
* Frame: a popup whose reward can never be claimed cannot be dismissed; a check
  that fails after its effect was cleaned up still clears the session; a refresh
  that is answered after logging out stores the session again.
* Usage: loads are not numbered; after a failed load, searching with unchanged
  filters clears the error and loads nothing; a cancelled call reads "queued" and is
  counted as failed; the date checks of `applyFilters` cannot fail.
* Account: when the registration challenge cannot be read the button turns until
  the page is reloaded; a reset accepts six characters where the settings ask for
  eight; a password's change empties what was typed since.

And in the console:

* `deleteUsers` (`lib/admin-api.ts:627`) is no route of the proxy
  (`route.ts:13`), so that bulk deletion never works: `OnlyBulkDeleteUnrouted`.
* Users: the reload after a change uses the filters it was started under and aborts
  a newer load; rankings are not numbered; a selection may hold hidden rows; a
  visibility setting that was never stored cannot be stored unchanged.

## 7. Not modelled

* Completion waiters, inline results and the access log: what they would say of
  the task's end and of its charge rests on `TaskStream` and `GenerationBilling`;
  the broadcast between processes is left out there too.
* Invitations (binding, review, rewards) but for the rebate of a paid order. The
  deletion of an account with an unfinished order is not modelled either: its
  notification would fail for ever.
* The upstream and its HTTP protocol (a call succeeds or fails), the adapter's
  batches, authentication by API key, e-mail tokens and mail, the update's shell
  worker, Redis's and the database's own replication.
* Clean-up workers, caches, content, settings, providers, models, prices: rows that
  are written one at a time and decide nothing of the above.
* Layout, wording, formats and statistics; the pages listed as "other".
