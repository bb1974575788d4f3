----------------------------- MODULE TaskStream -----------------------------
(***************************************************************************)
(* How an admitted task reaches a worker, and how its message goes away.   *)
(* The admission commits an outbox row with the task.  The dispatcher      *)
(* publishes rows to a Redis stream and records that it did: two writes in *)
(* two systems.  The reader takes fresh messages of the consumer group;    *)
(* the recovery loop takes messages that were delivered but not yet        *)
(* acknowledged, those of running jobs included, so that a second worker   *)
(* often meets a task that is being worked on.  The claim in the database  *)
(* decides who runs it.  Whoever finds the task finished acknowledges and  *)
(* deletes the message and deletes the row.                                *)
(*                                                                         *)
(* One server process works on the streams.  The shards do not interact    *)
(* and are one stream here; rows of a dispatcher batch do not interact and *)
(* are handled one by one; ages (2 minutes, 30 seconds, the timeout of a   *)
(* task) are not modelled, so that what waits for an age may happen at any *)
(* time.  The per-key limits are left to the Scheduler module: here any    *)
(* idle worker takes any delivered message.  The run of a claimed task is the  *)
(* loop of ProcessWithOptions: attempts to generate, each settled or failed;  *)
(* the batches and HTTP retries of one attempt are the adapter's and are one  *)
(* call here.                                                                 *)
(***************************************************************************)
EXTENDS Naturals

CONSTANTS
    Tasks,           \* task ids
    Workers,         \* worker goroutines of the process
    upstreamDuplicateGuardAttempts, \* attempts of a run, 3 in the code
    MaxPublications, \* bound: messages published per task
    FaultKinds,      \* which faults happen, see Faults
    MaxFaults        \* bound: number of faults

\* "crash": the process stops and starts again; "redisloss": Redis restarts
\* and has lost messages; "redisfail": a Redis command has no effect, or it
\* has and its answer is lost; "dbfail": a statement of the database fails.
Faults == {"crash", "redisloss", "redisfail", "dbfail"}

ASSUME BoundsAssumption == MaxPublications \in Nat /\ MaxFaults \in Nat
ASSUME AttemptsAssumption == upstreamDuplicateGuardAttempts \in Nat \ {0}
ASSUME FaultsAssumption == FaultKinds \subseteq Faults

Messages == Tasks \X (1..MaxPublications)
TaskOf(m) == m[1]
NoTask == <<"no task">>
NoMessage == <<"no message">>
NoWorker == <<"no worker">>
ASSUME NoValuesAssumption ==
    /\ NoTask \notin Tasks
    /\ NoMessage \notin Messages
    /\ NoWorker \notin Workers

Live     == {"queued", "processing"}
Terminal == {"success", "failed", "canceled"}
Rows     == {"none", "pending", "sent"}

\* A worker runs a task from its claim to its last UPDATE: an attempt is due,
\* the upstream works on it, its images are to be settled, or the task is to be
\* marked as failed.
RunStages == {"attempt", "call", "settle", "fail"}
Stages    == {"idle", "start", "claim", "ack", "delete", "row"} \cup RunStages


VARIABLES
    \* database
    status,     \* generation_tasks.status
    outbox,     \* generation_outbox.status, "none" without a row
    sentAs,     \* generation_outbox.stream_message_id
    \* Redis
    entries,    \* messages in the stream
    fresh,      \* messages the consumer group has not delivered yet
    pel,        \* messages delivered and not acknowledged (pending entries)
    group,      \* the consumer group exists
    published,  \* number of messages ever published for the task
    \* the process
    row,        \* dispatcher: the task whose row it handles
    rowStep,    \* dispatcher: what it does next with that row
    rowMessage, \* dispatcher: message id of the row, or of its publication
    inbox,      \* messages on their way to the workers
    stage, job, \* each worker's next step and message
    active,     \* cancel functions: the worker that registered the task last
    cancelled,  \* the context of the worker's job is cancelled
    attempt,    \* the worker's number of the attempt in its run
    toStop,     \* ended tasks whose worker is still to be cancelled
    paused,     \* upstream maintenance
    claims,     \* history: how often the task was claimed
    calls,      \* history: attempts to generate that were begun for the task
    faults      \* faults so far

dbVars     == <<status, outbox, sentAs>>
redisVars  == <<entries, fresh, pel, group, published>>
rowVars    == <<row, rowStep, rowMessage>>
workerVars == <<stage, job, active, cancelled, attempt>>
history    == <<claims, calls>>
vars == <<dbVars, redisVars, rowVars, inbox, workerVars, toStop, paused, history, faults>>

-----------------------------------------------------------------------------
\* ClaimForProcessing: UPDATE ... WHERE status IN ('queued', 'pending').
ClaimableLive(t) == status[t] \in Live  \* mutant: takes over a running task
Claimable(t) == status[t] = "queued"

\* isTerminalTask.
FinishedAlways(t) == TRUE  \* mutant: acknowledges whatever it was delivered
Finished(t) == status[t] \in Terminal

\* The rows a batch selects: pending ones and sent ones that are old enough.
SelectablePending(t) == outbox[t] = "pending"  \* mutant: sent is for ever
Selectable(t) == outbox[t] \in {"pending", "sent"}

\* What a worker's final UPDATE leaves in the row: it is guarded by the status.
OutcomeForced(t, s) == s  \* mutant: UPDATE without the status
Outcome(t, s) == IF status[t] = "processing" THEN s ELSE status[t]

\* A job that lost the claim still looks at the task to finish its message.
AfterLostClaimIdle == "idle"  \* mutant: only the claimant finishes
AfterLostClaim == "ack"

\* The context a cancellation reaches: the one registered for the task.
Stopped(t) == [w \in Workers |-> cancelled[w] \/ w = active[t]]

Fault(kind) ==
    /\ kind \in FaultKinds
    /\ faults < MaxFaults
    /\ faults' = faults + 1

Init ==
    /\ status = [t \in Tasks |-> "absent"]
    /\ outbox = [t \in Tasks |-> "none"]
    /\ sentAs = [t \in Tasks |-> NoMessage]
    /\ entries = {} /\ fresh = {} /\ pel = {}
    /\ group \in BOOLEAN
    /\ published = [t \in Tasks |-> 0]
    /\ row = NoTask /\ rowStep = "select" /\ rowMessage = NoMessage
    /\ inbox = {}
    /\ stage = [w \in Workers |-> "idle"]
    /\ job = [w \in Workers |-> NoMessage]
    /\ active = [t \in Tasks |-> NoWorker]
    /\ cancelled = [w \in Workers |-> FALSE]
    /\ toStop = {}
    /\ paused \in BOOLEAN
    /\ attempt = [w \in Workers |-> 0]
    /\ claims = [t \in Tasks |-> 0]
    /\ calls = [t \in Tasks |-> 0]
    /\ faults = 0

-----------------------------------------------------------------------------
(* Admission: the task and its outbox row in one commit. *)
Admit(t) ==
    /\ status[t] = "absent"
    /\ status' = [status EXCEPT ![t] = "queued"]
    /\ outbox' = [outbox EXCEPT ![t] = "pending"]
    /\ UNCHANGED <<sentAs, redisVars, rowVars, inbox, workerVars, toStop, paused, history, faults>>

-----------------------------------------------------------------------------
(* Dispatcher *)

\* The row is read; what follows works on this copy.
SelectRow(t) ==
    /\ rowStep = "select"
    /\ Selectable(t)
    /\ row' = t
    /\ rowMessage' = sentAs[t]
    /\ rowStep' = IF outbox[t] = "sent" THEN "check" ELSE "publish"
    /\ UNCHANGED <<dbVars, redisVars, inbox, workerVars, toStop, paused, history, faults>>

NextRow ==
    /\ row' = NoTask
    /\ rowStep' = "select"
    /\ rowMessage' = NoMessage

\* XRANGE of a sent row's message: there (only updated_at changes), or gone.
CheckRow ==
    /\ rowStep = "check"
    /\ IF rowMessage \in entries
       THEN NextRow
       ELSE rowStep' = "publish" /\ UNCHANGED <<row, rowMessage>>
    /\ UNCHANGED <<dbVars, redisVars, inbox, workerVars, toStop, paused, history, faults>>

\* An error of XRANGE counts as a missing message.
CheckRowFails ==
    /\ rowStep = "check"
    /\ Fault("redisfail")
    /\ rowStep' = "publish"
    /\ UNCHANGED <<dbVars, redisVars, row, rowMessage, inbox, workerVars, toStop, paused, history>>

\* XADD of a message with a new id.
Added == <<row, published[row] + 1>>
AddMessage ==
    /\ rowStep = "publish"
    /\ published[row] < MaxPublications
    /\ entries' = entries \cup {Added}
    /\ fresh' = fresh \cup {Added}
    /\ published' = [published EXCEPT ![row] = @ + 1]
    /\ UNCHANGED <<pel, group>>

PublishRow ==
    /\ AddMessage
    /\ rowStep' = "mark"
    /\ rowMessage' = Added
    /\ UNCHANGED <<dbVars, row, inbox, workerVars, toStop, paused, history, faults>>

\* XADD fails, or only its answer is lost: markOutboxPublishFailed keeps the
\* row's status.
PublishRowFails ==
    /\ rowStep = "publish"
    /\ Fault("redisfail")
    /\ NextRow
    /\ AddMessage \/ UNCHANGED redisVars
    /\ UNCHANGED <<dbVars, inbox, workerVars, toStop, paused, history>>

\* markOutboxPublished updates the row, if it is still there.
MarkRow ==
    /\ rowStep = "mark"
    /\ IF outbox[row] = "none"
       THEN UNCHANGED <<outbox, sentAs>>
       ELSE /\ outbox' = [outbox EXCEPT ![row] = "sent"]
            /\ sentAs' = [sentAs EXCEPT ![row] = rowMessage]
    /\ NextRow
    /\ UNCHANGED <<status, redisVars, inbox, workerVars, toStop, paused, history, faults>>

MarkRowFails ==
    /\ rowStep = "mark"
    /\ Fault("dbfail")
    /\ NextRow
    /\ UNCHANGED <<dbVars, redisVars, inbox, workerVars, toStop, paused, history>>

-----------------------------------------------------------------------------
(* Reader and recovery loop *)

\* XREADGROUP ">" delivers a fresh message.
Read(m) ==
    /\ group /\ m \in fresh
    /\ fresh' = fresh \ {m}
    /\ pel' = pel \cup {m}
    /\ inbox' = inbox \cup {m}
    /\ UNCHANGED <<dbVars, entries, group, published, rowVars, workerVars, toStop, paused, history, faults>>

\* The answer of XREADGROUP is lost: delivered, and nobody has it.
ReadLost(m) ==
    /\ group /\ m \in fresh
    /\ Fault("redisfail")
    /\ fresh' = fresh \ {m}
    /\ pel' = pel \cup {m}
    /\ UNCHANGED <<dbVars, entries, group, published, rowVars, inbox, workerVars, toStop, paused, history>>

\* NOGROUP: the group is created again, from the first message on.
EnsureGroup ==
    /\ ~group
    /\ group' = TRUE
    /\ fresh' = entries
    /\ UNCHANGED <<dbVars, entries, pel, published, rowVars, inbox, workerVars, toStop, paused, history, faults>>

\* XAUTOCLAIM delivers a pending message again; one whose entry is deleted is
\* dropped from the pending entries.
Autoclaim(m) ==
    /\ group /\ m \in pel /\ m \notin inbox
    /\ IF m \in entries
       THEN inbox' = inbox \cup {m} /\ UNCHANGED pel
       ELSE pel' = pel \ {m} /\ UNCHANGED inbox
    /\ UNCHANGED <<dbVars, entries, fresh, group, published, rowVars, workerVars, toStop, paused, history, faults>>

-----------------------------------------------------------------------------
(* Workers *)

Take(w, m) ==
    /\ stage[w] = "idle" /\ m \in inbox
    /\ inbox' = inbox \ {m}
    /\ stage' = [stage EXCEPT ![w] = "start"]
    /\ job' = [job EXCEPT ![w] = m]
    /\ UNCHANGED <<dbVars, redisVars, rowVars, active, cancelled, attempt, toStop, paused, history, faults>>

\* Not paused: a new context is registered under the task, over any other.
Begin(w) ==
    /\ stage[w] = "start" /\ ~paused
    /\ stage' = [stage EXCEPT ![w] = "claim"]
    /\ active' = [active EXCEPT ![TaskOf(job[w])] = w]
    /\ cancelled' = [cancelled EXCEPT ![w] = FALSE]
    /\ UNCHANGED <<dbVars, redisVars, rowVars, inbox, job, attempt, toStop, paused, history, faults>>

Claim(w) ==
    /\ stage[w] = "claim"
    /\ Claimable(TaskOf(job[w]))
    /\ status' = [status EXCEPT ![TaskOf(job[w])] = "processing"]
    /\ claims' = [claims EXCEPT ![TaskOf(job[w])] = @ + 1]
    /\ stage' = [stage EXCEPT ![w] = "attempt"]
    /\ attempt' = [attempt EXCEPT ![w] = 0]
    /\ UNCHANGED <<outbox, sentAs, redisVars, rowVars, inbox, job, active, cancelled, toStop, paused, calls, faults>>

\* process returns and its context goes: the entry of the task is deleted,
\* whoever registered it.
Unregister(w) ==
    /\ active' = [active EXCEPT ![TaskOf(job[w])] = NoWorker]
    /\ attempt' = [attempt EXCEPT ![w] = 0]
    /\ cancelled' = [cancelled EXCEPT ![w] = FALSE]
    /\ UNCHANGED job

LoseClaim(w) ==
    /\ stage[w] = "claim"
    /\ ~Claimable(TaskOf(job[w]))
    /\ stage' = [stage EXCEPT ![w] = AfterLostClaim]
    /\ Unregister(w)
    /\ UNCHANGED <<dbVars, redisVars, rowVars, inbox, toStop, paused, history, faults>>

ClaimFails(w) ==
    /\ stage[w] = "claim"
    /\ Fault("dbfail")
    /\ stage' = [stage EXCEPT ![w] = "ack"]
    /\ Unregister(w)
    /\ UNCHANGED <<dbVars, redisVars, rowVars, inbox, toStop, paused, history>>

\* The run moves on; the row of the task stays as it is.
RunMovesOn(w, from, to) ==
    /\ stage[w] = from
    /\ stage' = [stage EXCEPT ![w] = to]
    /\ UNCHANGED <<dbVars, redisVars, rowVars, inbox, job, active, cancelled, toStop, paused, claims, faults>>

\* callImageGenerationWithGuards begins.
Attempt(w) ==
    /\ RunMovesOn(w, "attempt", "call")
    /\ attempt' = [attempt EXCEPT ![w] = @ + 1]
    /\ calls' = [calls EXCEPT ![TaskOf(job[w])] = @ + 1]

\* No attempt: the model or its provider is missing or disabled, or the context
\* was cancelled during the pause before another attempt.
NoAttempt(w) ==
    /\ attempt[w] = 0 \/ cancelled[w]
    /\ RunMovesOn(w, "attempt", "fail")
    /\ UNCHANGED <<attempt, calls>>

\* Enough images arrive; a cancelled context ends the request.
CallAnswers(w) ==
    /\ ~cancelled[w]
    /\ RunMovesOn(w, "call", "settle")
    /\ UNCHANGED <<attempt, calls>>

\* The upstream fails, answers too few images or is given up, or the
\* settlement fails and has rolled back.
RunFails(w) ==
    /\ \E from \in {"call", "settle"} : RunMovesOn(w, from, "fail")
    /\ UNCHANGED <<attempt, calls>>

\* ErrDuplicateResultImage: an image belongs to another task.
DuplicateImage(w) ==
    /\ RunMovesOn(w, "settle", IF attempt[w] < upstreamDuplicateGuardAttempts THEN "attempt" ELSE "fail")
    /\ status[TaskOf(job[w])] = "processing" /\ ~cancelled[w]
    /\ UNCHANGED <<attempt, calls>>

\* The last UPDATE of the run, after which process returns.
RunEnds(w, s) ==
    /\ status' = [status EXCEPT ![TaskOf(job[w])] = Outcome(TaskOf(job[w]), s)]
    /\ stage' = [stage EXCEPT ![w] = "ack"]
    /\ Unregister(w)
    /\ UNCHANGED <<outbox, sentAs, redisVars, rowVars, inbox, toStop, paused, history, faults>>

\* finishSuccessWithBilling commits, or finds the task ended (ErrTaskNotProcessing).
Settle(w) == stage[w] = "settle" /\ ~cancelled[w] /\ RunEnds(w, "success")

\* FinishFailedWithDetails.
FinishFailed(w) == stage[w] = "fail" /\ RunEnds(w, "failed")

\* The settlement is committed and its answer lost.
SettleUnanswered(w) ==
    /\ stage[w] = "settle" /\ ~cancelled[w]
    /\ Fault("dbfail")
    /\ status' = [status EXCEPT ![TaskOf(job[w])] = Outcome(TaskOf(job[w]), "success")]
    /\ stage' = [stage EXCEPT ![w] = "fail"]
    /\ UNCHANGED <<outbox, sentAs, redisVars, rowVars, inbox, job, active, cancelled, attempt, toStop, paused, history>>

\* FinishFailedWithDetails fails: the task stays as it is.
FinishFailedUnsaved(w) ==
    /\ stage[w] = "fail"
    /\ Fault("dbfail")
    /\ stage' = [stage EXCEPT ![w] = "ack"]
    /\ Unregister(w)
    /\ UNCHANGED <<dbVars, redisVars, rowVars, inbox, toStop, paused, history>>

Rest(w) ==
    /\ stage' = [stage EXCEPT ![w] = "idle"]
    /\ job' = [job EXCEPT ![w] = NoMessage]
    /\ UNCHANGED <<active, cancelled, attempt>>

\* finishStreamJob: XACK, XDEL and DELETE, once the task is found finished.
Acknowledge(w) ==
    /\ stage[w] = "ack"
    /\ Finished(TaskOf(job[w]))
    /\ stage' = [stage EXCEPT ![w] = "delete"]
    /\ pel' = pel \ {job[w]}
    /\ UNCHANGED <<dbVars, entries, fresh, group, published, rowVars, inbox, job, active, cancelled, attempt, toStop, paused, history, faults>>

\* Not finished yet: the message stays pending and will be delivered again.
LeavePending(w) ==
    /\ stage[w] = "ack"
    /\ ~Finished(TaskOf(job[w]))
    /\ Rest(w)
    /\ UNCHANGED <<dbVars, redisVars, rowVars, inbox, toStop, paused, history, faults>>

LookUpFails(w) ==
    /\ stage[w] = "ack"
    /\ Fault("dbfail")
    /\ Rest(w)
    /\ UNCHANGED <<dbVars, redisVars, rowVars, inbox, toStop, paused, history>>

AcknowledgeFails(w) ==
    /\ stage[w] = "ack"
    /\ Finished(TaskOf(job[w]))
    /\ Fault("redisfail")
    /\ stage' = [stage EXCEPT ![w] = "delete"]
    /\ UNCHANGED <<dbVars, redisVars, rowVars, inbox, job, active, cancelled, attempt, toStop, paused, history>>

Delete(w) ==
    /\ stage[w] = "delete"
    /\ stage' = [stage EXCEPT ![w] = "row"]
    /\ entries' = entries \ {job[w]}
    /\ fresh' = fresh \ {job[w]}
    /\ UNCHANGED <<dbVars, pel, group, published, rowVars, inbox, job, active, cancelled, attempt, toStop, paused, history, faults>>

DeleteFails(w) ==
    /\ stage[w] = "delete"
    /\ Fault("redisfail")
    /\ stage' = [stage EXCEPT ![w] = "row"]
    /\ UNCHANGED <<dbVars, redisVars, rowVars, inbox, job, active, cancelled, attempt, toStop, paused, history>>

RemoveRow(w) ==
    /\ stage[w] = "row"
    /\ outbox' = [outbox EXCEPT ![TaskOf(job[w])] = "none"]
    /\ sentAs' = [sentAs EXCEPT ![TaskOf(job[w])] = NoMessage]
    /\ Rest(w)
    /\ UNCHANGED <<status, redisVars, rowVars, inbox, toStop, paused, history, faults>>

RemoveRowFails(w) ==
    /\ stage[w] = "row"
    /\ Fault("dbfail")
    /\ Rest(w)
    /\ UNCHANGED <<dbVars, redisVars, rowVars, inbox, toStop, paused, history>>

-----------------------------------------------------------------------------
(* Sweep, administrator, faults *)

\* The timeout sweep; during maintenance it spares the tasks that wait.
Sweep(t) ==
    /\ status[t] \in IF paused THEN {"processing"} ELSE Live
    /\ status' = [status EXCEPT ![t] = "failed"]
    /\ toStop' = toStop \cup {t}
    /\ UNCHANGED <<outbox, sentAs, redisVars, rowVars, inbox, workerVars, paused, history, faults>>

CancelTask(t) ==
    /\ status[t] \in Live
    /\ status' = [status EXCEPT ![t] = "canceled"]
    /\ toStop' = toStop \cup {t}
    /\ UNCHANGED <<outbox, sentAs, redisVars, rowVars, inbox, workerVars, paused, history, faults>>

\* Queue.Cancel, after the row of the task has been updated.
StopWorker(t) ==
    /\ t \in toStop
    /\ toStop' = toStop \ {t}
    /\ cancelled' = Stopped(t)
    /\ UNCHANGED <<dbVars, redisVars, rowVars, inbox, stage, job, active, attempt, paused, history, faults>>

SetPaused ==
    /\ paused' = ~paused
    /\ UNCHANGED <<dbVars, redisVars, rowVars, inbox, workerVars, toStop, history, faults>>

\* Everything in memory is lost; the maintenance switch is a stored setting.
CrashAndRestart ==
    /\ Fault("crash")
    /\ NextRow
    /\ inbox' = {}
    /\ stage' = [w \in Workers |-> "idle"]
    /\ job' = [w \in Workers |-> NoMessage]
    /\ active' = [t \in Tasks |-> NoWorker]
    /\ cancelled' = [w \in Workers |-> FALSE]
    /\ attempt' = [w \in Workers |-> 0]
    /\ toStop' = {}
    /\ UNCHANGED <<dbVars, redisVars, paused, history>>

\* Redis restarts without its latest writes, or with an empty data directory.
RedisLosesMessages ==
    /\ Fault("redisloss")
    /\ \E lost \in SUBSET entries :
         /\ entries' = entries \ lost
         /\ fresh' = fresh \ lost
         /\ pel' = pel \ lost
         /\ group' \in IF lost = entries THEN {group, FALSE} ELSE {group}
    /\ UNCHANGED <<dbVars, published, rowVars, inbox, workerVars, toStop, paused, history>>

-----------------------------------------------------------------------------
Dispatch ==
    \/ \E t \in Tasks : SelectRow(t)
    \/ CheckRow \/ PublishRow \/ MarkRow
    \/ CheckRowFails \/ PublishRowFails \/ MarkRowFails

Consume ==
    \/ \E m \in Messages : Read(m) \/ ReadLost(m) \/ Autoclaim(m)
    \/ EnsureGroup

Finish(w) ==
    \/ Acknowledge(w) \/ Delete(w) \/ RemoveRow(w) \/ LeavePending(w)
    \/ AcknowledgeFails(w) \/ DeleteFails(w) \/ RemoveRowFails(w) \/ LookUpFails(w)

Run(w) ==
    \/ Attempt(w) \/ NoAttempt(w)
    \/ CallAnswers(w) \/ RunFails(w) \/ DuplicateImage(w)
    \/ Settle(w) \/ FinishFailed(w)

Work(w) ==
    \/ \E m \in Messages : Take(w, m)
    \/ Begin(w) \/ Claim(w) \/ LoseClaim(w) \/ ClaimFails(w)
    \/ Run(w) \/ SettleUnanswered(w) \/ FinishFailedUnsaved(w)
    \/ Finish(w)

EndedElsewhere == \E t \in Tasks : Sweep(t) \/ CancelTask(t) \/ StopWorker(t)

Next ==
    \/ \E t \in Tasks : Admit(t)
    \/ Dispatch
    \/ Consume
    \/ \E w \in Workers : Work(w)
    \/ EndedElsewhere
    \/ SetPaused
    \/ CrashAndRestart
    \/ RedisLosesMessages

Spec == Init /\ [][Next]_vars

\* The loops and goroutines go on when they have work.  A batch holds every
\* row that is due, so no row is passed over for ever; a delivered message
\* gets a worker in the end; an upstream call has a timeout; the sweep finds
\* what is left in processing.  Nothing is assumed of a queued task's timeout.
Fairness ==
    /\ \A t \in Tasks : SF_vars(SelectRow(t))
    /\ WF_vars(CheckRow) /\ WF_vars(PublishRow) /\ WF_vars(MarkRow)
    /\ WF_vars(EnsureGroup)
    /\ \A m \in Messages :
         /\ WF_vars(Read(m)) /\ WF_vars(Autoclaim(m))
         /\ SF_vars(\E w \in Workers : Take(w, m))
    /\ \A w \in Workers :
         WF_vars(Begin(w) \/ Claim(w) \/ LoseClaim(w) \/ Run(w)
                   \/ Acknowledge(w) \/ Delete(w) \/ RemoveRow(w) \/ LeavePending(w))
    /\ \A t \in Tasks : WF_vars(status[t] = "processing" /\ Sweep(t))

FairSpec == Spec /\ Fairness

-----------------------------------------------------------------------------
(* Properties *)

\* Type invariant.
TypeOK ==
    /\ status \in [Tasks -> {"absent"} \cup Live \cup Terminal]
    /\ outbox \in [Tasks -> Rows]
    /\ sentAs \in [Tasks -> Messages \cup {NoMessage}]
    /\ entries \subseteq Messages
    /\ fresh \subseteq Messages
    /\ pel \subseteq Messages
    /\ group \in BOOLEAN
    /\ published \in [Tasks -> 0..MaxPublications]
    /\ row \in Tasks \cup {NoTask}
    /\ rowStep \in {"select", "check", "publish", "mark"}
    /\ rowStep # "select" => row \in Tasks
    /\ rowMessage \in Messages \cup {NoMessage}
    /\ inbox \subseteq Messages
    /\ stage \in [Workers -> Stages]
    /\ job \in [Workers -> Messages \cup {NoMessage}]
    /\ \A w \in Workers : stage[w] # "idle" => job[w] \in Messages
    /\ active \in [Tasks -> Workers \cup {NoWorker}]
    /\ cancelled \in [Workers -> BOOLEAN]
    /\ toStop \subseteq Tasks
    /\ paused \in BOOLEAN
    /\ attempt \in [Workers -> 0..upstreamDuplicateGuardAttempts]
    /\ claims \in [Tasks -> Nat]
    /\ calls \in [Tasks -> Nat]
    /\ faults \in Nat

\* No admitted task is lost: while it is queued its outbox row exists, and when
\* the row counts as sent its message still waits in the group (undelivered or
\* unacknowledged), or is gone from the stream, so that the re-check of the
\* dispatcher publishes it again.  Holds across crashes, lost commands and a
\* Redis that forgets messages.  Code: dispatchOutboxBatch, finishStreamJob.
NotLost ==
    \A t \in Tasks : status[t] = "queued" =>
        /\ outbox[t] # "none"
        /\ outbox[t] = "sent" /\ sentAs[t] \in entries => sentAs[t] \in fresh \cup pel

\* However often a message is delivered, and whatever crashes, a task is run
\* once at most: claimed once, never by two workers at a time, and with no more
\* attempts to generate than one run makes, each of which is paid for.
\* Code: ClaimForProcessing, the loop of ProcessWithOptions.
Running(w, t) == stage[w] \in RunStages /\ TaskOf(job[w]) = t
OneRun ==
    \A t \in Tasks :
        /\ claims[t] <= 1
        /\ calls[t] <= upstreamDuplicateGuardAttempts
        /\ \A v, w \in Workers : Running(v, t) /\ Running(w, t) => v = w

\* The strengthening of NotLost and OneRun that every step preserves.
\* RowKept: a live task has its row.  AckedEnded: an acknowledged message
\* belongs to a finished task.  FinishersEnded: a worker removes only what it
\* found finished.  ClaimsCounted: only a started task was claimed or tried.
\* RunsCounted: a run works on a started task and knows its attempts.
\* RowsOwnMessages: a row points to a message of its own task.
Started(t) == status[t] \notin {"absent", "queued"}
RowKept == \A t \in Tasks : status[t] \in Live => outbox[t] # "none"
AckedEnded == \A m \in entries \ (fresh \cup pel) : status[TaskOf(m)] \in Terminal
FinishersEnded ==
    \A w \in Workers : stage[w] \in {"delete", "row"} => status[TaskOf(job[w])] \in Terminal
ClaimsCounted ==
    \A t \in Tasks :
        /\ claims[t] <= IF Started(t) THEN 1 ELSE 0
        /\ calls[t] <= IF Started(t) THEN upstreamDuplicateGuardAttempts ELSE 0
RunsCounted ==
    \A w \in Workers : stage[w] \in RunStages =>
        /\ Started(TaskOf(job[w]))
        /\ calls[TaskOf(job[w])] = attempt[w]
        /\ stage[w] = "attempt" => attempt[w] < upstreamDuplicateGuardAttempts
        /\ \A v \in Workers : Running(v, TaskOf(job[w])) => v = w
RowsOwnMessages ==
    /\ \A t \in Tasks : sentAs[t] # NoMessage => TaskOf(sentAs[t]) = t
    /\ rowStep = "mark" => TaskOf(rowMessage) = row
StreamInv ==
    TypeOK /\ RowKept /\ AckedEnded /\ FinishersEnded /\ ClaimsCounted /\ RunsCounted
           /\ RowsOwnMessages

\* The dispatch implements the life cycle of a task: redelivery, takeover by
\* the sweep and late results never restart a task or change its outcome.
LC == INSTANCE TaskLifecycle
Lifecycle == LC!Spec

\* Every admitted task ends, whatever is lost or redelivered on the way, unless
\* the administrator pauses the queue; the timeout of queued tasks is not
\* needed for it.
EveryTaskEnds ==
    \A t \in Tasks : status[t] = "queued" ~> (status[t] \in Terminal \/ paused)

\* Unless a fault happened, nothing of an ended task remains: its row, its messages
\* and the group's pending entries go, those of duplicate deliveries and of tasks
\* that never ran included.
Removed(t) ==
    /\ outbox[t] = "none"
    /\ \A m \in entries \cup pel : TaskOf(m) # t
EverythingRemoved ==
    \A t \in Tasks : status[t] \in Terminal ~> (Removed(t) \/ paused \/ faults > 0)

\* Queue.Cancel of a task that a worker runs cancels that worker's context
\* (queue_test.go: "active task was not canceled").
CancelStopsRun ==
    [][\A t \in Tasks, w \in Workers :
         t \in toStop /\ t \notin toStop' /\ Running(w, t) /\ stage'[w] \in RunStages
           => cancelled'[w]]_vars
=============================================================================
