-------------------------- MODULE TaskStreamProofs --------------------------
(* Theorems about TaskStream, for every choice of its constants. *)
EXTENDS TaskStream, TLAPS

USE DEF dbVars, redisVars, rowVars, workerVars, history

-----------------------------------------------------------------------------
(* Type correctness *)

LEMMA MessageTasks == \A m \in Messages : TaskOf(m) \in Tasks
BY DEF Messages, TaskOf

LEMMA NoAttemptYet == 0 \in 0..upstreamDuplicateGuardAttempts
BY AttemptsAssumption

LEMMA TypeInit == Init => TypeOK
BY BoundsAssumption, AttemptsAssumption DEF Init, TypeOK, Stages, RunStages, Rows

\* A publication within the bound has an id of its task.
LEMMA AddedTyped ==
    ASSUME TypeOK, AddMessage
    PROVE  /\ row \in Tasks
           /\ Added \in Messages
           /\ published' \in [Tasks -> 0..MaxPublications]
<1>1. row \in Tasks /\ published[row] \in 0..MaxPublications
  BY DEF AddMessage, TypeOK
<1>2. published[row] + 1 \in 1..MaxPublications
  BY <1>1, BoundsAssumption DEF AddMessage
<1>3. published[row] + 1 \in 0..MaxPublications
  BY <1>2, BoundsAssumption
<1> QED
  BY <1>1, <1>2, <1>3 DEF AddMessage, Added, Messages, TypeOK

LEMMA TypeDispatch == ASSUME TypeOK, Dispatch PROVE TypeOK'
<1>1. ASSUME NEW t \in Tasks, SelectRow(t) PROVE TypeOK'
  BY <1>1 DEF SelectRow, TypeOK
<1>2. CASE CheckRow
  BY <1>2 DEF CheckRow, NextRow, TypeOK
<1>3. CASE PublishRow
  BY <1>3, AddedTyped DEF PublishRow, AddMessage, TypeOK
<1>4. CASE MarkRow
  BY <1>4 DEF MarkRow, NextRow, TypeOK, Rows
<1>5. CASE CheckRowFails
  BY <1>5 DEF CheckRowFails, Fault, TypeOK
<1>6. CASE PublishRowFails
  <2>1. CASE AddMessage
    BY <1>6, <2>1, AddedTyped DEF PublishRowFails, AddMessage, NextRow, Fault, TypeOK
  <2>2. CASE UNCHANGED redisVars
    BY <1>6, <2>2 DEF PublishRowFails, NextRow, Fault, TypeOK
  <2> QED
    BY <1>6, <2>1, <2>2 DEF PublishRowFails
<1>7. CASE MarkRowFails
  BY <1>7 DEF MarkRowFails, NextRow, Fault, TypeOK
<1> QED
  BY <1>1, <1>2, <1>3, <1>4, <1>5, <1>6, <1>7 DEF Dispatch

LEMMA TypeConsume == ASSUME TypeOK, Consume PROVE TypeOK'
<1>1. ASSUME NEW m \in Messages, Read(m) \/ ReadLost(m) \/ Autoclaim(m)
      PROVE  TypeOK'
  BY <1>1 DEF Read, ReadLost, Autoclaim, Fault, TypeOK
<1>2. CASE EnsureGroup
  BY <1>2 DEF EnsureGroup, TypeOK
<1> QED
  BY <1>1, <1>2 DEF Consume

LEMMA TypeFinish ==
    ASSUME TypeOK, NEW w \in Workers, Finish(w)
    PROVE  TypeOK'
<1> USE DEF TypeOK, Stages, RunStages, Rows
<1>1. CASE Acknowledge(w) \/ AcknowledgeFails(w)
  BY <1>1 DEF Acknowledge, AcknowledgeFails, Fault
<1>2. CASE Delete(w) \/ DeleteFails(w)
  BY <1>2 DEF Delete, DeleteFails, Fault
<1>3. CASE RemoveRow(w)
  BY <1>3, MessageTasks DEF RemoveRow, Rest
<1>4. CASE RemoveRowFails(w) \/ LeavePending(w) \/ LookUpFails(w)
  BY <1>4 DEF RemoveRowFails, LeavePending, LookUpFails, Rest, Fault
<1> QED
  BY <1>1, <1>2, <1>3, <1>4 DEF Finish

LEMMA TypeRun ==
    ASSUME TypeOK, NEW w \in Workers, Run(w) \/ SettleUnanswered(w) \/ FinishFailedUnsaved(w),
           stage[w] = "attempt" => attempt[w] < upstreamDuplicateGuardAttempts
    PROVE  TypeOK'
<1> USE MessageTasks, AttemptsAssumption DEF TypeOK, Stages, RunStages
<1>1. CASE Attempt(w)
  <2>1. attempt[w] + 1 \in 0..upstreamDuplicateGuardAttempts
    BY <1>1 DEF Attempt, RunMovesOn
  <2>2. TaskOf(job[w]) \in Tasks
    BY <1>1 DEF Attempt, RunMovesOn
  <2>3. attempt' \in [Workers -> 0..upstreamDuplicateGuardAttempts] /\ calls' \in [Tasks -> Nat]
    BY <1>1, <2>1, <2>2 DEF Attempt
  <2> QED
    BY <1>1, <2>3 DEF Attempt, RunMovesOn
<1>2. CASE NoAttempt(w) \/ CallAnswers(w) \/ RunFails(w) \/ DuplicateImage(w)
  BY <1>2 DEF NoAttempt, CallAnswers, RunFails, DuplicateImage, RunMovesOn
<1>3. ASSUME NEW s \in {"success", "failed"}, TaskOf(job[w]) \in Tasks,
             status' = [status EXCEPT ![TaskOf(job[w])] = Outcome(TaskOf(job[w]), s)]
      PROVE  status' \in [Tasks -> {"absent"} \cup Live \cup Terminal]
  BY <1>3 DEF Outcome, Live, Terminal
<1>4. CASE Settle(w) \/ FinishFailed(w)
  <2>1. TaskOf(job[w]) \in Tasks
    BY <1>4 DEF Settle, FinishFailed
  <2>2. status' \in [Tasks -> {"absent"} \cup Live \cup Terminal]
    BY <1>3, <1>4, <2>1 DEF Settle, FinishFailed, RunEnds
  <2>3. attempt' \in [Workers -> 0..upstreamDuplicateGuardAttempts]
    BY <1>4, NoAttemptYet DEF Settle, FinishFailed, RunEnds, Unregister
  <2>4. /\ stage' = [stage EXCEPT ![w] = "ack"] /\ stage[w] # "idle"
        /\ UNCHANGED <<outbox, sentAs, redisVars, rowVars, inbox, toStop, paused, history, faults, job>>
    BY <1>4 DEF Settle, FinishFailed, RunEnds, Unregister
  <2>5. active' \in [Tasks -> Workers \cup {NoWorker}] /\ cancelled' \in [Workers -> BOOLEAN]
    BY <1>4, <2>1 DEF Settle, FinishFailed, RunEnds, Unregister
  <2> QED
    BY <2>2, <2>3, <2>4, <2>5
<1>5. CASE SettleUnanswered(w)
  <2>1. status' \in [Tasks -> {"absent"} \cup Live \cup Terminal]
    BY <1>3, <1>5 DEF SettleUnanswered
  <2> QED
    BY <1>5, <2>1 DEF SettleUnanswered, Fault
<1>6. CASE FinishFailedUnsaved(w)
  BY <1>6 DEF FinishFailedUnsaved, Unregister, Fault
<1> QED
  BY <1>1, <1>2, <1>4, <1>5, <1>6 DEF Run

LEMMA TypeWork ==
    ASSUME TypeOK, NEW w \in Workers, Work(w),
           stage[w] = "attempt" => attempt[w] < upstreamDuplicateGuardAttempts
    PROVE  TypeOK'
<1> USE MessageTasks, AttemptsAssumption DEF TypeOK, Stages, RunStages
<1>1. ASSUME NEW m \in Messages, Take(w, m) PROVE TypeOK'
  BY <1>1 DEF Take
<1>2. CASE Begin(w)
  BY <1>2 DEF Begin
<1>3. CASE Claim(w)
  <2>1. attempt' \in [Workers -> 0..upstreamDuplicateGuardAttempts]
    BY <1>3, NoAttemptYet DEF Claim
  <2>2. TaskOf(job[w]) \in Tasks
    BY <1>3 DEF Claim
  <2>3. status' \in [Tasks -> {"absent"} \cup Live \cup Terminal] /\ claims' \in [Tasks -> Nat]
    BY <1>3, <2>2 DEF Claim, Live
  <2> QED
    BY <1>3, <2>1, <2>3 DEF Claim
<1>4. CASE LoseClaim(w) \/ ClaimFails(w)
  <2>1. attempt' \in [Workers -> 0..upstreamDuplicateGuardAttempts]
    BY <1>4, NoAttemptYet DEF LoseClaim, ClaimFails, Unregister
  <2>2. TaskOf(job[w]) \in Tasks
    BY <1>4 DEF LoseClaim, ClaimFails
  <2>3. active' \in [Tasks -> Workers \cup {NoWorker}] /\ cancelled' \in [Workers -> BOOLEAN]
    BY <1>4, <2>2 DEF LoseClaim, ClaimFails, Unregister
  <2>4. /\ stage' = [stage EXCEPT ![w] = "ack"] /\ stage[w] # "idle" /\ faults' \in Nat
        /\ UNCHANGED <<dbVars, redisVars, rowVars, inbox, job, toStop, paused, history>>
    BY <1>4 DEF LoseClaim, ClaimFails, AfterLostClaim, Unregister, Fault
  <2> QED
    BY <2>1, <2>3, <2>4
<1>5. CASE Run(w) \/ SettleUnanswered(w) \/ FinishFailedUnsaved(w)
  BY <1>5, TypeRun
<1>6. CASE Finish(w)
  BY <1>6, TypeFinish
<1> QED
  BY <1>1, <1>2, <1>3, <1>4, <1>5, <1>6 DEF Work

\* An attempt within the bound: what RunsCounted says of a run.
LEMMA TypeNext == TypeOK /\ RunsCounted /\ [Next]_vars => TypeOK'
<1> SUFFICES ASSUME TypeOK, RunsCounted, [Next]_vars PROVE TypeOK'
  OBVIOUS
<1>1. ASSUME NEW t \in Tasks, Admit(t) PROVE TypeOK'
  BY <1>1 DEF Admit, TypeOK, Live, Rows
<1>2. CASE Dispatch
  BY <1>2, TypeDispatch
<1>3. CASE Consume
  BY <1>3, TypeConsume
<1>4. ASSUME NEW w \in Workers, Work(w) PROVE TypeOK'
  <2>1. stage[w] = "attempt" => attempt[w] < upstreamDuplicateGuardAttempts
    BY DEF RunsCounted, RunStages
  <2> QED
    BY <1>4, <2>1, TypeWork
<1>5. CASE EndedElsewhere
  <2>1. ASSUME NEW t \in Tasks, Sweep(t) \/ CancelTask(t) PROVE TypeOK'
    BY <2>1 DEF Sweep, CancelTask, TypeOK, Terminal
  <2>2. ASSUME NEW t \in Tasks, StopWorker(t) PROVE TypeOK'
    <3>1. cancelled' \in [Workers -> BOOLEAN]
      BY <2>2 DEF StopWorker, Stopped, TypeOK
    <3> QED
      BY <2>2, <3>1 DEF StopWorker, TypeOK
  <2> QED
    BY <1>5, <2>1, <2>2 DEF EndedElsewhere
<1>6. CASE SetPaused
  BY <1>6 DEF SetPaused, TypeOK
<1>7. CASE CrashAndRestart
  BY <1>7, AttemptsAssumption DEF CrashAndRestart, NextRow, Fault, TypeOK, Stages, RunStages
<1>8. CASE RedisLosesMessages
  <2>1. PICK lost \in SUBSET entries :
          /\ entries' = entries \ lost
          /\ fresh' = fresh \ lost
          /\ pel' = pel \ lost
          /\ group' \in IF lost = entries THEN {group, FALSE} ELSE {group}
    BY <1>8 DEF RedisLosesMessages
  <2>2. group' \in BOOLEAN
    BY <2>1 DEF TypeOK
  <2>3. entries' \subseteq Messages /\ fresh' \subseteq Messages /\ pel' \subseteq Messages
    BY <2>1 DEF TypeOK
  <2> QED
    BY <1>8, <2>2, <2>3 DEF RedisLosesMessages, Fault, TypeOK
<1>9. CASE UNCHANGED vars
  BY <1>9 DEF vars, TypeOK
<1> QED
  BY <1>1, <1>2, <1>3, <1>4, <1>5, <1>6, <1>7, <1>8, <1>9 DEF Next

-----------------------------------------------------------------------------
(* The dispatch implements the life cycle of a task *)

LEMMA LifecycleInit == Init => LC!Init
BY DEF Init, LC!Init

\* A worker's final update ends a processing task or changes nothing.
LEMMA OutcomeStep ==
    ASSUME TypeOK, NEW t \in Tasks, NEW s \in {"success", "failed"},
           status' = [status EXCEPT ![t] = Outcome(t, s)]
    PROVE  [LC!Next]_status
<1>1. CASE status[t] = "processing"
  <2>1. LC!End(t, s)
    BY <1>1 DEF Outcome, LC!End, LC!Unfinished
  <2> QED
    BY <2>1 DEF LC!Next, LC!Final
<1>2. CASE status[t] # "processing"
  BY <1>2 DEF Outcome, TypeOK
<1> QED
  BY <1>1, <1>2

LEMMA RunStep ==
    ASSUME TypeOK, NEW w \in Workers, Run(w) \/ SettleUnanswered(w) \/ FinishFailedUnsaved(w)
    PROVE  [LC!Next]_status
<1>1. CASE Attempt(w) \/ NoAttempt(w) \/ CallAnswers(w) \/ RunFails(w) \/ DuplicateImage(w)
           \/ FinishFailedUnsaved(w)
  BY <1>1 DEF Attempt, NoAttempt, CallAnswers, RunFails, DuplicateImage, RunMovesOn, FinishFailedUnsaved
<1>2. CASE Settle(w) \/ FinishFailed(w) \/ SettleUnanswered(w)
  <2>1. TaskOf(job[w]) \in Tasks
    BY <1>2, MessageTasks DEF Settle, FinishFailed, SettleUnanswered, TypeOK
  <2>2. \E s \in {"success", "failed"} :
          status' = [status EXCEPT ![TaskOf(job[w])] = Outcome(TaskOf(job[w]), s)]
    BY <1>2 DEF Settle, FinishFailed, SettleUnanswered, RunEnds
  <2> QED
    BY <2>1, <2>2, OutcomeStep
<1> QED
  BY <1>1, <1>2 DEF Run

LEMMA LifecycleStep == TypeOK /\ [Next]_vars => [LC!Next]_status
<1> SUFFICES ASSUME TypeOK, [Next]_vars PROVE [LC!Next]_status
  OBVIOUS
<1> USE DEF LC!Next, LC!Final, LC!Unfinished
<1>1. ASSUME NEW t \in Tasks, Admit(t) PROVE LC!Next
  BY <1>1 DEF Admit, LC!Insert
<1>2. CASE Dispatch
  BY <1>2 DEF Dispatch, SelectRow, CheckRow, PublishRow, MarkRow,
              CheckRowFails, PublishRowFails, MarkRowFails
<1>3. CASE Consume
  BY <1>3 DEF Consume, Read, ReadLost, Autoclaim, EnsureGroup
<1>4. ASSUME NEW w \in Workers, Work(w) PROVE [LC!Next]_status
  <2>1. CASE Claim(w)
    <3>1. TaskOf(job[w]) \in Tasks
      BY <2>1, MessageTasks DEF Claim, TypeOK
    <3> QED
      BY <2>1, <3>1 DEF Claim, Claimable, LC!Start
  <2>2. CASE Run(w) \/ SettleUnanswered(w) \/ FinishFailedUnsaved(w)
    BY <2>2, RunStep
  <2>3. CASE Finish(w)
    BY <2>3 DEF Finish, Acknowledge, Delete, RemoveRow, LeavePending,
                AcknowledgeFails, DeleteFails, RemoveRowFails, LookUpFails
  <2>4. ASSUME NEW m \in Messages, Take(w, m) PROVE UNCHANGED status
    BY <2>4 DEF Take
  <2>5. CASE Begin(w) \/ LoseClaim(w) \/ ClaimFails(w)
    BY <2>5 DEF Begin, LoseClaim, ClaimFails
  <2> QED
    BY <1>4, <2>1, <2>2, <2>3, <2>4, <2>5 DEF Work
<1>5. ASSUME NEW t \in Tasks, Sweep(t) \/ CancelTask(t) \/ StopWorker(t)
      PROVE  [LC!Next]_status
  <2>1. CASE Sweep(t)
    BY <2>1 DEF Sweep, Live, LC!End
  <2>2. CASE CancelTask(t)
    BY <2>2 DEF CancelTask, Live, LC!End
  <2>3. CASE StopWorker(t)
    BY <2>3 DEF StopWorker
  <2> QED
    BY <1>5, <2>1, <2>2, <2>3
<1>6. CASE SetPaused \/ CrashAndRestart \/ RedisLosesMessages
  BY <1>6 DEF SetPaused, CrashAndRestart, RedisLosesMessages
<1>7. CASE UNCHANGED vars
  BY <1>7 DEF vars
<1> QED
  BY <1>1, <1>2, <1>3, <1>4, <1>5, <1>6, <1>7 DEF Next, EndedElsewhere

\* What the life cycle says of one step: final statuses stay, and a live task
\* was live before or has just been inserted.
LEMMA LifecycleFacts ==
    ASSUME TypeOK, [LC!Next]_status, NEW t \in Tasks
    PROVE  /\ status[t] \in Terminal => status'[t] = status[t]
           /\ status'[t] \in Live => status[t] \in Live \cup {"absent"}
           /\ status'[t] \in {"absent", "queued"} => status[t] \in {"absent", "queued"}
<1> USE DEF TypeOK, Live, Terminal
<1>1. ASSUME NEW x \in Tasks, LC!Insert(x) PROVE status' = [status EXCEPT ![x] = "queued"] /\ status[x] = "absent"
  BY <1>1 DEF LC!Insert
<1>2. ASSUME NEW x \in Tasks, LC!Start(x) PROVE status' = [status EXCEPT ![x] = "processing"] /\ status[x] = "queued"
  BY <1>2 DEF LC!Start
<1>3. ASSUME NEW x \in Tasks, NEW s \in LC!Final, LC!End(x, s)
      PROVE  status' = [status EXCEPT ![x] = s] /\ status[x] \in Live /\ s \in Terminal
  BY <1>3 DEF LC!End, LC!Final, LC!Unfinished
<1>4. CASE UNCHANGED status
  BY <1>4
<1>5. CASE LC!Next
  BY <1>1, <1>2, <1>3, <1>5 DEF LC!Next
<1> QED
  BY <1>4, <1>5
-----------------------------------------------------------------------------
(* The inductive invariant, one lemma per part *)

LEMMA InvInit == Init => StreamInv
<1> SUFFICES ASSUME Init PROVE StreamInv
  OBVIOUS
<1>1. TypeOK
  BY TypeInit
<1> QED
  BY <1>1 DEF Init, StreamInv, RowKept, AckedEnded, FinishersEnded,
            ClaimsCounted, RunsCounted, RowsOwnMessages, RunStages, Started, Live

\* A row goes only when a worker has found its task finished.
LEMMA RowKeptStep == StreamInv /\ [Next]_vars => RowKept'
<1> SUFFICES ASSUME StreamInv, [Next]_vars, NEW t \in Tasks, status'[t] \in Live
             PROVE  outbox'[t] # "none"
  BY DEF RowKept
<1>1. TypeOK
  BY DEF StreamInv
<1>2. status[t] \in Live \/ status[t] = "absent"
  BY <1>1, LifecycleStep, LifecycleFacts
<1>3. status[t] \in Live => outbox[t] # "none"
  BY DEF StreamInv, RowKept
<1>5. ASSUME NEW x \in Tasks, Admit(x) PROVE outbox'[t] # "none"
  BY <1>1, <1>3, <1>5 DEF Admit, TypeOK
<1>6. CASE Dispatch
  <2>1. CASE MarkRow
    BY <1>1, <1>3, <2>1 DEF MarkRow, TypeOK
  <2>2. CASE ~MarkRow
    BY <1>3, <1>6, <2>2
       DEF Dispatch, SelectRow, CheckRow, PublishRow, CheckRowFails, PublishRowFails, MarkRowFails
  <2> QED
    BY <2>1, <2>2
<1>7. CASE Consume
  BY <1>3, <1>7 DEF Consume, Read, ReadLost, Autoclaim, EnsureGroup
<1>8. ASSUME NEW w \in Workers, Work(w) PROVE outbox'[t] # "none"
  <2>1. status[t] \in Live
    <3>1. CASE Claim(w)
      BY <1>1, <1>2, <3>1, MessageTasks DEF Claim, Claimable, TypeOK, Live
    <3>2. CASE Run(w) \/ SettleUnanswered(w) \/ FinishFailedUnsaved(w)
      BY <1>1, <1>2, <3>2, MessageTasks
         DEF Run, Attempt, NoAttempt, CallAnswers, RunFails, DuplicateImage, RunMovesOn,
           Settle, FinishFailed, RunEnds, SettleUnanswered, FinishFailedUnsaved,
             Outcome, TypeOK, Live
    <3>3. CASE ~Claim(w) /\ ~(Run(w) \/ SettleUnanswered(w) \/ FinishFailedUnsaved(w))
      BY <1>2, <1>8, <3>3
         DEF Work, Take, Begin, LoseClaim, ClaimFails, Finish, Acknowledge, Delete, RemoveRow,
             LeavePending, AcknowledgeFails, DeleteFails, RemoveRowFails, LookUpFails, Live
    <3> QED
      BY <3>1, <3>2, <3>3
  <2>2. CASE RemoveRow(w)
    <3>1. TaskOf(job[w]) # t
      BY <2>1, <2>2 DEF RemoveRow, StreamInv, FinishersEnded, Live, Terminal
    <3> QED
      BY <1>1, <1>3, <2>1, <2>2, <3>1 DEF RemoveRow, TypeOK
  <2>3. CASE ~RemoveRow(w)
    BY <1>3, <1>8, <2>1, <2>3
       DEF Work, Take, Begin, Claim, LoseClaim, ClaimFails, Run, Attempt, NoAttempt, CallAnswers, RunFails, DuplicateImage, RunMovesOn,
           Settle, FinishFailed, RunEnds, SettleUnanswered, FinishFailedUnsaved,
           Finish, Acknowledge, Delete, LeavePending, AcknowledgeFails, DeleteFails,
           RemoveRowFails, LookUpFails
  <2> QED
    BY <2>2, <2>3
<1>9. ASSUME NEW x \in Tasks, Sweep(x) \/ CancelTask(x) \/ StopWorker(x)
      PROVE  outbox'[t] # "none"
  BY <1>1, <1>2, <1>3, <1>9 DEF Sweep, CancelTask, StopWorker, TypeOK, Live
<1>10. CASE SetPaused \/ CrashAndRestart \/ RedisLosesMessages
  BY <1>3, <1>10 DEF SetPaused, CrashAndRestart, RedisLosesMessages
<1>11. CASE UNCHANGED vars
  BY <1>3, <1>11 DEF vars
<1> QED
  BY <1>5, <1>6, <1>7, <1>8, <1>9, <1>10, <1>11 DEF Next, EndedElsewhere
\* Only a worker that has found the task finished goes on to delete.
LEMMA FinishersEndedStep == StreamInv /\ [Next]_vars => FinishersEnded'
<1> SUFFICES ASSUME StreamInv, [Next]_vars, NEW v \in Workers, stage'[v] \in {"delete", "row"}
             PROVE  status'[TaskOf(job'[v])] \in Terminal
  BY DEF FinishersEnded
<1>1. TypeOK
  BY DEF StreamInv
<1>2. ASSUME NEW t \in Tasks, status[t] \in Terminal PROVE status'[t] \in Terminal
  BY <1>1, <1>2, LifecycleStep, LifecycleFacts
<1>3. ASSUME job[v] \in Messages, status[TaskOf(job[v])] \in Terminal, job'[v] = job[v]
      PROVE  status'[TaskOf(job'[v])] \in Terminal
  BY <1>2, <1>3, MessageTasks
<1>4. ASSUME stage[v] \in {"delete", "row"}
      PROVE  job[v] \in Messages /\ status[TaskOf(job[v])] \in Terminal
  BY <1>1, <1>4 DEF StreamInv, FinishersEnded, TypeOK
<1>5. CASE UNCHANGED <<stage, job>>
  BY <1>3, <1>4, <1>5
<1>6. ASSUME NEW w \in Workers, Work(w)
      PROVE  status'[TaskOf(job'[v])] \in Terminal
  <2>1. CASE v # w
    <3>1. stage'[v] = stage[v] /\ job'[v] = job[v]
      BY <1>1, <1>6, <2>1
         DEF Work, Take, Begin, Claim, LoseClaim, ClaimFails, Run, Attempt, NoAttempt, CallAnswers, RunFails, DuplicateImage, RunMovesOn,
           Settle, FinishFailed, RunEnds, SettleUnanswered, FinishFailedUnsaved, Unregister,
             Finish, Acknowledge, Delete, RemoveRow, LeavePending, AcknowledgeFails, DeleteFails,
             RemoveRowFails, LookUpFails, Rest, TypeOK
    <3> QED
      BY <1>3, <1>4, <3>1
  <2>2. CASE v = w /\ Finish(w)
    <3>1. CASE Acknowledge(w) \/ AcknowledgeFails(w)
      <4>1. job[v] \in Messages /\ status[TaskOf(job[v])] \in Terminal /\ job'[v] = job[v]
        BY <1>1, <2>2, <3>1 DEF Acknowledge, AcknowledgeFails, Finished, TypeOK
      <4> QED
        BY <1>3, <4>1
    <3>2. CASE Delete(w) \/ DeleteFails(w)
      BY <1>1, <1>3, <1>4, <2>2, <3>2 DEF Delete, DeleteFails, TypeOK
    <3>3. CASE RemoveRow(w) \/ RemoveRowFails(w) \/ LeavePending(w) \/ LookUpFails(w)
      BY <1>1, <2>2, <3>3 DEF RemoveRow, RemoveRowFails, LeavePending, LookUpFails, Rest, TypeOK
    <3> QED
      BY <2>2, <3>1, <3>2, <3>3 DEF Finish
  <2>3. CASE v = w /\ ~Finish(w)
    BY <1>1, <1>6, <2>3
       DEF Work, Take, Begin, Claim, LoseClaim, ClaimFails, Run, Attempt, NoAttempt, CallAnswers, RunFails, DuplicateImage, RunMovesOn,
           Settle, FinishFailed, RunEnds, SettleUnanswered, FinishFailedUnsaved, AfterLostClaim, TypeOK
  <2> QED
    BY <2>1, <2>2, <2>3
<1>7. CASE CrashAndRestart
  BY <1>7 DEF CrashAndRestart
<1>8. CASE (\E t \in Tasks : Admit(t)) \/ Dispatch \/ Consume \/ EndedElsewhere \/ SetPaused \/ RedisLosesMessages
  BY <1>5, <1>8
     DEF Admit, Dispatch, SelectRow, CheckRow, PublishRow, MarkRow, CheckRowFails, PublishRowFails,
         MarkRowFails, Consume, Read, ReadLost, Autoclaim, EnsureGroup, EndedElsewhere, Sweep,
         CancelTask, StopWorker, SetPaused, RedisLosesMessages
<1>9. CASE UNCHANGED vars
  BY <1>5, <1>9 DEF vars
<1> QED
  BY <1>6, <1>7, <1>8, <1>9 DEF Next

\* A message leaves the pending entries with its entry, or acknowledged by a
\* worker that found its task finished.
LEMMA AckedEndedStep == StreamInv /\ [Next]_vars => AckedEnded'
<1> SUFFICES ASSUME StreamInv, [Next]_vars, NEW m \in entries' \ (fresh' \cup pel')
             PROVE  status'[TaskOf(m)] \in Terminal
  BY DEF AckedEnded
<1>1. TypeOK /\ TypeOK'
  BY TypeNext DEF StreamInv
<1>2. TaskOf(m) \in Tasks
  BY <1>1, MessageTasks DEF TypeOK
<1>3. status[TaskOf(m)] \in Terminal => status'[TaskOf(m)] \in Terminal
  BY <1>1, <1>2, LifecycleStep, LifecycleFacts
<1>4. m \in entries \ (fresh \cup pel) => status'[TaskOf(m)] \in Terminal
  BY <1>3 DEF StreamInv, AckedEnded
<1>5. CASE UNCHANGED <<entries, fresh, pel>>
  BY <1>4, <1>5
<1>6. CASE AddMessage
  BY <1>4, <1>6 DEF AddMessage
<1>7. CASE Dispatch
  BY <1>5, <1>6, <1>7
     DEF Dispatch, SelectRow, CheckRow, PublishRow, MarkRow, CheckRowFails, PublishRowFails, MarkRowFails
<1>8. CASE Consume
  BY <1>4, <1>8 DEF Consume, Read, ReadLost, Autoclaim, EnsureGroup
<1>9. ASSUME NEW w \in Workers, Work(w)
      PROVE  status'[TaskOf(m)] \in Terminal
  <2>1. CASE Acknowledge(w)
    <3>1. status[TaskOf(job[w])] \in Terminal
      BY <2>1 DEF Acknowledge, Finished
    <3> QED
      BY <1>3, <1>4, <2>1, <3>1 DEF Acknowledge
  <2>2. CASE Delete(w)
    BY <1>4, <2>2 DEF Delete
  <2>3. CASE ~Acknowledge(w) /\ ~Delete(w)
    BY <1>5, <1>9, <2>3
       DEF Work, Take, Begin, Claim, LoseClaim, ClaimFails, Run, Attempt, NoAttempt, CallAnswers, RunFails, DuplicateImage, RunMovesOn,
           Settle, FinishFailed, RunEnds, SettleUnanswered, FinishFailedUnsaved,
           Finish, RemoveRow, LeavePending, AcknowledgeFails, DeleteFails, RemoveRowFails, LookUpFails
  <2> QED
    BY <2>1, <2>2, <2>3
<1>10. CASE RedisLosesMessages
  BY <1>4, <1>10 DEF RedisLosesMessages
<1>11. CASE (\E t \in Tasks : Admit(t)) \/ EndedElsewhere \/ SetPaused \/ CrashAndRestart
  BY <1>5, <1>11 DEF Admit, EndedElsewhere, Sweep, CancelTask, StopWorker, SetPaused, CrashAndRestart
<1>12. CASE UNCHANGED vars
  BY <1>5, <1>12 DEF vars
<1> QED
  BY <1>7, <1>8, <1>9, <1>10, <1>11, <1>12 DEF Next

\* The steps of a worker that are neither claims nor a run's do not count, and
\* start no run.
LEMMA OtherWork ==
    ASSUME TypeOK, NEW w \in Workers, Work(w), ~Claim(w),
           ~(Run(w) \/ SettleUnanswered(w) \/ FinishFailedUnsaved(w))
    PROVE  /\ UNCHANGED <<claims, calls>>
           /\ \A v \in Workers : stage'[v] \in RunStages =>
                stage'[v] = stage[v] /\ job'[v] = job[v] /\ attempt'[v] = attempt[v]
<1> USE DEF TypeOK, RunStages
<1>1. ASSUME NEW m \in Messages, Take(w, m)
      PROVE  /\ UNCHANGED <<claims, calls>>
             /\ \A v \in Workers : stage'[v] \in RunStages =>
                  stage'[v] = stage[v] /\ job'[v] = job[v] /\ attempt'[v] = attempt[v]
  BY <1>1 DEF Take
<1>2. CASE Begin(w) \/ LoseClaim(w) \/ ClaimFails(w)
  BY <1>2 DEF Begin, LoseClaim, ClaimFails, Unregister, AfterLostClaim
<1>3. CASE Finish(w)
  BY <1>3 DEF Finish, Acknowledge, Delete, RemoveRow, LeavePending, AcknowledgeFails, DeleteFails,
              RemoveRowFails, LookUpFails, Rest
<1> QED
  BY <1>1, <1>2, <1>3 DEF Work

\* The other actions neither claim nor count, and start no run.
LEMMA OtherActions ==
    ASSUME TypeOK, [Next]_vars, ~\E w \in Workers : Work(w)
    PROVE  /\ UNCHANGED <<claims, calls>>
           /\ \A v \in Workers : stage'[v] \in RunStages =>
                stage'[v] = stage[v] /\ job'[v] = job[v] /\ attempt'[v] = attempt[v]
<1>1. CASE CrashAndRestart
  BY <1>1 DEF CrashAndRestart, RunStages
<1>2. CASE (\E x \in Tasks : Admit(x)) \/ Dispatch \/ Consume \/ EndedElsewhere \/ SetPaused
             \/ RedisLosesMessages
  BY <1>2
     DEF Admit, Dispatch, SelectRow, CheckRow, PublishRow, MarkRow, CheckRowFails, PublishRowFails,
         MarkRowFails, Consume, Read, ReadLost, Autoclaim, EnsureGroup, EndedElsewhere, Sweep,
         CancelTask, StopWorker, SetPaused, RedisLosesMessages
<1>3. CASE UNCHANGED vars
  BY <1>3 DEF vars
<1> QED
  BY <1>1, <1>2, <1>3 DEF Next

\* A run changes only its worker's stage; its attempts count while it lasts.
LEMMA RunFacts ==
    ASSUME TypeOK, NEW w \in Workers, Run(w) \/ SettleUnanswered(w) \/ FinishFailedUnsaved(w)
    PROVE  /\ stage[w] \in RunStages /\ UNCHANGED <<claims, job>>
           /\ \A v \in Workers \ {w} : stage'[v] = stage[v] /\ attempt'[v] = attempt[v]
           /\ \/ /\ stage[w] = "attempt" /\ stage'[w] = "call"
                 /\ attempt'[w] = attempt[w] + 1
                 /\ calls' = [calls EXCEPT ![TaskOf(job[w])] = @ + 1]
              \/ /\ calls' = calls
                 /\ stage'[w] \in RunStages =>
                      /\ attempt'[w] = attempt[w]
                      /\ stage'[w] = "attempt" => attempt[w] < upstreamDuplicateGuardAttempts
<1> USE DEF TypeOK, RunStages
<1>1. CASE Attempt(w)
  BY <1>1 DEF Attempt, RunMovesOn
<1>2. CASE NoAttempt(w) \/ CallAnswers(w) \/ RunFails(w) \/ DuplicateImage(w)
  BY <1>2 DEF NoAttempt, CallAnswers, RunFails, DuplicateImage, RunMovesOn
<1>3. CASE Settle(w) \/ FinishFailed(w)
  BY <1>3 DEF Settle, FinishFailed, RunEnds, Unregister
<1>4. CASE SettleUnanswered(w) \/ FinishFailedUnsaved(w)
  BY <1>4 DEF SettleUnanswered, FinishFailedUnsaved, Unregister
<1> QED
  BY <1>1, <1>2, <1>3, <1>4 DEF Run

\* A started task stays started.
LEMMA StartedKept ==
    ASSUME TypeOK, [Next]_vars, NEW t \in Tasks, Started(t)
    PROVE  Started(t)'
BY LifecycleStep, LifecycleFacts DEF Started

\* Only the claim of a queued task counts a claim, only the attempt of a run a call.
LEMMA ClaimsCountedStep == StreamInv /\ [Next]_vars => ClaimsCounted'
<1> SUFFICES ASSUME StreamInv, [Next]_vars, NEW t \in Tasks
             PROVE  /\ claims'[t] <= IF Started(t)' THEN 1 ELSE 0
                    /\ calls'[t] <= IF Started(t)' THEN upstreamDuplicateGuardAttempts ELSE 0
  BY DEF ClaimsCounted
<1> USE AttemptsAssumption
<1>1. TypeOK
  BY DEF StreamInv
<1>2. /\ claims[t] \in Nat /\ calls[t] \in Nat
      /\ claims[t] <= IF Started(t) THEN 1 ELSE 0
      /\ calls[t] <= IF Started(t) THEN upstreamDuplicateGuardAttempts ELSE 0
  BY <1>1 DEF StreamInv, ClaimsCounted, TypeOK
<1>3. Started(t) => Started(t)'
  BY <1>1, StartedKept
<1>4. CASE UNCHANGED <<claims, calls>>
  BY <1>2, <1>3, <1>4
<1>5. ASSUME NEW w \in Workers, Claim(w)
      PROVE  /\ claims'[t] <= IF Started(t)' THEN 1 ELSE 0
             /\ calls'[t] <= IF Started(t)' THEN upstreamDuplicateGuardAttempts ELSE 0
  <2>1. TaskOf(job[w]) \in Tasks /\ calls' = calls
    BY <1>1, <1>5, MessageTasks DEF Claim, TypeOK
  <2>2. CASE TaskOf(job[w]) = t
    <3>1. ~Started(t) /\ Started(t)'
      BY <1>1, <1>5, <2>1, <2>2 DEF Claim, Claimable, Started, TypeOK
    <3>2. claims'[t] = claims[t] + 1
      BY <1>1, <1>5, <2>1, <2>2 DEF Claim, TypeOK
    <3> QED
      BY <1>2, <2>1, <3>1, <3>2
  <2>3. CASE TaskOf(job[w]) # t
    <3>1. claims'[t] = claims[t]
      BY <1>1, <1>5, <2>1, <2>3 DEF Claim, TypeOK
    <3> QED
      BY <1>2, <1>3, <2>1, <3>1
  <2> QED
    BY <2>2, <2>3
<1>6. ASSUME NEW w \in Workers, Run(w) \/ SettleUnanswered(w) \/ FinishFailedUnsaved(w)
      PROVE  /\ claims'[t] <= IF Started(t)' THEN 1 ELSE 0
             /\ calls'[t] <= IF Started(t)' THEN upstreamDuplicateGuardAttempts ELSE 0
  <2>1. CASE UNCHANGED <<claims, calls>>
    BY <1>4, <2>1
  <2>2. CASE calls' # calls
    <3>1. /\ stage[w] = "attempt" /\ claims' = claims
          /\ calls' = [calls EXCEPT ![TaskOf(job[w])] = @ + 1]
      BY <1>1, <1>6, <2>2, RunFacts
    <3>2. /\ TaskOf(job[w]) \in Tasks /\ Started(TaskOf(job[w]))
          /\ calls[TaskOf(job[w])] < upstreamDuplicateGuardAttempts
      BY <1>1, <3>1, MessageTasks DEF StreamInv, RunsCounted, RunStages, TypeOK
    <3>3. CASE TaskOf(job[w]) = t
      <4>1. calls'[t] = calls[t] + 1
        BY <1>1, <3>1, <3>2, <3>3 DEF TypeOK
      <4> QED
        BY <1>2, <1>3, <3>1, <3>2, <3>3, <4>1
    <3>4. CASE TaskOf(job[w]) # t
      <4>1. calls'[t] = calls[t]
        BY <1>1, <3>1, <3>2, <3>4 DEF TypeOK
      <4> QED
        BY <1>2, <1>3, <3>1, <4>1
    <3> QED
      BY <3>3, <3>4
  <2> QED
    BY <1>1, <1>6, <2>1, <2>2, RunFacts
<1> QED
  BY <1>1, <1>4, <1>5, <1>6, OtherWork, OtherActions

\* A run's worker stays the only one, and counts its attempts.
LEMMA RunsCountedStep == StreamInv /\ [Next]_vars => RunsCounted'
<1> SUFFICES ASSUME StreamInv, [Next]_vars, NEW w \in Workers, stage'[w] \in RunStages
             PROVE  /\ Started(TaskOf(job[w]))'
                    /\ calls'[TaskOf(job'[w])] = attempt'[w]
                    /\ stage'[w] = "attempt" => attempt'[w] < upstreamDuplicateGuardAttempts
                    /\ \A v \in Workers : stage'[v] \in RunStages /\ TaskOf(job'[v]) = TaskOf(job'[w]) => v = w
  BY DEF RunsCounted, Running
<1> USE AttemptsAssumption
<1>1. TypeOK
  BY DEF StreamInv
<1>2. ASSUME NEW v \in Workers, stage[v] \in RunStages
      PROVE  /\ job[v] \in Messages /\ TaskOf(job[v]) \in Tasks
             /\ Started(TaskOf(job[v]))
             /\ calls[TaskOf(job[v])] = attempt[v]
             /\ stage[v] = "attempt" => attempt[v] < upstreamDuplicateGuardAttempts
             /\ \A u \in Workers : stage[u] \in RunStages /\ TaskOf(job[u]) = TaskOf(job[v]) => u = v
  BY <1>1, <1>2, MessageTasks DEF StreamInv, RunsCounted, RunStages, Running, TypeOK
<1>3. ASSUME NEW t \in Tasks, Started(t) PROVE Started(t)'
  BY <1>1, <1>3, StartedKept
<1>4. ASSUME UNCHANGED calls,
             \A v \in Workers : stage'[v] \in RunStages =>
               stage'[v] = stage[v] /\ job'[v] = job[v] /\ attempt'[v] = attempt[v]
      PROVE  /\ Started(TaskOf(job[w]))'
             /\ calls'[TaskOf(job'[w])] = attempt'[w]
             /\ stage'[w] = "attempt" => attempt'[w] < upstreamDuplicateGuardAttempts
             /\ \A v \in Workers : stage'[v] \in RunStages /\ TaskOf(job'[v]) = TaskOf(job'[w]) => v = w
  <2>1. stage[w] \in RunStages /\ stage'[w] = stage[w] /\ job'[w] = job[w] /\ attempt'[w] = attempt[w]
    BY <1>4
  <2>2. Started(TaskOf(job[w]))'
    BY <1>2, <1>3, <2>1 DEF Started
  <2> QED
    BY <1>2, <1>4, <2>1, <2>2 DEF Running
<1>5. ASSUME NEW x \in Workers, Claim(x)
      PROVE  /\ Started(TaskOf(job[w]))'
             /\ calls'[TaskOf(job'[w])] = attempt'[w]
             /\ stage'[w] = "attempt" => attempt'[w] < upstreamDuplicateGuardAttempts
             /\ \A v \in Workers : stage'[v] \in RunStages /\ TaskOf(job'[v]) = TaskOf(job'[w]) => v = w
  <2> DEFINE t == TaskOf(job[x])
  <2>1. /\ t \in Tasks /\ status[t] = "queued" /\ status'[t] = "processing"
        /\ calls' = calls /\ job' = job
        /\ stage' = [stage EXCEPT ![x] = "attempt"] /\ attempt' = [attempt EXCEPT ![x] = 0]
    BY <1>1, <1>5, MessageTasks DEF Claim, Claimable, TypeOK
  <2>2. calls[t] = 0
    BY <1>1, <2>1 DEF StreamInv, ClaimsCounted, Started, TypeOK
  <2>3. ASSUME NEW v \in Workers, stage[v] \in RunStages PROVE TaskOf(job[v]) # t
    BY <1>2, <2>1, <2>3 DEF Started
  <2>4. ASSUME NEW v \in Workers, v # x
        PROVE  stage'[v] = stage[v] /\ attempt'[v] = attempt[v]
    BY <1>1, <2>1, <2>4 DEF TypeOK
  <2>5. stage'[x] = "attempt" /\ attempt'[x] = 0
    BY <1>1, <2>1 DEF TypeOK
  <2>6. CASE w = x
    <3>1. Started(TaskOf(job[w]))'
      BY <2>1, <2>6 DEF Started
    <3>2. \A v \in Workers : stage'[v] \in RunStages /\ TaskOf(job'[v]) = TaskOf(job'[w]) => v = w
      BY <2>1, <2>3, <2>4, <2>6 DEF Running
    <3> QED
      BY <2>1, <2>2, <2>5, <2>6, <3>1, <3>2
  <2>7. CASE w # x
    <3>1. stage[w] \in RunStages /\ stage'[w] = stage[w] /\ attempt'[w] = attempt[w]
      BY <2>4, <2>7
    <3>2. Started(TaskOf(job[w]))'
      BY <1>2, <1>3, <2>1, <3>1 DEF Started
    <3>3. \A v \in Workers : stage'[v] \in RunStages /\ TaskOf(job'[v]) = TaskOf(job'[w]) => v = w
      BY <1>2, <2>1, <2>3, <2>4, <3>1 DEF Running
    <3> QED
      BY <1>2, <2>1, <3>1, <3>2, <3>3
  <2> QED
    BY <2>6, <2>7
<1>6. ASSUME NEW x \in Workers, Run(x) \/ SettleUnanswered(x) \/ FinishFailedUnsaved(x)
      PROVE  /\ Started(TaskOf(job[w]))'
             /\ calls'[TaskOf(job'[w])] = attempt'[w]
             /\ stage'[w] = "attempt" => attempt'[w] < upstreamDuplicateGuardAttempts
             /\ \A v \in Workers : stage'[v] \in RunStages /\ TaskOf(job'[v]) = TaskOf(job'[w]) => v = w
  <2> DEFINE t == TaskOf(job[x])
  <2>1. /\ stage[x] \in RunStages /\ job' = job
        /\ \A v \in Workers \ {x} : stage'[v] = stage[v] /\ attempt'[v] = attempt[v]
        /\ \/ /\ stage[x] = "attempt" /\ stage'[x] = "call"
              /\ attempt'[x] = attempt[x] + 1
              /\ calls' = [calls EXCEPT ![t] = @ + 1]
           \/ /\ calls' = calls
              /\ stage'[x] \in RunStages =>
                   /\ attempt'[x] = attempt[x]
                   /\ stage'[x] = "attempt" => attempt[x] < upstreamDuplicateGuardAttempts
    BY <1>1, <1>6, RunFacts
  <2>2. \A v \in Workers : stage'[v] \in RunStages => stage[v] \in RunStages
    BY <2>1
  <2>3. Started(TaskOf(job[w]))'
    BY <1>2, <1>3, <2>1, <2>2 DEF Started
  <2>4. \A v \in Workers : stage'[v] \in RunStages /\ TaskOf(job'[v]) = TaskOf(job'[w]) => v = w
    BY <1>2, <2>1, <2>2 DEF Running
  <2>5. CASE w = x
    <3>1. t \in Tasks /\ calls[t] = attempt[x]
      BY <1>2, <2>1
    <3>2. calls'[t] = attempt'[x]
      BY <1>1, <2>1, <2>5, <3>1 DEF TypeOK
    <3>3. stage'[x] = "attempt" => attempt'[x] < upstreamDuplicateGuardAttempts
      BY <2>1, <2>5
    <3> QED
      BY <2>1, <2>3, <2>4, <2>5, <3>2, <3>3
  <2>6. CASE w # x
    <3>1. stage[w] \in RunStages /\ stage'[w] = stage[w] /\ attempt'[w] = attempt[w]
      BY <2>1, <2>6
    <3>2. TaskOf(job[w]) # t
      BY <1>2, <2>1, <2>6, <3>1
    <3>3. calls'[TaskOf(job[w])] = calls[TaskOf(job[w])]
      BY <1>1, <1>2, <2>1, <3>1, <3>2 DEF TypeOK
    <3> QED
      BY <1>2, <2>1, <2>3, <2>4, <3>1, <3>3
  <2> QED
    BY <2>5, <2>6
<1> QED
  BY <1>1, <1>4, <1>5, <1>6, OtherWork, OtherActions

\* The dispatcher marks a row with the message it has published for it.
LEMMA RowsOwnMessagesStep == StreamInv /\ [Next]_vars => RowsOwnMessages'
<1> SUFFICES ASSUME StreamInv, [Next]_vars PROVE RowsOwnMessages'
  OBVIOUS
<1>1. TypeOK /\ RowsOwnMessages
  BY DEF StreamInv
<1>2. CASE UNCHANGED <<sentAs, row, rowStep, rowMessage>>
  BY <1>1, <1>2 DEF RowsOwnMessages
<1>3. CASE Dispatch
  <2>1. CASE PublishRow
    BY <1>1, <2>1 DEF PublishRow, Added, TaskOf, RowsOwnMessages
  <2>2. CASE MarkRow
    BY <1>1, <2>2 DEF MarkRow, NextRow, TypeOK, RowsOwnMessages
  <2>3. CASE ~PublishRow /\ ~MarkRow
    BY <1>1, <1>3, <2>3
       DEF Dispatch, SelectRow, CheckRow, CheckRowFails, PublishRowFails, MarkRowFails, NextRow, RowsOwnMessages
  <2> QED
    BY <2>1, <2>2, <2>3
<1>4. ASSUME NEW w \in Workers, Work(w) PROVE RowsOwnMessages'
  <2>1. CASE RemoveRow(w)
    BY <1>1, <2>1, MessageTasks DEF RemoveRow, TypeOK, RowsOwnMessages
  <2>2. CASE ~RemoveRow(w)
    BY <1>2, <1>4, <2>2
       DEF Work, Take, Begin, Claim, LoseClaim, ClaimFails, Run, Attempt, NoAttempt, CallAnswers, RunFails, DuplicateImage, RunMovesOn,
           Settle, FinishFailed, RunEnds, SettleUnanswered, FinishFailedUnsaved,
           Finish, Acknowledge, Delete, LeavePending, AcknowledgeFails, DeleteFails,
           RemoveRowFails, LookUpFails
  <2> QED
    BY <2>1, <2>2
<1>5. CASE CrashAndRestart
  BY <1>1, <1>5 DEF CrashAndRestart, NextRow, RowsOwnMessages
<1>6. CASE (\E t \in Tasks : Admit(t)) \/ Consume \/ EndedElsewhere \/ SetPaused \/ RedisLosesMessages
  BY <1>2, <1>6
     DEF Admit, Consume, Read, ReadLost, Autoclaim, EnsureGroup, EndedElsewhere, Sweep,
         CancelTask, StopWorker, SetPaused, RedisLosesMessages
<1>7. CASE UNCHANGED vars
  BY <1>2, <1>7 DEF vars
<1> QED
  BY <1>3, <1>4, <1>5, <1>6, <1>7 DEF Next

LEMMA StreamInvariant == Spec => []StreamInv
<1>1. Init => StreamInv
  BY InvInit
<1>2. StreamInv /\ [Next]_vars => StreamInv'
  BY TypeNext, RowKeptStep, AckedEndedStep, FinishersEndedStep, ClaimsCountedStep, RunsCountedStep,
     RowsOwnMessagesStep
  DEF StreamInv
<1> QED
  BY <1>1, <1>2, PTL DEF Spec

-----------------------------------------------------------------------------
(* What the invariant means *)

\* A queued task keeps its outbox row, and a message the row points to is still
\* to be delivered or delivered again, whatever crashes and whatever Redis
\* loses.
THEOREM AdmittedAreNotLost == Spec => []NotLost
<1>1. StreamInv => NotLost
  <2> SUFFICES ASSUME StreamInv, NEW t \in Tasks, status[t] = "queued"
               PROVE  /\ outbox[t] # "none"
                      /\ sentAs[t] \in entries => sentAs[t] \in fresh \cup pel
    BY DEF NotLost
  <2>1. outbox[t] # "none"
    BY DEF StreamInv, RowKept, Live
  <2>2. ASSUME sentAs[t] \in entries PROVE TaskOf(sentAs[t]) = t
    BY <2>2, NoValuesAssumption DEF StreamInv, RowsOwnMessages, TypeOK
  <2>3. status[t] \notin Terminal
    BY DEF Terminal
  <2> QED
    BY <2>1, <2>2, <2>3 DEF StreamInv, AckedEnded
<1> QED
  BY <1>1, StreamInvariant, PTL

\* No redelivery, crash or lost answer makes the server run a task again: one
\* claim, one worker at a time, and no more attempts than one run makes.
THEOREM TaskRunOnce == Spec => []OneRun
<1>1. StreamInv => OneRun
  <2> SUFFICES ASSUME StreamInv, NEW t \in Tasks
               PROVE  /\ claims[t] <= 1
                      /\ calls[t] <= upstreamDuplicateGuardAttempts
                      /\ \A v, w \in Workers : Running(v, t) /\ Running(w, t) => v = w
    BY DEF OneRun
  <2>1. claims[t] <= 1 /\ calls[t] <= upstreamDuplicateGuardAttempts
    BY AttemptsAssumption DEF StreamInv, ClaimsCounted, TypeOK
  <2>2. \A v, w \in Workers : Running(v, t) /\ Running(w, t) => v = w
    BY DEF StreamInv, RunsCounted, Running
  <2> QED
    BY <2>1, <2>2
<1> QED
  BY <1>1, StreamInvariant, PTL

\* The dispatch of tasks implements the life cycle of TaskLifecycle.
THEOREM DispatchImplementsLifecycle == Spec => Lifecycle
<1>1. StreamInv => TypeOK
  BY DEF StreamInv
<1> QED
  BY <1>1, LifecycleInit, LifecycleStep, StreamInvariant, PTL DEF Spec, Lifecycle, LC!Spec
=============================================================================
