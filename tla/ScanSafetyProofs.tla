-------------------------- MODULE ScanSafetyProofs --------------------------
(***************************************************************************)
(* What custody of the payloads buys: a recorded success stays, COMPLETED  *)
(* means what it says, and the dead letters are dead.  With it, every step *)
(* of ScanExecution is a step of TaskDelivery or leaves the fate and the   *)
(* calls of every task alone.                                              *)
(***************************************************************************)
EXTENDS ScanRefinement, ScanExecutionProofs

----------------------------------------------------------------------------
(* Success *)

LEMMA SuccessInit == Init => SuccessUncarried
<1> SUFFICES ASSUME Init PROVE SuccessUncarried
  OBVIOUS
<1>1. InQueue = {} /\ Busy = {} /\ dlq = {}
  BY DEF Init, InQueue, InReady, Busy
<1> QED
  BY <1>1 DEF Init, SuccessUncarried

\* The submission that is about to store or publish a task is the only one
\* that has it.
LEMMA BatchUnpublished ==
  ASSUME TypeOK, Custody, NEW r \in Requests, request[r] # "done", NEW t \in batch[r]
  PROVE  t \in Tasks /\ Unpublished(t)
BY DEF TypeOK, ApiTypeOK, Custody, BatchesDisjoint, Unpublished

\* A coroutine with anything left to write holds a task without a success.
LEMMA UnrecordedJob ==
  ASSUME TypeOK, SuccessUncarried, NEW s \in Slots, pc[s] # "free", ~Recorded(s)
  PROVE  taskStatus[JobTask(s)] # "SUCCESS"
BY DEF SuccessUncarried, Busy

\* The step property behind SuccessIsFinal.
SuccessKept ==
  \A t \in Tasks : taskStatus[t] = "SUCCESS" =>
    /\ taskStatus'[t] \in {"SUCCESS", "DELETED"}
    /\ calls'[t] = calls[t] /\ attempts'[t] = attempts[t]

LEMMA SuccessKeptStep ==
  ASSUME TypeOK, Custody, SuccessUncarried, [Next]_vars
  PROVE  SuccessKept
<1>1. CASE UNCHANGED <<taskStatus, attempts, calls>>
  BY <1>1 DEF SuccessKept
<1>2. CASE DeleteScan
  BY <1>2 DEF DeleteScan, SuccessKept, TypeOK, DbTypeOK
<1>3. ASSUME NEW r \in Requests, SubmitStore(r) PROVE SuccessKept
  <2>1. \A t \in batch[r] : taskStatus[t] # "SUCCESS"
    BY <1>3, BatchUnpublished DEF SubmitStore, SuccessUncarried
  <2> QED BY <1>3, <2>1 DEF SubmitStore, SuccessKept, TypeOK, DbTypeOK
<1>4. ASSUME NEW s \in Slots,
             MarkProcessing(s) \/ Execute(s) \/ SaveCommit(s) \/ Retry(s) \/ Exhaust(s)
      PROVE  SuccessKept
  <2>1. taskStatus[JobTask(s)] # "SUCCESS"
    BY <1>4, UnrecordedJob DEF Recorded, MarkProcessing, Execute, SaveCommit, Retry, Exhaust
  <2>2. \A t \in Tasks : t # JobTask(s) =>
          taskStatus'[t] = taskStatus[t] /\ attempts'[t] = attempts[t] /\ calls'[t] = calls[t]
    BY <1>4 DEF MarkProcessing, Execute, SaveCommit, Retry, Exhaust, WriteStatus, dbVars,
                TypeOK, DbTypeOK
  <2> QED BY <2>1, <2>2 DEF SuccessKept
<1>5. CASE UNCHANGED vars
  BY <1>1, <1>5 DEF vars, dbVars
<1>6. CASE Next
  BY <1>1, <1>2, <1>3, <1>4, <1>6 DEF Next, SubmitStep, Coroutine, CreateScan, SubmitLoad,
    SubmitStart, SubmitPublish, SubmitAbort, ReadDelayed, MoveDelayed, PopLost, Crash, Pop,
    Throttle, SaveLoad, SaveFails, EvaluateLoad, EvaluateJudge, EvaluateCommit, EvaluateLeave,
    Schedule, DeadLetter, dbVars
<1> QED BY <1>5, <1>6

\* Steps that record no success and bring no task into circulation.
LEMMA NoNewSuccess ==
  ASSUME SuccessUncarried, KeepsJobs, InQueue' \cup dlq' \subseteq InQueue \cup dlq,
         \A t \in Tasks : Unpublished(t)' => Unpublished(t),
         \A p \in InQueue \cup dlq : p.task \in Tasks,
         \A u \in Busy' : JobTask(u) \in Tasks /\ (Recorded(u) => Recorded(u)'),
         \A t \in Tasks : taskStatus'[t] = "SUCCESS" => taskStatus[t] = "SUCCESS"
  PROVE  SuccessUncarried'
BY DEF SuccessUncarried, KeepsJobs

LEMMA TasksOfPayloads ==
  ASSUME TypeOK
  PROVE  /\ \A p \in InQueue \cup dlq : p.task \in Tasks
         /\ \A u \in Busy : u \in Slots /\ JobTask(u) \in Tasks
BY BusyJob DEF TypeOK, RedisTypeOK, InQueue, InReady, Payload, Busy

LEMMA SubmitSuccess ==
  ASSUME TypeOK, Custody, SuccessUncarried, NEW r \in Requests,
         SubmitLoad(r) \/ SubmitStep(r) \/ SubmitAbort(r)
  PROVE  SuccessUncarried'
<1>1. KeepsJobs /\ Busy' = Busy /\ UNCHANGED <<delayed, dlq, pc, job, outcome>>
  BY SlotsIdle DEF SubmitLoad, SubmitStep, SubmitStart, SubmitStore, SubmitPublish, SubmitAbort,
                   redisVars, slotVars
<1>2. \A u \in Busy' : JobTask(u) \in Tasks /\ (Recorded(u) => Recorded(u)')
  BY <1>1, TasksOfPayloads DEF Recorded
<1>3. request[r] # "done" /\ \A u \in Requests : u # r => request'[u] = request[u] /\ batch'[u] = batch[u]
  BY DEF SubmitLoad, SubmitStep, SubmitStart, SubmitStore, SubmitPublish, SubmitAbort, TypeOK, ApiTypeOK
<1>4. \A t \in Tasks : Unpublished(t)' => Unpublished(t)
  <2>1. request[r] # "done" /\ (request[r] = "idle" \/ batch'[r] = batch[r])
    BY <1>3 DEF SubmitLoad, SubmitStep, SubmitStart, SubmitStore, SubmitPublish, SubmitAbort
  <2> QED BY <1>3, <2>1 DEF Unpublished
<1>5. \A t \in Tasks : taskStatus'[t] = "SUCCESS" => taskStatus[t] = "SUCCESS"
  BY DEF SubmitLoad, SubmitStep, SubmitStart, SubmitStore, SubmitPublish, SubmitAbort, dbVars
<1>6. CASE ready' = ready
  <2>1. InQueue' = InQueue
    BY <1>1, <1>6 DEF InQueue, InReady
  <2> QED BY <1>1, <1>2, <1>4, <1>5, <2>1, NoNewSuccess, TasksOfPayloads
<1>7. CASE SubmitPublish(r) /\ ready' = Pushed({[task |-> t, attempt |-> 0] : t \in batch[r]})
  <2>1. \A p \in InQueue' \ InQueue : p.task \in batch[r]
    BY <1>1, <1>7 DEF InQueue, InReady, Pushed, TypeOK, RedisTypeOK
  <2>2. \A t \in batch[r] : taskStatus[t] # "SUCCESS"
    BY <1>7, BatchUnpublished DEF SubmitPublish, SuccessUncarried
  <2>3. taskStatus' = taskStatus
    BY <1>7 DEF SubmitPublish, dbVars
  <2>4. \A p \in InQueue' \cup dlq' : taskStatus'[p.task] # "SUCCESS"
    BY <1>1, <2>1, <2>2, <2>3 DEF SuccessUncarried
  <2> QED BY <1>1, <1>2, <1>4, <2>3, <2>4 DEF SuccessUncarried, KeepsJobs
<1> QED
  BY <1>6, <1>7 DEF SubmitLoad, SubmitStep, SubmitStart, SubmitStore, SubmitPublish, SubmitAbort,
                    redisVars

LEMMA ConsumerSuccess ==
  ASSUME SingleConsumer, TypeOK, Custody, SuccessUncarried,
         \/ CreateScan \/ DeleteScan \/ Crash
         \/ \E e \in Engines : ReadDelayed(e) \/ MoveDelayed(e) \/ PopLost(e)
  PROVE  SuccessUncarried'
<1>1. KeepsJobs /\ \A u \in Busy' : u \in Busy /\ (Recorded(u) => Recorded(u)')
  <2>1. CASE Crash
    BY <2>1, ReleaseBusy DEF Crash, Release, TypeOK, SlotTypeOK, KeepsJobs, JobTask, Recorded, Busy
  <2> QED
    BY <2>1, SlotsIdle DEF CreateScan, DeleteScan, ReadDelayed, MoveDelayed, PopLost, Recorded, slotVars
<1>2. UNCHANGED <<apiVars, dlq>>
  BY DEF CreateScan, DeleteScan, ReadDelayed, MoveDelayed, PopLost, Crash, redisVars
<1>3. \A t \in Tasks : Unpublished(t)' => Unpublished(t)
  BY <1>2 DEF Unpublished, apiVars
<1>4. \A t \in Tasks : taskStatus'[t] = "SUCCESS" => taskStatus[t] = "SUCCESS"
  BY DEF CreateScan, DeleteScan, ReadDelayed, MoveDelayed, PopLost, Crash, dbVars
<1>5. InQueue' \subseteq InQueue
  <2>1. CASE UNCHANGED redisVars
    BY <2>1 DEF InQueue, InReady, redisVars
  <2>2. ASSUME NEW e \in Engines, MoveDelayed(e) PROVE InQueue' \subseteq InQueue
    BY <2>2 DEF MoveDelayed, InQueue, InReady, Pushed, Custody, SnapshotsCurrent, TypeOK, RedisTypeOK
  <2>3. ASSUME NEW e \in Engines, PopLost(e) PROVE InQueue' \subseteq InQueue
    BY <2>3 DEF PopLost, InQueue, InReady, TypeOK, RedisTypeOK
  <2> QED BY <2>1, <2>2, <2>3 DEF CreateScan, DeleteScan, ReadDelayed, Crash
<1> QED BY <1>1, <1>2, <1>3, <1>4, <1>5, NoNewSuccess, TasksOfPayloads

LEMMA PopSuccess ==
  ASSUME TypeOK, Custody, SuccessUncarried, NEW s \in Slots, Pop(s)
  PROVE  SuccessUncarried'
<1>1. PICK p \in Payload : /\ ready[p] > 0
                           /\ ready' = [ready EXCEPT ![p] = @ - 1]
                           /\ job' = [job EXCEPT ![s] = p]
  BY DEF Pop
<1>2. UNCHANGED <<taskStatus, request, batch, delayed, dlq, outcome>>
  BY DEF Pop, dbVars, apiVars
<1>3. InQueue' \subseteq InQueue /\ p \in InQueue
  BY <1>1, <1>2 DEF InQueue, InReady, TypeOK, RedisTypeOK
<1>4. /\ Busy' = Busy \cup {s} /\ s \notin Busy
      /\ JobTask(s)' = p.task
      /\ \A u \in Busy : JobTask(u)' = JobTask(u) /\ (Recorded(u) <=> Recorded(u)')
  BY <1>1, <1>2 DEF Pop, Busy, JobTask, Recorded, TypeOK, SlotTypeOK
<1> QED BY <1>2, <1>3, <1>4 DEF SuccessUncarried, Unpublished

LEMMA SaveCommitSuccess ==
  ASSUME TypeOK, Custody, SuccessUncarried, NEW s \in Slots, SaveCommit(s)
  PROVE  SuccessUncarried'
<1> DEFINE t == JobTask(s)
<1>1. pc[s] = "commit" /\ UNCHANGED <<job, outcome, redisVars, apiVars>>
  BY DEF SaveCommit
<1>2. Busy' = Busy /\ pc'[s] = "evaluate" /\ \A u \in Slots : u # s => pc'[u] = pc[u]
  BY <1>1, GotoBusy DEF SaveCommit, Goto, TypeOK, SlotTypeOK
<1>3. InQueue' = InQueue /\ dlq' = dlq /\ \A u \in Slots : JobTask(u)' = JobTask(u)
  BY <1>1 DEF InQueue, InReady, redisVars, JobTask
<1>4. /\ taskStatus'[t] = "SUCCESS" => Recorded(s)'
      /\ \A o \in Tasks : o # t => taskStatus'[o] = taskStatus[o]
  BY <1>1, <1>2, UnrecordedJob DEF SaveCommit, SavedStatus, Recorded, TypeOK, DbTypeOK
<1>5. \A u \in Busy : u # s => (Recorded(u) <=> Recorded(u)')
  BY <1>1, <1>2 DEF Recorded, Busy
<1> QED
  BY <1>1, <1>2, <1>3, <1>4, <1>5, JobAlone, TasksOfPayloads
     DEF SuccessUncarried, Unpublished, apiVars

LEMMA HandBackSuccess ==
  ASSUME TypeOK, Custody, SuccessUncarried, NEW s \in Slots, Schedule(s) \/ DeadLetter(s)
  PROVE  SuccessUncarried'
<1>1. pc[s] \in {"schedule", "dlq"} /\ UNCHANGED <<apiVars, dbVars, ready>> /\ Release({s})
  BY DEF Schedule, DeadLetter
<1>2. /\ Busy' = Busy \ {s}
      /\ \A u \in Busy' : JobTask(u)' = JobTask(u) /\ (Recorded(u) <=> Recorded(u)')
  BY <1>1, ReleaseBusy DEF Release, Recorded, TypeOK, SlotTypeOK, JobTask, Busy
<1>3. InQueue' \cup dlq' \subseteq InQueue \cup dlq \cup {job[s]}
  BY DEF Schedule, DeadLetter, InQueue, InReady
<1>4. taskStatus[job[s].task] # "SUCCESS"
  BY <1>1, UnrecordedJob DEF Recorded, JobTask
<1> QED BY <1>1, <1>2, <1>3, <1>4 DEF SuccessUncarried, Unpublished, apiVars, dbVars

LEMMA CoroutineSuccess ==
  ASSUME TypeOK, Custody, SuccessUncarried, NEW s \in Slots, Coroutine(s)
  PROVE  SuccessUncarried'
<1>1. CASE SaveCommit(s)
  BY <1>1, SaveCommitSuccess
<1>2. CASE Schedule(s) \/ DeadLetter(s)
  BY <1>2, HandBackSuccess
<1>3. CASE ~SaveCommit(s) /\ ~Schedule(s) /\ ~DeadLetter(s)
  <2>1. KeepsJobs /\ UNCHANGED <<apiVars, redisVars, moveVars>>
    BY <1>3, CoroutineKeepsJobs
  <2>2. \A u \in Slots : u # s => pc'[u] = pc[u] /\ outcome'[u] = outcome[u]
    BY <1>3 DEF Coroutine, MarkProcessing, Throttle, Execute, SaveLoad, SaveFails, EvaluateLoad,
      EvaluateJudge, EvaluateCommit, EvaluateLeave, Retry, Exhaust, AfterSave, Release, Goto,
      TypeOK, SlotTypeOK
  <2>3. Recorded(s) => ~(s \in Busy') \/ Recorded(s)'
    BY <1>3 DEF Coroutine, MarkProcessing, Throttle, Execute, SaveLoad, SaveFails, EvaluateLoad,
      EvaluateJudge, EvaluateCommit, EvaluateLeave, Retry, Exhaust, AfterSave, Release, Goto,
      TypeOK, SlotTypeOK, Recorded, Busy
  <2>4. \A u \in Busy' : JobTask(u) \in Tasks /\ (Recorded(u) => Recorded(u)')
    BY <2>1, <2>2, <2>3, TasksOfPayloads DEF KeepsJobs, Recorded
  <2>5. \A t \in Tasks : taskStatus'[t] = "SUCCESS" => taskStatus[t] = "SUCCESS"
    BY <1>3 DEF Coroutine, MarkProcessing, Throttle, Execute, SaveLoad, SaveFails, EvaluateLoad,
      EvaluateJudge, EvaluateCommit, EvaluateLeave, Retry, Exhaust, WriteStatus, dbVars,
      TypeOK, DbTypeOK
  <2>6. InQueue' = InQueue /\ dlq' = dlq
    BY <2>1 DEF InQueue, InReady, redisVars
  <2>7. \A t \in Tasks : Unpublished(t)' => Unpublished(t)
    BY <2>1 DEF Unpublished, apiVars
  <2> QED BY <2>1, <2>4, <2>5, <2>6, <2>7, NoNewSuccess, TasksOfPayloads
<1> QED BY <1>1, <1>2, <1>3

LEMMA SuccessStep ==
  ASSUME SingleConsumer, TypeOK, Custody, SuccessUncarried, [Next]_vars
  PROVE  SuccessUncarried'
<1>1. CASE UNCHANGED vars
  <2>1. KeepsJobs /\ Busy' = Busy /\ InQueue' = InQueue
    BY <1>1, SlotsIdle DEF vars, redisVars, InQueue, InReady
  <2> QED
    BY <1>1, <2>1 DEF vars, dbVars, apiVars, redisVars, slotVars, SuccessUncarried,
                      Unpublished, JobTask, Recorded
<1> QED BY <1>1, ConsumerSuccess, SubmitSuccess, PopSuccess, CoroutineSuccess DEF Next

\* Once _save_response has recorded SUCCESS, no queue holds the task and no other
\* coroutine is at it.
THEOREM SuccessCorrect ==
  ASSUME SingleConsumer PROVE Spec => [](TypeOK /\ Custody /\ SuccessUncarried)
<1>1. Init => TypeOK /\ Custody /\ SuccessUncarried
  BY TypeInit, CustodyInit, SuccessInit
<1>2. TypeOK /\ Custody /\ SuccessUncarried /\ [Next]_vars
        => (TypeOK /\ Custody /\ SuccessUncarried)'
  BY TypeStep, CustodyStep, SuccessStep
<1> QED BY <1>1, <1>2, PTL DEF Spec

\* Once _save_response has committed SUCCESS no later step of the worker, and
\* no retry, rewrites the task or calls its target again.
THEOREM SuccessIsFinalCorrect == ASSUME SingleConsumer PROVE Spec => SuccessIsFinal
<1>1. TypeOK /\ Custody /\ SuccessUncarried /\ [Next]_vars => [SuccessKept]_vars
  BY SuccessKeptStep
<1> QED BY <1>1, SuccessCorrect, PTL DEF Spec, SuccessIsFinal, SuccessKept

----------------------------------------------------------------------------
(* Dead letters *)

\* What is in the dead letter list has no copy left to execute and no success
\* on record, and is there once.
THEOREM DeadLettersCorrect == ASSUME SingleConsumer PROVE Spec => []DeadLettersAreDead
<1>1. TypeOK /\ Custody /\ SuccessUncarried => DeadLettersAreDead
  <2> SUFFICES ASSUME TypeOK, Custody, SuccessUncarried PROVE DeadLettersAreDead
    OBVIOUS
  <2>1. \A p \in dlq : ~Carried(p.task)
    <3> SUFFICES ASSUME NEW p \in dlq PROVE ~Carried(p.task)
      OBVIOUS
    <3>1. \A r \in Requests : ~(request[r] = "stored" /\ p.task \in batch[r])
      BY BatchUnpublished DEF Custody, UnpublishedNowhere
    <3>2. \A e \in Engines : \A q \in push[e] : q.task # p.task
      BY DEF Custody, SnapshotsCurrent, DeadUncarried, InQueue
    <3> QED BY <3>1, <3>2 DEF Carried, Custody, DeadUncarried
  <2> QED BY <2>1 DEF DeadLettersAreDead, Custody, DeadUncarried, SuccessUncarried
<1> QED BY <1>1, SuccessCorrect, PTL

----------------------------------------------------------------------------
(* The verdict *)

VerdictsKept == VerdictsCurrent /\ CompletedCoversSuccess

LEMMA VerdictsStep ==
  ASSUME TypeOK, SuccessKept, VerdictsKept, [Next]_vars
  PROVE  VerdictsKept'
<1> USE DEF VerdictsKept
<1>1. CASE DeleteScan
  BY <1>1 DEF DeleteScan, VerdictsCurrent, CompletedCoversSuccess
<1>2. ~DeleteScan => \A t \in Tasks : taskStatus[t] = "SUCCESS" => taskStatus'[t] = "SUCCESS"
  <2>1. CASE UNCHANGED taskStatus
    BY <2>1
  <2>2. ASSUME NEW r \in Requests, SubmitStore(r)
        PROVE  \A t \in Tasks : taskStatus'[t] # "DELETED" \/ taskStatus[t] = "DELETED"
    BY <2>2 DEF SubmitStore
  <2>3. ASSUME NEW s \in Slots, MarkProcessing(s) \/ SaveCommit(s) \/ Retry(s) \/ Exhaust(s)
        PROVE  \A t \in Tasks : taskStatus'[t] # "DELETED" \/ taskStatus[t] = "DELETED"
    BY <2>3 DEF MarkProcessing, SaveCommit, SavedStatus, Retry, Exhaust, WriteStatus, TypeOK, DbTypeOK
  <2>4. CASE UNCHANGED vars
    BY <2>1, <2>4 DEF vars, dbVars
  <2>5. CASE Next
    BY <2>1, <2>2, <2>3, <2>5 DEF SuccessKept, Next, SubmitStep, Coroutine, CreateScan, SubmitLoad,
      SubmitStart, SubmitPublish, SubmitAbort, ReadDelayed, MoveDelayed, PopLost, Crash, Pop,
      Throttle, Execute, SaveLoad, SaveFails, EvaluateLoad, EvaluateJudge, EvaluateCommit,
      EvaluateLeave, Schedule, DeadLetter, dbVars
  <2> QED BY <2>4, <2>5
<1>3. CASE UNCHANGED <<scanStatus, covered, pc, judged, verdict>> /\ ~DeleteScan
  BY <1>2, <1>3 DEF VerdictsCurrent, CompletedCoversSuccess, TypeOK, DbTypeOK, SlotTypeOK
<1>4. ASSUME CreateScan \/ \E r \in Requests : SubmitStart(r)
      PROVE  VerdictsKept'
  <2>1. UNCHANGED <<taskStatus, pc, judged, verdict>>
        /\ (scanStatus = "DELETED" <=> scanStatus' = "DELETED")
        /\ (scanStatus' = "COMPLETED" => UNCHANGED <<scanStatus, covered>>)
    BY <1>4 DEF CreateScan, SubmitStart, slotVars, evalVars, ScanExists
  <2> QED BY <2>1 DEF VerdictsCurrent, CompletedCoversSuccess
<1>5. ASSUME NEW s \in Slots, EvaluateJudge(s) PROVE VerdictsKept'
  <2>1. UNCHANGED <<taskStatus, scanStatus, covered>>
    BY <1>5 DEF EvaluateJudge, dbVars
  <2>2. \A u \in Slots : u # s => pc'[u] = pc[u] /\ judged'[u] = judged[u] /\ verdict'[u] = verdict[u]
    BY <1>5 DEF EvaluateJudge, Goto, TypeOK, SlotTypeOK
  <2>3. verdict'[s] = "COMPLETED" => judged'[s] # {} /\ \A t \in judged'[s] : taskStatus[t] = "SUCCESS"
    BY <1>5 DEF EvaluateJudge, TypeOK, SlotTypeOK
  <2> QED BY <2>1, <2>2, <2>3 DEF VerdictsCurrent, CompletedCoversSuccess
<1>6. ASSUME NEW s \in Slots, AfterSave(s)
      PROVE  /\ pc'[s] # "conclude"
             /\ \A u \in Slots : u # s =>
                  pc'[u] = pc[u] /\ judged'[u] = judged[u] /\ verdict'[u] = verdict[u]
  BY <1>6 DEF AfterSave, Release, ForgetRead, Goto, TypeOK, SlotTypeOK
<1>7. ASSUME NEW s \in Slots, EvaluateCommit(s) PROVE VerdictsKept'
  <2>1. scanStatus' # "DELETED" /\ scanStatus # "DELETED" /\ UNCHANGED taskStatus
    BY <1>7 DEF EvaluateCommit, ScanExists, TypeOK, SlotTypeOK, Final
  <2>2. VerdictsCurrent'
    BY <1>6, <1>7, <2>1 DEF EvaluateCommit, VerdictsCurrent
  <2>3. CompletedCoversSuccess'
    BY <1>7, <2>1 DEF EvaluateCommit, VerdictsCurrent, CompletedCoversSuccess
  <2> QED BY <2>2, <2>3
<1>8. ASSUME NEW s \in Slots, SaveFails(s) \/ EvaluateLeave(s) PROVE VerdictsKept'
  <2>1. UNCHANGED <<taskStatus, scanStatus, covered>>
    BY <1>8 DEF SaveFails, EvaluateLeave, dbVars
  <2> QED
    BY <1>6, <1>8, <2>1 DEF SaveFails, EvaluateLeave, VerdictsCurrent, CompletedCoversSuccess
<1>9. CASE UNCHANGED <<scanStatus, covered, judged, verdict>> /\ ~DeleteScan
           /\ \A u \in Slots : pc'[u] = pc[u] \/ pc'[u] # "conclude"
  BY <1>2, <1>9 DEF VerdictsCurrent, CompletedCoversSuccess, TypeOK, DbTypeOK, SlotTypeOK
<1>10. CASE Crash
  <2>1. UNCHANGED dbVars
        /\ \A u \in Slots : \/ pc'[u] = "free"
                            \/ pc'[u] = pc[u] /\ judged'[u] = judged[u] /\ verdict'[u] = verdict[u]
    BY <1>10 DEF Crash, Release, ForgetRead, TypeOK, SlotTypeOK
  <2> QED BY <2>1 DEF dbVars, VerdictsCurrent, CompletedCoversSuccess
<1>11. CASE UNCHANGED vars
  BY <1>1, <1>3, <1>11 DEF vars, dbVars, slotVars, evalVars
<1>12. ASSUME NEW r \in Requests,
              SubmitLoad(r) \/ SubmitStore(r) \/ SubmitPublish(r) \/ SubmitAbort(r)
       PROVE  VerdictsKept'
  BY <1>1, <1>3, <1>12 DEF SubmitLoad, SubmitStore, SubmitPublish, SubmitAbort, dbVars, slotVars, evalVars
<1>13. ASSUME NEW e \in Engines, ReadDelayed(e) \/ MoveDelayed(e) \/ PopLost(e)
       PROVE  VerdictsKept'
  BY <1>1, <1>3, <1>13 DEF ReadDelayed, MoveDelayed, PopLost, dbVars, slotVars, evalVars
<1>14. ASSUME NEW s \in Slots,
              \/ Pop(s) \/ MarkProcessing(s) \/ Throttle(s) \/ Execute(s) \/ SaveLoad(s)
              \/ SaveCommit(s) \/ EvaluateLoad(s) \/ Retry(s) \/ Schedule(s) \/ Exhaust(s)
              \/ DeadLetter(s)
       PROVE  VerdictsKept'
  <2>1. UNCHANGED <<scanStatus, covered, judged, verdict>>
    BY <1>14 DEF Pop, MarkProcessing, Throttle, Execute, SaveLoad, SaveCommit, EvaluateLoad,
                 Retry, Schedule, Exhaust, DeadLetter, dbVars, evalVars
  <2>2. \A u \in Slots : pc'[u] = pc[u] \/ pc'[u] # "conclude"
    BY <1>14 DEF Pop, MarkProcessing, Throttle, Execute, SaveLoad, SaveCommit, EvaluateLoad,
                 Retry, Schedule, Exhaust, DeadLetter, Goto, Release, TypeOK, SlotTypeOK
  <2> QED BY <1>1, <1>9, <2>1, <2>2
<1> QED
  BY <1>1, <1>4, <1>5, <1>7, <1>8, <1>10, <1>11, <1>12, <1>13, <1>14
     DEF Next, SubmitStep, Coroutine

\* A scan the API shows as COMPLETED rests on successes that are still there:
\* the read-then-write of _evaluate_scan_completion cannot be overtaken.
THEOREM CompletedCorrect == ASSUME SingleConsumer PROVE Spec => []CompletedCoversSuccess
<1>1. Init => VerdictsKept
  BY DEF Init, VerdictsKept, VerdictsCurrent, CompletedCoversSuccess
<1>2. TypeOK /\ Custody /\ SuccessUncarried /\ VerdictsKept /\ [Next]_vars => VerdictsKept'
  BY SuccessKeptStep, VerdictsStep
<1>3. VerdictsKept => CompletedCoversSuccess
  BY DEF VerdictsKept
<1> QED BY <1>1, <1>2, <1>3, SuccessCorrect, PTL DEF Spec

----------------------------------------------------------------------------
(* The retry budget.  The attempt counter a payload carries bounds what    *)
(* was spent on its task.                                                  *)

\* Spending on task t is unchanged.
SameSpent(t) == calls'[t] = calls[t] /\ attempts'[t] = attempts[t]

LEMMA BudgetInit == Init => BudgetKept
<1> SUFFICES ASSUME Init PROVE BudgetKept
  OBVIOUS
<1>1. InQueue = {} /\ Busy = {}
  BY DEF Init, InQueue, InReady, Busy
<1>2. \A t \in Tasks : MaxRetries[t] \in Nat
  BY RetriesAssumption
<1> QED BY <1>1, <1>2 DEF Init, BudgetKept, RetryBudget, Spent

LEMMA Numbers ==
  ASSUME TypeOK
  PROVE  /\ \A t \in Tasks : calls[t] \in Nat /\ attempts[t] \in Nat /\ MaxRetries[t] \in Nat
         /\ \A s \in Busy : /\ s \in Slots /\ JobTask(s) \in Tasks
                            /\ job[s].attempt \in Nat /\ job[s].task = JobTask(s)
         /\ \A s \in Slots : row[s].attempts \in Nat
         /\ \A p \in InQueue : p.task \in Tasks /\ p.attempt \in Nat
BY BusyJob, RetriesAssumption
   DEF TypeOK, DbTypeOK, SlotTypeOK, RedisTypeOK, Busy, InQueue, InReady, Payload, JobTask

\* Steps that spend nothing, hand out nothing new and leave the running
\* coroutines where they are, or further along.
LEMMA NothingSpent ==
  ASSUME TypeOK, BudgetKept, UNCHANGED <<calls, attempts>>,
         \A t \in Tasks : Unpublished(t)' => Unpublished(t),
         \A p \in InQueue' \ InQueue : p.attempt <= MaxRetries[p.task] /\ Spent(p.task, p.attempt),
         \A s \in Busy' : BudgetOf(s)'
  PROVE  BudgetKept'
BY DEF BudgetKept, RetryBudget, Spent

LEMMA IdleBudget ==
  ASSUME TypeOK, BudgetKept, UNCHANGED <<calls, attempts, pc, job, row>>
  PROVE  \A s \in Busy' : BudgetOf(s)'
BY DEF Busy, BudgetKept, BudgetOf, Spent, JobTask

LEMMA SubmitBudget ==
  ASSUME TypeOK, Custody, BudgetKept, NEW r \in Requests,
         SubmitLoad(r) \/ SubmitStep(r) \/ SubmitAbort(r)
  PROVE  BudgetKept'
<1>1. UNCHANGED <<calls, attempts, pc, job, row, delayed>>
  BY DEF SubmitLoad, SubmitStep, SubmitStart, SubmitStore, SubmitPublish, SubmitAbort,
         dbVars, redisVars, slotVars
<1>2. /\ request[r] # "done" /\ (request[r] = "idle" \/ batch'[r] = batch[r])
      /\ \A u \in Requests : u # r => request'[u] = request[u] /\ batch'[u] = batch[u]
  BY DEF SubmitLoad, SubmitStep, SubmitStart, SubmitStore, SubmitPublish, SubmitAbort, TypeOK, ApiTypeOK
<1>3. \A t \in Tasks : Unpublished(t)' => Unpublished(t)
  BY <1>2 DEF Unpublished
<1>4. \A p \in InQueue' \ InQueue : p.attempt <= MaxRetries[p.task] /\ Spent(p.task, p.attempt)
  <2>1. CASE ready' = ready
    BY <1>1, <2>1 DEF InQueue, InReady
  <2>2. CASE SubmitPublish(r) /\ ready' = Pushed({[task |-> t, attempt |-> 0] : t \in batch[r]})
    <3>1. \A p \in InQueue' \ InQueue : p.attempt = 0 /\ p.task \in batch[r]
      BY <1>1, <2>2 DEF InQueue, InReady, Pushed, TypeOK, RedisTypeOK
    <3>2. \A t \in batch[r] : t \in Tasks /\ Unpublished(t)
      BY <2>2 DEF SubmitPublish, TypeOK, ApiTypeOK, Custody, BatchesDisjoint, Unpublished
    <3> QED BY <3>1, <3>2, RetriesAssumption DEF BudgetKept
  <2> QED
    BY <2>1, <2>2 DEF SubmitLoad, SubmitStep, SubmitStart, SubmitStore, SubmitPublish,
                      SubmitAbort, redisVars
<1> QED BY <1>1, <1>3, <1>4, NothingSpent, IdleBudget

LEMMA OtherBudget ==
  ASSUME SingleConsumer, TypeOK, Custody, BudgetKept,
         \/ CreateScan \/ DeleteScan \/ Crash
         \/ \E e \in Engines : ReadDelayed(e) \/ MoveDelayed(e) \/ PopLost(e)
  PROVE  BudgetKept'
<1>1. UNCHANGED <<apiVars, calls, attempts>>
  BY DEF CreateScan, DeleteScan, ReadDelayed, MoveDelayed, PopLost, Crash, dbVars
<1>2. \A t \in Tasks : Unpublished(t)' => Unpublished(t)
  BY <1>1 DEF Unpublished, apiVars
<1>3. InQueue' \subseteq InQueue
  <2>1. CASE UNCHANGED redisVars
    BY <2>1 DEF InQueue, InReady, redisVars
  <2>2. ASSUME NEW e \in Engines, MoveDelayed(e) PROVE InQueue' \subseteq InQueue
    BY <2>2 DEF MoveDelayed, InQueue, InReady, Pushed, Custody, SnapshotsCurrent, TypeOK, RedisTypeOK
  <2>3. ASSUME NEW e \in Engines, PopLost(e) PROVE InQueue' \subseteq InQueue
    BY <2>3 DEF PopLost, InQueue, InReady, TypeOK, RedisTypeOK
  <2> QED BY <2>1, <2>2, <2>3 DEF CreateScan, DeleteScan, ReadDelayed, Crash
<1>4. \A s \in Busy' : BudgetOf(s)'
  <2>1. CASE Crash
    <3>1. \A s \in Busy' : s \in Busy /\ pc'[s] = pc[s] /\ job'[s] = job[s] /\ row'[s] = row[s]
      BY <2>1 DEF Crash, Release, ForgetRead, Busy, TypeOK, SlotTypeOK
    <3> QED BY <1>1, <3>1 DEF BudgetKept, BudgetOf, Spent, JobTask
  <2>2. CASE UNCHANGED slotVars
    BY <1>1, <2>2, IdleBudget DEF slotVars
  <2> QED BY <2>1, <2>2 DEF CreateScan, DeleteScan, ReadDelayed, MoveDelayed, PopLost
<1> QED BY <1>1, <1>2, <1>3, <1>4, NothingSpent

LEMMA PopBudget ==
  ASSUME TypeOK, Custody, BudgetKept, NEW s \in Slots, Pop(s)
  PROVE  BudgetKept'
<1>1. PICK p \in Payload : /\ ready[p] > 0
                           /\ ready' = [ready EXCEPT ![p] = @ - 1]
                           /\ job' = [job EXCEPT ![s] = p]
  BY DEF Pop
<1>2. UNCHANGED <<apiVars, calls, attempts, delayed, row>>
  BY DEF Pop, dbVars
<1>3. InQueue' \subseteq InQueue /\ p \in InQueue
  BY <1>1, <1>2 DEF InQueue, InReady, TypeOK, RedisTypeOK
<1>4. \A u \in Busy' \ {s} : u \in Busy /\ pc'[u] = pc[u] /\ job'[u] = job[u]
  BY <1>1 DEF Pop, Busy, TypeOK, SlotTypeOK
<1>5. \A u \in Busy' \ {s} : BudgetOf(u)'
  BY <1>2, <1>4 DEF BudgetKept, BudgetOf, Spent, JobTask
<1>6. pc'[s] = "popped" /\ job'[s] = p
  BY <1>1 DEF Pop, TypeOK, SlotTypeOK
<1>7. BudgetOf(s)'
  BY <1>2, <1>3, <1>6, Numbers DEF BudgetKept, BudgetOf, Spent, JobTask
<1>8. \A t \in Tasks : Unpublished(t)' => Unpublished(t)
  BY <1>2 DEF Unpublished, apiVars
<1> QED BY <1>2, <1>3, <1>5, <1>7, <1>8, NothingSpent

\* A coroutine spends on its own task only, and nobody else carries that one.
LEMMA CoroutineBudget ==
  ASSUME TypeOK, Custody, BudgetKept, NEW s \in Slots, Coroutine(s)
  PROVE  BudgetKept'
<1> DEFINE t == JobTask(s)  n == job[s].attempt
<1>1. pc[s] # "free" /\ UNCHANGED <<apiVars, ready>>
  BY DEF Coroutine, MarkProcessing, Throttle, Execute, SaveLoad, SaveCommit, SaveFails,
    EvaluateLoad, EvaluateJudge, EvaluateCommit, EvaluateLeave, Retry, Schedule, Exhaust,
    DeadLetter, redisVars
<1>2. s \in Busy /\ t \in Tasks /\ n \in Nat /\ BudgetOf(s)
  BY <1>1, Numbers DEF Busy, BudgetKept
<1>3. \A u \in Slots : u # s => pc'[u] = pc[u] /\ job'[u] = job[u] /\ row'[u] = row[u]
  BY DEF Coroutine, MarkProcessing, Throttle, Execute, SaveLoad, SaveCommit, SaveFails,
    EvaluateLoad, EvaluateJudge, EvaluateCommit, EvaluateLeave, Retry, Schedule, Exhaust,
    DeadLetter, AfterSave, ForgetRead, Release, Goto, TypeOK, SlotTypeOK
<1>4. \A o \in Tasks : o # t => SameSpent(o)
  BY DEF Coroutine, MarkProcessing, Throttle, Execute, SaveLoad, SaveCommit, SaveFails,
    EvaluateLoad, EvaluateJudge, EvaluateCommit, EvaluateLeave, Retry, Schedule, Exhaust,
    DeadLetter, dbVars, SameSpent, TypeOK, DbTypeOK
<1>5. \A u \in Busy' \ {s} : BudgetOf(u)'
  <2> SUFFICES ASSUME NEW u \in Busy' \ {s} PROVE BudgetOf(u)'
    OBVIOUS
  <2>1. u \in Busy /\ pc'[u] = pc[u] /\ job'[u] = job[u] /\ row'[u] = row[u]
    BY <1>3 DEF Busy
  <2>2. JobTask(u) \in Tasks /\ SameSpent(JobTask(u))
    BY <1>1, <1>4, <2>1, JobAlone, Numbers
  <2> QED BY <2>1, <2>2 DEF BudgetKept, BudgetOf, Spent, SameSpent, JobTask
<1>6. \A p \in InQueue : SameSpent(p.task)
  BY <1>1, <1>4, JobAlone, Numbers
<1>7. \A o \in Tasks : Unpublished(o)' => Unpublished(o) /\ SameSpent(o)
  BY <1>1, <1>4, JobAlone DEF Unpublished, apiVars
<1>8. /\ calls'[t] <= MaxRetries[t] + 1 /\ attempts'[t] <= MaxRetries[t] + 1
      /\ s \in Busy' => BudgetOf(s)'
  <2> USE <1>1, <1>2, Numbers DEF BudgetOf, Spent
  <2>1. CASE Execute(s)
    BY <2>1 DEF Execute, Goto, JobTask, dbVars, TypeOK, DbTypeOK, SlotTypeOK
  <2>2. CASE SaveCommit(s)
    BY <2>2 DEF SaveCommit, Goto, JobTask, TypeOK, DbTypeOK, SlotTypeOK
  <2>3. CASE Retry(s)
    <3>1. job'[s].attempt = n + 1 /\ JobTask(s)' = t /\ n + 1 <= MaxRetries[t] /\ pc'[s] = "schedule"
      BY <2>3, BusyJob DEF Retry, HasRetries, Goto, TypeOK, SlotTypeOK, JobTask, Payload
    <3> QED BY <2>3, <3>1 DEF Retry
  <2>4. CASE SaveLoad(s)
    BY <2>4 DEF SaveLoad, Goto, JobTask, dbVars, TypeOK, DbTypeOK, SlotTypeOK
  <2>5. CASE AfterSave(s) /\ UNCHANGED <<calls, attempts>>
    BY <2>5 DEF AfterSave, Release, ForgetRead, Goto, JobTask, Busy, TypeOK, SlotTypeOK
  <2>6. CASE Release({s}) /\ UNCHANGED <<calls, attempts>>
    BY <2>6 DEF Release, Busy, TypeOK, SlotTypeOK
  <2>7. CASE MarkProcessing(s) \/ Throttle(s) \/ EvaluateLoad(s) \/ EvaluateJudge(s) \/ Exhaust(s)
    BY <2>7 DEF MarkProcessing, Throttle, EvaluateLoad, EvaluateJudge, Exhaust, Goto, JobTask,
                dbVars, TypeOK, SlotTypeOK
  <2> QED
    BY <2>1, <2>2, <2>3, <2>4, <2>5, <2>6, <2>7
       DEF Coroutine, SaveFails, EvaluateCommit, EvaluateLeave, Schedule, DeadLetter, dbVars
<1>9. \A p \in InQueue' \ InQueue :
        p.attempt <= MaxRetries[p.task] /\ Spent(p.task, p.attempt) /\ SameSpent(p.task)
  <2>1. CASE Schedule(s) /\ delayed' = delayed \cup {job[s]}
    <3>1. InQueue' = InQueue \cup {job[s]} /\ UNCHANGED <<calls, attempts>>
      BY <1>1, <2>1 DEF Schedule, InQueue, InReady, dbVars
    <3>2. job[s].task = t /\ n <= MaxRetries[t] /\ Spent(t, n)
      BY <1>2, <2>1 DEF BudgetOf, Schedule, JobTask
    <3> QED BY <3>1, <3>2 DEF SameSpent
  <2>2. CASE UNCHANGED delayed
    BY <1>1, <2>2 DEF InQueue, InReady
  <2> QED
    BY <2>1, <2>2 DEF Coroutine, MarkProcessing, Throttle, Execute, SaveLoad, SaveCommit, SaveFails,
      EvaluateLoad, EvaluateJudge, EvaluateCommit, EvaluateLeave, Retry, Schedule, Exhaust,
      DeadLetter, redisVars
<1>10. RetryBudget'
  BY <1>4, <1>8 DEF BudgetKept, RetryBudget, SameSpent
<1>11. \A o \in Tasks : Unpublished(o)' => Spent(o, 0)'
  BY <1>7 DEF BudgetKept, Spent, SameSpent
<1>12. \A p \in InQueue' : p.attempt <= MaxRetries[p.task] /\ Spent(p.task, p.attempt)'
  BY <1>6, <1>9 DEF BudgetKept, Spent, SameSpent
<1> QED BY <1>5, <1>8, <1>10, <1>11, <1>12 DEF BudgetKept

LEMMA BudgetStep ==
  ASSUME SingleConsumer, TypeOK, Custody, BudgetKept, [Next]_vars
  PROVE  BudgetKept'
<1>1. CASE UNCHANGED vars
  <2>1. UNCHANGED <<calls, attempts, pc, job, row, batch, request, ready, delayed>>
    BY <1>1 DEF vars, dbVars, slotVars, apiVars, redisVars
  <2>2. \A s \in Busy' : BudgetOf(s)'
    BY <2>1, IdleBudget
  <2> QED BY <2>1, <2>2, NothingSpent DEF Unpublished, InQueue, InReady
<1> QED BY <1>1, SubmitBudget, OtherBudget, PopBudget, CoroutineBudget DEF Next

\* Whatever fails or is retried, the worker sends a task to its target, and
\* counts it in tasks.attempts, at most retry_count + 1 times.
THEOREM RetryBudgetCorrect == ASSUME SingleConsumer PROVE Spec => []RetryBudget
<1>1. Init => TypeOK /\ Custody /\ BudgetKept
  BY TypeInit, CustodyInit, BudgetInit
<1>2. TypeOK /\ Custody /\ BudgetKept /\ [Next]_vars => (TypeOK /\ Custody /\ BudgetKept)'
  BY TypeStep, CustodyStep, BudgetStep
<1>3. TypeOK /\ Custody /\ BudgetKept => RetryBudget
  BY DEF BudgetKept
<1> QED BY <1>1, <1>2, <1>3, PTL DEF Spec

----------------------------------------------------------------------------
(* All of it *)

\* The invariant TLC checks is inductive: custody, what is recorded, the verdicts
\* about to be committed and the attempts spent hold together in every state.
THEOREM IInvCorrect == ASSUME SingleConsumer PROVE Spec => []IInv
<1>1. Init => IInv
  BY TypeInit, CustodyInit, SuccessInit, BudgetInit
     DEF Init, IInv, VerdictsCurrent, CompletedCoversSuccess
<1>2. IInv /\ [Next]_vars => IInv'
  <2> SUFFICES ASSUME IInv, [Next]_vars PROVE IInv'
    OBVIOUS
  <2>1. TypeOK' /\ Custody' /\ SuccessUncarried' /\ BudgetKept'
    BY TypeStep, CustodyStep, SuccessStep, BudgetStep DEF IInv
  <2>2. VerdictsKept'
    BY SuccessKeptStep, VerdictsStep DEF IInv, VerdictsKept
  <2> QED BY <2>1, <2>2 DEF IInv, VerdictsKept
<1> QED BY <1>1, <1>2, PTL DEF Spec

----------------------------------------------------------------------------
(* The queue and the engine keep the promise of TaskDelivery *)

Inv == TypeOK /\ Custody /\ SuccessUncarried /\ BudgetKept

----------------------------------------------------------------------------
(* Reading the fate of a task off the state *)

LEMMA Fates ==
  ASSUME NEW t \in Tasks
  PROVE  /\ taskStatus[t] = "SUCCESS" => FateOf(t) = "done"
         /\ taskStatus[t] # "SUCCESS" /\ Buried(t) => FateOf(t) = "dead"
         /\ taskStatus[t] # "SUCCESS" /\ ~Buried(t) /\ Live(t) => FateOf(t) = "held"
         /\ taskStatus[t] # "SUCCESS" /\ ~Buried(t) /\ ~Live(t) /\ NotStored(t) => FateOf(t) = "absent"
         /\ taskStatus[t] # "SUCCESS" /\ ~Buried(t) /\ ~Live(t) /\ ~NotStored(t) => FateOf(t) = "gone"
BY DEF FateOf

LEMMA FatesAfter ==
  ASSUME NEW t \in Tasks
  PROVE  /\ taskStatus'[t] = "SUCCESS" => FateOf(t)' = "done"
         /\ taskStatus'[t] # "SUCCESS" /\ Buried(t)' => FateOf(t)' = "dead"
         /\ taskStatus'[t] # "SUCCESS" /\ ~Buried(t)' /\ Live(t)' => FateOf(t)' = "held"
         /\ taskStatus'[t] # "SUCCESS" /\ ~Buried(t)' /\ ~Live(t)' /\ NotStored(t)' => FateOf(t)' = "absent"
         /\ taskStatus'[t] # "SUCCESS" /\ ~Buried(t)' /\ ~Live(t)' /\ ~NotStored(t)' => FateOf(t)' = "gone"
BY DEF FateOf

Kept(t) ==
  /\ taskStatus'[t] = "SUCCESS" <=> taskStatus[t] = "SUCCESS"
  /\ Buried(t)' <=> Buried(t)
  /\ Live(t)' <=> Live(t)
  /\ NotStored(t)' <=> NotStored(t)

LEMMA KeptFate ==
  ASSUME NEW t \in Tasks, Kept(t) PROVE FateOf(t)' = FateOf(t)
BY DEF Kept, FateOf

\* A success has no other claim on its task.
LEMMA SuccessFate ==
  ASSUME Inv, NEW t \in Tasks, taskStatus[t] = "SUCCESS"
  PROVE  ~Buried(t) /\ ~Live(t) /\ ~NotStored(t)
<1>1. ~Buried(t) /\ ~NotStored(t)
  BY DEF Inv, SuccessUncarried, Buried, NotStored, Unpublished
<1>2. \A r \in Requests : t \in batch[r] => request[r] # "stored"
  BY BatchUnpublished DEF Inv, SuccessUncarried
<1> QED BY <1>1, <1>2 DEF Inv, SuccessUncarried, Live

\* A submission that has not published holds its tasks alone.
LEMMA BatchFate ==
  ASSUME Inv, NEW r \in Requests, request[r] # "done", NEW t \in batch[r]
  PROVE  /\ t \in Tasks /\ taskStatus[t] # "SUCCESS" /\ ~Buried(t)
         /\ \A u \in Requests : t \in batch[u] => u = r
         /\ Live(t) <=> request[r] = "stored"
<1>1. t \in Tasks /\ Unpublished(t)
  BY BatchUnpublished DEF Inv
<1>2. \A u \in Requests : t \in batch[u] => u = r
  BY <1>1 DEF Inv, Custody, BatchesDisjoint
<1>3. (\A p \in InQueue \cup dlq : p.task # t) /\ \A s \in Busy : JobTask(s) # t
  BY <1>1 DEF Inv, Custody, UnpublishedNowhere
<1> QED BY <1>1, <1>2, <1>3 DEF Inv, SuccessUncarried, Live, Buried

\* A coroutine with its work before it holds its task alone.
LEMMA JobFate ==
  ASSUME Inv, NEW s \in Slots, pc[s] # "free", ~Recorded(s)
  PROVE  /\ JobTask(s) \in Tasks /\ taskStatus[JobTask(s)] # "SUCCESS"
         /\ ~Buried(JobTask(s)) /\ Live(JobTask(s)) /\ FateOf(JobTask(s)) = "held"
<1>1. JobTask(s) \in Tasks /\ taskStatus[JobTask(s)] # "SUCCESS" /\ ~Buried(JobTask(s))
  BY JobAlone, UnrecordedJob DEF Inv, Buried
<1>2. Live(JobTask(s))
  BY DEF Live, Busy
<1> QED BY <1>1, <1>2, Fates

\* Payloads in a queue, too.
LEMMA QueueFate ==
  ASSUME Inv, NEW p \in InQueue
  PROVE  /\ p.task \in Tasks /\ taskStatus[p.task] # "SUCCESS"
         /\ ~Buried(p.task) /\ Live(p.task) /\ FateOf(p.task) = "held" /\ ~NotStored(p.task)
<1>1. p.task \in Tasks /\ taskStatus[p.task] # "SUCCESS" /\ ~Buried(p.task) /\ ~NotStored(p.task)
  BY TasksOfPayloads DEF Inv, SuccessUncarried, Custody, DeadUncarried, UnpublishedNowhere, Buried,
                         NotStored, Unpublished
<1>2. Live(p.task)
  BY DEF Live
<1> QED BY <1>1, <1>2, Fates

----------------------------------------------------------------------------
(* Steps of the abstract specification *)

\* Exactly the tasks of T change their fate.
Moves(T, fate) ==
  /\ T \subseteq Tasks
  /\ \A t \in T : FateOf(t)' = fate
  /\ \A t \in Tasks \ T : FateOf(t)' = FateOf(t)
  /\ UNCHANGED calls

LEMMA MovesBecome ==
  ASSUME NEW T, NEW fate, Moves(T, fate) PROVE Delivery!Become(T, fate)
BY DEF Moves, Delivery!Become, Fate

LEMMA LoseStep ==
  ASSUME NEW T, Moves(T, "gone"), \A t \in T : FateOf(t) \in {"absent", "held"}
  PROVE  Delivery!Next
<1>1. T \in SUBSET (Delivery!In("absent") \cup Delivery!In("held"))
  BY DEF Moves, Delivery!In, Fate
<1>2. Delivery!Become(T, "gone") /\ UNCHANGED calls
  BY MovesBecome DEF Moves
<1> QED BY <1>1, <1>2 DEF Delivery!Next, Delivery!Lose

LEMMA SubmitsStep ==
  ASSUME NEW T, Moves(T, "held"), \A t \in T : FateOf(t) = "absent"
  PROVE  Delivery!Next
<1>1. T \in SUBSET Delivery!In("absent")
  BY DEF Moves, Delivery!In, Fate
<1>2. Delivery!Become(T, "held") /\ UNCHANGED calls
  BY MovesBecome DEF Moves
<1> QED BY <1>1, <1>2 DEF Delivery!Next, Delivery!Submit

LEMMA EndStep ==
  ASSUME NEW t \in Tasks, FateOf(t) = "held", Moves({t}, "done") \/ Moves({t}, "dead")
  PROVE  Delivery!Next
<1>1. t \in Delivery!In("held")
  BY DEF Delivery!In, Fate
<1>2. (Delivery!Become({t}, "done") \/ Delivery!Become({t}, "dead")) /\ UNCHANGED calls
  BY MovesBecome DEF Moves
<1> QED BY <1>1, <1>2 DEF Delivery!Next, Delivery!Succeed, Delivery!Bury

LEMMA StutterStep ==
  ASSUME UNCHANGED calls, \A t \in Tasks : FateOf(t)' = FateOf(t)
  PROVE  UNCHANGED Delivery!vars
BY DEF Delivery!vars, Fate

----------------------------------------------------------------------------
(* The API handlers *)

LEMMA DeleteFate == Inv /\ DeleteScan => [Delivery!Next]_(Delivery!vars)
<1> SUFFICES ASSUME Inv, DeleteScan PROVE Delivery!Next
  OBVIOUS
<1> DEFINE T == {t \in Tasks : taskStatus[t] = "SUCCESS"}
<1>1. UNCHANGED <<calls, request, batch, ready, delayed, dlq, pc, job, outcome>>
      /\ \A t \in Tasks : taskStatus'[t] # "SUCCESS"
  BY DEF DeleteScan, apiVars, redisVars, slotVars, Exists, TaskStatus, Pending
<1>2. \A t \in Tasks : (Buried(t)' <=> Buried(t)) /\ (Live(t)' <=> Live(t)) /\ (NotStored(t)' <=> NotStored(t))
  BY <1>1 DEF Buried, Live, NotStored, InQueue, InReady, Busy, JobTask, Recorded
<1>3. \A t \in T : FateOf(t)' = "gone" /\ FateOf(t) = "done"
  BY <1>1, <1>2, SuccessFate, Fates, FatesAfter
<1>4. \A t \in Tasks \ T : FateOf(t)' = FateOf(t) /\ FateOf(t) # "done"
  BY <1>1, <1>2, Fates, KeptFate DEF Kept, FateOf
<1>5. T = Delivery!In("done")
  BY <1>3, <1>4 DEF Delivery!In, Fate
<1>6. Delivery!Become(T, "gone")
  BY <1>1, <1>3, <1>4, MovesBecome DEF Moves
<1> QED BY <1>1, <1>5, <1>6 DEF Delivery!Next, Delivery!Erase

LEMMA SubmitFate ==
  ASSUME Inv, NEW r \in Requests, SubmitLoad(r) \/ SubmitStep(r) \/ SubmitAbort(r)
  PROVE  [Delivery!Next]_(Delivery!vars)
<1> USE DEF Inv
<1>1. UNCHANGED <<calls, delayed, dlq, pc, job, outcome>> /\ Busy' = Busy
  BY SlotsIdle DEF SubmitLoad, SubmitStep, SubmitStart, SubmitStore, SubmitPublish, SubmitAbort,
                   redisVars, slotVars
<1>2. \A u \in Requests : u # r => request'[u] = request[u] /\ batch'[u] = batch[u]
  BY DEF SubmitLoad, SubmitStep, SubmitStart, SubmitStore, SubmitPublish, SubmitAbort, TypeOK, ApiTypeOK
<1>3. \A t \in Tasks : Buried(t)' <=> Buried(t)
  BY <1>1 DEF Buried
<1>4. request[r] # "done"
  BY DEF SubmitLoad, SubmitStep, SubmitStart, SubmitStore, SubmitPublish, SubmitAbort
<1>5. CASE UNCHANGED ready
  <2>1. InQueue' = InQueue
    BY <1>1, <1>5 DEF InQueue, InReady
  <2>2. CASE SubmitLoad(r) \/ (SubmitStart(r) /\ request'[r] = "started")
    <3>1. request[r] \in {"idle", "loaded"} /\ request'[r] \in {"loaded", "started"}
          /\ UNCHANGED taskStatus
      BY <2>2 DEF SubmitLoad, SubmitStart, dbVars, TypeOK, ApiTypeOK
    <3>2. \A t \in Tasks : Kept(t)
      BY <1>1, <1>2, <1>3, <2>1, <3>1 DEF Kept, Live, NotStored, JobTask, Recorded
    <3> QED BY <1>1, <3>2, KeptFate, StutterStep
  <2>3. CASE request'[r] \in {"stored", "aborted", "done"} /\ ~SubmitLoad(r)
    <3>1. UNCHANGED batch /\ request[r] \in {"loaded", "started", "stored"}
      BY <2>3 DEF SubmitStep, SubmitStart, SubmitStore, SubmitPublish, SubmitAbort
    <3>2. \A t \in Tasks : taskStatus'[t] = "SUCCESS" <=> taskStatus[t] = "SUCCESS"
      BY <2>3, BatchFate DEF SubmitStep, SubmitStart, SubmitStore, SubmitPublish, SubmitAbort, dbVars
    <3>3. \A t \in Tasks \ batch[r] : Kept(t)
      BY <1>1, <1>2, <1>3, <2>1, <3>1, <3>2 DEF Kept, Live, NotStored, JobTask, Recorded
    <3>4. \A t \in batch[r] : /\ t \in Tasks /\ taskStatus[t] # "SUCCESS" /\ ~Buried(t)
                              /\ \A u \in Requests : t \in batch[u] => u = r
                              /\ Live(t) <=> request[r] = "stored"
                              /\ \A p \in InQueue : p.task # t
                              /\ \A s \in Busy : JobTask(s) # t
      BY <1>4, BatchFate, BatchUnpublished DEF Custody, UnpublishedNowhere
    <3>5. \A t \in batch[r] : Live(t)' <=> request'[r] = "stored"
      BY <1>1, <1>2, <2>1, <3>1, <3>4 DEF Live, JobTask
    <3>6. \A t \in batch[r] : ~NotStored(t)'
      BY <2>3, <3>1 DEF NotStored
    <3>7. \A t \in batch[r] : NotStored(t) <=> request[r] \in {"loaded", "started"}
      BY <3>1, <3>4 DEF NotStored
    <3>8. \A t \in batch[r] : FateOf(t) \in {"absent", "held"}
                              /\ (FateOf(t) = "absent" <=> request[r] \in {"loaded", "started"})
      BY <3>1, <3>4, <3>7, Fates
    <3>9. CASE request'[r] = "stored"
      <4>1. request[r] = "started"
        BY <3>9 DEF SubmitLoad, SubmitStep, SubmitStart, SubmitStore, SubmitPublish, SubmitAbort,
                    TypeOK, ApiTypeOK
      <4>2. \A t \in batch[r] : FateOf(t)' = "held"
        BY <1>3, <3>2, <3>4, <3>5, <3>9, FatesAfter
      <4>3. Moves(batch[r], "held")
        BY <1>1, <3>3, <3>4, <4>2, KeptFate DEF Moves
      <4> QED BY <3>8, <4>1, <4>3, SubmitsStep
    <3>10. CASE request'[r] # "stored"
      <4>1. \A t \in batch[r] : FateOf(t)' = "gone"
        BY <1>3, <3>2, <3>4, <3>5, <3>6, <3>10, FatesAfter
      <4>2. Moves(batch[r], "gone")
        BY <1>1, <3>3, <3>4, <4>1, KeptFate DEF Moves
      <4> QED BY <3>8, <4>2, LoseStep
    <3> QED BY <3>9, <3>10
  <2>4. \/ SubmitLoad(r) \/ (SubmitStart(r) /\ request'[r] = "started")
        \/ ~SubmitLoad(r) /\ request'[r] \in {"stored", "aborted", "done"}
    <3>1. CASE SubmitLoad(r)
      BY <3>1
    <3>2. CASE SubmitStart(r)
      BY <3>2 DEF SubmitStart, SubmitLoad, TypeOK, ApiTypeOK
    <3>3. CASE SubmitStore(r) \/ SubmitPublish(r) \/ SubmitAbort(r)
      <4>1. request[r] # "idle"
        BY <3>3 DEF SubmitStore, SubmitPublish, SubmitAbort
      <4>2. request'[r] \in {"stored", "aborted", "done"}
        <5>1. CASE SubmitStore(r)
          BY <5>1 DEF SubmitStore, TypeOK, ApiTypeOK
        <5>2. CASE SubmitPublish(r)
          BY <5>2 DEF SubmitPublish, TypeOK, ApiTypeOK
        <5>3. CASE SubmitAbort(r)
          BY <5>3 DEF SubmitAbort, TypeOK, ApiTypeOK
        <5> QED BY <3>3, <5>1, <5>2, <5>3
      <4> QED BY <4>1, <4>2 DEF SubmitLoad
    <3> QED BY <3>1, <3>2, <3>3 DEF SubmitStep
  <2> QED BY <2>2, <2>3, <2>4
<1>6. CASE SubmitPublish(r) /\ ready' = Pushed({[task |-> t, attempt |-> 0] : t \in batch[r]})
  <2> DEFINE P == {[task |-> t, attempt |-> 0] : t \in batch[r]}
  <2>1. UNCHANGED <<batch, taskStatus>> /\ request[r] = "stored" /\ request'[r] = "done"
    BY <1>6 DEF SubmitPublish, dbVars, TypeOK, ApiTypeOK
  <2>2. P \subseteq Payload
    BY RetriesAssumption DEF Payload, TypeOK, ApiTypeOK
  <2>3. InQueue' = InQueue \cup P
    BY <1>1, <1>6, <2>2 DEF InQueue, InReady, Pushed, TypeOK, RedisTypeOK
  <2>4. \A t \in Tasks : NotStored(t)' <=> NotStored(t)
    BY <1>2, <2>1 DEF NotStored
  <2>5. ASSUME NEW t \in batch[r] PROVE Live(t) /\ Live(t)'
    <3>1. [task |-> t, attempt |-> 0] \in InQueue'
      BY <2>3
    <3>2. \E p \in InQueue' : p.task = t
      BY <3>1
    <3> QED BY <2>1, <3>2 DEF Live
  <2>6. \A t \in Tasks \ batch[r] : Live(t)' <=> Live(t)
    BY <1>1, <1>2, <2>1, <2>3 DEF Live, JobTask, Recorded
  <2>7. \A t \in Tasks : Kept(t)
    BY <1>3, <2>1, <2>4, <2>5, <2>6 DEF Kept
  <2> QED BY <1>1, <2>7, KeptFate, StutterStep
<1> QED
  BY <1>5, <1>6 DEF SubmitLoad, SubmitStep, SubmitStart, SubmitStore, SubmitPublish, SubmitAbort,
                    redisVars

----------------------------------------------------------------------------
(* The workers *)

LEMMA LiveFate ==
  ASSUME Inv, NEW t \in Tasks, Live(t)
  PROVE  taskStatus[t] # "SUCCESS" /\ ~Buried(t) /\ ~NotStored(t) /\ FateOf(t) = "held"
<1>1. CASE \E r \in Requests : request[r] = "stored" /\ t \in batch[r]
  BY <1>1, BatchFate, Fates DEF NotStored
<1>2. CASE \E p \in InQueue : p.task = t
  BY <1>2, QueueFate
<1>3. CASE \E s \in Busy : JobTask(s) = t /\ ~Recorded(s)
  <2>1. PICK s \in Busy : JobTask(s) = t /\ ~Recorded(s)
    BY <1>3
  <2>2. ~NotStored(t)
    BY <2>1, JobAlone DEF Inv, Busy, NotStored, Unpublished
  <2> QED BY <2>1, <2>2, JobFate DEF Busy
<1> QED BY <1>1, <1>2, <1>3 DEF Live

\* A step that brings nothing into circulation may only lose tasks.
LEMMA AbandonStep ==
  ASSUME Inv, UNCHANGED calls,
         \A t \in Tasks : /\ taskStatus'[t] = "SUCCESS" <=> taskStatus[t] = "SUCCESS"
                          /\ Buried(t)' <=> Buried(t)
                          /\ NotStored(t)' <=> NotStored(t)
                          /\ Live(t)' => Live(t)
  PROVE  Delivery!Next
<1> DEFINE T == {t \in Tasks : Live(t) /\ ~Live(t)'}
<1>1. \A t \in T : FateOf(t) = "held" /\ FateOf(t)' = "gone"
  BY LiveFate, FatesAfter
<1>2. \A t \in Tasks \ T : FateOf(t)' = FateOf(t)
  BY KeptFate DEF Kept
<1> QED BY <1>1, <1>2, LoseStep DEF Moves

\* The same for the steps of the workers, which leave the submissions alone.
LEMMA WorkerStep ==
  ASSUME Inv, UNCHANGED <<calls, dlq, apiVars>>,
         \A t \in Tasks : taskStatus'[t] = "SUCCESS" <=> taskStatus[t] = "SUCCESS",
         \A p \in InQueue' : p \in InQueue \/ Live(p.task),
         \A s \in Busy' : ~Recorded(s)' => Live(JobTask(s)')
  PROVE  Delivery!Next
<1>1. \A t \in Tasks : (Buried(t)' <=> Buried(t)) /\ (NotStored(t)' <=> NotStored(t))
  BY DEF Buried, NotStored, apiVars
<1>2. \A t \in Tasks : Live(t)' => Live(t)
  BY DEF Live, apiVars
<1> QED BY <1>1, <1>2, AbandonStep

LEMMA ConsumerFate ==
  ASSUME SingleConsumer, Inv,
         CreateScan \/ Crash \/ \E e \in Engines : ReadDelayed(e) \/ MoveDelayed(e) \/ PopLost(e)
  PROVE  Delivery!Next
<1> USE DEF Inv
<1>1. UNCHANGED <<calls, dlq, apiVars, taskStatus>>
  BY DEF CreateScan, Crash, ReadDelayed, MoveDelayed, PopLost, redisVars, dbVars
<1>2. InQueue' \subseteq InQueue
  <2>1. CASE CreateScan \/ Crash \/ \E e \in Engines : ReadDelayed(e)
    BY <2>1 DEF CreateScan, Crash, ReadDelayed, redisVars, InQueue, InReady
  <2>2. ASSUME NEW e \in Engines, MoveDelayed(e) PROVE InQueue' \subseteq InQueue
    <3>1. push[e] \subseteq delayed
      BY DEF Custody, SnapshotsCurrent
    <3> QED
      BY <2>2, <3>1 DEF MoveDelayed, Pushed, InQueue, InReady, TypeOK, RedisTypeOK
  <2>3. ASSUME NEW e \in Engines, PopLost(e) PROVE InQueue' \subseteq InQueue
    <3>1. PICK p \in Payload : ready[p] > 0 /\ ready' = [ready EXCEPT ![p] = @ - 1]
      BY <2>3 DEF PopLost
    <3> QED
      BY <2>3, <3>1 DEF PopLost, InQueue, InReady, TypeOK, RedisTypeOK
  <2> QED BY <2>1, <2>2, <2>3
<1>3. \A s \in Busy' : /\ s \in Busy /\ JobTask(s)' = JobTask(s)
                       /\ Recorded(s)' <=> Recorded(s)
  <2>1. CASE Crash
    BY <2>1 DEF Crash, Release, Busy, JobTask, Recorded, TypeOK, SlotTypeOK
  <2>2. CASE ~Crash
    BY <2>2 DEF CreateScan, ReadDelayed, MoveDelayed, PopLost, slotVars, Busy, JobTask, Recorded
  <2> QED BY <2>1, <2>2
<1>4. \A s \in Busy' : ~Recorded(s)' => Live(JobTask(s)')
  BY <1>3 DEF Live, JobTask
<1> QED BY <1>1, <1>2, <1>4, WorkerStep

LEMMA PopFate ==
  ASSUME Inv, NEW s \in Slots, Pop(s) PROVE Delivery!Next
<1> USE DEF Inv
<1>1. PICK p \in Payload : /\ ready[p] > 0
                           /\ ready' = [ready EXCEPT ![p] = @ - 1]
                           /\ job' = [job EXCEPT ![s] = p]
  BY DEF Pop
<1>2. InQueue' \subseteq InQueue /\ p \in InQueue
  BY <1>1 DEF Pop, InQueue, InReady, TypeOK, RedisTypeOK
<1>3. UNCHANGED <<calls, dlq, apiVars, taskStatus, outcome>> /\ pc' = [pc EXCEPT ![s] = "popped"]
  BY DEF Pop, dbVars
<1>4. \A u \in Busy' : ~Recorded(u)' => Live(JobTask(u)')
  <2> SUFFICES ASSUME NEW u \in Busy', ~Recorded(u)' PROVE Live(JobTask(u)')
    OBVIOUS
  <2>1. CASE u = s
    BY <1>1, <1>2, <2>1 DEF Live, JobTask, TypeOK, SlotTypeOK
  <2>2. CASE u # s
    <3>1. u \in Busy /\ JobTask(u)' = JobTask(u) /\ ~Recorded(u)
      BY <1>1, <1>3, <2>2 DEF Busy, JobTask, Recorded, TypeOK, SlotTypeOK
    <3> QED BY <3>1 DEF Live, JobTask
  <2> QED BY <2>1, <2>2
<1> QED BY <1>2, <1>3, <1>4, WorkerStep

\* Only the commit of a success, by its coroutine, touches successes at all.
Succeeds(s) == SaveCommit(s) /\ outcome[s] = "SUCCESS" /\ taskStatus'[JobTask(s)] = "SUCCESS"

LEMMA SuccessesKept ==
  ASSUME Inv, NEW s \in Slots, Coroutine(s), ~Succeeds(s), NEW t \in Tasks
  PROVE  taskStatus'[t] = "SUCCESS" <=> taskStatus[t] = "SUCCESS"
<1> USE DEF Inv, TypeOK, DbTypeOK
<1>1. CASE UNCHANGED taskStatus
  BY <1>1
<1>2. CASE MarkProcessing(s) \/ Retry(s) \/ Exhaust(s)
  <2>1. taskStatus[JobTask(s)] # "SUCCESS"
    BY <1>2, JobFate DEF MarkProcessing, Retry, Exhaust, Recorded
  <2> QED
    BY <1>2, <2>1 DEF MarkProcessing, Retry, Exhaust, WriteStatus
<1>3. CASE SaveCommit(s)
  <2>1. taskStatus[JobTask(s)] # "SUCCESS"
    BY <1>3, JobFate DEF SaveCommit, Recorded
  <2>2. taskStatus'[JobTask(s)] # "SUCCESS"
    BY <1>3, <2>1 DEF SaveCommit, Succeeds, SavedStatus
  <2> QED
    BY <1>3, <2>1, <2>2 DEF SaveCommit
<1>4. UNCHANGED taskStatus \/ MarkProcessing(s) \/ Retry(s) \/ Exhaust(s) \/ SaveCommit(s)
  BY DEF Coroutine, Throttle, Execute, SaveLoad, SaveFails, EvaluateLoad, EvaluateJudge,
         EvaluateCommit, EvaluateLeave, Schedule, DeadLetter, dbVars
<1> QED BY <1>1, <1>2, <1>3, <1>4

LEMMA OtherSlots ==
  ASSUME Inv, NEW s \in Slots, Coroutine(s), NEW u \in Slots, u # s
  PROVE  /\ u \in Busy' <=> u \in Busy
         /\ JobTask(u)' = JobTask(u)
         /\ Recorded(u)' <=> Recorded(u)
<1>1. pc'[u] = pc[u] /\ job'[u] = job[u] /\ outcome'[u] = outcome[u]
  BY DEF Coroutine, MarkProcessing, Throttle, Execute, SaveLoad, SaveCommit, SaveFails,
         EvaluateLoad, EvaluateJudge, EvaluateCommit, EvaluateLeave, Retry, Schedule, Exhaust,
         DeadLetter, AfterSave, Goto, Release, Inv, TypeOK, SlotTypeOK
<1> QED BY <1>1 DEF Busy, JobTask, Recorded

LEMMA CoroutineFate ==
  ASSUME Inv, NEW s \in Slots, Coroutine(s),
         ~Schedule(s), ~DeadLetter(s), ~Execute(s), ~Succeeds(s)
  PROVE  Delivery!Next
<1>1. KeepsJobs /\ UNCHANGED <<calls, apiVars, redisVars>>
  BY CoroutineKeepsJobs
     DEF Coroutine, MarkProcessing, Throttle, SaveLoad, SaveCommit, SaveFails, EvaluateLoad,
         EvaluateJudge, EvaluateCommit, EvaluateLeave, Retry, Exhaust, Inv
<1>2. InQueue' = InQueue
  BY <1>1 DEF redisVars, InQueue, InReady
<1>3. Recorded(s) => s \notin Busy' \/ Recorded(s)'
  <2> SUFFICES ASSUME Recorded(s) PROVE s \notin Busy' \/ Recorded(s)'
    OBVIOUS
  <2>1. CASE AfterSave(s)
    BY <2>1 DEF AfterSave, Recorded, Release, Busy
  <2>2. CASE ~AfterSave(s)
    BY <2>2 DEF Recorded, Coroutine, MarkProcessing, Throttle, SaveLoad, SaveCommit, SaveFails,
         EvaluateLoad, EvaluateJudge, EvaluateCommit, EvaluateLeave, Retry, Exhaust, Goto,
         Inv, TypeOK, SlotTypeOK
  <2> QED BY <2>1, <2>2
<1>4. \A u \in Busy' : ~Recorded(u)' => Live(JobTask(u)')
  <2> SUFFICES ASSUME NEW u \in Busy', ~Recorded(u)' PROVE Live(JobTask(u)')
    OBVIOUS
  <2>1. u \in Busy /\ JobTask(u)' = JobTask(u)
    BY <1>1 DEF KeepsJobs
  <2>2. ~Recorded(u)
    BY <1>3, <2>1, OtherSlots DEF Busy
  <2> QED BY <2>1, <2>2 DEF Live, JobTask
<1> QED BY <1>1, <1>2, <1>4, SuccessesKept, WorkerStep DEF redisVars

LEMMA SucceedFate ==
  ASSUME Inv, NEW s \in Slots, Succeeds(s) PROVE Delivery!Next
<1>0. PICK t : t = JobTask(s)
  OBVIOUS
<1>1. pc[s] = "commit" /\ Coroutine(s) /\ UNCHANGED <<calls, apiVars, redisVars, job, outcome>>
  BY DEF Succeeds, SaveCommit, Coroutine
<1>2. t \in Tasks /\ FateOf(t) = "held"
  BY <1>0, <1>1, JobFate DEF Recorded
<1>3. FateOf(t)' = "done"
  BY <1>0, <1>2, FatesAfter DEF Succeeds
<1>4. ASSUME NEW u \in Tasks \ {t} PROVE FateOf(u)' = FateOf(u)
  <2>1. taskStatus'[u] = taskStatus[u]
    BY <1>0, <1>4 DEF Succeeds, SaveCommit, Inv, TypeOK, DbTypeOK
  <2>2. (Buried(u)' <=> Buried(u)) /\ (NotStored(u)' <=> NotStored(u)) /\ InQueue' = InQueue
    BY <1>1 DEF Buried, NotStored, apiVars, redisVars, InQueue, InReady
  <2>3. Busy' = Busy /\ \A w \in Busy : JobTask(w)' = JobTask(w)
    BY <1>1 DEF Succeeds, SaveCommit, Goto, Busy, JobTask, Inv, TypeOK, SlotTypeOK
  <2>4. \A w \in Busy : JobTask(w) = u => (Recorded(w)' <=> Recorded(w))
    BY <1>0, <1>1, <1>4, OtherSlots DEF Busy
  <2>5. Live(u)' <=> Live(u)
    BY <1>1, <2>2, <2>3, <2>4 DEF Live, apiVars
  <2> QED BY <2>1, <2>2, <2>5, KeptFate DEF Kept
<1>5. Moves({t}, "done")
  BY <1>1, <1>2, <1>3, <1>4 DEF Moves
<1> QED BY <1>2, <1>5, EndStep

LEMMA ExecuteFate ==
  ASSUME Inv, NEW s \in Slots, Execute(s) PROVE Delivery!Next
<1> USE DEF Inv
<1> DEFINE t == JobTask(s)
<1>1. pc[s] = "marked" /\ ~Recorded(s) /\ s \in Busy
  BY DEF Execute, Recorded, Busy
<1>2. t \in Tasks /\ FateOf(t) = "held"
  BY <1>1, JobFate
<1>3. calls[t] < MaxRetries[t] + 1
  BY <1>1, <1>2, Numbers DEF BudgetKept, BudgetOf, Spent
<1>4. UNCHANGED <<job, taskStatus, apiVars, redisVars>> /\ calls' = [calls EXCEPT ![t] = @ + 1]
  BY DEF Execute, dbVars
<1>5. Busy' = Busy /\ \A u \in Busy : Recorded(u)' <=> Recorded(u)
  BY <1>1 DEF Execute, Goto, Busy, Recorded, TypeOK, SlotTypeOK
<1>6. ASSUME NEW u \in Tasks PROVE FateOf(u)' = FateOf(u)
  <2>1. (Buried(u)' <=> Buried(u)) /\ (NotStored(u)' <=> NotStored(u)) /\ InQueue' = InQueue
    BY <1>4 DEF Buried, NotStored, apiVars, redisVars, InQueue, InReady
  <2>2. Live(u)' <=> Live(u)
    BY <1>4, <1>5, <2>1 DEF Live, JobTask, apiVars
  <2> QED BY <1>4, <2>1, <2>2, KeptFate DEF Kept
<1>7. t \in Delivery!In("held") /\ UNCHANGED Fate
  BY <1>2, <1>6 DEF Delivery!In, Fate
<1>8. Delivery!Attempt
  BY <1>2, <1>3, <1>4, <1>7 DEF Delivery!Attempt
<1> QED BY <1>8 DEF Delivery!Next

\* The task goes back to the delayed set, or is lost with a failed ZADD.
LEMMA ScheduleFate ==
  ASSUME Inv, NEW s \in Slots, Schedule(s) PROVE Delivery!Next
<1> USE DEF Inv
<1>1. pc[s] = "schedule" /\ Coroutine(s) /\ s \in Busy
      /\ UNCHANGED <<calls, dlq, apiVars, taskStatus, ready>>
  BY DEF Schedule, Coroutine, Busy, dbVars
<1>2. Live(job[s].task)
  BY <1>1, JobFate DEF Recorded, JobTask
<1>3. \A p \in InQueue' : p \in InQueue \/ p = job[s]
  BY <1>1 DEF Schedule, InQueue, InReady
<1>4. Busy' = Busy \ {s}
  BY ReleaseBusy DEF Schedule, TypeOK
<1>5. \A u \in Busy' : ~Recorded(u)' => Live(JobTask(u)')
  BY <1>1, <1>4, OtherSlots DEF Live, Busy
<1> QED BY <1>1, <1>2, <1>3, <1>5, WorkerStep

\* The task is buried, or lost with a failed push.
LEMMA DeadLetterFate ==
  ASSUME Inv, NEW s \in Slots, DeadLetter(s) PROVE Delivery!Next
<1> USE DEF Inv
<1>0. PICK t : t = JobTask(s)
  OBVIOUS
<1>1. pc[s] = "dlq" /\ Coroutine(s) /\ UNCHANGED <<calls, apiVars, taskStatus, ready, delayed>>
  BY DEF DeadLetter, Coroutine, dbVars
<1>2. t \in Tasks /\ taskStatus[t] # "SUCCESS" /\ FateOf(t) = "held" /\ job[s].task = t
  BY <1>0, <1>1, JobFate DEF Recorded, JobTask
<1>3. Busy' = Busy \ {s} /\ InQueue' = InQueue
  BY <1>1, ReleaseBusy DEF DeadLetter, InQueue, InReady, TypeOK
<1>4. CASE dlq' = dlq
  <2>1. \A u \in Busy' : ~Recorded(u)' => Live(JobTask(u)')
    BY <1>1, <1>3, OtherSlots DEF Live, Busy
  <2> QED BY <1>1, <1>3, <1>4, <2>1, WorkerStep
<1>5. CASE dlq' = dlq \cup {job[s]}
  <2>1. FateOf(t)' = "dead"
    <3>1. Buried(t)'
      BY <1>2, <1>5 DEF Buried
    <3> QED BY <1>1, <1>2, <3>1, FatesAfter
  <2>2. ASSUME NEW u \in Tasks \ {t} PROVE FateOf(u)' = FateOf(u)
    <3>1. (Buried(u)' <=> Buried(u)) /\ (NotStored(u)' <=> NotStored(u))
      BY <1>1, <1>2, <1>5, <2>2 DEF Buried, NotStored, apiVars
    <3>2. Live(u)' <=> Live(u)
      BY <1>0, <1>1, <1>3, <2>2, OtherSlots DEF Live, apiVars, Busy
    <3> QED BY <1>1, <3>1, <3>2, KeptFate DEF Kept
  <2>3. Moves({t}, "dead")
    BY <1>1, <1>2, <2>1, <2>2 DEF Moves
  <2> QED BY <1>2, <2>3, EndStep
<1> QED BY <1>4, <1>5 DEF DeadLetter

----------------------------------------------------------------------------
(* The theorem *)

LEMMA InvInit == Init => Inv
BY TypeInit, CustodyInit, SuccessInit, BudgetInit DEF Inv

LEMMA InvStep ==
  ASSUME SingleConsumer, Inv, [Next]_vars PROVE Inv'
BY TypeStep, CustodyStep, SuccessStep, BudgetStep DEF Inv

LEMMA DeliveryInit == Init => Delivery!Init
<1> SUFFICES ASSUME Init PROVE Delivery!Init
  OBVIOUS
<1>1. \A t \in Tasks : taskStatus[t] # "SUCCESS" /\ ~Buried(t) /\ ~Live(t) /\ NotStored(t)
  BY DEF Init, Buried, Live, NotStored, InQueue, InReady, Busy
<1>2. \A t \in Tasks : FateOf(t) = "absent"
  BY <1>1, Fates
<1> QED BY <1>2 DEF Init, Delivery!Init, Fate

LEMMA DeliveryStep ==
  ASSUME SingleConsumer, Inv, [Next]_vars
  PROVE  [Delivery!Next]_(Delivery!vars)
<1>1. CASE UNCHANGED vars
  <2>1. UNCHANGED <<calls, taskStatus, dlq, request, batch, ready, delayed, pc, job, outcome>>
    BY <1>1 DEF vars, dbVars, apiVars, redisVars, slotVars
  <2>2. \A t \in Tasks : Kept(t)
    BY <2>1 DEF Kept, Buried, NotStored, Live, InQueue, InReady, Busy, JobTask, Recorded
  <2> QED BY <2>1, <2>2, KeptFate, StutterStep
<1>2. CASE DeleteScan
  BY <1>2, DeleteFate
<1>3. CASE \E r \in Requests : SubmitLoad(r) \/ SubmitStep(r) \/ SubmitAbort(r)
  BY <1>3, SubmitFate
<1>4. CASE CreateScan \/ Crash \/ \E e \in Engines : ReadDelayed(e) \/ MoveDelayed(e) \/ PopLost(e)
  BY <1>4, ConsumerFate
<1>5. CASE \E s \in Slots : Pop(s)
  BY <1>5, PopFate
<1>6. CASE \E s \in Slots : Coroutine(s)
  BY <1>6, CoroutineFate, SucceedFate, ExecuteFate, ScheduleFate, DeadLetterFate
<1> QED BY <1>1, <1>2, <1>3, <1>4, <1>5, <1>6 DEF Next

\* With one consumer of the delayed set the scan execution implements the
\* delivery contract of TaskDelivery, for every number of tasks, requests,
\* slots and retries and under every fault of the environment.
THEOREM DeliveryImplemented == ASSUME SingleConsumer PROVE Spec => ImplementsDelivery
<1>1. Init => Inv /\ Delivery!Init
  BY InvInit, DeliveryInit
<1>2. Inv /\ [Next]_vars => Inv' /\ [Delivery!Next]_(Delivery!vars)
  BY InvStep, DeliveryStep
<1> QED BY <1>1, <1>2, PTL DEF Spec, ImplementsDelivery, Delivery!Spec

=============================================================================
