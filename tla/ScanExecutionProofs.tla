----------------------- MODULE ScanExecutionProofs -----------------------
(***************************************************************************)
(* Proofs about ScanExecution, for every number of tasks, slots, engines   *)
(* and submissions.                                                        *)
(***************************************************************************)
EXTENDS ScanInvariant, TLAPS

----------------------------------------------------------------------------
(* Types *)

LEMMA TypeInit == Init => TypeOK
BY RetriesAssumption, EngineAssumption
   DEF Init, TypeOK, ApiTypeOK, DbTypeOK, RedisTypeOK, SlotTypeOK, Payload, NoRow,
       ScanStatus, TaskStatus

LEMMA BusyJob ==
  ASSUME SlotTypeOK, NEW s \in Slots, pc[s] # "free"
  PROVE  /\ job[s] \in Payload
         /\ JobTask(s) \in Tasks
         /\ job[s].attempt \in 0..MaxAttempt
         /\ job[s] = [task |-> JobTask(s), attempt |-> job[s].attempt]
BY DEF SlotTypeOK, JobTask, Payload

LEMMA ReleaseType ==
  ASSUME SlotTypeOK, NEW S \in SUBSET Slots, Release(S),
         UNCHANGED <<row, evalVars>> \/ ForgetRead(S)
  PROVE  SlotTypeOK'
BY DEF SlotTypeOK, Release, ForgetRead, evalVars, NoRow

LEMMA AfterSaveType ==
  ASSUME SlotTypeOK, NEW s \in Slots, pc[s] # "free", AfterSave(s)
  PROVE  SlotTypeOK'
<1>1. CASE outcome[s] = "SUCCESS"
  BY <1>1, ReleaseType DEF AfterSave
<1>2. CASE outcome[s] # "SUCCESS"
  BY <1>2 DEF AfterSave, SlotTypeOK, Goto, ForgetRead, NoRow
<1> QED BY <1>1, <1>2

LEMMA PushedType ==
  ASSUME RedisTypeOK, NEW P PROVE Pushed(P) \in [Payload -> Nat]
BY DEF RedisTypeOK, Pushed

LEMMA ScanType == TypeOK /\ (CreateScan \/ DeleteScan) => TypeOK'
BY DEF CreateScan, DeleteScan, TypeOK, ApiTypeOK, DbTypeOK, RedisTypeOK, SlotTypeOK,
       apiVars, dbVars, redisVars, moveVars, slotVars, evalVars, ScanStatus

LEMMA SubmitType ==
  ASSUME TypeOK, NEW r \in Requests, SubmitLoad(r) \/ SubmitStep(r) \/ SubmitAbort(r)
  PROVE  TypeOK'
<1> USE DEF TypeOK, apiVars, dbVars, redisVars, moveVars, slotVars, evalVars, ScanStatus
<1>3. CASE SubmitLoad(r)
  BY <1>3 DEF SubmitLoad, Unsubmitted, ApiTypeOK, DbTypeOK, RedisTypeOK, SlotTypeOK
<1>4. CASE SubmitStart(r)
  BY <1>4 DEF SubmitStart, ApiTypeOK, DbTypeOK, RedisTypeOK, SlotTypeOK
<1>5. CASE SubmitStore(r)
  BY <1>5 DEF SubmitStore, ApiTypeOK, DbTypeOK, RedisTypeOK, SlotTypeOK, TaskStatus, Pending
<1>6. CASE SubmitPublish(r)
  <2>1. ready' \in [Payload -> Nat]
    BY <1>6, PushedType DEF SubmitPublish, RedisTypeOK
  <2> QED BY <1>6, <2>1 DEF SubmitPublish, ApiTypeOK, DbTypeOK, RedisTypeOK, SlotTypeOK
<1>7. CASE SubmitAbort(r)
  BY <1>7 DEF SubmitAbort, ApiTypeOK, DbTypeOK, RedisTypeOK, SlotTypeOK
<1> QED BY <1>3, <1>4, <1>5, <1>6, <1>7 DEF SubmitStep

LEMMA ConsumerType ==
  ASSUME TypeOK, NEW e \in Engines, ReadDelayed(e) \/ MoveDelayed(e) \/ PopLost(e)
  PROVE  TypeOK'
<1> USE DEF TypeOK, apiVars, dbVars, redisVars, moveVars, slotVars, evalVars
<1>1. CASE ReadDelayed(e)
  BY <1>1 DEF ReadDelayed, ApiTypeOK, DbTypeOK, RedisTypeOK, SlotTypeOK
<1>2. CASE MoveDelayed(e)
  <2>1. ready' \in [Payload -> Nat]
    BY <1>2, PushedType DEF MoveDelayed, RedisTypeOK
  <2> QED BY <1>2, <2>1 DEF MoveDelayed, ApiTypeOK, DbTypeOK, RedisTypeOK, SlotTypeOK
<1>3. CASE PopLost(e)
  BY <1>3 DEF PopLost, ApiTypeOK, DbTypeOK, RedisTypeOK, SlotTypeOK
<1> QED BY <1>1, <1>2, <1>3

LEMMA CrashType == TypeOK /\ Crash => TypeOK'
<1> SUFFICES ASSUME TypeOK, Crash PROVE TypeOK'
  OBVIOUS
<1>1. SlotTypeOK'
  BY ReleaseType DEF Crash, TypeOK
<1> QED
  BY <1>1 DEF Crash, TypeOK, ApiTypeOK, DbTypeOK, RedisTypeOK, apiVars, dbVars, redisVars, evalVars

LEMMA CoroutineType ==
  ASSUME TypeOK, NEW s \in Slots, Pop(s) \/ Coroutine(s)
  PROVE  TypeOK'
<1> USE DEF TypeOK, apiVars, dbVars, redisVars, moveVars, slotVars, evalVars
<1>1. CASE Pop(s)
  BY <1>1 DEF Pop, ApiTypeOK, DbTypeOK, RedisTypeOK, SlotTypeOK
<1>2. CASE pc[s] # "free"
  <2>0. JobTask(s) \in Tasks /\ job[s] \in Payload
    BY <1>2, BusyJob
  <2> USE <1>2, <2>0
  <2>1. CASE MarkProcessing(s)
    BY <2>1 DEF MarkProcessing, WriteStatus, Goto, ApiTypeOK, DbTypeOK, RedisTypeOK, SlotTypeOK,
                TaskStatus, Pending
  <2>2. CASE Throttle(s)
    BY <2>2 DEF Throttle, Goto, ApiTypeOK, DbTypeOK, RedisTypeOK, SlotTypeOK
  <2>3. CASE Execute(s)
    BY <2>3 DEF Execute, Goto, ApiTypeOK, DbTypeOK, RedisTypeOK, SlotTypeOK
  <2>4. CASE SaveLoad(s)
    BY <2>4 DEF SaveLoad, Goto, Exists, ApiTypeOK, DbTypeOK, RedisTypeOK, SlotTypeOK
  <2>5. CASE SaveCommit(s)
    <3>1. row'[s] = NoRow /\ row' = [row EXCEPT ![s] = NoRow] /\ row[s].attempts \in Nat
      BY <2>5 DEF SaveCommit, SlotTypeOK
    <3>2. DbTypeOK'
      BY <2>5, <3>1 DEF SaveCommit, SavedStatus, DbTypeOK, TaskStatus, Pending
    <3>3. SlotTypeOK'
      BY <2>5, <3>1 DEF SaveCommit, Goto, SlotTypeOK, NoRow
    <3> QED BY <2>5, <3>2, <3>3 DEF SaveCommit, ApiTypeOK, RedisTypeOK
  <2>6. CASE SaveFails(s)
    BY <2>6, AfterSaveType DEF SaveFails, ApiTypeOK, DbTypeOK, RedisTypeOK
  <2>7. CASE EvaluateLoad(s)
    BY <2>7 DEF EvaluateLoad, ScanExists, Goto, ApiTypeOK, DbTypeOK, RedisTypeOK, SlotTypeOK
  <2>8. CASE EvaluateJudge(s)
    BY <2>8 DEF EvaluateJudge, Stored, Final, Goto, ApiTypeOK, DbTypeOK, RedisTypeOK, SlotTypeOK
  <2>9. CASE EvaluateCommit(s)
    <3>1. SlotTypeOK'
      BY <2>9, AfterSaveType DEF EvaluateCommit
    <3>2. DbTypeOK'
      BY <2>9 DEF EvaluateCommit, DbTypeOK, SlotTypeOK, ScanStatus, Final
    <3> QED BY <2>9, <3>1, <3>2 DEF EvaluateCommit, ApiTypeOK, RedisTypeOK
  <2>10. CASE EvaluateLeave(s)
    BY <2>10, AfterSaveType DEF EvaluateLeave, ApiTypeOK, DbTypeOK, RedisTypeOK
  <2>11. CASE Retry(s)
    <3>1. job'[s] \in Payload /\ job' = [job EXCEPT ![s] = job'[s]]
      BY <2>11, RetriesAssumption DEF Retry, HasRetries, SlotTypeOK, Payload
    <3>2. SlotTypeOK'
      BY <2>11, <3>1 DEF Retry, Goto, SlotTypeOK
    <3>3. DbTypeOK'
      BY <2>11 DEF Retry, WriteStatus, DbTypeOK, TaskStatus, Pending
    <3> QED BY <2>11, <3>2, <3>3 DEF Retry, ApiTypeOK, RedisTypeOK
  <2>12. CASE Schedule(s)
    <3>1. SlotTypeOK'
      BY <2>12, ReleaseType DEF Schedule
    <3> QED BY <2>12, <3>1 DEF Schedule, ApiTypeOK, DbTypeOK, RedisTypeOK
  <2>13. CASE Exhaust(s)
    BY <2>13 DEF Exhaust, WriteStatus, Goto, ApiTypeOK, DbTypeOK, RedisTypeOK, SlotTypeOK,
                 TaskStatus, Pending
  <2>14. CASE DeadLetter(s)
    <3>1. SlotTypeOK'
      BY <2>14, ReleaseType DEF DeadLetter
    <3> QED BY <2>14, <3>1 DEF DeadLetter, ApiTypeOK, DbTypeOK, RedisTypeOK
  <2>15. Coroutine(s)
    BY <1>2 DEF Pop
  <2> QED BY <2>1, <2>2, <2>3, <2>4, <2>5, <2>6, <2>7, <2>8, <2>9, <2>10, <2>11, <2>12,
             <2>13, <2>14, <2>15 DEF Coroutine
<1>3. CASE pc[s] = "free" /\ ~Pop(s)
  BY <1>3 DEF Coroutine, MarkProcessing, Throttle, Execute, SaveLoad, SaveCommit, SaveFails,
    EvaluateLoad, EvaluateJudge, EvaluateCommit, EvaluateLeave, Retry, Schedule, Exhaust, DeadLetter
<1> QED BY <1>1, <1>2, <1>3

LEMMA TypeStep == TypeOK /\ [Next]_vars => TypeOK'
<1> SUFFICES ASSUME TypeOK, [Next]_vars PROVE TypeOK'
  OBVIOUS
<1>1. CASE Next
  <2>1. CASE CreateScan \/ DeleteScan
    BY <2>1, ScanType
  <2>2. CASE \E r \in Requests : SubmitLoad(r) \/ SubmitStep(r) \/ SubmitAbort(r)
    BY <2>2, SubmitType
  <2>3. CASE \E e \in Engines : ReadDelayed(e) \/ MoveDelayed(e) \/ PopLost(e)
    BY <2>3, ConsumerType
  <2>4. CASE Crash
    BY <2>4, CrashType
  <2>5. CASE \E s \in Slots : Pop(s) \/ Coroutine(s)
    BY <2>5, CoroutineType
  <2> QED BY <1>1, <2>1, <2>2, <2>3, <2>4, <2>5 DEF Next
<1>2. CASE UNCHANGED vars
  BY <1>2 DEF vars, apiVars, dbVars, redisVars, moveVars, slotVars, evalVars,
              TypeOK, ApiTypeOK, DbTypeOK, RedisTypeOK, SlotTypeOK
<1> QED BY <1>1, <1>2

\* Every reachable state is well typed: in particular the columns hold values of
\* the enumerations of models.py, and a busy coroutine holds a payload.
THEOREM TypeCorrect == Spec => []TypeOK
BY TypeInit, TypeStep, PTL DEF Spec

----------------------------------------------------------------------------
(* Custody.  With one consumer of the delayed set no step copies a         *)
(* payload, whatever faults occur: inductive on top of the types.          *)

----------------------------------------------------------------------------
(* The slots that hold a payload *)

LEMMA ReleaseBusy ==
  ASSUME SlotTypeOK, NEW S \in SUBSET Slots, Release(S)
  PROVE  Busy' = Busy \ S /\ \A u \in Busy' : job'[u] = job[u]
BY DEF SlotTypeOK, Release, Busy

LEMMA GotoBusy ==
  ASSUME SlotTypeOK, NEW s \in Slots, pc[s] # "free",
         NEW label, label # "free", Goto(s, label)
  PROVE  Busy' = Busy
BY DEF SlotTypeOK, Goto, Busy

\* No slot takes up a payload, and those that keep theirs keep its task.
KeepsJobs == Busy' \subseteq Busy /\ \A u \in Busy' : JobTask(u)' = JobTask(u)

LEMMA AfterSaveKeepsJobs ==
  ASSUME SlotTypeOK, NEW s \in Slots, pc[s] # "free", AfterSave(s)
  PROVE  KeepsJobs
<1>1. CASE outcome[s] = "SUCCESS"
  BY <1>1, ReleaseBusy DEF AfterSave, KeepsJobs, JobTask
<1>2. CASE outcome[s] # "SUCCESS"
  BY <1>2, GotoBusy DEF AfterSave, KeepsJobs, JobTask
<1> QED BY <1>1, <1>2

----------------------------------------------------------------------------
(* Steps that leave the queues alone *)

LEMMA QueuesUntouched ==
  ASSUME Custody, UNCHANGED redisVars, KeepsJobs,
         BatchesDisjoint', SnapshotsCurrent',
         \A t \in Tasks : Unpublished(t)' => Unpublished(t)
  PROVE  Custody'
<1> USE DEF KeepsJobs, redisVars, Custody
<1>1. InReady' = InReady /\ InQueue' = InQueue
  BY DEF InReady, InQueue
<1>2. UnpublishedNowhere'
  BY <1>1 DEF UnpublishedNowhere
<1>3. OneCarrier'
  BY <1>1 DEF OneCarrier
<1>4. DeadUncarried'
  BY <1>1 DEF DeadUncarried
<1> QED BY <1>2, <1>3, <1>4

\* ... and the submissions and the consumers, too.
LEMMA OnlySlots ==
  ASSUME Custody, UNCHANGED <<apiVars, redisVars, moveVars>>, KeepsJobs
  PROVE  Custody'
<1>1. BatchesDisjoint' /\ SnapshotsCurrent'
  BY DEF Custody, BatchesDisjoint, SnapshotsCurrent, apiVars, redisVars, moveVars
<1>2. \A t \in Tasks : Unpublished(t)' => Unpublished(t)
  BY DEF Unpublished, apiVars
<1> QED BY <1>1, <1>2, QueuesUntouched

----------------------------------------------------------------------------
(* The handlers *)

LEMMA CustodyInit == Init => Custody
<1> SUFFICES ASSUME Init PROVE Custody
  OBVIOUS
<1>1. InQueue = {} /\ InReady = {} /\ Busy = {}
  BY DEF Init, InQueue, InReady, Busy
<1> QED
  BY <1>1 DEF Init, Custody, BatchesDisjoint, UnpublishedNowhere, SnapshotsCurrent, OneCarrier, DeadUncarried

LEMMA SlotsIdle ==
  ASSUME UNCHANGED slotVars PROVE KeepsJobs /\ Busy' = Busy
BY DEF KeepsJobs, Busy, JobTask, slotVars

LEMMA ScanCustody == Custody /\ (CreateScan \/ DeleteScan) => Custody'
BY SlotsIdle, OnlySlots DEF CreateScan, DeleteScan

LEMMA PublishCustody ==
  ASSUME TypeOK, Custody, NEW r \in Requests, SubmitPublish(r)
  PROVE  Custody'
<1> DEFINE P == {[task |-> t, attempt |-> 0] : t \in batch[r]}
<1>1. KeepsJobs /\ Busy' = Busy /\ UNCHANGED <<batch, delayed, dlq, push, drop, job>>
  BY SlotsIdle DEF SubmitPublish, moveVars, slotVars
<1>2. request[r] = "stored" /\ \A u \in Requests : u # r => request'[u] = request[u]
  BY DEF SubmitPublish, TypeOK, ApiTypeOK
<1>3. BatchesDisjoint' /\ SnapshotsCurrent'
  BY <1>1 DEF Custody, BatchesDisjoint, SnapshotsCurrent
<1>4. \A t \in Tasks : Unpublished(t)' => Unpublished(t)
  BY <1>1, <1>2 DEF Unpublished
<1>5. CASE UNCHANGED ready
  BY <1>1, <1>3, <1>4, <1>5, QueuesUntouched DEF redisVars
<1>6. CASE ready' = Pushed(P)
  <2>1. P \subseteq Payload
    BY RetriesAssumption DEF Payload, TypeOK, ApiTypeOK
  <2>2. \A t \in batch[r] : t \in Tasks /\ Unpublished(t) /\ ~Unpublished(t)'
    BY <1>1, <1>2 DEF Unpublished, Custody, BatchesDisjoint, TypeOK, ApiTypeOK, SubmitPublish
  <2>3. /\ \A p \in P : p.task \in batch[r] /\ p \notin InQueue /\ \A q \in InQueue \cup dlq : q.task # p.task
        /\ \A p \in P, s \in Busy : JobTask(s) # p.task
    BY <2>2 DEF Custody, UnpublishedNowhere
  <2>4. InReady' = InReady \cup P /\ InQueue' = InQueue \cup P
    BY <1>1, <1>6, <2>1 DEF InReady, InQueue, Pushed, TypeOK, RedisTypeOK
  <2>5. \A p \in InReady' : ready'[p] = 1 /\ p \notin delayed'
    BY <1>1, <1>6, <2>1, <2>3 DEF InReady, InQueue, Pushed, TypeOK, RedisTypeOK, Custody, OneCarrier
  <2>6. \A p, q \in P : p.task = q.task => p = q
    OBVIOUS
  <2>7. OneCarrier'
    BY <1>1, <2>3, <2>4, <2>5, <2>6 DEF Custody, OneCarrier, JobTask
  <2>8. DeadUncarried'
    BY <1>1, <2>3, <2>4 DEF Custody, DeadUncarried, JobTask
  <2>9. UnpublishedNowhere'
    BY <1>1, <1>4, <2>2, <2>3, <2>4 DEF Custody, UnpublishedNowhere, JobTask
  <2> QED BY <1>3, <2>7, <2>8, <2>9 DEF Custody
<1> QED BY <1>5, <1>6 DEF SubmitPublish

LEMMA SubmitCustody ==
  ASSUME TypeOK, Custody, NEW r \in Requests, SubmitLoad(r) \/ SubmitStep(r) \/ SubmitAbort(r)
  PROVE  Custody'
<1>1. CASE SubmitLoad(r)
  <2>1. UNCHANGED <<redisVars, moveVars>> /\ KeepsJobs
    BY <1>1, SlotsIdle DEF SubmitLoad
  <2>2. \A u \in Requests : u # r => request'[u] = request[u] /\ batch'[u] = batch[u]
    BY <1>1 DEF SubmitLoad, TypeOK, ApiTypeOK
  <2>3. request[r] = "idle" /\ batch'[r] \subseteq Unsubmitted
    BY <1>1 DEF SubmitLoad, TypeOK, ApiTypeOK
  <2>4. BatchesDisjoint'
    BY <2>2, <2>3 DEF Custody, BatchesDisjoint, Unsubmitted
  <2>5. \A t \in Tasks : Unpublished(t)' => Unpublished(t)
    BY <2>2, <2>3 DEF Unpublished
  <2>6. SnapshotsCurrent'
    BY <2>1 DEF Custody, SnapshotsCurrent, redisVars, moveVars
  <2> QED BY <2>1, <2>4, <2>5, <2>6, QueuesUntouched
<1>2. CASE SubmitStart(r) \/ SubmitStore(r) \/ SubmitAbort(r)
  <2>1. UNCHANGED <<redisVars, moveVars, batch>> /\ KeepsJobs
    BY <1>2, SlotsIdle DEF SubmitStart, SubmitStore, SubmitAbort
  <2>2. /\ request[r] # "done"
        /\ \A u \in Requests : u # r => request'[u] = request[u]
    BY <1>2 DEF SubmitStart, SubmitStore, SubmitAbort, TypeOK, ApiTypeOK
  <2>3. BatchesDisjoint' /\ SnapshotsCurrent'
    BY <2>1 DEF Custody, BatchesDisjoint, SnapshotsCurrent, redisVars, moveVars
  <2>4. \A t \in Tasks : Unpublished(t)' => Unpublished(t)
    BY <2>1, <2>2 DEF Unpublished
  <2> QED BY <2>1, <2>3, <2>4, QueuesUntouched
<1>3. CASE SubmitPublish(r)
  BY <1>3, PublishCustody
<1> QED BY <1>1, <1>2, <1>3 DEF SubmitStep

----------------------------------------------------------------------------
(* The consumer *)

LEMMA MoveCustody ==
  ASSUME SingleConsumer, TypeOK, Custody, NEW e \in Engines, MoveDelayed(e)
  PROVE  Custody'
<1>1. KeepsJobs /\ Busy' = Busy /\ UNCHANGED <<batch, request, dlq, job>>
  BY SlotsIdle DEF MoveDelayed, apiVars, slotVars
<1>2. BatchesDisjoint' /\ \A t \in Tasks : Unpublished(t)' <=> Unpublished(t)
  BY <1>1 DEF Custody, BatchesDisjoint, Unpublished
<1>3. \A e2 \in Engines : e2 = e /\ push'[e2] = {} /\ drop'[e2] = {}
  BY DEF SingleConsumer, MoveDelayed, TypeOK, RedisTypeOK
<1>4. SnapshotsCurrent'
  BY <1>3 DEF SnapshotsCurrent
<1>5. CASE UNCHANGED <<ready, delayed>>
  BY <1>1, <1>2, <1>4, <1>5, QueuesUntouched DEF redisVars
<1>6. CASE ready' = Pushed(push[e]) /\ delayed' = delayed \ drop[e]
  <2>1. push[e] \subseteq drop[e] /\ drop[e] \subseteq delayed /\ push[e] \subseteq Payload
    BY DEF Custody, SnapshotsCurrent, TypeOK, RedisTypeOK
  <2>2. InReady' = InReady \cup push[e]
    BY <1>6, <2>1 DEF InReady, Pushed, TypeOK, RedisTypeOK
  <2>3. InQueue' \subseteq InQueue
    BY <1>6, <2>1, <2>2 DEF InQueue
  <2>4. \A p \in InReady' : ready'[p] = 1 /\ p \notin delayed'
    BY <1>6, <2>1, <2>2 DEF InReady, Pushed, TypeOK, RedisTypeOK, Custody, OneCarrier
  <2>5. OneCarrier'
    BY <1>1, <2>3, <2>4 DEF Custody, OneCarrier, JobTask
  <2>6. DeadUncarried' /\ UnpublishedNowhere'
    BY <1>1, <1>2, <2>3 DEF Custody, DeadUncarried, UnpublishedNowhere, JobTask
  <2> QED BY <1>2, <1>4, <2>5, <2>6 DEF Custody
<1> QED BY <1>5, <1>6 DEF MoveDelayed

LEMMA PopLostCustody ==
  ASSUME TypeOK, Custody, NEW e \in Engines, PopLost(e)
  PROVE  Custody'
<1>1. KeepsJobs /\ Busy' = Busy /\ UNCHANGED <<batch, request, delayed, dlq, push, drop, job>>
  BY SlotsIdle DEF PopLost, apiVars, moveVars, slotVars
<1>2. PICK p \in Payload : ready[p] > 0 /\ ready' = [ready EXCEPT ![p] = @ - 1]
  BY DEF PopLost
<1>3. InReady' = InReady \ {p} /\ InQueue' \subseteq InQueue
      /\ \A q \in InReady' : ready'[q] = ready[q]
  BY <1>1, <1>2 DEF InReady, InQueue, TypeOK, RedisTypeOK, Custody, OneCarrier
<1>4. OneCarrier'
  BY <1>1, <1>3 DEF Custody, OneCarrier, JobTask
<1>5. DeadUncarried' /\ UnpublishedNowhere'
  BY <1>1, <1>3 DEF Custody, DeadUncarried, UnpublishedNowhere, Unpublished, JobTask
<1>6. BatchesDisjoint' /\ SnapshotsCurrent'
  BY <1>1 DEF Custody, BatchesDisjoint, SnapshotsCurrent
<1> QED BY <1>4, <1>5, <1>6 DEF Custody

LEMMA ConsumerCustody ==
  ASSUME SingleConsumer, TypeOK, Custody, NEW e \in Engines,
         ReadDelayed(e) \/ MoveDelayed(e) \/ PopLost(e)
  PROVE  Custody'
<1>1. CASE ReadDelayed(e)
  <2>1. KeepsJobs /\ UNCHANGED <<apiVars, redisVars>>
    BY <1>1, SlotsIdle DEF ReadDelayed
  <2>2. SnapshotsCurrent'
    BY <1>1 DEF ReadDelayed, Custody, SnapshotsCurrent, redisVars, TypeOK, RedisTypeOK
  <2>3. BatchesDisjoint' /\ \A t \in Tasks : Unpublished(t)' => Unpublished(t)
    BY <2>1 DEF Custody, BatchesDisjoint, Unpublished, apiVars
  <2> QED BY <2>1, <2>2, <2>3, QueuesUntouched
<1> QED BY <1>1, MoveCustody, PopLostCustody

LEMMA CrashCustody ==
  ASSUME TypeOK, Custody, Crash PROVE Custody'
<1>1. KeepsJobs /\ UNCHANGED <<apiVars, redisVars>>
  BY ReleaseBusy DEF Crash, TypeOK, KeepsJobs, JobTask
<1>2. SnapshotsCurrent'
  BY DEF Crash, Custody, SnapshotsCurrent, redisVars
<1>3. BatchesDisjoint' /\ \A t \in Tasks : Unpublished(t)' => Unpublished(t)
  BY <1>1 DEF Custody, BatchesDisjoint, Unpublished, apiVars
<1> QED BY <1>1, <1>2, <1>3, QueuesUntouched

----------------------------------------------------------------------------
(* The coroutines *)

LEMMA PopCustody ==
  ASSUME TypeOK, Custody, NEW s \in Slots, Pop(s)
  PROVE  Custody'
<1>1. UNCHANGED <<batch, request, delayed, dlq, push, drop>>
  BY DEF Pop, apiVars, moveVars
<1>2. PICK p \in Payload : /\ ready[p] > 0
                           /\ ready' = [ready EXCEPT ![p] = @ - 1]
                           /\ job' = [job EXCEPT ![s] = p]
  BY DEF Pop
<1>3. /\ InReady' = InReady \ {p}
      /\ InQueue' = InQueue \ {p}
      /\ p \in InQueue
      /\ \A q \in InReady' : ready'[q] = ready[q]
  BY <1>1, <1>2 DEF InReady, InQueue, TypeOK, RedisTypeOK, Custody, OneCarrier
<1>4. /\ Busy' = Busy \cup {s} /\ s \notin Busy
      /\ JobTask(s)' = p.task
      /\ \A u \in Busy : JobTask(u)' = JobTask(u)
  BY <1>2 DEF Pop, Busy, JobTask, TypeOK, SlotTypeOK
<1>5. OneCarrier'
  BY <1>1, <1>3, <1>4 DEF Custody, OneCarrier
<1>6. DeadUncarried'
  BY <1>1, <1>3, <1>4 DEF Custody, DeadUncarried
<1>7. UnpublishedNowhere'
  BY <1>1, <1>3, <1>4 DEF Custody, UnpublishedNowhere, Unpublished
<1>8. BatchesDisjoint' /\ SnapshotsCurrent'
  BY <1>1 DEF Custody, BatchesDisjoint, SnapshotsCurrent
<1> QED BY <1>5, <1>6, <1>7, <1>8 DEF Custody

\* The payload a slot gives back goes where no other payload of its task is.
LEMMA JobAlone ==
  ASSUME TypeOK, Custody, NEW s \in Slots, pc[s] # "free"
  PROVE  /\ s \in Busy /\ job[s] \in Payload /\ JobTask(s) \in Tasks
         /\ \A q \in InQueue \cup dlq : q.task # JobTask(s)
         /\ \A u \in Busy \ {s} : JobTask(u) # JobTask(s)
         /\ ~Unpublished(JobTask(s))
BY BusyJob DEF TypeOK, Busy, Custody, OneCarrier, DeadUncarried, UnpublishedNowhere

LEMMA ScheduleCustody ==
  ASSUME TypeOK, Custody, NEW s \in Slots, Schedule(s)
  PROVE  Custody'
<1>1. pc[s] # "free" /\ UNCHANGED <<apiVars, push, ready, dlq>>
  BY DEF Schedule
<1>2. Busy' = Busy \ {s} /\ \A u \in Busy' : JobTask(u)' = JobTask(u)
  BY ReleaseBusy DEF Schedule, TypeOK, JobTask
<1>3. CASE UNCHANGED <<delayed, drop>>
  BY <1>1, <1>2, <1>3, OnlySlots DEF KeepsJobs, redisVars, moveVars
<1>4. CASE /\ delayed' = delayed \cup {job[s]}
           /\ drop' = [e \in Engines |-> drop[e] \ {job[s]}]
  <2>1. InReady' = InReady /\ InQueue' = InQueue \cup {job[s]} /\ JobTask(s) = job[s].task
    BY <1>1, <1>4 DEF InReady, InQueue, JobTask
  <2>2. SnapshotsCurrent'
    BY <1>1, <1>4, JobAlone DEF Custody, SnapshotsCurrent, InQueue, JobTask
  <2>3. OneCarrier'
    BY <1>1, <1>2, <1>4, <2>1, JobAlone DEF Custody, OneCarrier, InQueue
  <2>4. DeadUncarried'
    BY <1>1, <1>2, <2>1, JobAlone DEF Custody, DeadUncarried
  <2>5. UnpublishedNowhere'
    BY <1>1, <1>2, <2>1, JobAlone DEF Custody, UnpublishedNowhere, Unpublished, apiVars
  <2>6. BatchesDisjoint'
    BY <1>1 DEF Custody, BatchesDisjoint, apiVars
  <2> QED BY <2>2, <2>3, <2>4, <2>5, <2>6 DEF Custody
<1> QED BY <1>3, <1>4 DEF Schedule

LEMMA DeadLetterCustody ==
  ASSUME TypeOK, Custody, NEW s \in Slots, DeadLetter(s)
  PROVE  Custody'
<1>1. pc[s] # "free" /\ UNCHANGED <<apiVars, moveVars, ready, delayed>>
  BY DEF DeadLetter
<1>2. Busy' = Busy \ {s} /\ \A u \in Busy' : JobTask(u)' = JobTask(u)
  BY ReleaseBusy DEF DeadLetter, TypeOK, JobTask
<1>3. CASE UNCHANGED dlq
  BY <1>1, <1>2, <1>3, OnlySlots DEF KeepsJobs, redisVars
<1>4. CASE dlq' = dlq \cup {job[s]}
  <2>1. InReady' = InReady /\ InQueue' = InQueue /\ JobTask(s) = job[s].task
    BY <1>1 DEF InReady, InQueue, JobTask
  <2>2. OneCarrier'
    BY <1>1, <1>2, <2>1 DEF Custody, OneCarrier
  <2>3. DeadUncarried'
    BY <1>1, <1>2, <1>4, <2>1, JobAlone DEF Custody, DeadUncarried
  <2>4. UnpublishedNowhere'
    BY <1>1, <1>2, <1>4, <2>1, JobAlone DEF Custody, UnpublishedNowhere, Unpublished, apiVars
  <2>5. BatchesDisjoint' /\ SnapshotsCurrent'
    BY <1>1 DEF Custody, BatchesDisjoint, SnapshotsCurrent, apiVars, moveVars
  <2> QED BY <2>2, <2>3, <2>4, <2>5 DEF Custody
<1> QED BY <1>3, <1>4 DEF DeadLetter

LEMMA CoroutineKeepsJobs ==
  ASSUME TypeOK, NEW s \in Slots, Coroutine(s), ~Schedule(s), ~DeadLetter(s)
  PROVE  KeepsJobs /\ UNCHANGED <<apiVars, redisVars, moveVars>>
<1>1. pc[s] # "free" /\ UNCHANGED <<apiVars, redisVars, moveVars>>
  BY DEF Coroutine, MarkProcessing, Throttle, Execute, SaveLoad, SaveCommit, SaveFails,
    EvaluateLoad, EvaluateJudge, EvaluateCommit, EvaluateLeave, Retry, Exhaust
<1>2. CASE AfterSave(s)
  BY <1>1, <1>2, AfterSaveKeepsJobs DEF TypeOK
<1>3. CASE Retry(s)
  <2>1. Busy' = Busy
    BY <1>1, <1>3, GotoBusy DEF Retry, TypeOK
  <2>2. \A u \in Busy : JobTask(u)' = JobTask(u)
    BY <1>1, <1>3, BusyJob DEF Retry, TypeOK, SlotTypeOK, JobTask, Payload, Busy
  <2> QED BY <1>1, <2>1, <2>2 DEF KeepsJobs
<1>4. CASE UNCHANGED job /\ \E label \in {"marked", "save", "commit", "evaluate", "judge",
                                          "conclude", "dlq"} : Goto(s, label)
  BY <1>1, <1>4, GotoBusy DEF TypeOK, KeepsJobs, JobTask
<1> QED
  BY <1>1, <1>2, <1>3, <1>4 DEF Coroutine, MarkProcessing, Throttle, Execute, SaveLoad, SaveCommit,
    SaveFails, EvaluateLoad, EvaluateJudge, EvaluateCommit, EvaluateLeave, Exhaust

----------------------------------------------------------------------------

LEMMA CustodyStep ==
  ASSUME SingleConsumer, TypeOK, Custody, [Next]_vars
  PROVE  Custody'
<1>1. CASE CreateScan \/ DeleteScan
  BY <1>1, ScanCustody
<1>2. CASE \E r \in Requests : SubmitLoad(r) \/ SubmitStep(r) \/ SubmitAbort(r)
  BY <1>2, SubmitCustody
<1>3. CASE \E e \in Engines : ReadDelayed(e) \/ MoveDelayed(e) \/ PopLost(e)
  BY <1>3, ConsumerCustody
<1>4. CASE Crash
  BY <1>4, CrashCustody
<1>5. CASE \E s \in Slots : Pop(s) \/ Coroutine(s)
  BY <1>5, PopCustody, ScheduleCustody, DeadLetterCustody, CoroutineKeepsJobs, OnlySlots
<1>6. CASE UNCHANGED vars
  BY <1>6, SlotsIdle, OnlySlots DEF vars
<1> QED BY <1>1, <1>2, <1>3, <1>4, <1>5, <1>6 DEF Next

\* A payload is in one place at a time, and its task's submission, the consumer's
\* snapshot and the dead letter list agree with that, through every fault.
THEOREM CustodyCorrect == ASSUME SingleConsumer PROVE Spec => [](TypeOK /\ Custody)
<1>1. Init => TypeOK /\ Custody
  BY TypeInit, CustodyInit
<1>2. TypeOK /\ Custody /\ [Next]_vars => (TypeOK /\ Custody)'
  BY TypeStep, CustodyStep
<1> QED BY <1>1, <1>2, PTL DEF Spec

\* With one consumer no fault duplicates a payload: publish_batch, the move out
\* of the delayed set, BLPOP and schedule_delayed hand it on and never copy it.
THEOREM OneCarrierCorrect == ASSUME SingleConsumer PROVE Spec => []OneCarrier
<1>1. TypeOK /\ Custody => OneCarrier
  BY DEF Custody
<1> QED BY <1>1, CustodyCorrect, PTL

=============================================================================
