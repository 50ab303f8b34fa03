------------------------- MODULE ScanSettlingProofs -------------------------
(***************************************************************************)
(* Without faults, and as long as one read of the delayed set returns all  *)
(* that is in it: a scan does not stay RUNNING with nobody left to judge   *)
(* it, however many consumers race; and with a single one no task is lost. *)
(***************************************************************************)
EXTENDS ScanExecutionProofs, FiniteSetTheorems

Assumed == FaultFree /\ TypeOK /\ DelayedFits /\ Settling

----------------------------------------------------------------------------
(* The steps *)

\* A coroutine touches its own slot and its own task only.
OnlyOf(s) ==
  /\ \A u \in Slots : u # s => /\ pc'[u] = pc[u] /\ job'[u] = job[u] /\ outcome'[u] = outcome[u]
                               /\ row'[u] = row[u] /\ seen'[u] = seen[u] /\ verdict'[u] = verdict[u]
  /\ \A t \in Tasks : t # JobTask(s) => taskStatus'[t] = taskStatus[t] /\ attempts'[t] = attempts[t]
  /\ UNCHANGED <<request, batch>>

LEMMA BusyCoroutine ==
  ASSUME TypeOK, NEW s \in Slots, Coroutine(s)
  PROVE  pc[s] # "free" /\ job[s] \in Payload /\ JobTask(s) \in Tasks /\ JobTask(s) = job[s].task
<1>1. pc[s] # "free"
  BY DEF Coroutine, MarkProcessing, Throttle, Execute, SaveLoad, SaveCommit, SaveFails,
    EvaluateLoad, EvaluateJudge, EvaluateCommit, EvaluateLeave, Retry, Schedule, Exhaust, DeadLetter
<1> QED BY <1>1, BusyJob DEF TypeOK, JobTask

LEMMA CoroutineAlone ==
  ASSUME TypeOK, NEW s \in Slots, Coroutine(s)
  PROVE  OnlyOf(s)
<1> USE DEF OnlyOf, TypeOK, DbTypeOK, SlotTypeOK, apiVars, dbVars, evalVars, Goto, Release,
            ForgetRead, AfterSave, WriteStatus
<1>1. CASE MarkProcessing(s) \/ Throttle(s) \/ Execute(s) \/ SaveLoad(s)
  BY <1>1, BusyCoroutine DEF MarkProcessing, Throttle, Execute, SaveLoad
<1>2. CASE SaveCommit(s)
  BY <1>2, BusyCoroutine DEF SaveCommit
<1>3. CASE SaveFails(s)
  BY <1>3 DEF SaveFails
<1>4. CASE EvaluateLoad(s) \/ EvaluateJudge(s)
  BY <1>4 DEF EvaluateLoad, EvaluateJudge
<1>5. CASE EvaluateCommit(s)
  BY <1>5 DEF EvaluateCommit
<1>6. CASE EvaluateLeave(s)
  BY <1>6 DEF EvaluateLeave
<1>7. CASE Retry(s) \/ Exhaust(s)
  BY <1>7, BusyCoroutine DEF Retry, Exhaust
<1>8. CASE Schedule(s) \/ DeadLetter(s)
  BY <1>8 DEF Schedule, DeadLetter
<1> QED BY <1>1, <1>2, <1>3, <1>4, <1>5, <1>6, <1>7, <1>8 DEF Coroutine

\* Rows stay, and their attempts are not taken back.
Grows ==
  /\ \A t \in Tasks : Exists(t) => Exists(t)'
  /\ \A t \in Tasks : attempts[t] > 0 => attempts'[t] > 0

LEMMA CoroutineGrows ==
  ASSUME TypeOK, NEW s \in Slots, Coroutine(s)
  PROVE  Grows
<1> PICK t \in Tasks : t = JobTask(s)
  BY BusyCoroutine
<1>1. OnlyOf(s)
  BY CoroutineAlone
<1>2. CASE SaveCommit(s)
  <2>1. attempts'[t] = row[s].attempts + 1 /\ row[s].attempts \in Nat /\ Exists(t)'
    BY <1>1, <1>2 DEF SaveCommit, Commits, Exists, SavedStatus, TaskStatus, TypeOK, DbTypeOK, SlotTypeOK
  <2> QED BY <1>1, <2>1 DEF OnlyOf, Grows, Exists
<1>3. CASE ~SaveCommit(s)
  <2>1. UNCHANGED attempts /\ (Exists(t) => Exists(t)')
    BY <1>1, <1>3 DEF Coroutine, MarkProcessing, Throttle, Execute, SaveLoad, SaveFails, EvaluateLoad,
      EvaluateJudge, EvaluateCommit, EvaluateLeave, Retry, Schedule, Exhaust, DeadLetter, WriteStatus,
      dbVars, Exists, TaskStatus, Pending, TypeOK, DbTypeOK
  <2> QED BY <1>1, <2>1 DEF OnlyOf, Grows, Exists
<1> QED BY <1>2, <1>3

LEMMA StepGrows ==
  ASSUME FaultFree, TypeOK, [Next]_vars
  PROVE  Grows
<1>1. CASE UNCHANGED <<taskStatus, attempts>>
  BY <1>1 DEF Grows, Exists
<1>2. ASSUME NEW r \in Requests, SubmitStore(r) PROVE Grows
  BY <1>2 DEF SubmitStore, Grows, Exists, TaskStatus, Pending, TypeOK, DbTypeOK
<1>3. CASE Next
  BY <1>1, <1>2, <1>3, CoroutineGrows DEF Next, SubmitStep, CreateScan, SubmitLoad, SubmitStart,
    SubmitPublish, SubmitAbort, ReadDelayed, MoveDelayed, PopLost, Crash, Pop, DeleteScan, FaultFree,
    dbVars
<1> QED BY <1>1, <1>3 DEF vars, dbVars

----------------------------------------------------------------------------
(* The delayed set *)

LEMMA ReadsAll ==
  ASSUME TypeOK, MovesWhole, DelayedFits, NEW e \in Engines, ReadDelayed(e)
  PROVE  MovesWhole'
<1>1. PICK due \in SUBSET delayed \ {{}} : \E part \in SUBSET due \ {{}} :
        /\ \/ part = due /\ Cardinality(due) <= DueLimit
           \/ Cardinality(part) = DueLimit
        /\ push' = [push EXCEPT ![e] = part]
        /\ drop' = [drop EXCEPT ![e] = due]
  BY DEF ReadDelayed
<1>2. PICK part \in SUBSET due \ {{}} :
        /\ \/ part = due /\ Cardinality(due) <= DueLimit
           \/ Cardinality(part) = DueLimit
        /\ push' = [push EXCEPT ![e] = part]
        /\ drop' = [drop EXCEPT ![e] = due]
  BY <1>1
<1>3. part = due
  <2>1. IsFiniteSet(delayed) /\ IsFiniteSet(due) /\ Cardinality(delayed) \in Nat
    BY FS_Subset, FS_CardinalityType DEF MovesWhole
  <2>2. Cardinality(part) <= Cardinality(due) /\ Cardinality(due) <= Cardinality(delayed)
    BY <2>1, FS_Subset
  <2>3. Cardinality(part) \in Nat /\ Cardinality(due) \in Nat
    BY <2>1, FS_Subset, FS_CardinalityType
  <2>4. CASE Cardinality(part) = DueLimit
    <3>1. Cardinality(part) = Cardinality(due)
      BY <2>1, <2>2, <2>3, <2>4, LimitAssumption DEF DelayedFits
    <3> QED BY <2>1, <3>1, FS_Subset
  <2> QED BY <1>2, <2>4
<1>4. UNCHANGED delayed
  BY DEF ReadDelayed, redisVars
<1> QED BY <1>2, <1>3, <1>4 DEF MovesWhole, TypeOK, RedisTypeOK

LEMMA WholeStep ==
  ASSUME TypeOK, DelayedFits, MovesWhole, FaultFree, [Next]_vars
  PROVE  MovesWhole'
<1>1. CASE UNCHANGED <<delayed, push, drop>>
  BY <1>1 DEF MovesWhole
<1>2. ASSUME NEW e \in Engines, MoveDelayed(e) PROVE MovesWhole'
  <2>1. IsFiniteSet(delayed')
    BY <1>2, FS_Subset DEF MoveDelayed, MovesWhole
  <2> QED BY <1>2, <2>1 DEF MoveDelayed, MovesWhole, TypeOK, RedisTypeOK
<1>3. ASSUME NEW s \in Slots, Schedule(s) PROVE MovesWhole'
  <2>1. /\ delayed' = delayed \cup {job[s]} /\ push' = push
        /\ drop' = [e \in Engines |-> drop[e] \ {job[s]}]
    BY <1>3 DEF Schedule, FaultFree
  <2>2. IsFiniteSet(delayed \cup {job[s]})
    <3>1. IsFiniteSet(delayed)
      BY DEF MovesWhole
    <3> QED BY <3>1, FS_AddElement
  <2> QED BY <2>1, <2>2 DEF MovesWhole
<1>4. CASE Next
  BY <1>1, <1>2, <1>3, <1>4, ReadsAll DEF Next, SubmitStep, Coroutine, CreateScan, SubmitLoad,
    SubmitStart, SubmitStore, SubmitPublish, SubmitAbort, PopLost, Crash, Pop, DeleteScan, FaultFree,
    MarkProcessing, Throttle, Execute, SaveLoad, SaveCommit, SaveFails, EvaluateLoad, EvaluateJudge,
    EvaluateCommit, EvaluateLeave, Retry, Exhaust, DeadLetter, redisVars, moveVars
<1> QED BY <1>1, <1>4 DEF vars, redisVars, moveVars

----------------------------------------------------------------------------
(* The rows *)

LEMMA SubmitKnown ==
  ASSUME Assumed, NEW r \in Requests, SubmitLoad(r) \/ SubmitStep(r)
  PROVE  RowsKnown'
<1> USE DEF Assumed, Settling
<1>1. Grows
  BY StepGrows DEF Next
<1>2. \A p \in InQueue \cup UNION {push[e] : e \in Engines} : p.task \in Tasks
  BY DEF TypeOK, RedisTypeOK, InQueue, InReady, Payload
<1>3. ScanExists
  BY DEF SubmitLoad, SubmitStep, SubmitStart, SubmitStore, SubmitPublish, RowsKnown, ScanExists
<1>4. scanStatus' \notin {"NONE", "DELETED"}
  BY <1>3 DEF SubmitLoad, SubmitStep, SubmitStart, SubmitStore, SubmitPublish, ScanExists, dbVars
<1>5. /\ UNCHANGED <<delayed, push>>
      /\ \A u \in Requests : u # r => request'[u] = request[u] /\ batch'[u] = batch[u]
      /\ batch' \in [Requests -> SUBSET Tasks]
  BY DEF SubmitLoad, SubmitStep, SubmitStart, SubmitStore, SubmitPublish, redisVars, moveVars,
         Unsubmitted, TypeOK, ApiTypeOK
<1>6. \A u \in Requests : u # r /\ request'[u] \in {"stored", "done"} => batch'[u] \subseteq Stored'
  BY <1>1, <1>5 DEF Grows, RowsKnown, Stored
<1>7. request'[r] \in {"stored", "done"} => batch'[r] \subseteq Stored'
  <2>1. CASE SubmitLoad(r) \/ SubmitStart(r)
    BY <2>1 DEF SubmitLoad, SubmitStart, TypeOK, ApiTypeOK
  <2>2. CASE SubmitStore(r)
    BY <1>3, <2>2 DEF SubmitStore, Stored, Exists, TaskStatus, Pending, TypeOK, ApiTypeOK
  <2>3. CASE SubmitPublish(r)
    BY <2>3 DEF SubmitPublish, RowsKnown, Stored, Exists, dbVars
  <2> QED BY <2>1, <2>2, <2>3 DEF SubmitStep
<1>8. \A p \in InQueue' : Exists(p.task)'
  <2>1. CASE ready' = ready
    BY <1>1, <1>2, <1>5, <2>1 DEF InQueue, InReady, Grows, RowsKnown
  <2>2. CASE SubmitPublish(r)
    <3>1. ready' = Pushed({[task |-> t, attempt |-> 0] : t \in batch[r]})
      BY <2>2 DEF SubmitPublish, FaultFree
    <3>2. \A p \in InQueue' : p \in InQueue \/ p.task \in batch[r]
      BY <1>5, <3>1 DEF InQueue, InReady, Pushed, TypeOK, RedisTypeOK
    <3>3. \A t \in batch[r] : Exists(t)' /\ t \in Tasks
      BY <2>2 DEF SubmitPublish, RowsKnown, Stored, Exists, dbVars
    <3> QED BY <1>1, <1>2, <3>2, <3>3 DEF Grows, RowsKnown
  <2> QED BY <2>1, <2>2 DEF SubmitLoad, SubmitStep, SubmitStart, SubmitStore, redisVars
<1>9. \A e \in Engines : \A p \in push'[e] : Exists(p.task)'
  BY <1>1, <1>2, <1>5 DEF Grows, RowsKnown
<1> QED BY <1>4, <1>6, <1>7, <1>8, <1>9 DEF RowsKnown

\* Any other step, once it is known what it may add to the queue.
LEMMA QueueKnown ==
  ASSUME Assumed, Grows, UNCHANGED <<request, batch>>,
         scanStatus' # "DELETED", scanStatus # "NONE" => scanStatus' # "NONE",
         NEW P \in SUBSET Payload, \A p \in P : Exists(p.task),
         InQueue' \subseteq InQueue \cup P,
         \A e \in Engines : push'[e] \subseteq push[e] \cup InQueue
  PROVE  RowsKnown'
<1>1. \A p \in InQueue \cup P \cup UNION {push[e] : e \in Engines} : p.task \in Tasks
  BY DEF Assumed, TypeOK, RedisTypeOK, InQueue, InReady, Payload
<1> QED BY <1>1 DEF Assumed, Settling, RowsKnown, Grows, Stored

LEMMA KnownStep ==
  ASSUME Assumed, [Next]_vars
  PROVE  RowsKnown'
<1> USE DEF Assumed, Settling
<1>1. Grows
  BY StepGrows
<1>2. ASSUME NEW e \in Engines, ReadDelayed(e) \/ MoveDelayed(e)
      PROVE  RowsKnown'
  <2>1. UNCHANGED <<scanStatus, request, batch>>
    BY <1>2 DEF ReadDelayed, MoveDelayed, apiVars, dbVars
  <2>2. InQueue' \subseteq InQueue \cup push[e]
    BY <1>2 DEF ReadDelayed, MoveDelayed, InQueue, InReady, Pushed, redisVars, TypeOK, RedisTypeOK
  <2>3. \A u \in Engines : push'[u] \subseteq push[u] \cup InQueue
    BY <1>2 DEF ReadDelayed, MoveDelayed, InQueue, TypeOK, RedisTypeOK
  <2>4. push[e] \in SUBSET Payload /\ \A p \in push[e] : Exists(p.task)
    BY DEF RowsKnown, TypeOK, RedisTypeOK
  <2> QED BY <1>1, <2>1, <2>2, <2>3, <2>4, QueueKnown DEF RowsKnown
<1>3. ASSUME NEW s \in Slots, Pop(s) \/ Coroutine(s)
      PROVE  RowsKnown'
  <2>1. UNCHANGED <<request, batch, push>>
    BY <1>3 DEF Pop, Coroutine, MarkProcessing, Throttle, Execute, SaveLoad, SaveCommit, SaveFails,
      EvaluateLoad, EvaluateJudge, EvaluateCommit, EvaluateLeave, Retry, Schedule, Exhaust, DeadLetter,
      apiVars, moveVars
  <2>2. scanStatus' = scanStatus \/ scanStatus' \in Final
    <3>1. CASE EvaluateCommit(s)
      BY <3>1 DEF EvaluateCommit, SlotKnows
    <3> QED
      BY <1>3, <3>1 DEF Pop, Coroutine, MarkProcessing, Throttle, Execute, SaveLoad, SaveCommit,
        SaveFails, EvaluateLoad, EvaluateJudge, EvaluateLeave, Retry, Schedule, Exhaust, DeadLetter, dbVars
  <2>3. ASSUME ~Schedule(s) PROVE InQueue' \subseteq InQueue
    BY <1>3, <2>3 DEF Pop, Coroutine, MarkProcessing, Throttle, Execute, SaveLoad, SaveCommit, SaveFails,
      EvaluateLoad, EvaluateJudge, EvaluateCommit, EvaluateLeave, Retry, Exhaust, DeadLetter,
      redisVars, InQueue, InReady, TypeOK, RedisTypeOK
  <2>4. scanStatus' # "DELETED" /\ (scanStatus # "NONE" => scanStatus' # "NONE")
    BY <2>2 DEF RowsKnown, Final
  <2>5. CASE Schedule(s)
    <3>1. InQueue' \subseteq InQueue \cup {job[s]}
      BY <2>5 DEF Schedule, InQueue, InReady
    <3>2. Coroutine(s)
      BY <2>5 DEF Coroutine
    <3>3. job[s] \in Payload /\ Exists(job[s].task)
      BY <3>2, BusyCoroutine DEF SlotKnows
    <3>4. {job[s]} \in SUBSET Payload /\ \A p \in {job[s]} : Exists(p.task)
      BY <3>3
    <3> QED BY <1>1, <2>1, <2>4, <3>1, <3>4, QueueKnown
  <2>6. CASE ~Schedule(s)
    <3>1. {} \in SUBSET Payload /\ \A p \in {} : Exists(p.task)
      OBVIOUS
    <3> QED BY <1>1, <2>1, <2>3, <2>4, <2>6, <3>1, QueueKnown
  <2> QED BY <2>5, <2>6
<1>4. CASE CreateScan \/ UNCHANGED vars
  <2>1. /\ UNCHANGED <<request, batch, push, ready, delayed>>
        /\ scanStatus' = scanStatus \/ scanStatus' = "PENDING"
    BY <1>4 DEF CreateScan, vars, dbVars, apiVars, redisVars, moveVars
  <2>2. InQueue' = InQueue
    BY <2>1 DEF InQueue, InReady
  <2>3. {} \in SUBSET Payload /\ \A p \in {} : Exists(p.task)
    OBVIOUS
  <2>4. scanStatus' # "DELETED" /\ (scanStatus # "NONE" => scanStatus' # "NONE")
    BY <2>1 DEF RowsKnown
  <2> QED BY <1>1, <2>1, <2>2, <2>3, <2>4, QueueKnown
<1> QED
  BY <1>2, <1>3, <1>4, SubmitKnown DEF Next, SubmitAbort, PopLost, Crash, DeleteScan, FaultFree

----------------------------------------------------------------------------
(* The coroutines *)

\* Nobody but a coroutine itself takes back what it knows.
LEMMA OthersKnow ==
  ASSUME TypeOK, Grows, NEW u \in Slots, SlotKnows(u), pc[u] # "free",
         pc'[u] = pc[u], job'[u] = job[u], row'[u] = row[u], verdict'[u] = verdict[u]
  PROVE  SlotKnows(u)'
<1>1. JobTask(u) \in Tasks
  BY DEF TypeOK, SlotTypeOK, JobTask, Payload
<1> QED BY <1>1 DEF SlotKnows, Grows, JobTask

LEMMA KeepsTask ==
  ASSUME TypeOK, NEW s \in Slots, Coroutine(s)
  PROVE  pc'[s] \in {"free", "marked", "save", "commit", "evaluate", "judge", "conclude", "retry",
                    "schedule", "dlq"}
         /\ (pc'[s] = "free" \/ JobTask(s)' = JobTask(s))
<1>1. CASE Schedule(s) \/ DeadLetter(s)
  BY <1>1 DEF Schedule, DeadLetter, Release
<1>2. CASE ~Schedule(s) /\ ~DeadLetter(s)
  <2>1. pc'[s] # "free" => JobTask(s)' = JobTask(s)
    BY <1>2, CoroutineKeepsJobs DEF KeepsJobs, Busy
  <2> QED
    BY <1>2, <2>1 DEF Coroutine, MarkProcessing, Throttle, Execute, SaveLoad, SaveCommit, SaveFails,
      EvaluateLoad, EvaluateJudge, EvaluateCommit, EvaluateLeave, Retry, Exhaust, AfterSave, Release,
      Goto, TypeOK, SlotTypeOK
<1> QED BY <1>1, <1>2

LEMMA SelfKnows ==
  ASSUME Assumed, NEW s \in Slots, Coroutine(s)
  PROVE  SlotKnows(s)'
<1> USE DEF Assumed, Settling
<1> PICK t \in Tasks : t = JobTask(s)
  BY BusyCoroutine
<1>1. /\ Grows /\ SlotKnows(s) /\ pc[s] # "free" /\ Exists(t) /\ Exists(t)'
      /\ attempts[t] \in Nat /\ (attempts[t] > 0 => attempts'[t] > 0)
  BY CoroutineGrows, BusyCoroutine DEF Grows, SlotKnows, TypeOK, DbTypeOK
<1>2. pc'[s] # "free" => JobTask(s)' = t
  BY KeepsTask
<1>3. pc'[s] \in {"evaluate", "judge", "conclude", "retry", "schedule", "dlq"} => attempts'[t] > 0
  <2>1. CASE SaveCommit(s)
    BY <2>1 DEF SaveCommit, TypeOK, DbTypeOK, SlotTypeOK
  <2>2. CASE SaveFails(s)
    BY <1>1, <2>2 DEF SaveFails, Commits, FaultFree, SlotKnows
  <2>3. CASE pc[s] \in {"evaluate", "judge", "conclude", "retry", "schedule", "dlq"}
    BY <1>1, <2>3 DEF SlotKnows
  <2> QED
    BY <2>1, <2>2, <2>3 DEF Coroutine, MarkProcessing, Throttle, Execute, SaveLoad,
      EvaluateLoad, EvaluateJudge, EvaluateCommit, EvaluateLeave, Retry, Schedule, Exhaust, DeadLetter,
      Goto, TypeOK, SlotTypeOK, FaultFree
<1>4. pc'[s] = "commit" =>
        IF row'[s].attempts = 0 THEN row'[s].status \in Pending ELSE attempts'[t] > 0
  <2>1. CASE SaveLoad(s)
    <3>1. /\ row'[s].status = taskStatus[t] /\ row'[s].attempts = attempts[t]
          /\ attempts' = attempts
      BY <2>1 DEF SaveLoad, dbVars, TypeOK, SlotTypeOK
    <3> QED BY <1>1, <3>1 DEF PendingOnItsWay, Stored
  <2>2. CASE ~SaveLoad(s)
    BY <2>2 DEF Coroutine, MarkProcessing, Throttle, Execute, SaveCommit, SaveFails,
      EvaluateLoad, EvaluateJudge, EvaluateCommit, EvaluateLeave, Retry, Schedule, Exhaust, DeadLetter,
      Goto, AfterSave, Release, TypeOK, SlotTypeOK
  <2> QED BY <2>1, <2>2
<1>5. pc'[s] = "conclude" => verdict'[s] \in Final
  <2>1. CASE EvaluateJudge(s)
    BY <2>1 DEF EvaluateJudge, TypeOK, SlotTypeOK, Final
  <2>2. CASE ~EvaluateJudge(s)
    BY <2>2 DEF Coroutine, MarkProcessing, Throttle, Execute, SaveLoad, SaveCommit, SaveFails,
      EvaluateLoad, EvaluateCommit, EvaluateLeave, Retry, Schedule, Exhaust, DeadLetter,
      Goto, AfterSave, Release, TypeOK, SlotTypeOK
  <2> QED BY <2>1, <2>2
<1> QED BY <1>1, <1>2, <1>3, <1>4, <1>5 DEF SlotKnows

LEMMA PopKnows ==
  ASSUME Assumed, NEW s \in Slots, Pop(s)
  PROVE  SlotKnows(s)'
<1>1. PICK p \in Payload : ready[p] > 0 /\ job' = [job EXCEPT ![s] = p]
  BY DEF Pop
<1>2. Exists(p.task) /\ JobTask(s)' = p.task /\ pc'[s] = "popped"
  BY <1>1 DEF Pop, Assumed, Settling, RowsKnown, InQueue, InReady, JobTask, TypeOK, SlotTypeOK
<1> QED BY <1>1, <1>2 DEF SlotKnows, Pop, Exists, dbVars

LEMMA SlotsStep ==
  ASSUME Assumed, [Next]_vars
  PROVE  \A s \in Slots : SlotKnows(s)'
<1> TAKE u \in Slots
<1> USE DEF Assumed, Settling
<1>1. Grows
  BY StepGrows
<1>2. CASE pc[u] = "free" /\ pc'[u] = "free"
  BY <1>2 DEF SlotKnows
<1>3. CASE /\ pc[u] # "free" /\ pc'[u] = pc[u] /\ job'[u] = job[u] /\ row'[u] = row[u]
           /\ verdict'[u] = verdict[u]
  BY <1>1, <1>3, OthersKnow
<1>4. CASE UNCHANGED slotVars
  BY <1>2, <1>3, <1>4 DEF slotVars, evalVars
<1>5. ASSUME NEW s \in Slots, Coroutine(s) PROVE SlotKnows(u)'
  <2>1. CASE u = s
    BY <1>5, <2>1, SelfKnows
  <2>2. CASE u # s
    BY <1>2, <1>3, <1>5, <2>2, CoroutineAlone DEF OnlyOf
  <2> QED BY <2>1, <2>2
<1>6. ASSUME NEW s \in Slots, Pop(s) PROVE SlotKnows(u)'
  <2>1. CASE u = s
    BY <1>6, <2>1, PopKnows
  <2>2. CASE u # s
    BY <1>2, <1>3, <1>6, <2>2 DEF Pop, evalVars, TypeOK, SlotTypeOK
  <2> QED BY <2>1, <2>2
<1> QED
  BY <1>4, <1>5, <1>6 DEF Next, CreateScan, SubmitLoad, SubmitStep, SubmitStart, SubmitStore,
    SubmitPublish, SubmitAbort, ReadDelayed, MoveDelayed, PopLost, Crash, DeleteScan, FaultFree, vars

----------------------------------------------------------------------------
(* What is on its way arrives *)

\* The outcome of a task on its way has been recorded by a coroutine that goes
\* on to the completion check.
Arrived(t) == taskStatus'[t] \notin Pending /\ \E s \in Slots : WillJudge(s)'

LEMMA SubmitFeeds ==
  ASSUME Assumed, NEW r \in Requests, SubmitLoad(r) \/ SubmitStep(r),
         NEW t \in Tasks, OnItsWay(t)
  PROVE  OnItsWay(t)'
<1>1. UNCHANGED slotVars /\ UNCHANGED <<delayed, attempts>> /\ Grows
  BY StepGrows DEF SubmitLoad, SubmitStep, SubmitStart, SubmitStore, SubmitPublish, dbVars, redisVars,
    Assumed, Next
<1>2. ASSUME NEW s \in Slots, WillRecord(s), JobTask(s) = t
      PROVE  OnItsWay(t)'
  <2>1. WillRecord(s)' /\ JobTask(s)' = t
    BY <1>1, <1>2 DEF WillRecord, HasRetries, Commits, Grows, JobTask, slotVars
  <2> QED BY <2>1 DEF OnItsWay
<1>3. ASSUME NEW p \in InQueue, p.task = t
      PROVE  OnItsWay(t)'
  <2>1. p \in InQueue'
    BY <1>1, <1>3 DEF SubmitLoad, SubmitStep, SubmitStart, SubmitStore, SubmitPublish, InQueue, InReady,
      Pushed, redisVars, Assumed, TypeOK, RedisTypeOK
  <2> QED BY <1>3, <2>1 DEF OnItsWay
<1>4. ASSUME NEW u \in Requests, request[u] = "stored", t \in batch[u]
      PROVE  OnItsWay(t)'
  <2>1. CASE u # r \/ ~SubmitPublish(r)
    <3>1. request'[u] = "stored" /\ t \in batch'[u]
      BY <1>4, <2>1 DEF SubmitLoad, SubmitStep, SubmitStart, SubmitStore, SubmitPublish, Assumed,
        TypeOK, ApiTypeOK
    <3> QED BY <3>1 DEF OnItsWay
  <2>2. CASE u = r /\ SubmitPublish(r)
    <3>1. [task |-> t, attempt |-> 0] \in Payload
      BY RetriesAssumption DEF Payload
    <3>2. [task |-> t, attempt |-> 0] \in InQueue'
      BY <1>4, <2>2, <3>1 DEF SubmitPublish, Pushed, InQueue, InReady, Assumed, FaultFree,
        TypeOK, RedisTypeOK
    <3> QED BY <3>2 DEF OnItsWay
  <2> QED BY <2>1, <2>2
<1> QED BY <1>2, <1>3, <1>4 DEF OnItsWay

LEMMA ConsumerFeeds ==
  ASSUME Assumed, NEW e \in Engines, ReadDelayed(e) \/ MoveDelayed(e),
         NEW t \in Tasks, OnItsWay(t)
  PROVE  OnItsWay(t)'
<1>1. UNCHANGED <<slotVars, apiVars, dbVars>>
  BY DEF ReadDelayed, MoveDelayed
<1>2. InQueue \subseteq InQueue'
  BY DEF ReadDelayed, MoveDelayed, InQueue, InReady, Pushed, redisVars, Assumed, FaultFree, Settling,
    MovesWhole, TypeOK, RedisTypeOK
<1>3. \A s \in Slots : WillRecord(s) => WillRecord(s)' /\ JobTask(s)' = JobTask(s)
  BY <1>1 DEF WillRecord, HasRetries, Commits, Exists, JobTask, slotVars, dbVars
<1> QED BY <1>1, <1>2, <1>3 DEF OnItsWay, apiVars

LEMMA PopFeeds ==
  ASSUME Assumed, NEW s \in Slots, Pop(s), NEW t \in Tasks, OnItsWay(t)
  PROVE  OnItsWay(t)'
<1>1. PICK p \in Payload : /\ ready[p] > 0
                           /\ ready' = [ready EXCEPT ![p] = @ - 1]
                           /\ job' = [job EXCEPT ![s] = p]
  BY DEF Pop
<1>2. InQueue \subseteq InQueue' \cup {p}
  BY <1>1 DEF Pop, InQueue, InReady, Assumed, TypeOK, RedisTypeOK
<1>3. WillRecord(s)' /\ JobTask(s)' = p.task
  BY <1>1 DEF Pop, WillRecord, JobTask, Assumed, TypeOK, SlotTypeOK
<1>4. \A u \in Slots : WillRecord(u) => WillRecord(u)' /\ JobTask(u)' = JobTask(u)
  BY <1>1 DEF Pop, WillRecord, HasRetries, Commits, Exists, JobTask, dbVars, Assumed, TypeOK, SlotTypeOK
<1>5. UNCHANGED <<request, batch>>
  BY DEF Pop, apiVars
<1> QED BY <1>2, <1>3, <1>4, <1>5 DEF OnItsWay

\* A commit stays possible until another coroutine has made the first one.
LEMMA CommitsKept ==
  ASSUME Assumed, NEW s \in Slots, Coroutine(s), NEW u \in Slots, u # s, pc[u] = "commit", Commits(u)
  PROVE  \/ Commits(u)'
         \/ JobTask(s) = JobTask(u) /\ Arrived(JobTask(u))
<1> USE DEF Assumed, Settling
<1>1. OnlyOf(s) /\ Grows
  BY CoroutineAlone, CoroutineGrows
<1> PICK t \in Tasks : t = JobTask(u)
  BY BusyJob DEF TypeOK
<1>2. /\ JobTask(u)' = t /\ row'[u] = row[u] /\ row[u].attempts \in Nat
      /\ attempts[t] \in Nat /\ Exists(t)'
  BY <1>1 DEF OnlyOf, JobTask, Grows, Commits, TypeOK, SlotTypeOK, DbTypeOK
<1>3. CASE row[u].attempts > 0 \/ attempts'[t] = 0
  BY <1>2, <1>3 DEF Commits
<1>4. CASE row[u].attempts = 0 /\ attempts'[t] # 0
  <2>1. attempts[t] = 0
    BY <1>2, <1>4 DEF Commits
  <2>2. SaveCommit(s) /\ JobTask(s) = t
    BY <1>1, <1>4, <2>1 DEF OnlyOf, Coroutine, MarkProcessing, Throttle, Execute, SaveLoad, SaveFails,
      EvaluateLoad, EvaluateJudge, EvaluateCommit, EvaluateLeave, Retry, Schedule, Exhaust, DeadLetter,
      dbVars
  <2>3. row[s].status \in Pending
    BY <2>1, <2>2 DEF SaveCommit, SlotKnows
  <2>4. taskStatus'[t] = SavedStatus(s)
    BY <2>2, <2>3 DEF SaveCommit, SavedStatus, Pending, TypeOK, DbTypeOK
  <2>5. WillJudge(s)'
    BY <2>2 DEF SaveCommit, Goto, WillJudge, TypeOK, SlotTypeOK
  <2> QED BY <2>2, <2>4, <2>5 DEF Arrived, SavedStatus, Pending
<1> QED BY <1>2, <1>3, <1>4 DEF TypeOK, SlotTypeOK

LEMMA SelfFeeds ==
  ASSUME Assumed, NEW s \in Slots, Coroutine(s), NEW t \in Tasks, JobTask(s) = t, WillRecord(s)
  PROVE  OnItsWay(t)' \/ Arrived(t)
<1> USE DEF Assumed, Settling
<1>1. pc[s] # "free" /\ job[s] \in Payload /\ Exists(t) /\ attempts[t] \in Nat
  BY BusyCoroutine DEF SlotKnows, TypeOK, DbTypeOK
<1>2. CASE WillRecord(s)' /\ pc'[s] # "free"
  BY <1>2, KeepsTask DEF OnItsWay
<1>3. CASE MarkProcessing(s) \/ Throttle(s) \/ Execute(s) \/ Retry(s)
  BY <1>2, <1>3 DEF MarkProcessing, Throttle, Execute, Retry, Goto, WillRecord, TypeOK, SlotTypeOK
<1>4. CASE SaveLoad(s)
  <2>1. /\ pc'[s] = "commit" /\ UNCHANGED <<taskStatus, attempts, job>>
        /\ row'[s].status = taskStatus[t] /\ row'[s].attempts = attempts[t]
    BY <1>4 DEF SaveLoad, Goto, dbVars, TypeOK, SlotTypeOK
  <2>2. Commits(s)'
    BY <1>1, <2>1 DEF Commits, JobTask, Exists
  <2>3. CASE taskStatus[t] \in Pending
    BY <1>2, <2>1, <2>2, <2>3 DEF WillRecord
  <2>4. CASE taskStatus[t] \notin Pending
    BY <2>1, <2>2, <2>4 DEF Arrived, WillJudge
  <2> QED BY <2>3, <2>4
<1>5. CASE SaveCommit(s)
  <2>1. row[s].status \in Pending
    BY <1>5 DEF SaveCommit, WillRecord
  <2>2. taskStatus'[t] = SavedStatus(s)
    BY <1>5, <2>1 DEF SaveCommit, SavedStatus, Pending, TypeOK, DbTypeOK
  <2>3. WillJudge(s)'
    BY <1>5 DEF SaveCommit, Goto, WillJudge, TypeOK, SlotTypeOK
  <2> QED BY <2>2, <2>3 DEF Arrived, SavedStatus, Pending
<1>6. CASE Schedule(s)
  BY <1>1, <1>6 DEF Schedule, FaultFree, OnItsWay, InQueue, JobTask
<1> QED
  BY <1>1, <1>3, <1>4, <1>5, <1>6 DEF Coroutine, SaveFails, EvaluateLoad, EvaluateJudge, EvaluateCommit,
    EvaluateLeave, Exhaust, DeadLetter, WillRecord, FaultFree

LEMMA QueueGrows ==
  ASSUME TypeOK, FaultFree, NEW s \in Slots, Coroutine(s)
  PROVE  InQueue \subseteq InQueue'
<1>1. CASE Schedule(s)
  BY <1>1 DEF Schedule, InQueue, InReady
<1>2. CASE DeadLetter(s)
  BY <1>2 DEF DeadLetter, InQueue, InReady
<1>3. CASE ~Schedule(s) /\ ~DeadLetter(s)
  BY <1>3, CoroutineKeepsJobs DEF redisVars, InQueue, InReady
<1> QED BY <1>1, <1>2, <1>3

LEMMA CoroutineFeeds ==
  ASSUME Assumed, NEW s \in Slots, Coroutine(s), NEW t \in Tasks, OnItsWay(t)
  PROVE  OnItsWay(t)' \/ Arrived(t)
<1> USE DEF Assumed, Settling
<1>1. OnlyOf(s)
  BY CoroutineAlone
<1>2. InQueue \subseteq InQueue'
  BY QueueGrows
<1>3. ASSUME NEW u \in Slots, WillRecord(u), JobTask(u) = t, u # s
      PROVE  OnItsWay(t)' \/ Arrived(t)
  <2>1. pc'[u] = pc[u] /\ JobTask(u)' = t /\ row'[u] = row[u] /\ job'[u] = job[u]
    BY <1>1, <1>3 DEF OnlyOf, JobTask
  <2>2. CASE WillRecord(u)'
    BY <2>1, <2>2 DEF OnItsWay
  <2>3. CASE pc[u] # "commit"
    BY <1>3, <2>1, <2>2, <2>3 DEF WillRecord, HasRetries, JobTask
  <2>4. CASE pc[u] = "commit"
    BY <1>3, <2>1, <2>2, <2>4, CommitsKept DEF WillRecord
  <2> QED BY <2>3, <2>4
<1>4. \A r \in Requests : request'[r] = request[r] /\ batch'[r] = batch[r]
  BY <1>1 DEF OnlyOf
<1> QED BY <1>2, <1>3, <1>4, SelfFeeds DEF OnItsWay

LEMMA OnItsWayStep ==
  ASSUME Assumed, [Next]_vars, NEW t \in Tasks, OnItsWay(t)
  PROVE  OnItsWay(t)' \/ Arrived(t)
<1>1. CASE CreateScan \/ UNCHANGED vars
  <2>1. UNCHANGED <<request, batch, ready, delayed, taskStatus, attempts, pc, job, row>>
    BY <1>1 DEF CreateScan, vars, apiVars, dbVars, redisVars, slotVars
  <2>2. InQueue' = InQueue
    BY <2>1 DEF InQueue, InReady
  <2>3. \A s \in Slots : WillRecord(s) => WillRecord(s)' /\ JobTask(s)' = JobTask(s)
    BY <2>1 DEF WillRecord, HasRetries, Commits, Exists, JobTask
  <2> QED BY <2>1, <2>2, <2>3 DEF OnItsWay
<1> QED
  BY <1>1, SubmitFeeds, ConsumerFeeds, PopFeeds, CoroutineFeeds
     DEF Next, DeleteScan, SubmitAbort, PopLost, Crash, Assumed, FaultFree

\* A task becomes pending only in the hands of somebody who will record its
\* outcome, and gets an outcome only once its attempt is counted.
LEMMA StatusStep ==
  ASSUME Assumed, Next, NEW t \in Tasks, Exists(t)', taskStatus'[t] # taskStatus[t]
  PROVE  IF taskStatus'[t] \in Pending THEN OnItsWay(t)' ELSE attempts'[t] > 0
<1> USE DEF Assumed, Settling
<1>1. CASE \E r \in Requests : SubmitStore(r)
  <2>1. PICK r \in Requests : SubmitStore(r)
    BY <1>1
  <2>2. request'[r] = "stored" /\ t \in batch'[r] /\ taskStatus'[t] = "QUEUED"
    BY <2>1 DEF SubmitStore, TypeOK, ApiTypeOK, DbTypeOK
  <2> QED BY <2>2 DEF OnItsWay, Pending
<1>2. CASE \E s \in Slots : Coroutine(s)
  <2>1. PICK s \in Slots : Coroutine(s)
    BY <1>2
  <2>2. JobTask(s) = t /\ SlotKnows(s) /\ pc[s] # "free"
    BY <2>1, CoroutineAlone, BusyCoroutine DEF OnlyOf
  <2>3. CASE MarkProcessing(s) \/ Retry(s)
    <3>1. pc'[s] \in {"marked", "schedule"} /\ taskStatus'[t] \in Pending
      BY <2>2, <2>3 DEF MarkProcessing, Retry, Goto, WriteStatus, Pending, TypeOK, SlotTypeOK, DbTypeOK
    <3>2. WillRecord(s)' /\ JobTask(s)' = t
      BY <2>1, <2>2, <3>1, KeepsTask DEF WillRecord
    <3> QED BY <3>1, <3>2 DEF OnItsWay
  <2>4. CASE SaveCommit(s)
    <3>1. taskStatus'[t] = SavedStatus(s) /\ attempts'[t] = row[s].attempts + 1
      BY <2>2, <2>4 DEF SaveCommit, TypeOK, DbTypeOK
    <3> QED BY <3>1 DEF SavedStatus, Pending, TypeOK, SlotTypeOK
  <2>5. CASE Exhaust(s)
    <3>1. taskStatus'[t] = "FAILED" /\ attempts'[t] = attempts[t]
      BY <2>2, <2>5 DEF Exhaust, WriteStatus, TypeOK, DbTypeOK
    <3> QED BY <2>2, <2>5, <3>1 DEF Exhaust, SlotKnows, Pending
  <2> QED
    BY <2>1, <2>3, <2>4, <2>5 DEF Coroutine, Throttle, Execute, SaveLoad, SaveFails, EvaluateLoad,
      EvaluateJudge, EvaluateCommit, EvaluateLeave, Schedule, DeadLetter, dbVars
<1> QED
  BY <1>1, <1>2 DEF Next, CreateScan, SubmitLoad, SubmitStep, SubmitStart, SubmitPublish, SubmitAbort,
    ReadDelayed, MoveDelayed, PopLost, Crash, DeleteScan, FaultFree, dbVars, Pop

LEMMA PendingStep ==
  ASSUME Assumed, [Next]_vars
  PROVE  PendingOnItsWay'
<1> USE DEF Assumed, Settling
<1> SUFFICES ASSUME NEW t \in Tasks, Exists(t)'
             PROVE  IF taskStatus'[t] \in Pending THEN OnItsWay(t)' ELSE attempts'[t] > 0
  BY DEF PendingOnItsWay, Stored
<1>1. CASE taskStatus'[t] # taskStatus[t]
  BY <1>1, StatusStep DEF vars, dbVars
<1>2. CASE taskStatus'[t] = taskStatus[t]
  <2>1. Exists(t)
    BY <1>2 DEF Exists
  <2>2. CASE taskStatus[t] \in Pending
    BY <1>2, <2>1, <2>2, OnItsWayStep DEF PendingOnItsWay, Stored, Arrived
  <2>3. CASE taskStatus[t] \notin Pending
    BY <1>2, <2>1, <2>3, StepGrows DEF PendingOnItsWay, Stored, Grows
  <2> QED BY <2>2, <2>3
<1> QED BY <1>1, <1>2

----------------------------------------------------------------------------
(* A scan stays RUNNING for a reason *)

SomebodyActs == (\E s \in Slots : WillJudge(s)) \/ (\E t \in Tasks : OnItsWay(t))

LEMMA SelfJudges ==
  ASSUME Assumed, NEW s \in Slots, Coroutine(s), WillJudge(s),
         scanStatus = "RUNNING", scanStatus' = "RUNNING"
  PROVE  SomebodyActs'
<1> USE DEF Assumed, Settling
<1> PICK t \in Tasks : t = JobTask(s)
  BY BusyCoroutine
<1>1. Exists(t) /\ Stored # {}
  BY BusyCoroutine DEF SlotKnows, Stored
<1>2. CASE SaveCommit(s)
  BY <1>2 DEF SaveCommit, Goto, WillJudge, SomebodyActs, TypeOK, SlotTypeOK
<1>3. CASE EvaluateLoad(s) \/ EvaluateJudge(s)
  BY <1>3 DEF EvaluateLoad, EvaluateJudge, Goto, WillJudge, SomebodyActs, TypeOK, SlotTypeOK
<1>4. CASE EvaluateCommit(s)
  <2>1. scanStatus' \in Final
    BY <1>4 DEF EvaluateCommit, WillJudge, SlotKnows, Final
  <2> QED BY <2>1 DEF Final
<1>5. CASE EvaluateLeave(s)
  <2>1. PICK u \in Stored : taskStatus[u] \in Pending
    BY <1>1, <1>5 DEF EvaluateLeave, ScanExists, FaultFree
  <2>2. OnItsWay(u) /\ u \in Tasks
    BY <2>1 DEF PendingOnItsWay, Stored
  <2> QED BY <2>2, CoroutineFeeds DEF SomebodyActs, Arrived
<1> QED
  BY <1>2, <1>3, <1>4, <1>5 DEF Coroutine, MarkProcessing, Throttle, Execute, SaveLoad, SaveFails,
    Retry, Schedule, Exhaust, DeadLetter, WillJudge, FaultFree

LEMMA JudgeStep ==
  ASSUME Assumed, [Next]_vars, NEW u \in Slots, WillJudge(u),
         scanStatus = "RUNNING", scanStatus' = "RUNNING"
  PROVE  SomebodyActs'
<1> USE DEF Assumed, Settling
<1>1. CASE UNCHANGED <<slotVars, attempts>>
  <2>1. pc[u] # "free" /\ JobTask(u) \in Tasks
    BY BusyJob DEF WillJudge, TypeOK
  <2>2. WillJudge(u)'
    BY <1>1, <2>1, StepGrows DEF WillJudge, Commits, JobTask, Grows, slotVars, evalVars
  <2> QED BY <2>2 DEF SomebodyActs
<1>2. ASSUME NEW s \in Slots, Pop(s) PROVE SomebodyActs'
  BY <1>2 DEF Pop, WillJudge, Commits, Exists, JobTask, dbVars, evalVars, SomebodyActs, TypeOK, SlotTypeOK
<1>3. ASSUME NEW s \in Slots, Coroutine(s), s # u PROVE SomebodyActs'
  <2>1. pc'[u] = pc[u] /\ seen'[u] = seen[u]
    BY <1>3, CoroutineAlone DEF OnlyOf
  <2>2. CASE pc[u] = "commit"
    BY <1>3, <2>1, <2>2, CommitsKept DEF WillJudge, Arrived, SomebodyActs
  <2>3. CASE pc[u] # "commit"
    BY <2>1, <2>3 DEF WillJudge, SomebodyActs
  <2> QED BY <2>2, <2>3
<1> QED
  BY <1>1, <1>2, <1>3, SelfJudges DEF Next, CreateScan, SubmitLoad, SubmitStep, SubmitStart, SubmitStore,
    SubmitPublish, SubmitAbort, ReadDelayed, MoveDelayed, PopLost, Crash, DeleteScan, FaultFree, vars, dbVars

LEMMA ActsStep ==
  ASSUME Assumed, [Next]_vars, SomebodyActs, scanStatus = "RUNNING", scanStatus' = "RUNNING"
  PROVE  SomebodyActs'
BY JudgeStep, OnItsWayStep DEF SomebodyActs, Arrived

LEMMA DueStep ==
  ASSUME Assumed, [Next]_vars
  PROVE  VerdictDue'
<1> USE DEF Assumed, Settling
<1> SUFFICES ASSUME scanStatus' = "RUNNING" PROVE VerdictDue'
  BY DEF VerdictDue
<1>1. CASE \E r \in Requests : SubmitStart(r)
  <2>1. PICK r \in Requests : SubmitStart(r)
    BY <1>1
  <2>2. request'[r] = "started"
    BY <2>1 DEF SubmitStart, ScanExists, TypeOK, ApiTypeOK
  <2> QED BY <2>2 DEF VerdictDue
<1>2. CASE ~\E r \in Requests : SubmitStart(r)
  <2>1. scanStatus = "RUNNING"
    BY <1>2 DEF Next, CreateScan, SubmitLoad, SubmitStep, SubmitStore, SubmitPublish, SubmitAbort,
      ReadDelayed, MoveDelayed, PopLost, Crash, Pop, DeleteScan, FaultFree, Coroutine, MarkProcessing,
      Throttle, Execute, SaveLoad, SaveCommit, SaveFails, EvaluateLoad, EvaluateJudge, EvaluateCommit,
      EvaluateLeave, Retry, Schedule, Exhaust, DeadLetter, SlotKnows, Final, vars, dbVars
  <2>2. CASE SomebodyActs
    BY <2>1, <2>2, ActsStep DEF SomebodyActs, VerdictDue
  <2>3. ASSUME NEW r \in Requests, request[r] = "started" PROVE VerdictDue'
    <3>1. CASE SubmitStore(r)
      <4>1. request'[r] = "stored" /\ batch'[r] = batch[r]
        BY <2>1, <3>1 DEF SubmitStore, ScanExists, TypeOK, ApiTypeOK
      <4>2. batch'[r] = {} \/ \E t \in Tasks : t \in batch'[r]
        BY <4>1 DEF TypeOK, ApiTypeOK
      <4> QED BY <4>1, <4>2 DEF VerdictDue, OnItsWay
    <3>2. CASE ~SubmitStore(r)
      <4>1. request'[r] = request[r]
        BY <2>3, <3>2, CoroutineAlone DEF OnlyOf, Next, CreateScan, SubmitLoad, SubmitStep, SubmitStart,
          SubmitStore, SubmitPublish, SubmitAbort, ReadDelayed, MoveDelayed, PopLost, Crash, Pop,
          DeleteScan, FaultFree, vars, apiVars, TypeOK, ApiTypeOK
      <4> QED BY <2>3, <4>1 DEF VerdictDue
    <3> QED BY <3>1, <3>2
  <2>4. ASSUME NEW r \in Requests, request[r] \in {"stored", "done"}, batch[r] = {} PROVE VerdictDue'
    <3>1. request'[r] \in {"stored", "done"} /\ batch'[r] = batch[r]
      BY <2>4, CoroutineAlone DEF OnlyOf, Next, CreateScan, SubmitLoad, SubmitStep, SubmitStart,
        SubmitStore, SubmitPublish, SubmitAbort, ReadDelayed, MoveDelayed, PopLost, Crash, Pop,
        DeleteScan, FaultFree, vars, apiVars, TypeOK, ApiTypeOK
    <3> QED BY <2>4, <3>1 DEF VerdictDue
  <2> QED BY <2>1, <2>2, <2>3, <2>4 DEF VerdictDue, SomebodyActs
<1> QED BY <1>1, <1>2

----------------------------------------------------------------------------

LEMMA SettlingInit == Init => Settling
<1> SUFFICES ASSUME Init PROVE Settling
  OBVIOUS
<1>1. MovesWhole
  BY FS_EmptySet DEF Init, MovesWhole
<1>2. RowsKnown
  BY DEF Init, RowsKnown, InQueue, InReady
<1>3. \A s \in Slots : SlotKnows(s)
  BY DEF Init, SlotKnows
<1>4. PendingOnItsWay /\ VerdictDue
  BY DEF Init, PendingOnItsWay, VerdictDue, Stored, Exists, TaskStatus, Pending
<1> QED BY <1>1, <1>2, <1>3, <1>4 DEF Settling

LEMMA SettlingStep == Assumed /\ [Next]_vars => Settling'
BY WholeStep, KnownStep, SlotsStep, PendingStep, DueStep DEF Assumed, Settling

LEMMA SettlingKept ==
  ASSUME FaultFree
  PROVE  Spec /\ []DelayedFits => []Settling
<1>1. TypeOK /\ DelayedFits /\ Settling /\ [Next]_vars => Settling'
  BY SettlingStep DEF Assumed
<1> QED BY <1>1, SettlingInit, TypeCorrect, PTL DEF Spec

\* At rest nothing is on its way and nobody will judge, so the scan is RUNNING
\* for the remaining reason: a submission without tasks.
THEOREM VerdictReachedCorrect ==
  ASSUME FaultFree
  PROVE  Spec /\ []DelayedFits => []VerdictReached
<1>1. Settling => VerdictReached
  <2> SUFFICES ASSUME Settling, AtRest, scanStatus = "RUNNING"
               PROVE  \E r \in Requests : request[r] = "done" /\ batch[r] = {}
    BY DEF VerdictReached
  <2>1. ~SomebodyActs /\ \A r \in Requests : request[r] \notin {"started", "stored"}
    BY DEF SomebodyActs, AtRest, Busy, WillJudge, OnItsWay, WillRecord
  <2> QED BY <2>1 DEF Settling, VerdictDue, SomebodyActs
<1> QED BY <1>1, SettlingKept, PTL

----------------------------------------------------------------------------
(* A single consumer *)

AssumedOne == Assumed /\ SingleConsumer /\ Custody /\ SettledOne

\* The task of a busy slot is written by its coroutine only.
LEMMA OthersSettled ==
  ASSUME AssumedOne, [Next]_vars, NEW u \in Slots, pc[u] # "free", ~Coroutine(u)
  PROVE  /\ pc'[u] = pc[u] /\ job'[u] = job[u] /\ outcome'[u] = outcome[u] /\ row'[u] = row[u]
         /\ taskStatus'[JobTask(u)] = taskStatus[JobTask(u)]
         /\ attempts'[JobTask(u)] = attempts[JobTask(u)]
<1> USE DEF AssumedOne, Assumed
<1> PICK t \in Tasks : t = JobTask(u)
  BY JobAlone
<1>1. ASSUME NEW s \in Slots, Coroutine(s), s # u
      PROVE  OnlyOf(s) /\ JobTask(s) # t
  BY <1>1, CoroutineAlone, BusyCoroutine, JobAlone DEF Busy
<1>2. ASSUME NEW r \in Requests, SubmitStore(r)
      PROVE  t \notin batch[r]
  <2>1. ~Unpublished(t)
    BY JobAlone
  <2> QED BY <1>2, <2>1 DEF SubmitStore, Unpublished, Custody, BatchesDisjoint
<1>3. ASSUME NEW s \in Slots, Pop(s)
      PROVE  s # u /\ UNCHANGED <<taskStatus, attempts, outcome, row>>
             /\ pc'[u] = pc[u] /\ job'[u] = job[u]
  BY <1>3 DEF Pop, dbVars, TypeOK, SlotTypeOK
<1>4. CASE \E s \in Slots : Coroutine(s)
  BY <1>1, <1>4 DEF OnlyOf
<1>5. CASE \E r \in Requests : SubmitStore(r)
  BY <1>2, <1>5 DEF SubmitStore, slotVars, TypeOK, DbTypeOK
<1> QED
  BY <1>3, <1>4, <1>5 DEF Next, CreateScan, SubmitLoad, SubmitStep, SubmitStart, SubmitPublish,
    SubmitAbort, ReadDelayed, MoveDelayed, PopLost, Crash, DeleteScan, FaultFree, vars, dbVars, slotVars

LEMMA SelfSettled ==
  ASSUME AssumedOne, NEW s \in Slots, Coroutine(s), NEW t \in Tasks, t = JobTask(s)
  PROVE  /\ pc'[s] = "commit" =>
              row'[s] = [status |-> taskStatus'[t], attempts |-> attempts'[t]]
         /\ pc'[s] \in {"evaluate", "judge", "conclude"} => taskStatus'[t] = SavedStatus(s)'
         /\ pc'[s] = "dlq" => taskStatus'[t] = "FAILED"
<1> USE DEF AssumedOne, Assumed, Settling, SettledOne, Goto, TypeOK, SlotTypeOK, DbTypeOK, dbVars
<1>1. Exists(t) /\ pc[s] # "free"
  BY BusyCoroutine DEF SlotKnows
<1>2. CASE MarkProcessing(s) \/ Throttle(s) \/ Execute(s) \/ Retry(s)
  BY <1>2 DEF MarkProcessing, Throttle, Execute, Retry
<1>3. CASE SaveLoad(s)
  BY <1>3 DEF SaveLoad
<1>4. CASE SaveCommit(s)
  BY <1>4 DEF SaveCommit, SavedStatus
<1>5. CASE SaveFails(s)
  BY <1>1, <1>5 DEF SaveFails, FaultFree, Commits
<1>6. CASE EvaluateLoad(s) \/ EvaluateJudge(s)
  BY <1>6 DEF EvaluateLoad, EvaluateJudge, SavedStatus
<1>7. CASE EvaluateCommit(s) \/ EvaluateLeave(s)
  <2>1. AfterSave(s) /\ taskStatus' = taskStatus /\ taskStatus[t] = SavedStatus(s)
    BY <1>7 DEF EvaluateCommit, EvaluateLeave, FaultFree
  <2> QED BY <2>1 DEF AfterSave, Release, SavedStatus
<1>8. CASE Exhaust(s)
  BY <1>1, <1>8 DEF Exhaust, WriteStatus, FaultFree
<1>9. CASE Schedule(s) \/ DeadLetter(s)
  BY <1>9 DEF Schedule, DeadLetter, Release
<1> QED BY <1>2, <1>3, <1>4, <1>5, <1>6, <1>7, <1>8, <1>9 DEF Coroutine

LEMMA SettledStep ==
  ASSUME AssumedOne, [Next]_vars
  PROVE  SettledOne'
<1> SUFFICES ASSUME NEW u \in Slots
             PROVE  /\ pc'[u] = "commit" => row'[u] = [status |-> taskStatus'[JobTask(u)'],
                                                       attempts |-> attempts'[JobTask(u)']]
                    /\ pc'[u] \in {"evaluate", "judge", "conclude"} =>
                         taskStatus'[JobTask(u)'] = SavedStatus(u)'
                    /\ pc'[u] = "dlq" => taskStatus'[JobTask(u)'] = "FAILED"
  BY DEF SettledOne
<1> USE DEF AssumedOne, Assumed
<1>1. CASE Coroutine(u)
  <2>1. PICK t \in Tasks : t = JobTask(u)
    BY <1>1, BusyCoroutine
  <2> QED BY <1>1, <2>1, KeepsTask, SelfSettled
<1>2. CASE ~Coroutine(u) /\ pc[u] # "free"
  BY <1>2, OthersSettled DEF SettledOne, SavedStatus, JobTask
<1>3. CASE pc[u] = "free"
  <2>1. pc'[u] \in {"free", "popped"}
    BY <1>3, CoroutineAlone, BusyCoroutine DEF OnlyOf, Next, CreateScan, SubmitLoad, SubmitStep,
      SubmitStart, SubmitStore, SubmitPublish, SubmitAbort, ReadDelayed, MoveDelayed, PopLost, Crash,
      DeleteScan, Pop, FaultFree, vars, slotVars, TypeOK, SlotTypeOK
  <2> QED BY <2>1
<1> QED BY <1>1, <1>2, <1>3

Settled(t) ==
  \/ taskStatus[t] = "SUCCESS"
  \/ taskStatus[t] = "FAILED" /\ \E p \in dlq : p.task = t

\* A coroutine lets go of a task that is settled.
LEMMA CoroutineSettles ==
  ASSUME AssumedOne, NEW s \in Slots, Coroutine(s), NEW t \in Tasks, t = JobTask(s)
  PROVE  Carried(t)' \/ Settled(t)'
<1> USE DEF AssumedOne, Assumed, Settling, SettledOne
<1>1. Exists(t) /\ pc[s] # "free" /\ t = job[s].task
  BY BusyCoroutine DEF SlotKnows
<1>2. CASE pc'[s] # "free"
  BY <1>2, KeepsTask DEF Carried, Busy
<1>3. CASE Schedule(s)
  <2>1. job[s] \in delayed'
    BY <1>3 DEF Schedule, FaultFree
  <2> QED BY <1>1, <2>1 DEF Carried, InQueue
<1>4. CASE DeadLetter(s)
  <2>1. job[s] \in dlq' /\ taskStatus'[t] = "FAILED"
    BY <1>4 DEF DeadLetter, FaultFree, dbVars
  <2> QED BY <1>1, <2>1 DEF Settled
<1>5. CASE SaveFails(s) /\ pc'[s] = "free"
  <2>1. pc[s] = "commit" /\ ~Commits(s)
    BY <1>1, <1>5 DEF SaveFails, FaultFree
  <2>2. row[s] = [status |-> taskStatus[t], attempts |-> attempts[t]]
    BY <2>1
  <2>3. attempts[t] \in Nat
    BY DEF TypeOK, DbTypeOK
  <2> QED BY <1>1, <2>1, <2>2, <2>3 DEF Commits
<1>6. CASE (EvaluateCommit(s) \/ EvaluateLeave(s)) /\ pc'[s] = "free"
  <2>1. AfterSave(s) /\ taskStatus' = taskStatus /\ taskStatus[t] = SavedStatus(s)
    BY <1>6 DEF EvaluateCommit, EvaluateLeave, FaultFree, dbVars
  <2>2. outcome[s] = "SUCCESS"
    BY <1>6, <2>1 DEF AfterSave, Goto, TypeOK, SlotTypeOK
  <2> QED BY <2>1, <2>2 DEF Settled, SavedStatus
<1> QED
  BY <1>2, <1>3, <1>4, <1>5, <1>6 DEF Coroutine, MarkProcessing, Throttle, Execute, SaveLoad, SaveCommit,
    EvaluateLoad, EvaluateJudge, Retry, Exhaust, Goto, TypeOK, SlotTypeOK

\* The places a task may be in come down to three: what a consumer has read is
\* still in the delayed set.
LEMMA CarriedIn ==
  ASSUME Custody, NEW t \in Tasks, Carried(t)
  PROVE  \/ \E r \in Requests : request[r] = "stored" /\ t \in batch[r]
         \/ \E p \in InQueue : p.task = t
         \/ \E s \in Busy : JobTask(s) = t
BY DEF Carried, Custody, SnapshotsCurrent, InQueue

LEMMA CarriedStep ==
  ASSUME AssumedOne, [Next]_vars, NEW t \in Tasks, Carried(t)
  PROVE  Carried(t)' \/ Settled(t)'
<1> USE DEF AssumedOne, Assumed, Settling
<1>1. CASE \E s \in Slots : Coroutine(s)
  <2>1. PICK s \in Slots : Coroutine(s)
    BY <1>1
  <2>2. CASE JobTask(s) = t
    BY <2>1, <2>2, CoroutineSettles
  <2>3. CASE JobTask(s) # t
    <3>1. OnlyOf(s) /\ InQueue \subseteq InQueue'
      BY <2>1, CoroutineAlone, QueueGrows
    <3>2. \A u \in Busy : JobTask(u) = t => u \in Busy' /\ JobTask(u)' = t
      BY <2>3, <3>1 DEF OnlyOf, Busy, JobTask
    <3> QED BY <3>1, <3>2, CarriedIn DEF OnlyOf, Carried
  <2> QED BY <2>2, <2>3
<1>2. CASE ~\E s \in Slots : Coroutine(s)
  <2>1. ASSUME NEW s \in Busy, JobTask(s) = t
        PROVE  Carried(t)'
    BY <1>2, <2>1, OthersSettled DEF Busy, JobTask, Carried
  <2>2. OnItsWay(t) => OnItsWay(t)'
    <3>1. CASE CreateScan \/ UNCHANGED vars
      <4>1. UNCHANGED <<request, batch, ready, delayed, taskStatus, attempts, pc, job, row>>
        BY <3>1 DEF CreateScan, vars, apiVars, dbVars, redisVars, slotVars
      <4> QED BY <4>1 DEF OnItsWay, WillRecord, HasRetries, Commits, Exists, JobTask, InQueue, InReady
    <3> QED
      BY <1>2, <3>1, SubmitFeeds, ConsumerFeeds, PopFeeds
         DEF Next, DeleteScan, SubmitAbort, PopLost, Crash, FaultFree
  <2>3. OnItsWay(t)' => Carried(t)'
    BY DEF OnItsWay, WillRecord, Carried, Busy
  <2> QED BY <2>1, <2>2, <2>3, CarriedIn DEF OnItsWay
<1> QED BY <1>1, <1>2

\* A task nobody carries keeps its status, unless a submission is about to
\* publish it.
LEMMA UncarriedStep ==
  ASSUME AssumedOne, [Next]_vars, NEW t \in Tasks, ~Carried(t)
  PROVE  Carried(t)' \/ taskStatus'[t] = taskStatus[t]
<1> USE DEF AssumedOne, Assumed
<1>1. ASSUME NEW s \in Slots, Coroutine(s)
      PROVE  taskStatus'[t] = taskStatus[t]
  BY <1>1, BusyCoroutine, CoroutineAlone DEF OnlyOf, Carried, Busy
<1>2. ASSUME NEW r \in Requests, SubmitStore(r)
      PROVE  Carried(t)' \/ taskStatus'[t] = taskStatus[t]
  BY <1>2 DEF SubmitStore, Carried, TypeOK, ApiTypeOK, DbTypeOK
<1> QED
  BY <1>1, <1>2 DEF Next, CreateScan, SubmitLoad, SubmitStep, SubmitStart, SubmitPublish, SubmitAbort,
    ReadDelayed, MoveDelayed, PopLost, Crash, DeleteScan, Pop, FaultFree, vars, dbVars

LEMMA DeadLettersStay ==
  ASSUME FaultFree, [Next]_vars
  PROVE  dlq \subseteq dlq'
<1>1. ASSUME NEW s \in Slots, Coroutine(s) PROVE dlq \subseteq dlq'
  BY <1>1 DEF Coroutine, MarkProcessing, Throttle, Execute, SaveLoad, SaveCommit, SaveFails, EvaluateLoad,
    EvaluateJudge, EvaluateCommit, EvaluateLeave, Retry, Schedule, Exhaust, DeadLetter, redisVars
<1> QED
  BY <1>1 DEF Next, CreateScan, SubmitLoad, SubmitStep, SubmitStart, SubmitStore, SubmitPublish,
    SubmitAbort, ReadDelayed, MoveDelayed, PopLost, Crash, DeleteScan, Pop, FaultFree, vars, redisVars

LEMMA NothingLostStep ==
  ASSUME AssumedOne, NothingLost, [Next]_vars
  PROVE  NothingLost'
<1> SUFFICES ASSUME NEW t \in Tasks, Exists(t)'
             PROVE  Carried(t)' \/ Settled(t)'
  BY DEF NothingLost, Stored, Settled
<1>1. CASE Carried(t)
  BY <1>1, CarriedStep
<1>2. CASE ~Carried(t) /\ taskStatus'[t] = taskStatus[t]
  <2>1. Settled(t)
    BY <1>2 DEF NothingLost, Stored, Exists, Settled
  <2> QED BY <1>2, <2>1, DeadLettersStay DEF Settled, AssumedOne, Assumed
<1> QED BY <1>1, <1>2, UncarriedStep

\* Without faults, with one consumer and as long as one read of the delayed set
\* takes all of it, no stored task is ever out of everybody's hands without an
\* outcome: publish_batch, BLPOP, schedule_delayed, the move out of the delayed
\* set and publish_dlq leave no gap between them.
THEOREM NothingLostCorrect ==
  ASSUME SingleConsumer, FaultFree
  PROVE  Spec /\ []DelayedFits => []NothingLost
<1>1. Init => SettledOne /\ NothingLost
  BY DEF Init, SettledOne, NothingLost, Stored, Exists, TaskStatus, Pending
<1>2. /\ TypeOK /\ Custody /\ DelayedFits /\ Settling /\ SettledOne /\ NothingLost
      /\ [Next]_vars
      => (SettledOne /\ NothingLost)'
  BY SettledStep, NothingLostStep DEF AssumedOne, Assumed
<1> QED BY <1>1, <1>2, CustodyCorrect, SettlingKept, PTL DEF Spec

----------------------------------------------------------------------------
(* Few tasks *)

\* With one carrier per task there are no more delayed payloads than tasks.
LEMMA FewFit ==
  ASSUME TypeOK, Custody, IsFiniteSet(Tasks), Cardinality(Tasks) <= DueLimit
  PROVE  DelayedFits
<1> DEFINE taskOf == [p \in delayed |-> p.task]
<1>1. taskOf \in [delayed -> Tasks]
  BY DEF TypeOK, RedisTypeOK, Payload
<1>2. \A p, q \in delayed : taskOf[p] = taskOf[q] => p = q
  BY DEF Custody, OneCarrier, InQueue
<1>3. taskOf \in Injection(delayed, Tasks)
  BY <1>1, <1>2 DEF Injection, IsInjective
<1> HIDE DEF taskOf
<1>4. IsFiniteSet(delayed) /\ Cardinality(delayed) <= Cardinality(Tasks)
  BY <1>3, FS_Injection
<1>5. Cardinality(delayed) \in Nat /\ Cardinality(Tasks) \in Nat
  BY <1>4, FS_CardinalityType
<1> QED BY <1>4, <1>5, LimitAssumption DEF DelayedFits

\* ... so that the two theorems above hold outright for a scan of at most 50
\* tasks, the number _process_delayed_tasks reads at a time.
THEOREM FewTasksCorrect ==
  ASSUME SingleConsumer, FaultFree, IsFiniteSet(Tasks), Cardinality(Tasks) <= DueLimit
  PROVE  Spec => [](NothingLost /\ VerdictReached)
<1>1. TypeOK /\ Custody => DelayedFits
  BY FewFit
<1> QED BY <1>1, CustodyCorrect, NothingLostCorrect, VerdictReachedCorrect, PTL
=============================================================================
