--------------------------- MODULE ScanExecution ---------------------------
(***************************************************************************)
(* The life of one scan: the API handlers that create, fill and delete it, *)
(* the queue its tasks travel through, and the coroutines of the worker    *)
(* engines that execute them and write the outcome back.                   *)
(*                                                                         *)
(* Three stores are shared: the database (scanStatus, taskStatus,          *)
(* attempts), Redis (ready, delayed, dlq) and the memory of the workers    *)
(* (pc, job, ...), which a crash loses.  Every step below is one database  *)
(* transaction, one Redis command or one HTTP exchange of a handler; the   *)
(* awaits between them are where the other actors interleave.              *)
(*                                                                         *)
(* A payload is the pair of its task and its attempt counter.  ready       *)
(* counts its copies in the four priority lists taken together: the        *)
(* weighted poll order lets any non-empty list be served first.            *)
(***************************************************************************)
EXTENDS Naturals, FiniteSets

CONSTANTS
  Tasks,        \* the rows the submissions may create
  Engines,      \* worker engines, each with one consumer loop
  Slots,        \* semaphore slots of all engines: one coroutine each
  EngineOf,     \* the engine of a slot
  Requests,     \* calls of POST /scans/{id}/tasks
  MaxRetries,   \* retry_count of each task
  MaxAttempt,   \* bound on the attempt counter of a payload
  DueLimit,     \* due payloads one read of the delayed set returns (50)
  Env           \* what the environment may do: see EnvEvents

EnvEvents == {"crash", "db", "redis", "delete"}

ASSUME EngineAssumption == EngineOf \in [Slots -> Engines]
ASSUME RetriesAssumption ==
  MaxAttempt \in Nat /\ MaxRetries \in [Tasks -> 0..MaxAttempt]
ASSUME LimitAssumption == DueLimit \in Nat \ {0}
ASSUME EnvAssumption == Env \subseteq EnvEvents

VARIABLES
  scanStatus,   \* scans.status, "NONE" before creation, "DELETED" after
  covered,      \* history: the tasks the scan's current verdict was based on
  taskStatus,   \* tasks.status, "NONE" before the row exists
  attempts,     \* tasks.attempts
  calls,        \* history: HTTP requests sent to the target for the task
  request,      \* progress of each submission handler
  batch,        \* the tasks in the body of each submission
  ready,        \* copies of each payload in the priority lists
  delayed,      \* payloads in the delayed sorted set
  dlq,          \* payloads in the dead letter list
  push,         \* due payloads an engine has read and will push
  drop,         \* due payloads its removal by score will take out
  pc,           \* progress of each slot's coroutine
  job,          \* the payload the slot holds
  outcome,      \* what the execution came to
  row,          \* the task row _save_response loaded
  seen,         \* scan status loaded by the completion check
  judged,       \* tasks whose status the completion check read
  verdict       \* status the completion check is about to write

apiVars   == <<request, batch>>
dbVars    == <<scanStatus, covered, taskStatus, attempts>>
redisVars == <<ready, delayed, dlq>>
evalVars  == <<seen, judged, verdict>>
slotVars  == <<pc, job, outcome, row, evalVars>>
moveVars  == <<push, drop>>
vars      == <<apiVars, dbVars, redisVars, moveVars, slotVars, calls>>

----------------------------------------------------------------------------
(* Values *)

NoJob == [task |-> "none", attempt |-> 0]
NoRow == [status |-> "NONE", attempts |-> 0]

ScanStatus == {"PENDING", "RUNNING", "COMPLETED", "FAILED"}
Final      == {"COMPLETED", "FAILED"}
Pending    == {"QUEUED", "PROCESSING", "RETRYING"}
TaskStatus == Pending \cup {"SUCCESS", "FAILED"}

Payload == [task : Tasks, attempt : 0..MaxAttempt]

ScanExists    == scanStatus \notin {"NONE", "DELETED"}
Exists(t)     == taskStatus[t] \in TaskStatus
Stored        == {t \in Tasks : Exists(t)}
Unsubmitted   == {t \in Tasks : \A r \in Requests : t \notin batch[r]}
JobTask(s)    == job[s].task
HasRetries(s) == job[s].attempt < MaxRetries[JobTask(s)]

Init ==
  /\ scanStatus = "NONE"
  /\ covered = {}
  /\ taskStatus = [t \in Tasks |-> "NONE"]
  /\ attempts = [t \in Tasks |-> 0]
  /\ calls = [t \in Tasks |-> 0]
  /\ request = [r \in Requests |-> "idle"]
  /\ batch = [r \in Requests |-> {}]
  /\ ready = [p \in Payload |-> 0]
  /\ delayed = {} /\ dlq = {}
  /\ push = [e \in Engines |-> {}]
  /\ drop = [e \in Engines |-> {}]
  /\ pc = [s \in Slots |-> "free"]
  /\ job = [s \in Slots |-> NoJob]
  /\ outcome = [s \in Slots |-> "NONE"]
  /\ row = [s \in Slots |-> NoRow]
  /\ seen = [s \in Slots |-> "NONE"]
  /\ judged = [s \in Slots |-> {}]
  /\ verdict = [s \in Slots |-> "NONE"]

\* RPUSH of one copy of each payload of P.
Pushed(P) == [p \in Payload |-> IF p \in P THEN ready[p] + 1 ELSE ready[p]]

----------------------------------------------------------------------------
(* The API handlers *)

CreateScan ==
  /\ scanStatus = "NONE"
  /\ scanStatus' = "PENDING"
  /\ UNCHANGED <<covered, taskStatus, attempts, apiVars, redisVars, moveVars, slotVars, calls>>

\* db.get(Scan): 404 unless the scan exists.  Only a scan seen PENDING takes
\* the commit of SubmitStart; PAUSED, which the code tests too, is never written.
SubmitLoad(r) ==
  /\ request[r] = "idle"
  /\ ScanExists
  /\ \E B \in SUBSET Unsubmitted : batch' = [batch EXCEPT ![r] = B]
  /\ request' = [request EXCEPT ![r] = IF scanStatus = "PENDING" THEN "loaded" ELSE "started"]
  /\ UNCHANGED <<dbVars, redisVars, moveVars, slotVars, calls>>

\* The commit of RUNNING.  It fails on a row deleted since it was loaded.
SubmitStart(r) ==
  /\ request[r] = "loaded"
  /\ scanStatus' = IF ScanExists THEN "RUNNING" ELSE scanStatus
  /\ request' = [request EXCEPT ![r] = IF ScanExists THEN "started" ELSE "aborted"]
  /\ UNCHANGED <<batch, covered, taskStatus, attempts, redisVars, moveVars, slotVars, calls>>

\* The commit of the task rows.  Their foreign key fails on a deleted scan.
SubmitStore(r) ==
  /\ request[r] = "started"
  /\ taskStatus' = [t \in Tasks |->
       IF t \in batch[r] /\ ScanExists THEN "QUEUED" ELSE taskStatus[t]]
  /\ request' = [request EXCEPT ![r] = IF ScanExists THEN "stored" ELSE "aborted"]
  /\ UNCHANGED <<batch, scanStatus, covered, attempts, redisVars, moveVars, slotVars, calls>>

\* publish_batch: one MULTI pipeline, so all payloads or, on an error that is
\* logged and swallowed, none.
SubmitPublish(r) ==
  /\ request[r] = "stored"
  /\ \/ ready' = Pushed({[task |-> t, attempt |-> 0] : t \in batch[r]})
     \/ "redis" \in Env /\ UNCHANGED ready
  /\ request' = [request EXCEPT ![r] = "done"]
  /\ UNCHANGED <<batch, dbVars, delayed, dlq, moveVars, slotVars, calls>>

\* The handler ends early: the API process dies, or a commit raises (HTTP 500).
SubmitAbort(r) ==
  /\ \/ "crash" \in Env /\ request[r] \in {"loaded", "started", "stored"}
     \/ "db" \in Env /\ request[r] \in {"loaded", "started"}
  /\ request' = [request EXCEPT ![r] = "aborted"]
  /\ UNCHANGED <<batch, dbVars, redisVars, moveVars, slotVars, calls>>

\* delete_scan removes the rows and leaves the queue alone.
DeleteScan ==
  /\ "delete" \in Env
  /\ ScanExists
  /\ scanStatus' = "DELETED"
  /\ taskStatus' = [t \in Tasks |-> IF Exists(t) THEN "DELETED" ELSE taskStatus[t]]
  /\ UNCHANGED <<covered, attempts, apiVars, redisVars, moveVars, slotVars, calls>>

----------------------------------------------------------------------------
(* The consumer loop of a worker engine *)

IdleConsumer(e) == push[e] = {}
FreeSlot(e)     == \E s \in Slots : EngineOf[s] = e /\ pc[s] = "free"

\* The seeded defects (their names end in Bug) are used only to show that the
\* properties below are sensitive to the code; no specification uses them.
ReadEverythingBug(e) ==
  /\ IdleConsumer(e)
  /\ FreeSlot(e)
  /\ \E due \in SUBSET delayed \ {{}} :
       /\ push' = [push EXCEPT ![e] = due]
       /\ drop' = [drop EXCEPT ![e] = {}]
  /\ UNCHANGED <<redisVars, apiVars, dbVars, slotVars, calls>>

\* _process_delayed_tasks reads the payloads due now, DueLimit of them at most.
\* Which are due is left open.  A consumer runs only while it holds a slot.
ReadDelayed(e) ==
  /\ IdleConsumer(e)
  /\ FreeSlot(e)
  /\ \E due \in SUBSET delayed \ {{}} : \E part \in SUBSET due \ {{}} :
       /\ \/ part = due /\ Cardinality(due) <= DueLimit
          \/ Cardinality(part) = DueLimit
       /\ push' = [push EXCEPT ![e] = part]
       /\ drop' = [drop EXCEPT ![e] = due]
  /\ UNCHANGED <<redisVars, apiVars, dbVars, slotVars, calls>>

MoveWithoutRemovalBug(e) ==
  /\ ~IdleConsumer(e)
  /\ ready' = Pushed(push[e])
  /\ push' = [push EXCEPT ![e] = {}]
  /\ drop' = [drop EXCEPT ![e] = {}]
  /\ UNCHANGED <<delayed, dlq, apiVars, dbVars, slotVars, calls>>

\* One MULTI pipeline: push what was read, remove all that was due.  Another
\* consumer may have done the same in between.  The pipeline may fail.
MoveDelayed(e) ==
  /\ ~IdleConsumer(e)
  /\ \/ ready' = Pushed(push[e]) /\ delayed' = delayed \ drop[e]
     \/ "redis" \in Env /\ UNCHANGED <<ready, delayed>>
  /\ push' = [push EXCEPT ![e] = {}]
  /\ drop' = [drop EXCEPT ![e] = {}]
  /\ UNCHANGED <<dlq, apiVars, dbVars, slotVars, calls>>

PeekBug(s) ==
  /\ IdleConsumer(EngineOf[s])
  /\ pc[s] = "free"
  /\ \E p \in Payload : ready[p] > 0 /\ job' = [job EXCEPT ![s] = p]
  /\ pc' = [pc EXCEPT ![s] = "popped"]
  /\ UNCHANGED <<redisVars, moveVars, apiVars, dbVars, outcome, row, evalVars, calls>>

\* BLPOP takes the payload out of Redis; from here only this coroutine has it.
Pop(s) ==
  /\ IdleConsumer(EngineOf[s])
  /\ pc[s] = "free"
  /\ \E p \in Payload :
       /\ ready[p] > 0
       /\ ready' = [ready EXCEPT ![p] = @ - 1]
       /\ job' = [job EXCEPT ![s] = p]
  /\ pc' = [pc EXCEPT ![s] = "popped"]
  /\ UNCHANGED <<delayed, dlq, moveVars, apiVars, dbVars, outcome, row, evalVars, calls>>

\* The reply of BLPOP is lost with the connection: consume() returns None.
PopLost(e) ==
  /\ "redis" \in Env
  /\ IdleConsumer(e)
  /\ FreeSlot(e)
  /\ \E p \in Payload : ready[p] > 0 /\ ready' = [ready EXCEPT ![p] = @ - 1]
  /\ UNCHANGED <<delayed, dlq, moveVars, apiVars, dbVars, slotVars, calls>>

----------------------------------------------------------------------------
(* The coroutine _process_payload *)

Goto(s, label) == pc' = [pc EXCEPT ![s] = label]

\* The coroutines of S are gone and their slots can be acquired again.
Release(S) ==
  /\ pc' = [s \in Slots |-> IF s \in S THEN "free" ELSE pc[s]]
  /\ job' = [s \in Slots |-> IF s \in S THEN NoJob ELSE job[s]]
  /\ outcome' = [s \in Slots |-> IF s \in S THEN "NONE" ELSE outcome[s]]

ForgetRead(S) ==
  /\ row' = [s \in Slots |-> IF s \in S THEN NoRow ELSE row[s]]
  /\ seen' = [s \in Slots |-> IF s \in S THEN "NONE" ELSE seen[s]]
  /\ judged' = [s \in Slots |-> IF s \in S THEN {} ELSE judged[s]]
  /\ verdict' = [s \in Slots |-> IF s \in S THEN "NONE" ELSE verdict[s]]

RetryEverythingBug(s) ==
  /\ Goto(s, IF outcome[s] = "CRITICAL" THEN "dlq" ELSE "retry")
  /\ UNCHANGED <<job, outcome>>
  /\ ForgetRead({s})

\* Where the coroutine goes when _save_response returns, whatever it did.
AfterSave(s) ==
  /\ \/ outcome[s] = "SUCCESS" /\ Release({s})
     \/ outcome[s] = "FAILED" /\ Goto(s, "retry") /\ UNCHANGED <<job, outcome>>
     \/ outcome[s] = "CRITICAL" /\ Goto(s, "dlq") /\ UNCHANGED <<job, outcome>>
  /\ ForgetRead({s})

\* A status write that does nothing for a deleted row, and whose database
\* error is logged and swallowed.
WriteStatus(t, status) ==
  \/ /\ Exists(t)
     /\ taskStatus' = [taskStatus EXCEPT ![t] = status]
  \/ /\ ~Exists(t) \/ "db" \in Env
     /\ UNCHANGED taskStatus

MarkProcessing(s) ==
  /\ pc[s] = "popped"
  /\ WriteStatus(JobTask(s), "PROCESSING")
  /\ Goto(s, "marked")
  /\ UNCHANGED <<job, outcome, row, evalVars, scanStatus, covered, attempts, apiVars, redisVars, moveVars, calls>>

\* RateLimiter.acquire gave up: the exception skips the request and the retry.
Throttle(s) ==
  /\ pc[s] = "marked"
  /\ outcome' = [outcome EXCEPT ![s] = "CRITICAL"]
  /\ Goto(s, "save")
  /\ UNCHANGED <<job, row, evalVars, dbVars, apiVars, redisVars, moveVars, calls>>

\* The HTTP exchange.  429 and transport errors fail; any other status succeeds.
Execute(s) ==
  /\ pc[s] = "marked"
  /\ \E o \in {"SUCCESS", "FAILED"} : outcome' = [outcome EXCEPT ![s] = o]
  /\ calls' = [calls EXCEPT ![JobTask(s)] = @ + 1]
  /\ Goto(s, "save")
  /\ UNCHANGED <<job, row, evalVars, dbVars, apiVars, redisVars, moveVars>>

\* _save_response loads the task row and looks for a response ...
SaveLoad(s) ==
  /\ pc[s] = "save"
  /\ Exists(JobTask(s))
  /\ row' = [row EXCEPT ![s] = [status |-> taskStatus[JobTask(s)], attempts |-> attempts[JobTask(s)]]]
  /\ Goto(s, "commit")
  /\ UNCHANGED <<job, outcome, evalVars, dbVars, apiVars, redisVars, moveVars, calls>>

RawStatusBug(s) == outcome[s]

SavedStatus(s) == IF outcome[s] = "SUCCESS" THEN "SUCCESS" ELSE "FAILED"

\* A task has a response row exactly when its attempts are positive; inserting
\* a second one violates the unique task_id.
Commits(s) ==
  /\ Exists(JobTask(s))
  /\ row[s].attempts > 0 \/ attempts[JobTask(s)] = 0

SaveWithoutCheckBug(s) ==
  /\ pc[s] = "commit"
  /\ Commits(s)
  /\ taskStatus' = [taskStatus EXCEPT ![JobTask(s)] =
                      IF SavedStatus(s) # row[s].status THEN SavedStatus(s) ELSE @]
  /\ attempts' = [attempts EXCEPT ![JobTask(s)] = row[s].attempts + 1]
  /\ AfterSave(s)
  /\ UNCHANGED <<scanStatus, covered, apiVars, redisVars, moveVars, calls>>

\* ... and commits the outcome.  The ORM updates the status only when it
\* differs from the loaded one, and counts the attempt from the loaded one.
SaveCommit(s) ==
  /\ pc[s] = "commit"
  /\ Commits(s)
  /\ taskStatus' = [taskStatus EXCEPT ![JobTask(s)] =
                      IF SavedStatus(s) # row[s].status THEN SavedStatus(s) ELSE @]
  /\ attempts' = [attempts EXCEPT ![JobTask(s)] = row[s].attempts + 1]
  /\ row' = [row EXCEPT ![s] = NoRow]
  /\ Goto(s, "evaluate")
  /\ UNCHANGED <<job, outcome, evalVars, scanStatus, covered, apiVars, redisVars, moveVars, calls>>

\* The row is gone (its response violates the foreign key), the response is a
\* second one, or the database fails: rolled back, logged, and on it goes.
SaveFails(s) ==
  /\ \/ pc[s] = "save" /\ ~Exists(JobTask(s))
     \/ pc[s] = "commit" /\ ~Commits(s)
     \/ pc[s] \in {"save", "commit"} /\ "db" \in Env
  /\ AfterSave(s)
  /\ UNCHANGED <<dbVars, apiVars, redisVars, moveVars, calls>>

\* _evaluate_scan_completion: session.get(Scan) ...
EvaluateLoad(s) ==
  /\ pc[s] = "evaluate"
  /\ ScanExists
  /\ seen' = [seen EXCEPT ![s] = scanStatus]
  /\ Goto(s, "judge")
  /\ UNCHANGED <<job, outcome, row, judged, verdict, dbVars, apiVars, redisVars, moveVars, calls>>

JudgeIgnoringPendingBug(s) ==
  /\ pc[s] = "judge"
  /\ Stored # {}
  /\ judged' = [judged EXCEPT ![s] = Stored]
  /\ verdict' = [verdict EXCEPT ![s] =
       IF \A t \in Stored : taskStatus[t] # "FAILED" THEN "COMPLETED" ELSE "FAILED"]
  /\ Goto(s, "conclude")
  /\ UNCHANGED <<job, outcome, row, seen, dbVars, apiVars, redisVars, moveVars, calls>>

\* ... then the statuses of its tasks, read in a second query ...
EvaluateJudge(s) ==
  /\ pc[s] = "judge"
  /\ Stored # {}
  /\ \A t \in Stored : taskStatus[t] \notin Pending
  /\ judged' = [judged EXCEPT ![s] = Stored]
  /\ verdict' = [verdict EXCEPT ![s] =
       IF \A t \in Stored : taskStatus[t] = "SUCCESS" THEN "COMPLETED" ELSE "FAILED"]
  /\ Goto(s, "conclude")
  /\ UNCHANGED <<job, outcome, row, seen, dbVars, apiVars, redisVars, moveVars, calls>>

\* ... then the commit.  The ORM updates the column only when the verdict
\* differs from the status it loaded.
EvaluateCommit(s) ==
  /\ pc[s] = "conclude"
  /\ ScanExists
  /\ IF verdict[s] # seen[s]
       THEN scanStatus' = verdict[s] /\ covered' = judged[s]
       ELSE UNCHANGED <<scanStatus, covered>>
  /\ AfterSave(s)
  /\ UNCHANGED <<taskStatus, attempts, apiVars, redisVars, moveVars, calls>>

\* The check leaves without writing: no scan, a pending task, a database error.
EvaluateLeave(s) ==
  /\ \/ pc[s] \in {"evaluate", "conclude"} /\ ~ScanExists
     \/ pc[s] = "judge" /\ (Stored = {} \/ \E t \in Stored : taskStatus[t] \in Pending)
     \/ pc[s] \in {"evaluate", "judge", "conclude"} /\ "db" \in Env
  /\ AfterSave(s)
  /\ UNCHANGED <<dbVars, apiVars, redisVars, moveVars, calls>>

RetryOffByOneBug(s) ==
  /\ pc[s] = "retry"
  /\ job[s].attempt <= MaxRetries[JobTask(s)]
  /\ job' = [job EXCEPT ![s].attempt = @ + 1]
  /\ WriteStatus(JobTask(s), "RETRYING")
  /\ Goto(s, "schedule")
  /\ UNCHANGED <<outcome, row, evalVars, scanStatus, covered, attempts, apiVars, redisVars, moveVars, calls>>

\* _handle_retry, with retries left ...
Retry(s) ==
  /\ pc[s] = "retry"
  /\ HasRetries(s)
  /\ job' = [job EXCEPT ![s].attempt = @ + 1]
  /\ WriteStatus(JobTask(s), "RETRYING")
  /\ Goto(s, "schedule")
  /\ UNCHANGED <<outcome, row, evalVars, scanStatus, covered, attempts, apiVars, redisVars, moveVars, calls>>

ScheduleNothingBug(s) ==
  /\ pc[s] = "schedule"
  /\ Release({s})
  /\ UNCHANGED <<redisVars, moveVars, row, evalVars, dbVars, apiVars, calls>>

\* ... schedule_delayed: ZADD gives a member that is already there its new,
\* later score.  A failure is returned, and nobody looks ...
Schedule(s) ==
  /\ pc[s] = "schedule"
  /\ \/ /\ delayed' = delayed \cup {job[s]}
        /\ drop' = [e \in Engines |-> drop[e] \ {job[s]}]
     \/ "redis" \in Env /\ UNCHANGED <<delayed, drop>>
  /\ Release({s})
  /\ UNCHANGED <<push, ready, dlq, row, evalVars, dbVars, apiVars, calls>>

ExhaustSilentlyBug(s) ==
  /\ pc[s] = "retry"
  /\ ~HasRetries(s)
  /\ WriteStatus(JobTask(s), "FAILED")
  /\ Release({s})
  /\ UNCHANGED <<row, evalVars, scanStatus, covered, attempts, apiVars, redisVars, moveVars, calls>>

\* ... and with none left.
Exhaust(s) ==
  /\ pc[s] = "retry"
  /\ ~HasRetries(s)
  /\ WriteStatus(JobTask(s), "FAILED")
  /\ Goto(s, "dlq")
  /\ UNCHANGED <<job, outcome, row, evalVars, scanStatus, covered, attempts, apiVars, redisVars, moveVars, calls>>

DeadLetterThenRetryBug(s) ==
  /\ pc[s] = "dlq"
  /\ dlq' = dlq \cup {job[s]}
  /\ IF HasRetries(s) THEN Goto(s, "retry") /\ UNCHANGED <<job, outcome>> ELSE Release({s})
  /\ UNCHANGED <<ready, delayed, moveVars, row, evalVars, dbVars, apiVars, calls>>

DeadLetter(s) ==
  /\ pc[s] = "dlq"
  /\ \/ dlq' = dlq \cup {job[s]}
     \/ "redis" \in Env /\ UNCHANGED dlq
  /\ Release({s})
  /\ UNCHANGED <<ready, delayed, moveVars, row, evalVars, dbVars, apiVars, calls>>

\* Worker processes die with their engines and coroutines, and start again.
Crash ==
  /\ "crash" \in Env
  /\ \E dead \in SUBSET Engines :
       LET S == {s \in Slots : EngineOf[s] \in dead} IN
       /\ Release(S) /\ ForgetRead(S)
       /\ push' = [e \in Engines |-> IF e \in dead THEN {} ELSE push[e]]
       /\ drop' = [e \in Engines |-> IF e \in dead THEN {} ELSE drop[e]]
  /\ UNCHANGED <<dbVars, apiVars, redisVars, calls>>

----------------------------------------------------------------------------

\* What the event loop runs once it is started; the rest is up to the users
\* and the environment.
SubmitStep(r) == SubmitStart(r) \/ SubmitStore(r) \/ SubmitPublish(r)

Coroutine(s) ==
  \/ MarkProcessing(s) \/ Throttle(s) \/ Execute(s)
  \/ SaveLoad(s) \/ SaveCommit(s) \/ SaveFails(s)
  \/ EvaluateLoad(s) \/ EvaluateJudge(s) \/ EvaluateCommit(s) \/ EvaluateLeave(s)
  \/ Retry(s) \/ Schedule(s) \/ Exhaust(s) \/ DeadLetter(s)

Next ==
  \/ CreateScan \/ DeleteScan
  \/ \E r \in Requests : SubmitLoad(r) \/ SubmitStep(r) \/ SubmitAbort(r)
  \/ \E e \in Engines : ReadDelayed(e) \/ MoveDelayed(e) \/ PopLost(e)
  \/ Crash
  \/ \E s \in Slots : Pop(s) \/ Coroutine(s)

Spec == Init /\ [][Next]_vars

Fairness ==
  /\ \A r \in Requests : WF_vars(SubmitStep(r))
  /\ \A e \in Engines : WF_vars(ReadDelayed(e)) /\ WF_vars(MoveDelayed(e))
  /\ \A s \in Slots : WF_vars(Pop(s)) /\ WF_vars(Coroutine(s))

FairSpec == Spec /\ Fairness

----------------------------------------------------------------------------
(* Correctness *)

\* Type invariant, store by store.
ApiTypeOK ==
  /\ request \in [Requests -> {"idle", "loaded", "started", "stored", "done", "aborted"}]
  /\ batch \in [Requests -> SUBSET Tasks]

DbTypeOK ==
  /\ scanStatus \in ScanStatus \cup {"NONE", "DELETED"}
  /\ covered \subseteq Tasks
  /\ taskStatus \in [Tasks -> TaskStatus \cup {"NONE", "DELETED"}]
  /\ attempts \in [Tasks -> Nat]
  /\ calls \in [Tasks -> Nat]

RedisTypeOK ==
  /\ ready \in [Payload -> Nat]
  /\ delayed \subseteq Payload /\ dlq \subseteq Payload
  /\ push \in [Engines -> SUBSET Payload] /\ drop \in [Engines -> SUBSET Payload]

SlotTypeOK ==
  /\ pc \in [Slots -> {"free", "popped", "marked", "save", "commit", "evaluate",
                       "judge", "conclude", "retry", "schedule", "dlq"}]
  /\ job \in [Slots -> Payload \cup {NoJob}]
  /\ \A s \in Slots : pc[s] # "free" => job[s] \in Payload
  /\ outcome \in [Slots -> {"NONE", "SUCCESS", "FAILED", "CRITICAL"}]
  /\ row \in [Slots -> [status : TaskStatus \cup {"NONE"}, attempts : Nat]]
  /\ seen \in [Slots -> ScanStatus \cup {"NONE"}]
  /\ judged \in [Slots -> SUBSET Tasks]
  /\ verdict \in [Slots -> Final \cup {"NONE"}]

TypeOK == ApiTypeOK /\ DbTypeOK /\ RedisTypeOK /\ SlotTypeOK

Busy    == {s \in Slots : pc[s] # "free"}
InReady == {p \in Payload : ready[p] > 0}
InQueue == InReady \cup delayed

\* Who still has to act for task t: a submission about to publish it, Redis, a
\* consumer that has read it, or a coroutine.
Carried(t) ==
  \/ \E r \in Requests : request[r] = "stored" /\ t \in batch[r]
  \/ \E p \in InQueue : p.task = t
  \/ \E e \in Engines : \E p \in push[e] : p.task = t
  \/ \E s \in Busy : JobTask(s) = t

AtRest ==
  /\ \A r \in Requests : request[r] \in {"idle", "done", "aborted"}
  /\ InQueue = {} /\ Busy = {} /\ \A e \in Engines : IdleConsumer(e)

\* At any moment a task has at most one payload that may still be executed, in
\* one place: publishing, the move out of the delayed set, BLPOP and the retry
\* hand it on and never copy it, whatever fails in between.
OneCarrier ==
  /\ \A p \in InReady : ready[p] = 1 /\ p \notin delayed
  /\ \A p, q \in InQueue : p.task = q.task => p = q
  /\ \A s \in Busy, p \in InQueue : p.task # JobTask(s)
  /\ \A s1, s2 \in Busy : JobTask(s1) = JobTask(s2) => s1 = s2

\* A task is sent to the target, and counted in tasks.attempts, at most
\* retry_count + 1 times, whatever fails in between.
RetryBudget ==
  \A t \in Tasks : calls[t] <= MaxRetries[t] + 1 /\ attempts[t] <= MaxRetries[t] + 1

\* A dead letter is dead: nothing executes its task any more, it is not
\* recorded as successful, and it was buried once.
DeadLettersAreDead ==
  /\ \A p, q \in dlq : p.task = q.task => p = q
  /\ \A p \in dlq : ~Carried(p.task) /\ taskStatus[p.task] # "SUCCESS"

\* A scan shown as COMPLETED rests on a verdict over at least one task, and
\* every task of that verdict is, still, successful (unless it was deleted).
CompletedCoversSuccess ==
  scanStatus = "COMPLETED" =>
    covered # {} /\ \A t \in covered : taskStatus[t] = "SUCCESS"

\* A recorded success is never taken back, and its target is left alone from
\* then on.
SuccessIsFinal ==
  [][\A t \in Tasks : taskStatus[t] = "SUCCESS" =>
        /\ taskStatus'[t] \in {"SUCCESS", "DELETED"}
        /\ calls'[t] = calls[t] /\ attempts'[t] = attempts[t]]_vars

\* Without faults a stored task is in somebody's hands, or successful, or both
\* FAILED and in the dead letter queue.
NothingLost ==
  \A t \in Stored :
    \/ Carried(t)
    \/ taskStatus[t] = "SUCCESS"
    \/ taskStatus[t] = "FAILED" /\ \E p \in dlq : p.task = t

\* Without faults a scan at rest has its verdict: it is left RUNNING only by a
\* submission without tasks.
VerdictReached ==
  AtRest /\ scanStatus = "RUNNING" =>
    \E r \in Requests : request[r] = "done" /\ batch[r] = {}

\* Without faults every stored task ends, for good, successful or dead.
TasksSettle ==
  \A t \in Tasks : Exists(t) ~>
    [](\/ taskStatus[t] = "SUCCESS"
       \/ taskStatus[t] = "FAILED" /\ \E p \in dlq : p.task = t)

\* Without faults, but with any number of consumers racing for the delayed set,
\* every stored task still comes to rest with an outcome.
TasksRest ==
  \A t \in Tasks : Exists(t) ~> [](taskStatus[t] \in {"SUCCESS", "FAILED"} /\ ~Carried(t))

\* engine.py:160, "Never leave a task stuck in PROCESSING".
NeverStuckProcessing ==
  \A t \in Tasks : taskStatus[t] = "PROCESSING" => Carried(t)

\* engine.py:240, "Check whether a scan should be marked completed or failed":
\* a scan at rest is COMPLETED exactly when all its tasks succeeded.
VerdictMatchesTasks ==
  AtRest /\ scanStatus \in Final =>
    (scanStatus = "COMPLETED" <=> \A t \in Stored : taskStatus[t] = "SUCCESS")

=============================================================================
