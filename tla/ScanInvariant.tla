--------------------------- MODULE ScanInvariant ---------------------------
(***************************************************************************)
(* The inductive invariant behind the safety properties of ScanExecution,  *)
(* for deployments with one consumer of the delayed set.  Its parts are    *)
(* independent strengthenings, proved one on top of the other in           *)
(* ScanExecutionProofs.                                                    *)
(***************************************************************************)
EXTENDS ScanExecution

SingleConsumer == \A e1, e2 \in Engines : e1 = e2

\* No submission that got as far as publish_batch has task t.
Unpublished(t) == \A r \in Requests : t \in batch[r] => request[r] # "done"

\* Custody of the payloads: a submission's tasks are its own and not yet
\* elsewhere, a consumer's snapshot is still in the delayed set, every task has
\* one carrier at most, and the dead have none.
BatchesDisjoint ==
  \A r1, r2 \in Requests : \A t \in Tasks : t \in batch[r1] /\ t \in batch[r2] => r1 = r2

UnpublishedNowhere ==
  \A t \in Tasks : Unpublished(t) =>
    /\ \A p \in InQueue \cup dlq : p.task # t
    /\ \A s \in Busy : JobTask(s) # t

SnapshotsCurrent == \A e \in Engines : push[e] \subseteq drop[e] /\ drop[e] \subseteq delayed

DeadUncarried ==
  /\ \A p, q \in dlq : p.task = q.task => p = q
  /\ \A p \in dlq : /\ \A q \in InQueue : q.task # p.task
                    /\ \A s \in Busy : JobTask(s) # p.task

Custody ==
  /\ BatchesDisjoint /\ UnpublishedNowhere /\ SnapshotsCurrent
  /\ OneCarrier /\ DeadUncarried

\* Once SUCCESS is recorded the task is in no queue, and only the coroutine that
\* recorded it may still hold it, past its commit.
Recorded(s) == outcome[s] = "SUCCESS" /\ pc[s] \in {"evaluate", "judge", "conclude"}

SuccessUncarried ==
  /\ \A t \in Tasks : Unpublished(t) => taskStatus[t] # "SUCCESS"
  /\ \A p \in InQueue \cup dlq : taskStatus[p.task] # "SUCCESS"
  /\ \A s \in Busy : taskStatus[JobTask(s)] = "SUCCESS" => Recorded(s)

\* A verdict COMPLETED that waits to be committed rests on tasks that are still
\* successful, unless the scan was deleted meanwhile.
VerdictsCurrent ==
  \A s \in Slots : pc[s] = "conclude" /\ verdict[s] = "COMPLETED" /\ scanStatus # "DELETED" =>
    judged[s] # {} /\ \A t \in judged[s] : taskStatus[t] = "SUCCESS"

\* A payload with attempt counter n was executed, and counted, n times at most.
Spent(t, n) == calls[t] <= n /\ attempts[t] <= n

BudgetOf(s) ==
  LET n == job[s].attempt IN
  /\ n <= MaxRetries[JobTask(s)]
  /\ pc[s] \in {"popped", "marked", "schedule"} => Spent(JobTask(s), n)
  /\ Spent(JobTask(s), n + 1)
  /\ pc[s] \in {"save", "commit"} => attempts[JobTask(s)] <= n
  /\ pc[s] = "commit" => row[s].attempts <= n

BudgetKept ==
  /\ RetryBudget
  /\ \A t \in Tasks : Unpublished(t) => Spent(t, 0)
  /\ \A p \in InQueue : p.attempt <= MaxRetries[p.task] /\ Spent(p.task, p.attempt)
  /\ \A s \in Busy : BudgetOf(s)

IInv ==
  TypeOK /\ Custody /\ SuccessUncarried
    /\ VerdictsCurrent /\ CompletedCoversSuccess /\ BudgetKept

----------------------------------------------------------------------------
(* Without faults: what keeps a task from being lost and a scan from       *)
(* staying RUNNING.  Only SettledOne needs a single consumer.              *)

FaultFree == Env = {}

\* No more payloads are delayed than one read of the delayed set returns.
DelayedFits == Cardinality(delayed) <= DueLimit

\* A consumer pushes whatever it takes out of the delayed set.
MovesWhole == IsFiniteSet(delayed) /\ \A e \in Engines : drop[e] \subseteq push[e]

\* A scan is there once a submission has begun, and whatever is on its way has a row.
RowsKnown ==
  /\ scanStatus # "DELETED"
  /\ \A r \in Requests : request[r] # "idle" => scanStatus # "NONE"
  /\ \A r \in Requests : request[r] \in {"stored", "done"} => batch[r] \subseteq Stored
  /\ \A p \in InQueue : Exists(p.task)
  /\ \A e \in Engines : \A p \in push[e] : Exists(p.task)

\* What a coroutine knows of its task: the row is there, it counts the attempt
\* from the save on, and a row without an attempt has no outcome; and it has a
\* verdict when it is about to commit one.
SlotKnows(s) ==
  pc[s] # "free" =>
    /\ Exists(JobTask(s))
    /\ pc[s] \in {"evaluate", "judge", "conclude", "retry", "schedule", "dlq"} =>
         attempts[JobTask(s)] > 0
    /\ pc[s] = "commit" =>
         IF row[s].attempts = 0 THEN row[s].status \in Pending ELSE attempts[JobTask(s)] > 0
    /\ pc[s] = "conclude" => verdict[s] \in Final

\* The coroutine will record an outcome of its task, or hand its payload on.
WillRecord(s) ==
  \/ pc[s] \in {"popped", "marked", "save", "schedule"}
  \/ pc[s] = "commit" /\ Commits(s) /\ row[s].status \in Pending
  \/ pc[s] = "retry" /\ HasRetries(s)

OnItsWay(t) ==
  \/ \E r \in Requests : request[r] = "stored" /\ t \in batch[r]
  \/ \E p \in InQueue : p.task = t
  \/ \E s \in Slots : WillRecord(s) /\ JobTask(s) = t

PendingOnItsWay ==
  \A t \in Stored : IF taskStatus[t] \in Pending THEN OnItsWay(t) ELSE attempts[t] > 0

\* The coroutine will look at all tasks of a scan it saw, or will see, running.
WillJudge(s) ==
  \/ pc[s] = "commit" /\ Commits(s)
  \/ pc[s] = "evaluate"
  \/ pc[s] \in {"judge", "conclude"} /\ seen[s] = "RUNNING"

\* A scan is RUNNING for a reason.
VerdictDue ==
  scanStatus = "RUNNING" =>
    \/ \E r \in Requests : request[r] = "started"
    \/ \E r \in Requests : request[r] \in {"stored", "done"} /\ batch[r] = {}
    \/ \E s \in Slots : WillJudge(s)
    \/ \E t \in Tasks : OnItsWay(t)

Settling ==
  /\ MovesWhole /\ RowsKnown /\ (\A s \in Slots : SlotKnows(s))
  /\ PendingOnItsWay /\ VerdictDue

\* With one consumer nobody else writes the row a coroutine has loaded or saved.
SettledOne ==
  \A s \in Slots :
    /\ pc[s] = "commit" =>
         row[s] = [status |-> taskStatus[JobTask(s)], attempts |-> attempts[JobTask(s)]]
    /\ pc[s] \in {"evaluate", "judge", "conclude"} => taskStatus[JobTask(s)] = SavedStatus(s)
    /\ pc[s] = "dlq" => taskStatus[JobTask(s)] = "FAILED"

=============================================================================
