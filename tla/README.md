# Verification of the scan executor

TLA+ models, TLC runs and TLAPS proofs about the scan executor of this
repository: the FastAPI service that turns an OpenAPI document into the tasks of a
scan, the Redis queue they travel through, the worker engines that send the
requests and record the outcome, and the analysis that compares the recorded
responses.  Paths below are relative to `src/`; `PROJECT.json` maps every
definition to the lines it models.

## 1. Inventory

| Component | State | Operations | Talks to |
|---|---|---|---|
| Scan lifecycle API (`executor/api/routes.py`) | rows of `scans`, `tasks`, `scan_responses` | create scan, submit tasks, discover and submit, delete scan; progress, task list, report, vulnerabilities, role swaps, dashboard | database, queue |
| Task queue (`executor/task_queue/`) | four priority lists, the delayed sorted set, the dead letter list | publish_batch, schedule_delayed, move due payloads, BLPOP, send_to_dlq | Redis |
| Worker engine (`executor/workers/engine.py`) | semaphore, set of coroutines, per coroutine: payload, outcome, loaded rows | consume loop; mark, throttle, execute, save, evaluate, retry or bury | queue, database, rate limiter, target |
| Worker pool (`executor/worker_manager/manager.py`, `run_worker.py`) | list of engines, running flag, monitor task | start, stop, scale up, clean up idle | engines, queue depth |
| Rate limiter (`executor/rate_limiter/limiter.py`) | buckets in Redis or in memory: tokens, last refill, multiplier | acquire (several buckets), report_429, fallback | Redis |
| API process (`executor/api/main.py`, `redis_client.py`) | tables, in-process pool, the broker it chose: Redis or one of its own | startup (drops and creates the tables), shutdown | database, Redis, pool |
| Task generation (`executor/integration/`, `parser.py` of the endpoint discovery, role swapper, mutation engine) | none | document to endpoints; endpoints to crawler, role and fuzzing tasks | API |
| Result analysis (`executor/analysis/`, differ, classifier, collector, report generator) | the collector's buffer, differences and issues | add response, flush, compare, classify, render | database rows |
| Live events (`executor/api/sse_routes.py`) | a subscription | forward what the engine publishes | broker of its process |
| Worker heartbeat (`executor/workers/heartbeat.py`) | a key with a time to live per worker | SETEX every interval, DELETE at the stop | Redis |
| Copilot (`executor/api/copilot_routes.py`) | none | reads a scan in four queries, asks a language model | database |
| Frontend (`frontend/src/app`) | per page: the selected scan, what it shows | polls every three seconds, subscribes to events | API |
| API crawler, JWT command line program, legacy `executor/queue` | none the scan depends on | | |

How they interact.  The API writes the database, then pushes payloads to Redis.
A worker engine takes a semaphore slot, moves due delayed payloads to the
priority lists, pops one payload and spawns a coroutine for it.  The coroutine
writes the task's status in several transactions, asks the rate limiter, sends
the request, saves the outcome, checks whether the scan is finished, and either
ends, puts the payload into the delayed set with a higher attempt counter, or
puts it into the dead letter list.  Nothing spans the two stores: there is no
acknowledgement, no lease and no recovery.

Readers see the tables in several queries without a transaction around them; events
reach only who is subscribed to the broker of the engine; every API process that
starts drops the tables under the others.

What is hard.  Every `await` is a point where the API, the other coroutines and
the other engines interleave; database and Redis errors are logged and swallowed
in most places; a crash loses what a coroutine holds; a retry runs concurrently
with the completion checks of other tasks; deletion ignores what is in flight; a page
polls whether or not it has been answered; each process probes Redis once and keeps
the answer; the report is computed from an unordered SELECT at any time.
`PROJECT.json` lists each hazard at its line with the properties that cover it.

What makes each component correct:

- API, queue and engine together: a task is executed at most `retry_count + 1`
  times; it has at most one live payload; a recorded success stays; a dead letter
  is dead; COMPLETED rests on successes; without faults every task and the scan
  end.
- Worker pool: the number of engines stays within its bounds, no engine survives
  `stop`, no payload is taken by an engine that will not process it.
- Rate limiter: no bucket hands out more than its capacity and rate allow, a
  waiting caller makes progress, a 429 always slows the domain down.
- Deployment and readers: an answer put together from several queries does not
  contradict itself; an event never runs ahead of its commit and reaches who
  waited for it; the page settles on the final state; a worker that is gone does
  not stay listed.
- Task generation: each operation is tested once, role tasks go to the URL of
  the crawler task they are compared with, every request the mutation engine makes
  up is sent (all but one are), and each reaches the target (most do not).
- Analysis: the report depends on neither the order nor the time in which rows
  are read, reports the administrator's data under another name, classifies every
  anomaly, and all views count the same findings.

## 2. Plan

| | Modules | Status |
|---|---|---|
| 1 | `ScanExecution`: API, queue and engine composed; `ScanInvariant`: its inductive invariant; proofs of its safety properties | done |
| 2 | `TaskDelivery`: the abstract life of one task; `ScanRefinement`: `ScanExecution` implements it; proof of the step simulation | done |
| 3 | `RateLimiter`: token buckets, several callers, 429 reports, the change-over from Redis to the process; proof of the bound | done |
| 4 | `WorkerPool`: manager, monitor, engine stop and signals; proofs of all its invariants | done |
| 5 | `TaskGeneration`, `ResponseAnalysis`: parser, bridges, mutators, differ, classifier, collector, report as operators; `ScanPipeline` composes them from the document to the findings | done |
| 6 | `ScanService`: processes that come and go, brokers, events, heartbeats, readers and the page around one scan; proofs of its invariants | done |
| 7 | proofs about the pipeline, on `Lists`: its two ways to make a list, which the provers can reason about | done |
| 8 | a refinement of `TaskDelivery` by `ScanService`: it needs the request to the target as a step of its own and the number of requests as history, which `SaveResponse` has in one step with the outcome | left |

The models are views of one system, each with what its questions need.
`ScanExecution` follows many payloads through the coroutine and takes the engines as
given; `WorkerPool` follows the engines and takes a payload as a counter; they meet in
`Crash`, which covers an engine whose coroutines the pool cancels or leaves behind, and
in the slot.  `ScanService` keeps one payload of each task, in one place, and adds the
processes, the brokers and the readers around them.  `ScanPipeline` starts before the
submission and ends after the last response, and has what the queue does in between
as: a row without a usable answer may be answered again.

## 3. The models

### 3.1 `ScanExecution`

One scan, a set of `Tasks`, `Requests` (calls of `POST /scans/{id}/tasks`),
`Engines` with one consumer loop each, and `Slots` (the semaphore permits of all
engines, `EngineOf` says whose).  A step is one database transaction, one Redis
command or MULTI pipeline, or one HTTP exchange.

| State | Code |
|---|---|
| `scanStatus`, `taskStatus`, `attempts` | columns of `scans` and `tasks`; a response row exists exactly when `attempts` is positive |
| `ready` | the four priority lists, as a bag of payloads |
| `delayed`, `dlq` | the sorted set (scores left open), the dead letter list |
| `request`, `batch` | where a submission handler is, and the tasks in its body |
| `push`, `drop` | what a consumer read as due, and what its removal by score will remove |
| `pc`, `job`, `outcome` | where a coroutine is, its payload, how its request ended |
| `row`, `seen`, `judged`, `verdict` | what `_save_response` and `_evaluate_scan_completion` have read |
| `calls`, `covered` | history: requests sent for a task; tasks behind the scan's verdict |

Actions and their handlers: `CreateScan`, `SubmitLoad` / `SubmitStart` /
`SubmitStore` / `SubmitPublish` (submit_tasks at its commits; `SubmitAbort` when
it raises or the process dies), `DeleteScan`; `ReadDelayed` and `MoveDelayed`
(the two round trips of `_process_delayed_tasks`), `Pop` and `PopLost` (BLPOP
with and without its reply); `MarkProcessing`, `Throttle`, `Execute`, `SaveLoad`,
`SaveCommit`, `SaveFails`, `EvaluateLoad`, `EvaluateJudge`, `EvaluateCommit`,
`EvaluateLeave`, `Retry`, `Schedule`, `Exhaust`, `DeadLetter` (the coroutine from
await to await); `Crash` (any set of engines).

Details that matter and are modelled: the ORM writes a column only when the new
value differs from the loaded one (`SaveCommit`, `EvaluateCommit`); `attempts`
is counted from the loaded row; a commit on a deleted row fails; a second
response for a task violates its unique key; the removal of delayed payloads is by
score while the read is limited; a payload rescheduled after a snapshot gets a
later score and is not removed with it; a rate limiter timeout takes the
`except` branch, which saves FAILED and buries the payload without a retry.

As in the other models, `Env` selects what may go wrong in a run: `"crash"` (worker or API process),
`"db"` (any database transaction), `"redis"` (any Redis command, a lost BLPOP
reply), `"delete"` (the user deletes the scan).

Abstractions.  Payload contents, URLs and headers; the order within and between
the priority lists (the random poll order may serve any of them first, so an
unordered bag has every behaviour of the lists); times and scores (any subset of
the delayed payloads may be due; a pending check may outlast a backoff); pub/sub
events; several scans (tasks of different scans share no row and no payload).
PAUSED and CANCELLED are never written by the code.  The reads of `session.get` and
of the response lookup in `_save_response` are one step.  Deletion follows
PostgreSQL, the production database: the foreign key rejects a response or task
whose parent is gone.  On SQLite, which leaves foreign keys unchecked here, a late
save leaves an orphan row that no modelled variable sees.

### 3.2 `TaskDelivery` and `ScanRefinement`

`TaskDelivery` is what a client may rely on for one task: it is `absent`, then
`held` while it is in circulation, and ends `done`, `dead` or `gone`: lost on its way,
or done and deleted with its scan.  No task enters circulation twice, a dead letter
is final, and only a held task is sent to its target, within its budget.
`ScanRefinement` maps the state of `ScanExecution` to the fate of
each task (`FateOf`): `held` while a batch, a queue or a coroutine has it, then by
its recorded status and the dead letter list.  `ScanFaults` checks
`ImplementsDelivery` with all faults switched on.

### 3.3 `RateLimiter`

`RateLimiter` models `executor/rate_limiter/limiter.py`: the Lua script on a Redis
key, the bucket in the memory of the process, the loop of `acquire` over the
buckets of a request, and `report_429`.

| State | Code |
|---|---|
| `now` | `time.time()`, in ticks |
| `scripting` | `_scripting_supported` of each limiter: unknown, yes, no |
| `store` | the buckets, by store (`redis`, `local`) and key: tokens, last refill, multiplier, time to live |
| `call` | where each caller is, with its local variables: the bucket it is at, the start of its call, the time stamp that travels with its command, the end of its sleep, the multiplier it has read |
| `opened`, `taken` | history: a window opened at any instant, and what each bucket gave out since |

`Begin` and `Load` are the entry and the loading of the script; `Send` and
`Evaluate` are the two halves of EVALSHA, which separates the reading of the
clock from the use of the time; `EvaluateFails` changes the limiter over;
`AcquireLocally` is a local bucket; `Wake` is the next round or the timeout;
`ReportRead`, `ReportWrite`, `ReportFails` and `ReportLocally` are the report.
`Answered` keeps what earlier buckets gave when a later one refuses, as the code
does.

Arithmetic is exact: a multiplier is counted in 1/40 (`Full`), the steps of
halving down to a tenth being 40, 20, 10, 5, 4, and tokens in units of which a
bucket gains `Rate * multiplier` a tick and a request costs `Cost`.  Left out: the
loader of the configuration file and what the float arithmetic rounds.

### 3.4 `WorkerPool`

`WorkerPool` models `executor/worker_manager/manager.py`, the loop and `stop` of
`executor/workers/engine.py`, `heartbeat.py`'s stop, and `run_worker.py`.  One event
loop runs all of it, so a step goes from one await to the next.

| State | Code |
|---|---|
| `engine` | per engine: where its loop is, `_running`, the size of `_tasks`, where its `stop()` is, who called that and what it waits for |
| `active` | `active_engines` |
| `monitor` | where the monitor's task is, with `desired_workers` and the idle engines it still goes through |
| `phase` | running, in `stop()`, stopped, or the process has ended |
| `handler` | the engine that installed its signal handler last |

`Round` is the part of the monitor between two of its awaits: engines that are
stopped already leave the list at once, the first running one is awaited, and the
round ends in scaling up with the depth read at its beginning.  `Receive`,
`ReceiveNothing`, `GetSlot` and `Finish` are the consumer loop and its coroutines;
`HeartbeatEnds`, `KeyDeleted`, `KeyNotDeleted` and `Gathered` the awaits of
`engine.stop`; `Shutdown`, `AllStopped` and `Exit` the manager's stop and the end of
the process; `Signal` the termination signal.

What the code does that one would not guess, and the model follows: the engine
that started last owns the signal handler of the whole process; a cancellation
of the monitor that arrives while an engine waits for its heartbeat is swallowed
there, so the monitor goes on and may still add an engine, which then outlives
the manager's stop; one that arrives in the gather cancels the coroutines of
payloads in flight; `stop` deletes the heartbeat's key first, and an error there
leaves the engine with neither its client closed nor its tasks waited for; the
policy is not monotonic (below ten payloads it asks for `min_workers`, which may
be more than the five of the next step).

How long an engine has been idle is left open: any engine without tasks may be
found idle.  Engines that have finished give their names back (`Tidy`).

### 3.5 `TaskGeneration`, `ResponseAnalysis` and `ScanPipeline`

`TaskGeneration` has the OpenAPI parser, `discovery_bridge`, `jwt_bridge` with the
role swapper, and `mutation_bridge` with the four mutators, as operators.  A path or
a URL is a sequence of tokens, in which a number and a slash are tokens of their own;
headers and bodies are sets of pairs.  What the mutators' regular expressions find and
replace (the last number, the first occurrence of its text, versions, segments) is
kept, which texts they append is a constant.

`ResponseAnalysis` has `compare_responses`, the six rules of the classifier, the
collector's buffer and pairs, the report with its renderings, and what the API makes
of the issues.  A body is a value with given JSON leaves; `Likeness` stands for the
ratio of Python's SequenceMatcher.

| State of `ScanPipeline` | Code |
|---|---|
| `site` | whether node is installed and whether the database is PostgreSQL |
| `request`, `reply` | the last call of discover_and_submit and its answer |
| `status`, `rows`, `answers` | rows of `scans`, `tasks`, `scan_responses` |

`DiscoverRejected`, `DiscoverFails` and `DiscoverAccepted` are the three ways through
`discover_and_submit`; `Succeed`, `Throttle` and `Fail` are the outcomes
`_save_response` records, and a row whose outcome is no answer may get another.
`GenerateReport`, `GetScanVulnerabilities`, `GetScanRoleSwaps`, `DashboardStats` and
`CopilotQuery` are the views.

What the code does that one would not guess, and the model follows: the role tasks
join base and path as they are and the crawler tasks with one slash, so the two
differ when the base ends in one; one null character of the path mutator makes
PostgreSQL refuse all rows while the scan is RUNNING already; an issue that has been
found is reported again without a second look; the role-swap view keeps identities,
groups and pairs of its own.

The mutation engine compares mutations by a fingerprint in which a field that is
missing is the same as a blank one (`mutation.method || ''`), while the bridge fills in
a missing method with GET and keeps a blank one.  The mutation that removes the only
header has no other field, and neither has, for the fingerprint, the garbage method
that is blank; the header mutations come first, so the blank method is dropped for every
endpoint, although the mutator lists it among those it tests.  `MutationsSent` says
that it is the only one: every other request that is made up is among the fuzzing
tasks.  It depends on the order of the mutators: with the methods first, the mutation
of the header would be the one that is lost.

### 3.6 `ScanService`

| State | Code |
|---|---|
| `mode` | per process: not started, down, or up with the real or an in-memory Redis (`_use_fake`, chosen at the start) |
| `redisUp` | whether Redis answers; it keeps its data (append-only file) |
| `verdict`, `row`, `response` | the rows of the scan, its tasks and their responses |
| `basis` | history: the tasks the verdict was computed from, and whose check it was |
| `payload` | per task: where its payload is, how far its holder has come, and, between the two halves of `_evaluate_scan_completion`, what the check has read |
| `listener`, `heard` | a client of the event stream with the tasks that were not submitted yet when it came, and whether it got scan_completed |
| `listed`, `beating` | the heartbeat keys in Redis, and the SETEX under way |
| `selected`, `fetch`, `shown` | the page's selection, the requests under way with what each has read so far (`on` is history: the basis of the verdict it has read), and what the page shows |
| `bounds`, `upsets` | bounds: the scenario, and how often it has been upset |

| Actions | Code |
|---|---|
| `ApiStarts`, `WorkerStarts`, `Stops`, `Crashes` | startup_event (tables dropped and created), `run_worker.py`, shutdown_event, the loss of a process |
| `RedisFails`, `RedisReturns` | the broker and its subscriptions |
| `CreateScan`, `SubmitTasks`, `Publish`, `DeleteScan` | the handlers, split at their commits |
| `Consume` ... `Finish`, `HandleRetry` | the engine from commit to commit |
| `EvaluateScanCompletion`, then `CommitVerdict` or `VerdictLost` | what `_evaluate_scan_completion` reads, and its commit, which fails when the scan has been deleted |
| `Subscribe`, `PublishCompleted` | scan_event_generator; the event of `_evaluate_scan_completion` |
| `Beat`, `BeatArrives`, `Expire` | the heartbeat's SETEX on its way and at Redis, and its time to live |
| `PollPage`, `ToggleScan`, `AskOther`, `ReadNext`, `Arrive` | the page's timer and selection, a handler's queries one after the other, and its answer |

A reader's queries are in `Queries`: the progress reads the scan and then the counts,
the listing the tasks and then each response, the copilot all four.

`submit_tasks` looks at the scan's status only to set a PENDING one to RUNNING
(`executor/api/routes.py:44`): a scan that has finished takes more tasks, and its
verdict stands over their QUEUED rows.  `SubmitTasks` does the same, at any time.  So an
answer that says COMPLETED may well count pending tasks, and what is true of it is
`CompletedCountsItsTasks`: the tasks the verdict was computed from are counted as
successes, whatever else was submitted, and whatever commits between the two queries.

## 4. Runs

| Run | Shows |
|---|---|
| `ScanFaults` | with one engine and all faults: types, `OneCarrier`, `RetryBudget`, `DeadLettersAreDead`, `CompletedCoversSuccess`, `SuccessIsFinal`, the inductive invariant `IInv`, and the refinement `ImplementsDelivery`.  `DueLimit = 1`, so more may be due than is read |
| `ScanSettles` | no faults, one engine, fair scheduling: `NothingLost`, `VerdictReached`, `TasksSettle`.  `DueLimit = 2` is never exceeded by two tasks |
| `ScanRacing` | no faults, two engines: `OneCarrier` is lost, but `VerdictReached` and `TasksRest` hold |
| `RateLimits` | Redis may fail at any command: `WindowBound` of the local buckets, and a call of `acquire` returns (`AcquireReturns`) |
| `PoolRuns` | scaling, idle cleanup, shutdown, a signal and Redis errors in any order: `PoolBounds`, `FloorKept`, `AtMostOneLate`, `RemovedHaveFinished`, `StopReturns`, `GrowsUnderLoad` |
| `Pipeline` | documents of every quality, and four rows of one endpoint answered in every order: `EveryOperationTested`, `RolesMeetCrawler`, `MutationsSent`, `OrderIndependent`, `SharedDataReported`, `EveryAnomalyClassified`, `ReportedIsBypass`, `ViewsAgree`, `FindingsGrow` |
| `Service` | processes that come and go, a Redis that fails, a page whose requests overlap, a scan that vanishes while it is read, or that gets a second submission when it runs, has failed or is completed: `EventAfterCommit`, `CompletionTold`, `SuccessShownWithResponse`, `CompletedCountsItsTasks`, `ViewSettles`, `DepartedUnlisted` |
| `RacingConsumers` | violation: both engines push the same due payload |
| `DelayedOverflow` | violation: due payloads beyond the limit vanish |
| `StuckProcessing` | violation: a swallowed database error leaves PROCESSING |
| `WrongVerdict` | violation: an older verdict is committed last |
| `FuzzOffTarget` | violation: most mutations become tasks without a URL, and one may change the port |

The five violations are listed with the quoted lines under "findings" in
`PROJECT.json`.  Every property of a passing run has a mutant, a defect seeded into
one mapped definition (the operators whose names end in `Bug`) that TLC finds with
that property.  Deadlock checking is off in all: a scan whose tasks are done, a
clock at its bound and a process that has ended have nothing left to do.

Behaviours the models have that no run is kept for:

- A scan may be FAILED while a retry of a failed task is on its way: the verdict is
  drawn before `_handle_retry` (`executor/workers/engine.py:335`).
- A Redis bucket may give out more than its rate allows: a script call that
  carries an older time sets the last refill back, and the time in between is
  refilled twice (`executor/rate_limiter/limiter.py:38`).
- SIGTERM stops the engine that started last, and not the pool
  (`executor/workers/engine.py:63`).
- Every API process that starts empties the tables (`executor/api/main.py:118`),
  although the comment at 105 says that only missing tables are created, and
  `Dockerfile.api` starts four of them.
- The test of a blank method is dropped for every endpoint
  (`modules_unzipped/Mutation-engine/src/index.js:80`), although `methodMutator.js:51`
  lists it; without its exception `MutationsSent` is violated.
- A scan may be COMPLETED or FAILED with tasks that are queued or running, after a
  submission to a finished scan (`executor/api/routes.py:44`); the next check that
  finds none pending judges it anew.

Bounds.

- The `Scan...` runs and the violations of `ScanExecution` use two tasks (one that
  may be retried once and one that may not, or two that may), two slots, and one or
  two submissions of any disjoint batches, the empty one included.  Two tasks are
  needed for a verdict over several statuses, two slots for two coroutines or
  checks in flight, two submissions for a submission that overtakes another, one
  retry for the delayed set; a third of each adds no new pair of steps.
  `MaxAttempt = 2` leaves room for a counter that goes too far.
- `RateLimits` uses two callers of one limiter and two buckets,
  one shared and one that only the first caller needs, so a caller can be refused after taking
  a token.  The clock is bounded by `MaxTime`; a call that would time out
  later is left out, and the last sleep is cut short.  Two ticks let a bucket empty
  and refill.
- `PoolRuns` has pools of one or two engines with one slot each.  `Engines` has a
  third name, for an engine that starts while another is still ending; the
  monitor reads a depth only when there are names for what it might add.
  One slot is enough for an engine that is full and for a late payload;
  one engine at a time may be stopped by a signal, and one by an error.
- `Pipeline` has six discover requests: one guarded endpoint with a good and a lower
  token, with a base that ends in a slash and a broken token, a document with
  everything the parser meets, one that makes it raise, one that cannot be read and
  one without paths.  `Watched` names the rows that get answers: the crawler row, the
  two role rows, and one fuzzing row.  Two status codes (200 and 401) tell all rules
  apart but that for 403, which they treat as 401; of the three bodies two share an
  identity and none are alike, so each branch of the differ is met.
- `Service` has four kinds of scenario (`Stories`), each with its number of upsets
  (a process that leaves, a failure of Redis, a change of the selection): *Upheaval*,
  two API processes and possibly a worker, with a subscriber, no reader and two
  upsets, so that a process or Redis may go, and another after it; *Overlap*, one
  process and a page with two requests under way, which is what an older answer
  needs to arrive last; *Vanishing*, a copilot reads a scan with one retry while the second
  of two processes starts and empties the tables, or the scan is deleted;
  *Resubmission*, two tasks, each submitted at any time, with a client that asks for the
  progress (no retries), or with a client of the stream (one retry each).  The
  scenarios are apart because their product adds no reader that sees another order of
  commits.
- In `ScanService` a submission is one step and brings one task or none, and a task is
  submitted once (`Submissions`); two tasks are what a verdict needs that is older
  than a submission.  A submission that is slow between its commits (RUNNING written
  over a verdict) is in `ScanExecution`.

Fairness.

- `ScanExecution`: weak, for the steps of a running handler, of the consumer loop
  and of the coroutines.  The event loop runs every ready coroutine, every await
  has a timeout or a reply, and `engine.start` polls without end while a slot is
  free.  Nothing is assumed of users (submitting, deleting) or of the
  environment.  A due time always comes, hence `ReadDelayed` is fair; the random
  poll order reaches every non-empty list, hence `Pop` is.
- `RateLimiter`: weak, for the clock and for each caller inside `acquire`.  Targets
  need not answer, and nobody needs to call.
- `WorkerPool`: weak, for each engine's loop, coroutines and stop, for the monitor,
  and for the manager once its `stop` is called.  Whether the monitor succeeds in
  reading the depth, and what it reads, is open, which is why `GrowsUnderLoad`
  assumes that a deep queue is read again and again.  No signal and no shutdown
  need ever come.
- `ScanService`: weak, for each slot's handler (`Serve`), which answers or is lost
  with its process; strong, for the page's timer, which fires every three
  seconds, again and again at a moment when one of the few slots is free; weak, for
  a SETEX under way and for the expiry of a worker's key.  Nothing is assumed of
  the scan: `ViewSettles` speaks of a page from the time on when the scan is finished
  and an API process stays up.

## 5. Proofs

All constants are arbitrary up to the named assumptions of the modules, and, where
nothing else is said, all faults are allowed.  Every invariant that a passing run
checks is a theorem here.

| Theorem | Module |
|---|---|
| `TypeCorrect`: `Spec => []TypeOK`; `CustodyCorrect`, `OneCarrierCorrect` | `ScanExecutionProofs` |
| `SuccessCorrect`, `SuccessIsFinalCorrect`, `DeadLettersCorrect`, `CompletedCorrect`, `RetryBudgetCorrect`, `IInvCorrect`, `DeliveryImplemented` | `ScanSafetyProofs` |
| `VerdictReachedCorrect`, `NothingLostCorrect`, `FewTasksCorrect` | `ScanSettlingProofs` |
| `LimiterTypeCorrect`, `WindowBoundCorrect` | `RateLimiterProofs` |
| `PoolTypeCorrect`, `PoolBoundsCorrect`, `FloorKeptCorrect`, `AtMostOneLateCorrect`, `RemovedHaveFinishedCorrect` | `WorkerPoolProofs` |
| `ServiceTypeCorrect`, `EventAfterCommitCorrect`, `CompletionToldCorrect`, `SuccessShownCorrect`, `CompletedCountsItsTasksCorrect` | `ScanServiceProofs` |
| `OrderIndependentCorrect`, `FindingsGrowCorrect`, `EveryAnomalyClassifiedCorrect`, `SharedDataReportedCorrect`, `ReportedIsBypassCorrect` | `ScanPipelineProofs` |
| `EveryOperationTestedCorrect`, `RolesMeetCrawlerCorrect`, `MutationsSentCorrect`, `PipelineTypeCorrect`, `ViewsAgreeCorrect` | `ScanDiscoveryProofs` |

**The scan.**  `SingleConsumer` (at most one engine) is the assumption of every
theorem about it but `TypeCorrect` and `VerdictReachedCorrect`.  It holds of `executor/worker_main.py`, which
runs one engine with its slots.  It does not hold of `run_worker.py`, the pool that
`docker-compose.yml` deploys: there `OneCarrier` fails, as `RacingConsumers` shows,
and what is left is what `ScanRacing` checks.

`OneCarrier` is not inductive: a submission could publish a task that is already
out, or a consumer could push a payload from a stale snapshot.  `Custody` adds that
batches are disjoint, that an unpublished task is nowhere else, that a snapshot is
still in the delayed set (the only consumer is the one that removes from it), and
that the dead have no carrier.  On top of it `SuccessUncarried` says that after
SUCCESS only the coroutine that recorded it may hold the task, past its commit, so
nobody is left to overwrite it; `VerdictsCurrent` then keeps a waiting COMPLETED
verdict true until its commit.  `BudgetKept` bounds what was spent on a task by the
attempt counter of its only payload.  Each layer is proved inductive relative to
those below it.

`DeliveryImplemented` shows that each step of `ScanExecution` is, for each task, a
step of `TaskDelivery` or a stutter.  Most steps bring nothing new into circulation;
of those it is enough that a task which leaves it ends with a legal fate
(`WorkerStep`, `AbandonStep`), and only the submission is treated on its own.

**Settling.**  `NothingLost` and `VerdictReached` are about runs in which nothing
fails (`FaultFree`: `Env` is empty), and rest on `DelayedFits`, that one read of the
delayed set takes all of it.  `DelayedOverflow` shows that the code does not
guarantee this; `FewTasksCorrect` says when it does: with no more tasks than
`DueLimit`, 50 at `executor/task_queue/consumer.py:79`, and one consumer.  Racing
consumers execute a task twice, and the older outcome may be written over the newer
one; `NothingLostCorrect` therefore needs a single consumer too (`SettledOne`).  `VerdictReachedCorrect` does not.  Its invariant `Settling`
gives a scan a reason to be RUNNING (`VerdictDue`): a submission under way or
one without tasks, a task on its way (`OnItsWay`), or a coroutine that will look at all
tasks of the scan (`WillJudge`); and whoever records an outcome becomes such a
coroutine, however many consumers race.

**The rate limiter.**  `WindowBoundCorrect` is about the buckets of the process
(`Observed = "local"`); those in Redis do not keep the bound, for the reason given in
section 4.  The inductive invariant, `LocalKept`, says of every bucket
that what it still holds and what it gave out since the window was opened is no
more than its capacity and its gain up to its last call: a request moves units from
one part of the sum to the other, a refill adds no more than the gain since the last
call, a 429 only slows the gain down, and the local buckets read the clock under
their lock, so their last call is never set back.

**The worker pool.**  None of the invariants is inductive by itself: `PoolBounds`
could be lost by a monitor that removes an engine it no longer counts, `FloorKept` by
one that awaits two at once.  `IInv` adds that at most one engine is awaited by the
monitor (`OneAwaited`), only while it stands at that await (`AwaitedByMonitor`) and
only with more than `Min` engines on the list (`Room`); what may have become of an
engine the monitor has begun to stop (`Fates`); and that an engine found idle has at
most a late task since (`IdleOK`).  A round of the monitor is proved in three parts:
those that are stopped leave the list (`DeadRemoved`), the next is awaited
(`BeginStopOK`), or the pool is scaled (`ScaleOK`); it begins at a reading of the depth or
when an awaited stop returns (`AwaitedReturns`), with the list in the same condition
(`Ready`).  All other steps leave the list alone and bring no engine nearer to the
monitor (`Unmoved`, `OneChanges`).

**The service.**  The assumptions are that the names of processes differ from each other
and from the two places a payload can be besides (`ProcsAssumption`), and that no task
is called "nobody" (`TasksAssumption`); there may be any number of tasks.  `Story` relates rows, payloads and
verdict.  Of each task (`RowStory`): a row that says SUCCESS has its response, and its payload
is past the save or gone.  Of each check (`CheckStory`): between its read and its commit, what it
has seen still holds as far as it matters (`SoundCheck`), that is, the tasks behind a COMPLETED
are settled, and a final verdict that it saw is not undone.  Of the verdict (`VerdictStory`):
COMPLETED rests on tasks that are settled, and whoever has heard of a completion finds
the scan finished.  A settled task has succeeded, or was deleted after it was submitted, and
stays so (`Settled`, `StaysSettled`); a task that is still unborn is not settled, which is why a
later submission cannot slip into an older verdict.

`ReadsHold` is what makes a reader safe although it reads piece by piece: if it has
read SUCCESS, the task is settled, and if it has read COMPLETED, the tasks behind it
are; so the query that follows finds a success, with its response, or nothing.  That the
dependent query comes right after the one it depends on is `QueryOrder`.
`CompletionTold` is strengthened to `ToldByNow`: who is to be told has been told as soon as
the engine has told of the verdict, and that is so through the retries of the
task.  It rests on the processes that run keeping their broker (`ModesKept`), and on
a subscription living no longer than its process and its broker (`ListenerTypes`).

**The pipeline** (`ScanPipelineProofs`).  The operators fold over data of any length.
The library's induction theorems take an operator as a parameter, so induction is
used in the form *a set of numbers that has 0 and with m also m + 1 has all*
(`Induction`), and each operator that folds is first shown to be a loop: the values of
`FlattenSeq` after each of its rounds (`Flattens`), those of `FoldLeft`
(`Iterates`, `Folds`, with `Step` telling the folds of the models apart).
With these, `CollectHolds` describes the collector's buffer after any list of
responses: one group for each method and endpoint, holding the responses with that
key; `PairsHold` says which pairs are compared, and `FlushHolds` which issues the
report lists.  `FindingsIs` puts them together: on endpoints with an
administrator the findings are a function of the *set* of the answered rows
(`FindingsOf`).  `OrderIndependent` and `FindingsGrow` follow at once,
`SharedDataReported` from the rule that reports equal bodies (`BolaReported`).
`EveryAnomalyClassified` follows the three reasons of the differ to a rule of the
classifier each (`AnomalyIsClassified`).

`ReportedIsBypass` needs a condition that no run would have shown: `NamedAdmins`, that
no administrator's token names the user "anonymous".  The report and the role-swap view
name a caller without a token differently ("unknown", and "anonymous" at
`executor/api/routes.py:778`), so an administrator of that name and a caller
without a token would be two users in the one and one in the other, and the view
would show no bypass for what the report lists.  The theorem has the condition as a
hypothesis on the state; no state of `Pipeline` violates it.

**Discovery and the views** (`ScanDiscoveryProofs`).  `Discovered` is the invariant: the
rows are those of the request that was accepted, made from its document, or there are
none.  `ParseHolds` shows by the two loops of the parser that its endpoints
hold each operation of the document once (`EachOnce`), with normal paths (one leading
slash); `SameUrl` that two normal paths behind the same base give one URL only if
they are equal, whatever slashes the base ends in.  From that `RowsHold` describes all
rows: one crawler row for each endpoint, role rows and fuzzing rows after them.
`EveryOperationTested` counts with a numbering of the rows (`Numbered`).

`MutationsSent` has to show that dropping what reads alike (`Fingerprint`) drops no
request, although the fingerprint and the bridge read a missing field differently.
A mutation that sets something sets something that is not blank, but for the blank
method (`Legible`, shown mutator by mutator); so of two legible mutations with one
fingerprint the same fields are set, and the bridge makes the same request of them
(`SameRequest`), unless one of them is blank all over.  That is the mutation that
removes the only header: it comes first and is kept itself (`RemovedFirst`, `Kept`), so
it is never the one that is dropped for another.  `DeduplicateHolds` says that each
mutation has a kept one that reads alike, and `RequestSent` follows it into the rows.

`ViewsAgree` adds counts.  `MapThenSumSet` takes the
members of a set in an order that it chooses; `SumHolds` shows that the order does
not matter (`Additive`).  The property holds for a reason that is easy to lose: the
tables without a row for INFO add up only because the classifier gives no severity below
MEDIUM (`NoInfo`), and the copilot's first issue is a worst one because the
report is sorted (`BySeverityOrder`).

Assumptions of these proofs, each met by what the program can be given:
`LikenessAssumption` (a body is like itself, ratios are percentages),
`BodiesAssumption` (the bodies of answers are known), `VariantsAssumption` (what the
mutators put in is a list, and every method has spellings), `RequestsAssumption` (a
request has a list of paths, a list of tokens, and a base that is a list).  In the models, the proofs asked for two changes:
lists are made with `Picked` and `Each` of `Lists`, since the provers do not know what
`SelectSeq` is; and where the code's branches overlap (`AnomalyReason`, the scores, the
risk, the parser's skipped entries) they are a chain of IF, because a CASE may take
any arm whose guard holds.

**Only model-checked**: liveness (`TasksSettle`, `TasksRest`, `AcquireReturns`,
`StopReturns`, `GrowsUnderLoad`, `ViewSettles`, `DepartedUnlisted`), which needs
fairness and ENABLED; and the five violations, of which TLC gives the behaviour.

## 6. Not modelled

- *API crawler*, *legacy `executor/queue`*, the JWT command line program: nothing the
  scan depends on; the first is a sequential program outside the executor, the second
  is imported by nobody, the third keeps no state.
- *Copies*: `diff_engine.py`, `issue_classifier.py`, `result_collector.py`,
  `report_generator.py` and others directly under `src/` are copies of modules under
  `modules_unzipped/`; the service imports the latter, and those are modelled.
- *API routes that read one given thing*: `/jwt/analyze`, `/diff`, telemetry, the
  timeline and the health endpoint change no state and compose nothing.
- *Mutators*: `paramMutator` and the rules for credentials and for a numeric field
  cannot be reached, since the bridge sends one header, one text field and no query;
  what exactly the appended texts are does not matter to any property.
- *Collector and classifier*: reset, statistics, `detect_data_leak`,
  `batch_compare` and `_assignSeverity` are not called by the service.
- *Copilot*: the language model and the prompts.  *Frontend*: what only presents,
  and the list of executions, which polls as the modelled page does.
- *Events*: `task_completed`, which is only shown.  *Heartbeat*: the length of the
  intervals; a key of a worker that is gone expires at some time.
- *Rate limiter*: the loader of its configuration file, and what floats round.
- *Deployment*: a submission that is slow between its commits, lost and double payloads,
  and a database that fails are in `ScanExecution` and not in `ScanService`; there a
  submission is one step, and a payload is in one place.
