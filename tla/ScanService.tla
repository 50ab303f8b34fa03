---------------------------- MODULE ScanService ----------------------------
(***************************************************************************)
(* The deployment around one scan: API processes and worker processes that *)
(* start, stop and crash and choose their broker when they start, the      *)
(* tables they share, submissions to the scan at any time, also to one     *)
(* that has finished, the events of the scan, the heartbeats, and the      *)
(* clients that read the tables in several queries: a page that polls      *)
(* every three seconds whether or not it has been answered, the copilot,   *)
(* and others who ask for the progress.                                    *)
(*                                                                         *)
(* ScanExecution has the queue's commands, lost and double payloads and    *)
(* the commits of one submission; here a payload is in one place and a     *)
(* submission is one step.                                                 *)
(***************************************************************************)
EXTENDS Naturals, SequencesExt

CONSTANTS
  Apis,         \* API processes (uvicorn --workers)
  Tasks,        \* the rows the submissions may create
  Workers,      \* worker processes, each of them one run of run_worker.py
  Slots,        \* places for requests for the scan's data
  Scenarios     \* bounds: who takes part in a behaviour, and how often it is upset

Procs == Apis \cup Workers
ASSUME ProcsAssumption == Apis \cap Workers = {} /\ {"redis", "nowhere"} \cap Procs = {}
ASSUME TasksAssumption == "nobody" \notin Tasks

\* The processes that start, the tasks that are submitted, one by one, whether
\* Redis is up at first, the slots, what the page shows and whether it has the
\* scan selected, who else asks, whether there is a client of the event stream,
\* the tasks' retry_count, and the number of upsets: processes that leave,
\* failures of Redis, changes of the selection.
ASSUME ScenariosAssumption == Scenarios \subseteq
  [procs : SUBSET Procs, tasks : SUBSET Tasks, redis : BOOLEAN, slots : SUBSET Slots,
   view : {"tasks", "progress"}, selected : BOOLEAN, others : SUBSET {"copilot", "client"},
   stream : BOOLEAN, retries : Nat, upsets : Nat]

VARIABLES
  bounds,    \* the scenario
  upsets,
  redisUp,
  mode,      \* process -> "unborn", "down", "fake" or "real" (_use_fake)
  verdict,   \* status of the scan's row, "absent" without one
  basis,     \* history: the tasks the verdict was computed from, and whose check it was
  row,       \* task -> status of its row
  response,  \* task -> its response row
  payload,   \* task -> where its payload is, and what its holder did last
  listener,  \* the client of the event stream
  heard,     \* whether it got scan_completed
  listed,    \* workers with a heartbeat key in Redis
  beating,   \* workers whose SETEX is on its way
  selected,  \* whether the page looks at the scan
  fetch,     \* slot -> a request for the scan's data
  shown      \* what the page shows

tables  == <<verdict, basis, row, response>>
events  == <<listener, heard>>
beats   == <<listed, beating>>
views   == <<selected, fetch, shown>>
servers == <<redisUp, mode>>
vars == <<bounds, upsets, servers, tables, payload, events, beats, views>>

\* bound
Upset == upsets < bounds.upsets /\ upsets' = upsets + 1 /\ UNCHANGED bounds
Quiet == UNCHANGED <<bounds, upsets>>

Up(p) == mode[p] \in {"fake", "real"}
\* get_client: Redis, or the in-memory Redis of the process
Broker(p) == IF mode[p] = "real" THEN "redis" ELSE p
Reachable(p) == Up(p) /\ (mode[p] = "real" => redisUp)

\* In Redis mode the engines are those of the worker processes.
HasEngines(p) == p \in Workers \/ mode[p] = "fake"

NoCheck == [seen |-> "absent", on |-> {}, verdict |-> "absent"]
At(place, step) == [at |-> place, step |-> step, ok |-> FALSE, attempt |-> 0, check |-> NoCheck]
Gone == At("nowhere", "gone")
NoListener == [at |-> "nowhere", before |-> {}]
Idle == [for |-> "nobody", read |-> << >>, on |-> {}, responses |-> << >>]
Nothing == <<Idle.read, Idle.responses>>

Final   == {"COMPLETED", "FAILED"}
Pending == {"QUEUED", "PROCESSING", "RETRYING"}
Unborn(t) == payload[t].step = "unborn"
Stored == {t \in Tasks : row[t] # "absent"}

\* Without the scan's row the others are gone too (foreign keys).
NoRows ==
  /\ verdict' = "absent"
  /\ row' = [t \in Tasks |-> "absent"] /\ response' = [t \in Tasks |-> "none"]
  /\ UNCHANGED basis

----------------------------------------------------------------------------
(* Processes *)

\* The seeded defects (their names end in Bug) show that the properties depend
\* on the code; no specification uses them.

\* startup_event: every API process drops the tables and creates them again.
ApiStarts(p) ==
  /\ p \in bounds.procs /\ ~Up(p) /\ Quiet
  /\ mode' = [mode EXCEPT ![p] = IF redisUp THEN "real" ELSE "fake"]
  /\ NoRows
  /\ UNCHANGED <<redisUp, payload, events, beats, views>>

WorkerStarts(w) ==
  /\ w \in bounds.procs /\ mode[w] = "unborn" /\ Quiet
  /\ mode' = [mode EXCEPT ![w] = IF redisUp THEN "real" ELSE "fake"]
  /\ UNCHANGED <<redisUp, tables, payload, events, beats, views>>

\* The process's own Redis is lost with it, and the streams and requests it serves.
Leaves(p) ==
  /\ mode' = [mode EXCEPT ![p] = "down"]
  /\ payload' = [t \in Tasks |-> IF payload[t].at = p THEN Gone ELSE payload[t]]
  /\ listener' = IF listener.at = p THEN NoListener ELSE listener
  /\ \E served \in IF p \in Apis THEN SUBSET Slots ELSE {{}} :
       fetch' = [s \in Slots |-> IF s \in served THEN Idle ELSE fetch[s]]
  /\ UNCHANGED <<redisUp, tables, heard, beating, selected, shown>>

Crashes(p) == Up(p) /\ Upset /\ Leaves(p) /\ UNCHANGED listed

\* shutdown_event and the end of run_worker: what is in hand is finished, and
\* the heartbeat's key is deleted, while its last SETEX may be on its way.
Stops(p) ==
  /\ Up(p) /\ Upset
  /\ \A t \in Tasks : payload[t].at = p => payload[t].step = "queued"
  /\ Leaves(p)
  /\ listed' = IF Reachable(p) THEN listed \ {p} ELSE listed

RedisFails ==
  /\ redisUp /\ redisUp' = FALSE /\ Upset
  /\ listener' = IF listener.at \in Procs /\ Broker(listener.at) = "redis" THEN NoListener ELSE listener
  /\ UNCHANGED <<mode, tables, payload, heard, beats, views>>

\* Redis has its append-only file: the payload is still there.
RedisReturns ==
  /\ ~redisUp /\ redisUp' = TRUE /\ Quiet
  /\ UNCHANGED <<mode, tables, payload, events, beats, views>>

----------------------------------------------------------------------------
(* The scan *)

CreateScan(p) ==
  /\ Up(p) /\ verdict = "absent" /\ \A t \in Tasks : Unborn(t)
  /\ verdict' = "PENDING"
  /\ UNCHANGED <<bounds, upsets, servers, basis, row, response, payload, events, beats, views>>

\* bound: a submission brings one task, or none
Submissions == {{}} \cup {{t} : t \in {t \in bounds.tasks : Unborn(t)}}

ReopenBug(p) ==
  /\ Up(p) /\ verdict # "absent"
  /\ verdict' = "RUNNING"
  /\ \E new \in Submissions :
       /\ row' = [t \in Tasks |-> IF t \in new THEN "QUEUED" ELSE row[t]]
       /\ payload' = [t \in Tasks |-> IF t \in new THEN At(p, "unsent") ELSE payload[t]]
  /\ UNCHANGED <<bounds, upsets, servers, basis, response, events, beats, views>>

\* Only a scan that is pending starts to run; the tasks of the others are
\* stored and sent all the same, under the verdict there is.  PAUSED, which the
\* code tests too, is never written.
SubmitTasks(p) ==
  /\ Up(p) /\ verdict # "absent"
  /\ verdict' = IF verdict = "PENDING" THEN "RUNNING" ELSE verdict
  /\ \E new \in Submissions :
       /\ row' = [t \in Tasks |-> IF t \in new THEN "QUEUED" ELSE row[t]]
       /\ payload' = [t \in Tasks |-> IF t \in new THEN At(p, "unsent") ELSE payload[t]]
  /\ UNCHANGED <<bounds, upsets, servers, basis, response, events, beats, views>>

Holds(p, t, step) == payload[t].at = p /\ payload[t].step = step
Becomes(t, new) == payload' = [payload EXCEPT ![t] = new]

\* publish_batch after the commit; its failure is logged.
Publish(p, t) ==
  /\ Holds(p, t, "unsent")
  /\ Becomes(t, IF Reachable(p) THEN [payload[t] EXCEPT !.at = Broker(p), !.step = "queued"]
                 ELSE Gone)
  /\ UNCHANGED <<bounds, upsets, servers, tables, events, beats, views>>

DeleteKeepsTasksBug(p) ==
  /\ Up(p) /\ verdict # "absent"
  /\ verdict' = "absent"
  /\ UNCHANGED <<bounds, upsets, servers, basis, row, response, payload, events, beats, views>>

DeleteScan(p) ==
  /\ Up(p) /\ verdict # "absent"
  /\ NoRows
  /\ UNCHANGED <<bounds, upsets, servers, payload, events, beats, views>>

----------------------------------------------------------------------------
(* An engine of process p with the payload of t: each step is a commit, an *)
(* exchange, a read or an event.                                           *)

Goes(t, step) == Becomes(t, [payload[t] EXCEPT !.step = step])

Consume(p, t) ==
  /\ Reachable(p) /\ HasEngines(p)
  /\ Holds(Broker(p), t, "queued")
  /\ Becomes(t, [payload[t] EXCEPT !.at = p, !.step = "taken"])
  /\ UNCHANGED <<bounds, upsets, servers, tables, events, beats, views>>

\* The row of t, if it is there
SetStatus(t, status) == row' = [row EXCEPT ![t] = IF @ = "absent" THEN @ ELSE status]

MarkTaskProcessing(p, t) ==
  /\ Holds(p, t, "taken")
  /\ SetStatus(t, "PROCESSING") /\ Goes(t, "marked")
  /\ UNCHANGED <<bounds, upsets, servers, verdict, basis, response, events, beats, views>>

SaveWithoutAddBug(p, t) ==
  /\ Holds(p, t, "marked")
  /\ SetStatus(t, "SUCCESS")
  /\ Becomes(t, [payload[t] EXCEPT !.ok = TRUE, !.step = IF t \in Stored THEN "saved" ELSE "told"])
  /\ UNCHANGED <<bounds, upsets, servers, verdict, basis, response, events, beats, views>>

\* Without the task's row the response breaks its foreign key: nothing is saved.
SaveResponse(p, t) ==
  /\ Holds(p, t, "marked")
  /\ \E ok \in BOOLEAN :
       /\ SetStatus(t, IF ok THEN "SUCCESS" ELSE "FAILED")
       /\ response' = [response EXCEPT ![t] =
                         IF t \notin Stored THEN @ ELSE IF ok THEN "reply" ELSE "error"]
       /\ Becomes(t, [payload[t] EXCEPT !.ok = ok, !.step = IF t \in Stored THEN "saved" ELSE "told"])
  /\ UNCHANGED <<bounds, upsets, servers, verdict, basis, events, beats, views>>

\* A verdict follows from the statuses once none of them is pending.
Checked(t) ==
  IF verdict = "absent" \/ Stored = {} \/ \E u \in Stored : row[u] \in Pending
  THEN [payload[t] EXCEPT !.step = "told"]
  ELSE [payload[t] EXCEPT !.step = "judging", !.check =
         [seen |-> verdict, on |-> Stored,
          verdict |-> IF \A u \in Stored : row[u] = "SUCCESS" THEN "COMPLETED" ELSE "FAILED"]]

PublishBeforeCommitBug(p, t) ==
  /\ Holds(p, t, "saved")
  /\ Becomes(t, Checked(t)) /\ heard' = (heard \/ listener.at = p)
  /\ UNCHANGED <<bounds, upsets, servers, tables, listener, beats, views>>

\* The scan and the statuses of its tasks are read (two queries, here one step) ...
EvaluateScanCompletion(p, t) ==
  /\ Holds(p, t, "saved")
  /\ Becomes(t, Checked(t))
  /\ UNCHANGED <<bounds, upsets, servers, tables, events, beats, views>>

\* ... and the verdict is committed.  The ORM writes it if it differs from the
\* status that was read; what has been committed in between is not looked at.
WriteVerdict(t) ==
  LET check == payload[t].check
  IN IF check.verdict = check.seen THEN UNCHANGED <<verdict, basis>>
     ELSE verdict' = check.verdict /\ basis' = [on |-> check.on, by |-> t]

TellOnlySuccessBug(p, t) ==
  /\ Holds(p, t, "judging") /\ verdict # "absent"
  /\ WriteVerdict(t)
  /\ Becomes(t, [payload[t] EXCEPT !.check = NoCheck, !.step = IF payload[t].ok THEN "judged" ELSE "told"])
  /\ UNCHANGED <<bounds, upsets, servers, row, response, events, beats, views>>

CommitVerdict(p, t) ==
  /\ Holds(p, t, "judging") /\ verdict # "absent"
  /\ WriteVerdict(t)
  /\ Becomes(t, [payload[t] EXCEPT !.check = NoCheck, !.step = "judged"])
  /\ UNCHANGED <<bounds, upsets, servers, row, response, events, beats, views>>

\* The scan was deleted meanwhile: the commit fails.
VerdictLost(p, t) ==
  /\ Holds(p, t, "judging") /\ verdict = "absent"
  /\ Becomes(t, [payload[t] EXCEPT !.check = NoCheck, !.step = "told"])
  /\ UNCHANGED <<bounds, upsets, servers, tables, events, beats, views>>

\* PUBLISH reaches who is subscribed now, in the broker of the engine.
PublishCompleted(p, t) ==
  /\ Holds(p, t, "judged")
  /\ heard' = (heard \/ (/\ Reachable(p) /\ listener.at \in Procs
                         /\ Broker(listener.at) = Broker(p)))
  /\ Goes(t, "told")
  /\ UNCHANGED <<bounds, upsets, servers, tables, listener, beats, views>>

Finish(p, t) ==
  /\ Holds(p, t, "told") /\ (payload[t].ok \/ payload[t].attempt = bounds.retries)
  /\ Becomes(t, Gone)
  /\ UNCHANGED <<bounds, upsets, servers, tables, events, beats, views>>

HandleRetry(p, t) ==
  /\ Holds(p, t, "told") /\ ~payload[t].ok /\ payload[t].attempt < bounds.retries
  /\ SetStatus(t, "RETRYING")
  /\ Becomes(t, [payload[t] EXCEPT !.attempt = @ + 1, !.step = "unsent"])
  /\ UNCHANGED <<bounds, upsets, servers, verdict, basis, response, events, beats, views>>

----------------------------------------------------------------------------
(* Events and heartbeats *)

Subscribe(p) ==
  /\ bounds.stream /\ Reachable(p) /\ listener = NoListener
  /\ listener' = [at |-> p, before |-> {t \in Tasks : Unborn(t)}]
  /\ UNCHANGED <<bounds, upsets, servers, tables, payload, heard, beats, views>>

Beat(w) ==
  /\ mode[w] = "real" /\ w \notin beating
  /\ beating' = beating \cup {w}
  /\ UNCHANGED <<bounds, upsets, servers, tables, payload, events, listed, views>>

\* SETEX arrives, or fails with Redis.
BeatArrives(w) ==
  /\ w \in beating
  /\ beating' = beating \ {w} /\ listed' = IF redisUp THEN listed \cup {w} ELSE listed
  /\ UNCHANGED <<bounds, upsets, servers, tables, payload, events, views>>

NeverExpiresBug(w) == w \in listed /\ FALSE /\ UNCHANGED vars

\* Three intervals without a beat
Expire(w) ==
  /\ w \in listed /\ mode[w] = "down" /\ listed' = listed \ {w}
  /\ UNCHANGED <<bounds, upsets, servers, tables, payload, events, beating, views>>

----------------------------------------------------------------------------
(* Readers.  Handlers read in several queries, each of which sees what is  *)
(* committed when it runs: the scan, the counts or the tasks, and then the *)
(* response of each task that was listed.                                  *)

ToggleScan ==
  /\ bounds.slots # {} /\ selected' = ~selected /\ Upset
  /\ UNCHANGED <<servers, tables, payload, events, beats, fetch, shown>>

CountsFirstBug(who) ==
  CASE who \in {"progress", "client"} -> <<"counts", "scan">>
    [] who = "tasks"    -> <<"tasks">>
    [] who = "copilot"  -> <<"counts", "scan", "tasks">>
    [] OTHER            -> << >>

\* get_scan_progress for the page or another client, get_scan_tasks,
\* _gather_scan_context
Queries(who) ==
  CASE who \in {"progress", "client"} -> <<"scan", "counts">>
    [] who = "tasks"    -> <<"tasks">>
    [] who = "copilot"  -> <<"scan", "counts", "tasks">>
    [] OTHER            -> << >>

\* The counts are those of these statuses.
Result(query) == IF query = "scan" THEN verdict ELSE row

\* Without its scan a progress is refused, and the copilot's context empty.
Refused(f) == f.read # << >> /\ Queries(f.for)[1] = "scan" /\ f.read[1] = "absent"
Listed(f) ==
  {t \in Tasks : \E i \in DOMAIN f.read : Queries(f.for)[i] = "tasks" /\ f.read[i][t] # "absent"}
HasRead(f) == Len(f.read) = Len(Queries(f.for))
Complete(f) == f.for # "nobody" /\ (Refused(f) \/ (HasRead(f) /\ DOMAIN f.responses = Listed(f)))

Ask(s, who) ==
  /\ s \in bounds.slots /\ fetch[s] = Idle /\ \E p \in Apis : Up(p)
  /\ fetch' = [fetch EXCEPT ![s].for = who]
  /\ UNCHANGED <<bounds, upsets, servers, tables, payload, events, beats, selected, shown>>

LoadOnceBug(s) == shown = Nothing /\ Ask(s, IF selected THEN bounds.view ELSE "nothing")

\* The timer does not wait for the last answer; without a scan nothing is read.
PollPage(s) == Ask(s, IF selected THEN bounds.view ELSE "nothing")
AskOther(s) == \E who \in bounds.others : Ask(s, who)

\* on, which no client sees, is what the verdict that is read was computed from.
ReadNext(s) ==
  /\ fetch[s].for # "nobody" /\ ~HasRead(fetch[s]) /\ ~Refused(fetch[s])
  /\ LET query == Queries(fetch[s].for)[Len(fetch[s].read) + 1]
     IN fetch' = [fetch EXCEPT ![s].read = Append(@, Result(query)),
                               ![s].on = IF query = "scan" THEN basis.on ELSE @]
  /\ UNCHANGED <<bounds, upsets, servers, tables, payload, events, beats, selected, shown>>

ReadResponse(s) ==
  /\ HasRead(fetch[s]) /\ ~Refused(fetch[s])
  /\ \E t \in Listed(fetch[s]) \ DOMAIN fetch[s].responses :
       fetch' = [fetch EXCEPT ![s].responses =
                   [u \in DOMAIN @ \cup {t} |-> IF u = t THEN response[t] ELSE @[u]]]
  /\ UNCHANGED <<bounds, upsets, servers, tables, payload, events, beats, selected, shown>>

\* A refused answer leaves the page as it is.
Arrive(s) ==
  /\ Complete(fetch[s])
  /\ fetch' = [fetch EXCEPT ![s] = Idle]
  /\ shown' = IF fetch[s].for \in {"copilot", "client"} \/ Refused(fetch[s]) THEN shown
              ELSE <<fetch[s].read, fetch[s].responses>>
  /\ UNCHANGED <<bounds, upsets, servers, tables, payload, events, beats, selected>>

----------------------------------------------------------------------------

Init ==
  /\ bounds \in Scenarios /\ upsets = 0
  /\ redisUp = bounds.redis /\ mode = [p \in Procs |-> "unborn"]
  /\ verdict = "absent" /\ basis = [on |-> {}, by |-> "nobody"]
  /\ row = [t \in Tasks |-> "absent"] /\ response = [t \in Tasks |-> "none"]
  /\ payload = [t \in Tasks |-> At("nowhere", "unborn")]
  /\ listener = NoListener /\ heard = FALSE
  /\ listed = {} /\ beating = {}
  /\ selected = bounds.selected
  /\ fetch = [s \in Slots |-> Idle] /\ shown = Nothing

Deployment ==
  \/ \E p \in Apis : ApiStarts(p)
  \/ \E w \in Workers : WorkerStarts(w) \/ Beat(w) \/ BeatArrives(w) \/ Expire(w)
  \/ \E p \in Procs : Crashes(p) \/ Stops(p)
  \/ RedisFails \/ RedisReturns

Handlers(p) ==
  CreateScan(p) \/ SubmitTasks(p) \/ DeleteScan(p) \/ Subscribe(p)

Execute(p, t) ==
  \/ Consume(p, t) \/ MarkTaskProcessing(p, t) \/ SaveResponse(p, t)
  \/ EvaluateScanCompletion(p, t) \/ CommitVerdict(p, t) \/ VerdictLost(p, t)
  \/ PublishCompleted(p, t) \/ HandleRetry(p, t) \/ Publish(p, t) \/ Finish(p, t)

Serve(s) == ReadNext(s) \/ ReadResponse(s) \/ Arrive(s)

Next ==
  \/ Deployment \/ ToggleScan
  \/ \E p \in Apis : Handlers(p)
  \/ \E p \in Procs, t \in Tasks : Execute(p, t)
  \/ \E s \in Slots : PollPage(s) \/ AskOther(s) \/ Serve(s)

\* Handlers answer, SETEX arrives and keys expire; the timer fires again and
\* again, and so it does whenever a slot is free.  Nothing else has to happen.
Fairness ==
  /\ \A s \in Slots : WF_vars(Serve(s))
  /\ SF_vars(\E s \in Slots : PollPage(s))
  /\ \A w \in Workers : WF_vars(BeatArrives(w) \/ Expire(w))

Spec == Init /\ [][Next]_vars /\ Fairness

----------------------------------------------------------------------------

Verdicts == {"absent", "PENDING", "RUNNING"} \cup Final
Statuses == {"absent", "SUCCESS", "FAILED"} \cup Pending

\* Types; and a task or a response has its scan's row (foreign keys).
TypeOK ==
  /\ bounds \in Scenarios /\ upsets \in 0..bounds.upsets /\ redisUp \in BOOLEAN
  /\ mode \in [Procs -> {"unborn", "down", "fake", "real"}]
  /\ verdict \in Verdicts /\ row \in [Tasks -> Statuses]
  /\ response \in [Tasks -> {"none", "reply", "error"}] /\ basis.on \subseteq Tasks
  /\ \A t \in Tasks : /\ (verdict = "absent" => row[t] = "absent")
                      /\ (row[t] = "absent" => response[t] = "none")
                      /\ payload[t].at \in Procs \cup {"redis", "nowhere"}
                      /\ (payload[t].at \in Procs => Up(payload[t].at))
                      /\ payload[t].attempt \in 0..bounds.retries
  /\ listener.at \in Apis \cup {"nowhere"} /\ heard \in BOOLEAN
  /\ listed \subseteq Workers /\ beating \subseteq Workers /\ selected \in BOOLEAN

\* A client that is told of the scan's completion and then looks finds it
\* finished, if the scan is there at all, whatever is submitted to it and judged
\* by others meanwhile: the event never runs ahead of the commit it speaks of
\* (_evaluate_scan_completion, submit_tasks).
EventAfterCommit == heard => verdict \in Final \cup {"absent"}

\* Who subscribed before the task was submitted whose check gave the verdict, and
\* whose process has the broker of the engine, is told, whatever else stops,
\* crashes or is submitted in between (scan_event_generator,
\* _evaluate_scan_completion).
CompletionTold ==
  \A t \in Tasks :
    (/\ basis.by = t /\ verdict \in Final /\ payload[t].step = "told"
     /\ t \in listener.before /\ Broker(listener.at) = Broker(payload[t].at)) => heard

\* A task that a listing or the copilot's context shows as SUCCESS comes with
\* the response of that attempt although the two are read one after the other,
\* unless the scan is deleted, or the tables are, in between (get_scan_tasks).
SuccessShownWithResponse ==
  \A s \in Slots : \A i \in DOMAIN fetch[s].read : \A t \in DOMAIN fetch[s].responses :
    (Queries(fetch[s].for)[i] = "tasks" /\ fetch[s].read[i][t] = "SUCCESS") =>
      \/ fetch[s].responses[t] = "reply"
      \/ fetch[s].responses[t] = "none" /\ row[t] = "absent"

\* A progress, or the copilot's context, that says COMPLETED counts every task
\* that verdict was computed from as a success, although the scan and the counts
\* are read one after the other, and others may submit, judge, retry and delete
\* in between.  Tasks it was not computed from, submitted to a finished scan or
\* while the check was on its way, may be counted as anything: the code leaves
\* the verdict standing over them (get_scan_progress, _gather_scan_context).
CompletedCountsItsTasks ==
  \A s \in Slots : \A i, j \in DOMAIN fetch[s].read :
    LET query == Queries(fetch[s].for)
        read  == fetch[s].read
    IN (query[i] = "scan" /\ query[j] = "counts" /\ read[i] = "COMPLETED") =>
         \A t \in fetch[s].on : read[j][t] \in {"SUCCESS", "absent"}

Watched == bounds.slots # {} /\ \E p \in Apis : Up(p)

AtRest == verdict \in Final /\ \A t \in Tasks : payload[t].step \in {"unborn", "gone"}

\* The page comes to show a finished scan, and a deselected one no longer,
\* although an answer may arrive after a later one (fetchStats, useEffect).
ViewSettles ==
  /\ <>[](selected /\ AtRest /\ Watched)
       => <>[](shown = IF bounds.view = "progress" THEN << <<verdict, row>>, << >> >>
                       ELSE << <<row>>, [t \in Stored |-> response[t]] >>)
  /\ <>[](~selected /\ Watched) => <>[](shown = Nothing)

\* A worker that is gone is not listed for ever, and not listed again: not when
\* it crashed, and not when its last SETEX overtook its DELETE (WorkerHeartbeat).
DepartedUnlisted ==
  \A w \in Workers : (mode[w] = "down") ~> [](w \notin listed)

=============================================================================
