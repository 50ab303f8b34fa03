------------------------- MODULE ScanServiceProofs -------------------------
(***************************************************************************)
(* Proofs about ScanService, for any processes, tasks, slots and           *)
(* scenarios: the types, what a client of the event stream is told, and    *)
(* that answers put together from several queries do not contradict        *)
(* themselves.                                                             *)
(***************************************************************************)
EXTENDS ScanService, TLAPS

----------------------------------------------------------------------------
(* The inductive invariant *)

Steps == {"unborn", "unsent", "queued", "taken", "marked", "saved", "judging", "judged", "told",
          "gone"}
InHand == {"unsent", "taken", "marked", "saved", "judging", "judged", "told"}
Clients == {"nobody", "nothing", "progress", "client", "tasks", "copilot"}
Contents == {"none", "reply", "error"}

Checks == [seen : Verdicts, on : SUBSET Tasks, verdict : Verdicts]
Payloads == [at : Procs \cup {"redis", "nowhere"}, step : Steps, ok : BOOLEAN,
             attempt : 0..bounds.retries, check : Checks]
Reads == Verdicts \cup [Tasks -> Statuses]
Requests == [for : Clients, read : Seq(Reads), on : SUBSET Tasks,
             responses : UNION {[T -> Contents] : T \in SUBSET Tasks}]

ServerTypes ==
  /\ bounds \in Scenarios /\ upsets \in 0..bounds.upsets /\ redisUp \in BOOLEAN
  /\ mode \in [Procs -> {"unborn", "down", "fake", "real"}]

BeatTypes == listed \subseteq Workers /\ beating \subseteq Workers

TableTypes ==
  /\ verdict \in Verdicts /\ basis \in [on : SUBSET Tasks, by : Tasks \cup {"nobody"}]
  /\ row \in [Tasks -> Statuses] /\ response \in [Tasks -> Contents]
  /\ \A t \in Tasks : /\ (verdict = "absent" => row[t] = "absent")
                      /\ (row[t] = "absent" => response[t] = "none")

\* What is in hand is where a process runs.
Placed(f) ==
  /\ f.at \in Procs => Up(f.at)
  /\ f.step \in InHand => f.at \in Procs
  /\ f.step \in {"unborn", "gone"} <=> f.at = "nowhere"

PayloadTypes ==
  /\ payload \in [Tasks -> Payloads]
  /\ \A t \in Tasks : Placed(payload[t])

\* A subscription lives as long as its process and its broker.
ListenerTypes ==
  /\ listener \in [at : Apis \cup {"nowhere"}, before : SUBSET Tasks] /\ heard \in BOOLEAN
  /\ listener.at \in Procs => Reachable(listener.at)
  /\ listener.before # {} => listener.at \in Procs

\* The responses are read when everything else has been.
ViewTypes ==
  /\ selected \in BOOLEAN /\ fetch \in [Slots -> Requests]
  /\ \A s \in Slots : /\ Len(fetch[s].read) <= Len(Queries(fetch[s].for))
                      /\ DOMAIN fetch[s].responses # {} => HasRead(fetch[s])

Over == verdict \in Final \cup {"absent"}

\* A task has succeeded, or it had before it was deleted: neither is undone.
Settled(t) == ~Unborn(t) /\ row[t] \in {"SUCCESS", "absent"}

\* What a check that is not committed yet has seen that can no longer change
SoundCheck(check) ==
  /\ check.verdict \in Final
  /\ check.seen \in Final => Over
  /\ check.verdict = "COMPLETED" => \A u \in check.on : Settled(u)

\* The rows of a task, its payload and the verdict tell one story.
RowStory(t) ==
  /\ Unborn(t) => row[t] = "absent"
  /\ ~Unborn(t) /\ row[t] = "absent" => verdict = "absent"
  /\ row[t] = "SUCCESS" =>
       /\ response[t] = "reply"
       /\ \/ payload[t].step = "gone"
          \/ payload[t].ok /\ payload[t].step \in {"saved", "judging", "judged", "told"}

CheckStory(t) ==
  /\ payload[t].step = "judging" => SoundCheck(payload[t].check)
  /\ payload[t].step = "judged" => Over

VerdictStory ==
  /\ verdict = "COMPLETED" => \A u \in basis.on : Settled(u)
  /\ basis.by \in Tasks => ~Unborn(basis.by)
  /\ heard => Over /\ \E t \in Tasks : ~Unborn(t)

Story ==
  /\ \A t \in Tasks : RowStory(t) /\ CheckStory(t)
  /\ VerdictStory

\* The broker a payload belongs to, also when it is in hand
Where(f) == IF f.at \in Procs THEN Broker(f.at) ELSE f.at

\* Who is to be told of a verdict has been, once its task's engine has told of
\* it, and stays so when the task is retried.
ToldByNow ==
  \A t \in Tasks :
    (/\ basis.by = t /\ verdict \in Final /\ payload[t].step # "judged"
     /\ t \in listener.before /\ Broker(listener.at) = Where(payload[t])) => heard

\* What a request has read that can no longer change but by a deletion
ReadsHold ==
  \A s \in Slots : \A i \in DOMAIN fetch[s].read :
    LET query == Queries(fetch[s].for)[i]
        value == fetch[s].read[i]
    IN /\ query = "tasks" => \A t \in Tasks : value[t] = "SUCCESS" => Settled(t)
       /\ query = "scan" /\ value = "COMPLETED" => \A t \in fetch[s].on : Settled(t)

Answers == ReadsHold /\ SuccessShownWithResponse /\ CompletedCountsItsTasks

IInv ==
  /\ ServerTypes /\ BeatTypes /\ TableTypes /\ PayloadTypes /\ ListenerTypes /\ ViewTypes
  /\ Story /\ ToldByNow /\ Answers

----------------------------------------------------------------------------
(* Types *)

LEMMA NothingRead ==
  /\ Idle \in Requests /\ Idle.read = << >> /\ DOMAIN Idle.responses = {}
  /\ \A who \in Clients : /\ [Idle EXCEPT !.for = who] \in Requests
                          /\ [Idle EXCEPT !.for = who].for = who
                          /\ [Idle EXCEPT !.for = who].read = << >>
                          /\ DOMAIN [Idle EXCEPT !.for = who].responses = {}
<1>1. << >> \in Seq(Reads) /\ DOMAIN << >> = {}
  OBVIOUS
<1>2. << >> \in [{} -> Contents]
  OBVIOUS
<1>3. << >> \in UNION {[T -> Contents] : T \in SUBSET Tasks}
  BY <1>2
<1>4. Idle \in Requests
  BY <1>1, <1>3 DEF Idle, Requests, Clients
<1>5. Idle.read = << >> /\ Idle.responses = << >>
  BY DEF Idle
<1>6. ASSUME NEW who \in Clients
      PROVE  /\ [Idle EXCEPT !.for = who] \in Requests
             /\ [Idle EXCEPT !.for = who].for = who
             /\ [Idle EXCEPT !.for = who].read = << >>
             /\ [Idle EXCEPT !.for = who].responses = << >>
  BY <1>4, <1>5 DEF Requests
<1> QED
  BY <1>1, <1>4, <1>5, <1>6

LEMMA TypesInit ==
  Init => /\ ServerTypes /\ BeatTypes /\ TableTypes /\ PayloadTypes /\ ListenerTypes /\ ViewTypes
          /\ Story
<1> SUFFICES ASSUME Init
             PROVE  /\ ServerTypes /\ BeatTypes /\ TableTypes /\ PayloadTypes /\ ListenerTypes
                    /\ ViewTypes /\ Story
  OBVIOUS
<1> USE ProcsAssumption, ScenariosAssumption DEF Init
<1>1. bounds.upsets \in Nat /\ bounds.retries \in Nat /\ bounds.selected \in BOOLEAN
  OBVIOUS
<1>2. ServerTypes
  BY <1>1 DEF ServerTypes
<1>3. BeatTypes /\ TableTypes
  BY DEF BeatTypes, TableTypes, Verdicts, Statuses, Contents
<1>4. At("nowhere", "unborn") \in Payloads /\ Placed(At("nowhere", "unborn"))
  BY <1>1 DEF Payloads, Placed, Checks, Verdicts, At, NoCheck, Steps, InHand
<1>5. PayloadTypes
  BY <1>4 DEF PayloadTypes
<1>6. ListenerTypes
  BY DEF ListenerTypes, NoListener
<1>7. ViewTypes
  <2>1. Len(Idle.read) <= Len(Queries(Idle.for))
    BY DEF Idle, Queries
  <2> QED  BY <1>1, <2>1, NothingRead DEF ViewTypes
<1>8. \A t \in Tasks : Unborn(t) /\ row[t] = "absent" /\ payload[t].step = "unborn"
  BY DEF Unborn, At
<1>9. Story
  BY <1>8, TasksAssumption DEF Story, RowStory, CheckStory, VerdictStory
<1> QED  BY <1>2, <1>3, <1>5, <1>6, <1>7, <1>9

\* What reads, beats and selects changes nothing that the rest depends on.
LEMMA StepCases ==
  ASSUME [Next]_vars
  PROVE  \/ UNCHANGED <<bounds, servers, tables, payload, events>>
         \/ RedisFails \/ RedisReturns
         \/ \E p \in Procs : ApiStarts(p) \/ WorkerStarts(p) \/ Crashes(p) \/ Stops(p)
         \/ \E p \in Apis : Handlers(p)
         \/ \E p \in Procs, t \in Tasks : Execute(p, t)
<1>1. ASSUME NEW w \in Workers, Beat(w) \/ BeatArrives(w) \/ Expire(w)
      PROVE  UNCHANGED <<bounds, servers, tables, payload, events>>
  BY <1>1 DEF Beat, BeatArrives, Expire, Quiet
<1>2. CASE ToggleScan
  BY <1>2 DEF ToggleScan, Upset
<1>3. ASSUME NEW s \in Slots, PollPage(s) \/ AskOther(s) \/ Serve(s)
      PROVE  UNCHANGED <<bounds, servers, tables, payload, events>>
  BY <1>3 DEF PollPage, AskOther, Ask, Serve, ReadNext, ReadResponse, Arrive
<1>4. CASE UNCHANGED vars
  BY <1>4 DEF vars
<1> QED
  BY <1>1, <1>2, <1>3, <1>4 DEF Next, Deployment, Procs

\* What an engine's step leaves alone
LEMMA ExecuteKeeps ==
  ASSUME NEW p \in Procs, NEW t \in Tasks, Execute(p, t)
  PROVE  UNCHANGED <<bounds, upsets, servers, listener, beats, views>>
<1>1. CASE Consume(p, t) \/ MarkTaskProcessing(p, t) \/ SaveResponse(p, t) \/ HandleRetry(p, t)
  BY <1>1 DEF Consume, MarkTaskProcessing, SaveResponse, HandleRetry, events
<1>2. CASE EvaluateScanCompletion(p, t) \/ CommitVerdict(p, t) \/ VerdictLost(p, t)
  BY <1>2 DEF EvaluateScanCompletion, CommitVerdict, VerdictLost, events
<1>3. CASE PublishCompleted(p, t) \/ Publish(p, t) \/ Finish(p, t)
  BY <1>3 DEF PublishCompleted, Publish, Finish, events
<1> QED
  BY <1>1, <1>2, <1>3 DEF Execute

\* Nobody who runs changes its broker.
LEMMA ModesKept ==
  ASSUME ServerTypes, [Next]_vars
  PROVE  /\ mode' \in [Procs -> {"unborn", "down", "fake", "real"}]
         /\ bounds' = bounds
         /\ \A q \in Procs : Up(q) => mode'[q] \in {mode[q], "down"}
<1> USE DEF ServerTypes, servers, Up, Quiet, Upset
<1>1. CASE UNCHANGED <<bounds, mode>>
  BY <1>1
<1>2. ASSUME NEW p \in Procs, ApiStarts(p) \/ WorkerStarts(p)
      PROVE  /\ UNCHANGED bounds /\ ~Up(p)
             /\ mode' = [mode EXCEPT ![p] = IF redisUp THEN "real" ELSE "fake"]
  BY <1>2 DEF ApiStarts, WorkerStarts
<1>3. ASSUME NEW p \in Procs, Crashes(p) \/ Stops(p)
      PROVE  UNCHANGED bounds /\ mode' = [mode EXCEPT ![p] = "down"]
  BY <1>3 DEF Crashes, Stops, Leaves
<1>4. CASE RedisFails \/ RedisReturns
  BY <1>1, <1>4 DEF RedisFails, RedisReturns
<1>5. ASSUME NEW p \in Apis, Handlers(p) PROVE UNCHANGED <<bounds, mode>>
  BY <1>5 DEF Handlers, CreateScan, SubmitTasks, DeleteScan, Subscribe
<1>6. ASSUME NEW p \in Procs, NEW t \in Tasks, Execute(p, t) PROVE UNCHANGED <<bounds, mode>>
  BY <1>6, ExecuteKeeps
<1> QED
  BY StepCases, <1>1, <1>2, <1>3, <1>4, <1>5, <1>6

LEMMA ServersStep ==
  ASSUME ServerTypes, BeatTypes, [Next]_vars
  PROVE  ServerTypes' /\ BeatTypes'
<1> DEFINE Few == \/ upsets' = upsets
                  \/ upsets < bounds.upsets /\ upsets' = upsets + 1
           Kept == Few /\ redisUp' \in BOOLEAN /\ BeatTypes'
<1> USE DEF BeatTypes, beats, servers, Quiet, Upset
<1>1. redisUp \in BOOLEAN
  BY DEF ServerTypes
<1>2. ASSUME UNCHANGED vars PROVE Kept
  BY <1>1, <1>2 DEF vars
<1>3. ASSUME Deployment PROVE Kept
  BY <1>1, <1>3 DEF Deployment, ApiStarts, WorkerStarts, Beat, BeatArrives, Expire, Crashes, Stops,
                    Leaves, RedisFails, RedisReturns
<1>4. ASSUME ToggleScan PROVE Kept
  BY <1>1, <1>4 DEF ToggleScan
<1>5. ASSUME NEW p \in Procs, Handlers(p) PROVE Kept
  BY <1>1, <1>5 DEF Handlers, CreateScan, SubmitTasks, DeleteScan, Subscribe
<1>6. ASSUME NEW p \in Procs, NEW t \in Tasks, Execute(p, t) PROVE Kept
  BY <1>1, <1>6, ExecuteKeeps
<1>7. ASSUME NEW s \in Slots, PollPage(s) \/ AskOther(s) \/ Serve(s) PROVE Kept
  BY <1>1, <1>7 DEF PollPage, AskOther, Ask, Serve, ReadNext, ReadResponse, Arrive
<1>8. Kept
  BY <1>2, <1>3, <1>4, <1>5, <1>6, <1>7 DEF Next, Procs
<1>9. upsets' \in 0..bounds.upsets
  <2>1. bounds.upsets \in Nat /\ upsets \in 0..bounds.upsets
    BY ScenariosAssumption DEF ServerTypes
  <2> QED  BY <1>8, <2>1
<1> QED
  BY <1>8, <1>9, ModesKept DEF ServerTypes

----------------------------------------------------------------------------
(* The payloads *)

LEMMA GonePlaced ==
  ASSUME ServerTypes
  PROVE  Gone \in Payloads /\ Placed(Gone) /\ Gone.step = "gone" /\ Gone.at = "nowhere"
<1>1. bounds.retries \in Nat
  BY ScenariosAssumption DEF ServerTypes
<1> QED
  BY <1>1, ProcsAssumption
     DEF Gone, At, NoCheck, Payloads, Checks, Verdicts, Placed, Steps, InHand

\* A verdict is only computed by a check that has read the statuses.
LEMMA CheckedIs ==
  ASSUME ServerTypes, TableTypes, PayloadTypes, NEW t \in Tasks, payload[t].step = "saved"
  PROVE  /\ Checked(t) \in Payloads /\ Checked(t).at = payload[t].at /\ Checked(t).ok = payload[t].ok
         /\ \/ Checked(t).step = "told"
            \/ /\ Checked(t).step = "judging" /\ verdict # "absent"
               /\ Checked(t).check.seen = verdict /\ Checked(t).check.on = Stored
               /\ Checked(t).check.verdict \in Final
               /\ Checked(t).check.verdict = "COMPLETED" => \A u \in Stored : row[u] = "SUCCESS"
<1> DEFINE check == [seen |-> verdict, on |-> Stored,
                     verdict |-> IF \A u \in Stored : row[u] = "SUCCESS" THEN "COMPLETED" ELSE "FAILED"]
           told == [payload[t] EXCEPT !.step = "told"]
           judging == [payload[t] EXCEPT !.step = "judging", !.check = check]
<1>1. payload[t] \in Payloads
  BY DEF PayloadTypes
<1>2. check \in Checks /\ check.seen = verdict /\ check.on = Stored /\ check.verdict \in Final
      /\ (check.verdict = "COMPLETED" => \A u \in Stored : row[u] = "SUCCESS")
  BY DEF TableTypes, Checks, Stored, Verdicts, Final
<1> HIDE DEF check
<1>3. told \in Payloads /\ told.at = payload[t].at /\ told.ok = payload[t].ok /\ told.step = "told"
  BY <1>1 DEF Payloads, Steps
<1>4. judging \in Payloads /\ judging.at = payload[t].at /\ judging.ok = payload[t].ok
      /\ judging.step = "judging" /\ judging.check = check
  BY <1>1, <1>2 DEF Payloads, Steps
<1>5. Checked(t) = told \/ (Checked(t) = judging /\ verdict # "absent")
  BY DEF Checked, check
<1> HIDE DEF told, judging
<1> QED
  BY <1>2, <1>3, <1>4, <1>5

\* What an engine's step makes of the payload: it stays with its broker or is gone.
LEMMA Moves ==
  ASSUME ServerTypes, TableTypes, PayloadTypes, NEW p \in Procs, NEW t \in Tasks, Execute(p, t)
  PROVE  \E new \in Payloads :
           /\ payload' = [payload EXCEPT ![t] = new] /\ Placed(new)
           /\ payload[t].step # "unborn" /\ new.step # "unborn"
           /\ new.at = "nowhere" \/ Where(new) = Where(payload[t])
<1> DEFINE f == payload[t]
           Moved(new) == /\ new \in Payloads /\ payload' = [payload EXCEPT ![t] = new] /\ Placed(new)
                         /\ f.step # "unborn" /\ new.step # "unborn"
                         /\ new.at = "nowhere" \/ Where(new) = Where(f)
<1>0. /\ f \in Payloads /\ Placed(f) /\ Up(p) = (mode[p] \in {"fake", "real"})
      /\ bounds.retries \in Nat
  BY ScenariosAssumption DEF PayloadTypes, ServerTypes, Up
<1> USE ProcsAssumption DEF Holds, Becomes, Goes
<1>1. ASSUME NEW new \in Payloads, payload' = [payload EXCEPT ![t] = new], new.at = p, f.at = p,
             f.step \in InHand, new.step \in InHand
      PROVE  Moved(new)
  BY <1>0, <1>1 DEF Placed, Where, InHand
<1>2. CASE Consume(p, t)
  <2> DEFINE new == [f EXCEPT !.at = p, !.step = "taken"]
  <2>1. new \in Payloads /\ new.at = p /\ new.step = "taken"
    BY <1>0 DEF Payloads, Steps
  <2>2. payload' = [payload EXCEPT ![t] = new] /\ f.at = Broker(p) /\ f.step = "queued" /\ Up(p)
    BY <1>2 DEF Consume, Reachable
  <2>3. Where(f) = Broker(p) /\ Where(new) = Broker(p)
    BY <2>1, <2>2 DEF Where, Broker
  <2> QED  BY <2>1, <2>2, <2>3 DEF Placed, InHand
<1>3. CASE MarkTaskProcessing(p, t) \/ PublishCompleted(p, t)
  <2>1. PICK step \in {"marked", "told"} :
          payload' = [payload EXCEPT ![t] = [f EXCEPT !.step = step]] /\ f.at = p /\ f.step \in InHand
    BY <1>3 DEF MarkTaskProcessing, PublishCompleted, InHand
  <2>2. [f EXCEPT !.step = step] \in Payloads /\ [f EXCEPT !.step = step].at = p
        /\ [f EXCEPT !.step = step].step \in InHand
    BY <1>0, <2>1 DEF Payloads, Steps, InHand
  <2> QED  BY <1>1, <2>1, <2>2
<1>4. CASE SaveResponse(p, t)
  <2>1. PICK ok \in BOOLEAN, step \in {"saved", "told"} :
          payload' = [payload EXCEPT ![t] = [f EXCEPT !.ok = ok, !.step = step]]
    BY <1>4 DEF SaveResponse
  <2>2. f.at = p /\ f.step \in InHand
    BY <1>4 DEF SaveResponse, InHand
  <2>3. [f EXCEPT !.ok = ok, !.step = step] \in Payloads /\ [f EXCEPT !.ok = ok, !.step = step].at = p
        /\ [f EXCEPT !.ok = ok, !.step = step].step \in InHand
    BY <1>0, <2>2 DEF Payloads, Steps, InHand
  <2> QED  BY <1>1, <2>1, <2>2, <2>3
<1>5. CASE EvaluateScanCompletion(p, t)
  <2>1. f.at = p /\ f.step = "saved" /\ payload' = [payload EXCEPT ![t] = Checked(t)]
    BY <1>5 DEF EvaluateScanCompletion
  <2>2. Checked(t) \in Payloads /\ Checked(t).at = p /\ Checked(t).step \in InHand
    BY <2>1, CheckedIs DEF InHand
  <2> QED  BY <1>1, <2>1, <2>2 DEF InHand
<1>6. CASE CommitVerdict(p, t) \/ VerdictLost(p, t)
  <2>1. PICK step \in {"judged", "told"} :
          payload' = [payload EXCEPT ![t] = [f EXCEPT !.check = NoCheck, !.step = step]]
    BY <1>6 DEF CommitVerdict, VerdictLost
  <2>2. f.at = p /\ f.step \in InHand
    BY <1>6 DEF CommitVerdict, VerdictLost, InHand
  <2>3. NoCheck \in Checks
    BY DEF NoCheck, Checks, Verdicts
  <2>4. [f EXCEPT !.check = NoCheck, !.step = step] \in Payloads
        /\ [f EXCEPT !.check = NoCheck, !.step = step].at = p
        /\ [f EXCEPT !.check = NoCheck, !.step = step].step \in InHand
    BY <1>0, <2>2, <2>3 DEF Payloads, Steps, InHand
  <2> QED  BY <1>1, <2>1, <2>2, <2>4
<1>7. CASE HandleRetry(p, t)
  <2>1. f.attempt + 1 \in 0..bounds.retries /\ f.at = p /\ f.step \in InHand
        /\ payload' = [payload EXCEPT ![t] = [f EXCEPT !.attempt = f.attempt + 1, !.step = "unsent"]]
    BY <1>0, <1>7 DEF HandleRetry, Payloads, InHand
  <2>2. [f EXCEPT !.attempt = f.attempt + 1, !.step = "unsent"] \in Payloads
        /\ [f EXCEPT !.attempt = f.attempt + 1, !.step = "unsent"].at = p
        /\ [f EXCEPT !.attempt = f.attempt + 1, !.step = "unsent"].step \in InHand
    BY <1>0, <2>1 DEF Payloads, Steps, InHand
  <2> QED  BY <1>1, <2>1, <2>2
<1>8. CASE Publish(p, t)
  <2>1. f.at = p /\ f.step = "unsent"
    BY <1>8 DEF Publish
  <2>2. CASE Reachable(p)
    <3> DEFINE new == [f EXCEPT !.at = Broker(p), !.step = "queued"]
    <3>1. payload' = [payload EXCEPT ![t] = new]
      BY <1>8, <2>2 DEF Publish
    <3>2. new \in Payloads /\ new.at = Broker(p) /\ new.step = "queued"
      BY <1>0 DEF Payloads, Steps, Broker
    <3>3. Where(new) = Where(f) /\ Placed(new)
      BY <2>1, <2>2, <3>2 DEF Where, Broker, Placed, InHand, Reachable
    <3> QED  BY <2>1, <3>1, <3>2, <3>3
  <2>3. CASE ~Reachable(p)
    <3>1. payload' = [payload EXCEPT ![t] = Gone]
      BY <1>8, <2>3 DEF Publish
    <3> QED  BY <2>1, <3>1, GonePlaced
  <2> QED  BY <2>2, <2>3
<1>9. CASE Finish(p, t)
  <2>1. f.step = "told" /\ payload' = [payload EXCEPT ![t] = Gone]
    BY <1>9 DEF Finish
  <2> QED  BY <2>1, GonePlaced
<1> QED
  BY <1>2, <1>3, <1>4, <1>5, <1>6, <1>7, <1>8, <1>9 DEF Execute

LEMMA PayloadStep ==
  ASSUME ServerTypes, TableTypes, PayloadTypes, [Next]_vars
  PROVE  PayloadTypes'
<1>0. Payloads' = Payloads /\ bounds.retries \in Nat
  BY ModesKept, ScenariosAssumption DEF Payloads, Checks, ServerTypes
<1> USE ProcsAssumption
<1>1. ASSUME payload' = payload,
             \A t \in Tasks : payload[t].at \in Procs => mode'[payload[t].at] = mode[payload[t].at]
      PROVE  PayloadTypes'
  BY <1>0, <1>1 DEF PayloadTypes, Placed, Up
<1>2. ASSUME UNCHANGED mode, payload' \in [Tasks -> Payloads], \A t \in Tasks : Placed(payload'[t])
      PROVE  PayloadTypes'
  BY <1>0, <1>2 DEF PayloadTypes, Placed, Up
<1>3. CASE RedisFails \/ RedisReturns
  BY <1>1, <1>3 DEF RedisFails, RedisReturns
<1>4. ASSUME NEW p \in Procs, ApiStarts(p) \/ WorkerStarts(p) PROVE PayloadTypes'
  <2>1. payload' = payload /\ ~Up(p)
        /\ mode' = [mode EXCEPT ![p] = IF redisUp THEN "real" ELSE "fake"]
    BY <1>4 DEF ApiStarts, WorkerStarts, Up
  <2> QED  BY <1>1, <2>1 DEF PayloadTypes, Placed, ServerTypes
<1>5. ASSUME NEW p \in Procs, Crashes(p) \/ Stops(p) PROVE PayloadTypes'
  <2>1. mode' = [mode EXCEPT ![p] = "down"]
        /\ payload' = [t \in Tasks |-> IF payload[t].at = p THEN Gone ELSE payload[t]]
    BY <1>5 DEF Crashes, Stops, Leaves
  <2>2. payload' \in [Tasks -> Payloads]
    BY <2>1, GonePlaced DEF PayloadTypes
  <2>3. ASSUME NEW t \in Tasks PROVE Placed(payload[t])'
    <3>1. CASE payload[t].at = p
      BY <2>1, <3>1, GonePlaced DEF Placed, InHand
    <3>2. CASE payload[t].at # p
      BY <2>1, <3>2 DEF PayloadTypes, Placed, ServerTypes, Up
    <3> QED  BY <3>1, <3>2
  <2> QED  BY <1>0, <2>2, <2>3 DEF PayloadTypes
<1>6. ASSUME NEW p \in Apis, Handlers(p) PROVE PayloadTypes'
  <2>1. CASE SubmitTasks(p)
    <3>1. PICK new \in Submissions : payload' = [t \in Tasks |-> IF t \in new THEN At(p, "unsent") ELSE payload[t]]
      BY <2>1 DEF SubmitTasks
    <3>2. UNCHANGED mode /\ Up(p) /\ p \in Procs
      BY <2>1 DEF SubmitTasks, servers, Procs
    <3>3. At(p, "unsent") \in Payloads /\ Placed(At(p, "unsent"))
      BY <1>0, <3>2 DEF At, NoCheck, Payloads, Checks, Verdicts, Placed, Steps, InHand
    <3> QED  BY <1>2, <3>1, <3>2, <3>3 DEF PayloadTypes
  <2>2. CASE CreateScan(p) \/ DeleteScan(p) \/ Subscribe(p)
    BY <1>1, <2>2 DEF CreateScan, DeleteScan, Subscribe, servers
  <2> QED  BY <1>6, <2>1, <2>2 DEF Handlers
<1>7. ASSUME NEW p \in Procs, NEW t \in Tasks, Execute(p, t) PROVE PayloadTypes'
  <2>1. PICK new \in Payloads : payload' = [payload EXCEPT ![t] = new] /\ Placed(new)
    BY <1>7, Moves
  <2> QED  BY <1>2, <1>7, <2>1, ExecuteKeeps DEF PayloadTypes, servers
<1> QED
  BY StepCases, <1>1, <1>3, <1>4, <1>5, <1>6, <1>7 DEF servers

----------------------------------------------------------------------------
(* The tables *)

LEMMA TablesStep ==
  ASSUME TableTypes, PayloadTypes, Story, [Next]_vars
  PROVE  TableTypes'
<1> USE DEF TableTypes, tables
<1>1. CASE UNCHANGED tables
  BY <1>1
<1>2. CASE NoRows
  BY <1>2 DEF NoRows, Verdicts, Statuses, Contents
<1>3. CASE RedisFails \/ RedisReturns
  BY <1>1, <1>3 DEF RedisFails, RedisReturns
<1>4. ASSUME NEW p \in Procs, ApiStarts(p) \/ WorkerStarts(p) \/ Crashes(p) \/ Stops(p)
      PROVE  TableTypes'
  BY <1>1, <1>2, <1>4 DEF ApiStarts, WorkerStarts, Crashes, Stops, Leaves
<1>5. ASSUME NEW p \in Apis, Handlers(p) PROVE TableTypes'
  <2>1. CASE CreateScan(p)
    BY <2>1 DEF CreateScan, Verdicts
  <2>2. CASE SubmitTasks(p)
    <3>1. PICK new \in Submissions : row' = [t \in Tasks |-> IF t \in new THEN "QUEUED" ELSE row[t]]
      BY <2>2 DEF SubmitTasks
    <3>2. verdict # "absent" /\ verdict' \in {verdict, "RUNNING"} /\ UNCHANGED <<basis, response>>
      BY <2>2 DEF SubmitTasks
    <3>3. row' \in [Tasks -> Statuses] /\ \A t \in Tasks : row'[t] \in {row[t], "QUEUED"}
      BY <3>1 DEF Statuses, Pending
    <3> QED  BY <3>2, <3>3 DEF Verdicts
  <2>3. CASE DeleteScan(p) \/ Subscribe(p)
    BY <1>1, <1>2, <2>3 DEF DeleteScan, Subscribe
  <2> QED  BY <1>5, <2>1, <2>2, <2>3 DEF Handlers
<1>6. ASSUME NEW p \in Procs, NEW t \in Tasks, Execute(p, t) PROVE TableTypes'
  <2>1. CASE MarkTaskProcessing(p, t) \/ HandleRetry(p, t)
    BY <2>1 DEF MarkTaskProcessing, HandleRetry, SetStatus, Statuses, Pending
  <2>2. CASE SaveResponse(p, t)
    <3>1. PICK ok \in BOOLEAN :
            /\ row' = [row EXCEPT ![t] = IF @ = "absent" THEN @ ELSE IF ok THEN "SUCCESS" ELSE "FAILED"]
            /\ response' = [response EXCEPT ![t] =
                              IF t \notin Stored THEN @ ELSE IF ok THEN "reply" ELSE "error"]
      BY <2>2 DEF SaveResponse, SetStatus
    <3>2. t \notin Stored <=> row[t] = "absent"
      BY DEF Stored
    <3>3. UNCHANGED <<verdict, basis>>
      BY <2>2 DEF SaveResponse
    <3> QED  BY <3>1, <3>2, <3>3 DEF Statuses, Contents
  <2>3. CASE CommitVerdict(p, t)
    <3>1. payload[t].check \in Checks
      BY DEF PayloadTypes, Payloads
    <3>2. \/ UNCHANGED <<verdict, basis>>
          \/ verdict' = payload[t].check.verdict /\ basis' = [on |-> payload[t].check.on, by |-> t]
      BY <2>3 DEF CommitVerdict, WriteVerdict
    <3>3. UNCHANGED <<row, response>> /\ verdict # "absent"
      BY <2>3 DEF CommitVerdict
    <3>4. verdict' \in Verdicts /\ basis' \in [on : SUBSET Tasks, by : Tasks \cup {"nobody"}]
      BY <3>1, <3>2 DEF Checks
    <3>5. verdict' = "absent" => \A u \in Tasks : row[u] = "absent"
      <4>1. CASE verdict' = payload[t].check.verdict
        <5>1. payload[t].step = "judging" => payload[t].check.verdict \in Final
          BY DEF Story, CheckStory, SoundCheck
        <5> QED  BY <2>3, <4>1, <5>1 DEF CommitVerdict, Holds, Final
      <4> QED  BY <3>2, <3>3, <4>1
    <3> QED  BY <3>3, <3>4, <3>5
  <2>4. CASE UNCHANGED tables
    BY <1>1, <2>4
  <2> QED
    BY <1>6, <2>1, <2>2, <2>3, <2>4
       DEF Execute, Consume, EvaluateScanCompletion, VerdictLost, PublishCompleted, Publish, Finish
<1> QED
  BY StepCases, <1>1, <1>3, <1>4, <1>5, <1>6

\* What happens to a task's rows once it has been submitted: it is not submitted
\* again, a row that is gone stays gone, and a success is not taken back.
LEMMA StaysSettled ==
  ASSUME ServerTypes, TableTypes, PayloadTypes, Story, [Next]_vars,
         NEW u \in Tasks, payload[u].step # "unborn"
  PROVE  /\ payload'[u].step # "unborn"
         /\ row[u] = "absent" => row'[u] = "absent"
         /\ row[u] = "SUCCESS" =>
              (row'[u] = "SUCCESS" /\ response'[u] = response[u]) \/ row'[u] = "absent"
<1> DEFINE Stays == /\ payload'[u].step # "unborn"
                    /\ row[u] = "absent" => row'[u] = "absent"
                    /\ row[u] = "SUCCESS" =>
                         (row'[u] = "SUCCESS" /\ response'[u] = response[u]) \/ row'[u] = "absent"
<1> USE DEF tables
<1>1. CASE UNCHANGED <<tables, payload>>
  BY <1>1
<1>2. CASE NoRows /\ UNCHANGED payload
  BY <1>2 DEF NoRows
<1>3. CASE RedisFails \/ RedisReturns
  BY <1>1, <1>3 DEF RedisFails, RedisReturns
<1>4. ASSUME NEW p \in Procs, ApiStarts(p) \/ WorkerStarts(p) PROVE Stays
  BY <1>1, <1>2, <1>4 DEF ApiStarts, WorkerStarts
<1>5. ASSUME NEW p \in Procs, Crashes(p) \/ Stops(p) PROVE Stays
  <2>1. UNCHANGED tables /\ payload'[u] \in {payload[u], Gone}
    BY <1>5 DEF Crashes, Stops, Leaves
  <2> QED  BY <2>1, GonePlaced
<1>6. ASSUME NEW p \in Apis, Handlers(p) PROVE Stays
  <2>1. CASE SubmitTasks(p)
    <3>1. PICK new \in Submissions :
            /\ row' = [t \in Tasks |-> IF t \in new THEN "QUEUED" ELSE row[t]]
            /\ payload' = [t \in Tasks |-> IF t \in new THEN At(p, "unsent") ELSE payload[t]]
      BY <2>1 DEF SubmitTasks
    <3>2. u \notin new /\ UNCHANGED response
      BY <2>1 DEF SubmitTasks, Submissions, Unborn
    <3> QED  BY <3>1, <3>2
  <2>2. CASE DeleteScan(p) \/ Subscribe(p)
    BY <1>1, <1>2, <2>2 DEF DeleteScan, Subscribe
  <2>3. ~CreateScan(p)
    BY DEF CreateScan, Unborn
  <2> QED  BY <1>6, <2>1, <2>2, <2>3 DEF Handlers
<1>7. ASSUME NEW p \in Procs, NEW t \in Tasks, Execute(p, t) PROVE Stays
  <2>1. PICK new \in Payloads : payload' = [payload EXCEPT ![t] = new] /\ new.step # "unborn"
    BY <1>7, Moves
  <2>2. payload'[u].step # "unborn"
    BY <2>1 DEF PayloadTypes
  <2>3. CASE UNCHANGED <<row, response>>
    BY <2>2, <2>3
  <2>4. CASE MarkTaskProcessing(p, t) \/ SaveResponse(p, t) \/ HandleRetry(p, t)
    <3>1. row[t] # "SUCCESS"
      BY <2>4 DEF MarkTaskProcessing, SaveResponse, HandleRetry, Holds, Story, RowStory
    <3>2. \E status : row' = [row EXCEPT ![t] = IF @ = "absent" THEN @ ELSE status]
      BY <2>4 DEF MarkTaskProcessing, SaveResponse, HandleRetry, SetStatus
    <3>3. u # t => row'[u] = row[u] /\ response'[u] = response[u]
      BY <2>4, <3>2 DEF MarkTaskProcessing, SaveResponse, HandleRetry, TableTypes
    <3> QED  BY <2>2, <3>1, <3>2, <3>3 DEF TableTypes
  <2> QED
    BY <1>7, <2>3, <2>4
       DEF Execute, Consume, EvaluateScanCompletion, CommitVerdict, VerdictLost, PublishCompleted,
           Publish, Finish
<1> QED
  BY StepCases, <1>1, <1>3, <1>4, <1>5, <1>6, <1>7

LEMMA SettledStep ==
  ASSUME ServerTypes, TableTypes, PayloadTypes, Story, [Next]_vars, NEW u \in Tasks, Settled(u)
  PROVE  Settled(u)'
BY StaysSettled DEF Settled, Unborn

\* Where a verdict comes from
LEMMA VerdictCases ==
  ASSUME PayloadTypes, [Next]_vars
  PROVE  \/ UNCHANGED <<verdict, basis>>
         \/ verdict' = "absent" /\ UNCHANGED basis
         \/ verdict = "PENDING" /\ verdict' = "RUNNING" /\ UNCHANGED basis
         \/ verdict' = "PENDING" /\ UNCHANGED basis /\ \A t \in Tasks : Unborn(t)
         \/ \E t \in Tasks :
              /\ payload[t].step = "judging" /\ verdict # "absent"
              /\ verdict' = payload[t].check.verdict
              /\ basis' = [on |-> payload[t].check.on, by |-> t]
<1> USE DEF tables
<1>1. CASE RedisFails \/ RedisReturns
  BY <1>1 DEF RedisFails, RedisReturns
<1>2. ASSUME NEW p \in Procs, ApiStarts(p) \/ WorkerStarts(p) \/ Crashes(p) \/ Stops(p)
      PROVE  UNCHANGED <<verdict, basis>> \/ (verdict' = "absent" /\ UNCHANGED basis)
  BY <1>2 DEF ApiStarts, WorkerStarts, Crashes, Stops, Leaves, NoRows
<1>3. ASSUME NEW p \in Apis, Handlers(p)
      PROVE  \/ UNCHANGED <<verdict, basis>>
             \/ verdict' = "absent" /\ UNCHANGED basis
             \/ verdict = "PENDING" /\ verdict' = "RUNNING" /\ UNCHANGED basis
             \/ verdict' = "PENDING" /\ UNCHANGED basis /\ \A t \in Tasks : Unborn(t)
  BY <1>3 DEF Handlers, CreateScan, SubmitTasks, DeleteScan, Subscribe, NoRows
<1>4. ASSUME NEW p \in Procs, NEW t \in Tasks, Execute(p, t)
      PROVE  \/ UNCHANGED <<verdict, basis>>
             \/ /\ payload[t].step = "judging" /\ verdict # "absent"
                /\ verdict' = payload[t].check.verdict
                /\ basis' = [on |-> payload[t].check.on, by |-> t]
  BY <1>4 DEF Execute, Consume, MarkTaskProcessing, SaveResponse, EvaluateScanCompletion, CommitVerdict,
              WriteVerdict, VerdictLost, PublishCompleted, HandleRetry, Publish, Finish, Holds
<1> QED
  BY StepCases, <1>1, <1>2, <1>3, <1>4

\* Once a task has been submitted a finished scan stays finished, or is deleted.
LEMMA StaysOver ==
  ASSUME PayloadTypes, Story, [Next]_vars, Over, NEW u \in Tasks, ~Unborn(u)
  PROVE  Over'
<1>1. \A t \in Tasks : payload[t].step = "judging" => payload[t].check.verdict \in Final
  BY DEF Story, CheckStory, SoundCheck
<1> QED
  BY <1>1, VerdictCases DEF Over, Final

LEMMA VerdictStoryStep ==
  ASSUME ServerTypes, TableTypes, PayloadTypes, Story, [Next]_vars
  PROVE  VerdictStory'
<1>1. \A u \in Tasks : Settled(u) => Settled(u)'
  BY SettledStep
<1>2. \A u \in Tasks : ~Unborn(u) => ~Unborn(u)'
  BY StaysSettled DEF Unborn
<1>3. verdict' = "COMPLETED" => \A u \in basis'.on : Settled(u)'
  <2>1. CASE UNCHANGED <<verdict, basis>>
    BY <1>1, <2>1 DEF Story, VerdictStory, TableTypes
  <2>2. ASSUME NEW t \in Tasks, payload[t].step = "judging", verdict' = payload[t].check.verdict,
               basis' = [on |-> payload[t].check.on, by |-> t]
        PROVE  verdict' = "COMPLETED" => \A u \in basis'.on : Settled(u)'
    <3>1. payload[t].check.on \subseteq Tasks
      BY DEF PayloadTypes, Payloads, Checks
    <3>2. verdict' = "COMPLETED" => \A u \in payload[t].check.on : Settled(u)
      BY <2>2 DEF Story, CheckStory, SoundCheck
    <3> QED  BY <1>1, <2>2, <3>1, <3>2
  <2> QED  BY <2>1, <2>2, VerdictCases
<1>4. basis'.by \in Tasks => ~Unborn(basis.by)'
  <2>1. CASE UNCHANGED basis
    BY <1>2, <2>1 DEF Story, VerdictStory
  <2>2. ASSUME NEW t \in Tasks, payload[t].step = "judging", basis' = [on |-> payload[t].check.on, by |-> t]
        PROVE  ~Unborn(basis.by)'
    BY <1>2, <2>2 DEF Unborn
  <2> QED  BY <2>1, <2>2, VerdictCases
<1>5. heard' => Over' /\ \E t \in Tasks : ~Unborn(t)'
  <2>1. CASE heard
    BY <1>2, <2>1, StaysOver DEF Story, VerdictStory
  <2>2. ASSUME NEW p \in Procs, NEW t \in Tasks, PublishCompleted(p, t)
        PROVE  Over' /\ \E u \in Tasks : ~Unborn(u)'
    <3>1. payload[t].step = "judged"
      BY <2>2 DEF PublishCompleted, Holds
    <3>2. Over /\ ~Unborn(t)
      BY <3>1 DEF Story, CheckStory, Unborn
    <3> QED  BY <1>2, <3>2, StaysOver
  <2>3. CASE heard' = heard
    BY <2>1, <2>3
  <2>4. ASSUME NEW p \in Procs, NEW t \in Tasks, Execute(p, t), ~PublishCompleted(p, t)
        PROVE  heard' = heard
    BY <2>4 DEF Execute, Consume, MarkTaskProcessing, SaveResponse, EvaluateScanCompletion,
                CommitVerdict, VerdictLost, HandleRetry, Publish, Finish, events
  <2>5. ASSUME NEW p \in Apis, Handlers(p) PROVE heard' = heard
    BY <2>5 DEF Handlers, CreateScan, SubmitTasks, DeleteScan, Subscribe, events
  <2>6. ASSUME NEW p \in Procs, ApiStarts(p) \/ WorkerStarts(p) \/ Crashes(p) \/ Stops(p)
        PROVE  heard' = heard
    BY <2>6 DEF ApiStarts, WorkerStarts, Crashes, Stops, Leaves, events
  <2>7. RedisFails \/ RedisReturns \/ UNCHANGED events => heard' = heard
    BY DEF RedisFails, RedisReturns, events
  <2>8. heard' = heard \/ \E p \in Procs, t \in Tasks : PublishCompleted(p, t)
    BY StepCases, <2>4, <2>5, <2>6, <2>7
  <2> QED  BY <2>2, <2>3, <2>8
<1> QED
  BY <1>3, <1>4, <1>5 DEF VerdictStory

LEMMA RowStoryStep ==
  ASSUME ServerTypes, TableTypes, PayloadTypes, Story, [Next]_vars, NEW u \in Tasks
  PROVE  RowStory(u)'
<1> USE DEF tables
<1>0. RowStory(u)
  BY DEF Story
<1>1. CASE UNCHANGED <<verdict, row, response, payload>>
  BY <1>0, <1>1 DEF RowStory, Unborn
<1>2. CASE NoRows /\ UNCHANGED payload
  BY <1>2 DEF RowStory, NoRows
<1>3. CASE RedisFails \/ RedisReturns
  BY <1>1, <1>3 DEF RedisFails, RedisReturns
<1>4. ASSUME NEW p \in Procs, ApiStarts(p) \/ WorkerStarts(p) PROVE RowStory(u)'
  BY <1>1, <1>2, <1>4 DEF ApiStarts, WorkerStarts
<1>5. ASSUME NEW p \in Procs, Crashes(p) \/ Stops(p) PROVE RowStory(u)'
  <2>1. UNCHANGED <<verdict, row, response>> /\ payload' = [t \in Tasks |-> IF payload[t].at = p THEN Gone ELSE payload[t]]
    BY <1>5 DEF Crashes, Stops, Leaves
  <2>2. payload[u].at = p => ~Unborn(u)
    BY <1>5, ProcsAssumption DEF PayloadTypes, Placed, Unborn
  <2> QED  BY <1>0, <2>1, <2>2, GonePlaced DEF RowStory, Unborn
<1>6. ASSUME NEW p \in Apis, Handlers(p) PROVE RowStory(u)'
  <2>1. CASE CreateScan(p)
    BY <1>0, <2>1 DEF CreateScan, RowStory, Unborn
  <2>2. CASE SubmitTasks(p)
    <3>1. PICK new \in Submissions :
            /\ row' = [t \in Tasks |-> IF t \in new THEN "QUEUED" ELSE row[t]]
            /\ payload' = [t \in Tasks |-> IF t \in new THEN At(p, "unsent") ELSE payload[t]]
      BY <2>2 DEF SubmitTasks
    <3>2. verdict # "absent" /\ UNCHANGED response
      BY <2>2 DEF SubmitTasks
    <3>3. CASE u \in new
      BY <3>1, <3>3 DEF RowStory, Unborn, At
    <3>4. CASE u \notin new
      BY <1>0, <3>1, <3>2, <3>4 DEF RowStory, Unborn
    <3> QED  BY <3>3, <3>4
  <2>3. CASE DeleteScan(p) \/ Subscribe(p)
    BY <1>1, <1>2, <2>3 DEF DeleteScan, Subscribe
  <2> QED  BY <1>6, <2>1, <2>2, <2>3 DEF Handlers
<1>7. ASSUME NEW p \in Procs, NEW t \in Tasks, Execute(p, t) PROVE RowStory(u)'
  <2>1. PICK new \in Payloads : payload' = [payload EXCEPT ![t] = new] /\ new.step # "unborn"
                                /\ payload[t].step # "unborn"
    BY <1>7, Moves
  <2>2. /\ u # t => payload'[u] = payload[u]
        /\ payload'[t].step # "unborn" /\ ~Unborn(t)
    BY <2>1 DEF PayloadTypes, Unborn
  <2>3. verdict = "absent" => verdict' = "absent"
    BY <1>7, <2>2, VerdictCases DEF Unborn
  <2>4. ASSUME UNCHANGED <<row, response>>,
               row[t] = "SUCCESS" =>
                 \/ payload'[t].step = "gone"
                 \/ payload'[t].ok /\ payload'[t].step \in {"saved", "judging", "judged", "told"}
        PROVE  RowStory(u)'
    BY <1>0, <2>2, <2>3, <2>4 DEF RowStory, Unborn
  <2>5. row[t] = "SUCCESS" =>
          \/ payload[t].step = "gone"
          \/ payload[t].ok /\ payload[t].step \in {"saved", "judging", "judged", "told"}
    BY DEF Story, RowStory
  <2>6. CASE Consume(p, t) \/ Publish(p, t)
    BY <2>4, <2>5, <2>6 DEF Consume, Publish, Holds
  <2>7. CASE Finish(p, t)
    <3>1. payload'[t].step = "gone"
      BY <2>7, GonePlaced DEF Finish, Becomes, PayloadTypes
    <3>2. UNCHANGED <<row, response>>
      BY <2>7 DEF Finish
    <3> QED  BY <2>4, <3>1, <3>2
  <2>8. CASE EvaluateScanCompletion(p, t)
    <3>1. payload' = [payload EXCEPT ![t] = Checked(t)] /\ payload[t].step = "saved"
      BY <2>8 DEF EvaluateScanCompletion, Becomes, Holds
    <3>2. payload'[t].ok = payload[t].ok /\ payload'[t].step \in {"judging", "told"}
      BY <3>1, CheckedIs DEF PayloadTypes
    <3> QED  BY <2>4, <2>5, <2>8, <3>1, <3>2 DEF EvaluateScanCompletion
  <2>9. CASE CommitVerdict(p, t) \/ VerdictLost(p, t) \/ PublishCompleted(p, t)
    <3>1. payload'[t].ok = payload[t].ok /\ payload'[t].step \in {"judged", "told"}
      <4>1. PICK moved \in {[payload[t] EXCEPT !.check = NoCheck, !.step = "judged"],
                             [payload[t] EXCEPT !.check = NoCheck, !.step = "told"],
                             [payload[t] EXCEPT !.step = "told"]} :
                 payload' = [payload EXCEPT ![t] = moved]
        BY <2>9 DEF CommitVerdict, VerdictLost, PublishCompleted, Becomes, Goes
      <4>2. payload[t] \in Payloads /\ payload'[t] = moved
        BY <4>1 DEF PayloadTypes
      <4>3. moved.ok = payload[t].ok /\ moved.step \in {"judged", "told"}
        BY <4>2 DEF Payloads
      <4> QED  BY <4>2, <4>3
    <3>2. UNCHANGED <<row, response>> /\ payload[t].step \in {"judging", "judged"}
      BY <2>9 DEF CommitVerdict, VerdictLost, PublishCompleted, Holds
    <3> QED  BY <2>4, <2>5, <3>1, <3>2
  <2>10. CASE MarkTaskProcessing(p, t) \/ HandleRetry(p, t)
    <3>1. PICK status \in {"PROCESSING", "RETRYING"} :
            row' = [row EXCEPT ![t] = IF @ = "absent" THEN @ ELSE status]
      BY <2>10 DEF MarkTaskProcessing, HandleRetry, SetStatus
    <3>2. UNCHANGED <<verdict, response>>
      BY <2>10 DEF MarkTaskProcessing, HandleRetry
    <3> QED  BY <1>0, <2>2, <3>1, <3>2 DEF RowStory, Unborn, TableTypes
  <2>11. CASE SaveResponse(p, t)
    <3>1. PICK ok \in BOOLEAN :
            /\ row' = [row EXCEPT ![t] = IF @ = "absent" THEN @ ELSE IF ok THEN "SUCCESS" ELSE "FAILED"]
            /\ response' = [response EXCEPT ![t] =
                              IF t \notin Stored THEN @ ELSE IF ok THEN "reply" ELSE "error"]
            /\ payload' = [payload EXCEPT ![t] = [payload[t] EXCEPT !.ok = ok, !.step =
                              IF t \in Stored THEN "saved" ELSE "told"]]
      BY <2>11 DEF SaveResponse, SetStatus, Becomes
    <3>2. t \in Stored <=> row[t] # "absent"
      BY DEF Stored
    <3>3. UNCHANGED verdict
      BY <2>11 DEF SaveResponse
    <3>4. CASE u # t
      BY <1>0, <2>2, <3>1, <3>3, <3>4 DEF RowStory, Unborn, TableTypes
    <3>5. CASE u = t /\ row[t] = "absent"
      BY <1>0, <2>2, <3>1, <3>3, <3>5 DEF RowStory, Unborn, TableTypes
    <3>6. CASE u = t /\ row[t] # "absent"
      <4>1. payload'[t].ok = ok /\ payload'[t].step = "saved"
        BY <3>1, <3>2, <3>6 DEF PayloadTypes, Payloads
      <4>2. row'[t] = (IF ok THEN "SUCCESS" ELSE "FAILED") /\ (ok => response'[t] = "reply")
        BY <3>1, <3>2, <3>6 DEF TableTypes
      <4> QED  BY <3>6, <4>1, <4>2 DEF RowStory, Unborn
    <3> QED  BY <3>4, <3>5, <3>6
  <2> QED
    BY <1>7, <2>6, <2>7, <2>8, <2>9, <2>10, <2>11 DEF Execute
<1> QED
  BY StepCases, <1>1, <1>3, <1>4, <1>5, <1>6, <1>7

LEMMA CheckStoryStep ==
  ASSUME ServerTypes, TableTypes, PayloadTypes, Story, [Next]_vars, NEW u \in Tasks
  PROVE  CheckStory(u)'
<1> DEFINE f == payload[u]
<1>1. CASE payload'[u] = payload[u]
  <2>1. ~Unborn(u) /\ Over => Over'
    BY StaysOver
  <2>2. \A t \in Tasks : Settled(t) => Settled(t)'
    BY SettledStep
  <2>3. f.step = "judging" => SoundCheck(f.check)'
    <3>1. f.check \in Checks
      BY DEF PayloadTypes, Payloads
    <3>2. f.step = "judging" => SoundCheck(f.check) /\ ~Unborn(u)
      BY DEF Story, CheckStory, Unborn
    <3> QED  BY <1>1, <2>1, <2>2, <3>1, <3>2 DEF SoundCheck, Checks
  <2> QED  BY <1>1, <2>1, <2>3 DEF Story, CheckStory, Unborn
<1>2. CASE payload'[u].step \notin {"judging", "judged"}
  BY <1>2 DEF CheckStory
<1>3. ASSUME NEW p \in Procs, EvaluateScanCompletion(p, u) PROVE CheckStory(u)'
  <2>1. payload' = [payload EXCEPT ![u] = Checked(u)] /\ payload[u].step = "saved"
        /\ UNCHANGED <<verdict, row>>
    BY <1>3 DEF EvaluateScanCompletion, Becomes, Holds, tables
  <2>2. payload'[u] = Checked(u)
    BY <2>1 DEF PayloadTypes
  <2>3. Checked(u).step = "judging" =>
          /\ Checked(u).check.seen = verdict /\ Checked(u).check.on = Stored
          /\ Checked(u).check.verdict \in Final
          /\ Checked(u).check.verdict = "COMPLETED" => \A t \in Stored : row[t] = "SUCCESS"
    BY <2>1, CheckedIs
  <2>4. \A t \in Stored : row[t] = "SUCCESS" => Settled(t)
    BY DEF Story, RowStory, Settled, Stored
  <2>5. \A t \in Tasks : Settled(t) => Settled(t)'
    BY SettledStep
  <2>6. Checked(u).step = "judging" => SoundCheck(payload[u].check)'
    BY <2>1, <2>2, <2>3, <2>4, <2>5 DEF SoundCheck, Over, Final, Stored
  <2>7. Checked(u).step # "judged"
    BY <2>1, CheckedIs
  <2> QED  BY <2>2, <2>6, <2>7 DEF CheckStory
<1>4. ASSUME NEW p \in Procs, CommitVerdict(p, u) PROVE CheckStory(u)'
  <2>1. payload'[u].step = "judged" /\ f.step = "judging" /\ SoundCheck(f.check)
    BY <1>4 DEF CommitVerdict, Becomes, Holds, PayloadTypes, Payloads, Story, CheckStory
  <2>2. verdict' = f.check.verdict \/ (UNCHANGED verdict /\ f.check.verdict = f.check.seen)
    BY <1>4 DEF CommitVerdict, WriteVerdict
  <2> QED  BY <2>1, <2>2 DEF CheckStory, SoundCheck, Over
<1>5. ASSUME NEW p \in Procs, NEW t \in Tasks, Execute(p, t), payload'[u] # payload[u],
             ~EvaluateScanCompletion(p, u), ~CommitVerdict(p, u)
      PROVE  payload'[u].step \notin {"judging", "judged"}
  <2>1. t = u
    <3>1. PICK new \in Payloads : payload' = [payload EXCEPT ![t] = new]
      BY <1>5, Moves
    <3> QED  BY <1>5, <3>1 DEF PayloadTypes
  <2>2. CASE Consume(p, u) \/ MarkTaskProcessing(p, u) \/ PublishCompleted(p, u) \/ HandleRetry(p, u)
    <3>1. PICK step \in {"taken", "marked", "told", "unsent"} :
               \/ payload' = [payload EXCEPT ![u] = [payload[u] EXCEPT !.at = p, !.step = step]]
               \/ payload' = [payload EXCEPT ![u] = [payload[u] EXCEPT !.step = step]]
               \/ payload' = [payload EXCEPT ![u] = [payload[u] EXCEPT !.attempt = @ + 1, !.step = step]]
      BY <2>2 DEF Consume, MarkTaskProcessing, PublishCompleted, HandleRetry, Becomes, Goes
    <3> QED  BY <3>1 DEF PayloadTypes, Payloads
  <2>3. CASE SaveResponse(p, u) \/ VerdictLost(p, u)
    <3>1. payload[u] \in Payloads /\ payload \in [Tasks -> Payloads]
      BY DEF PayloadTypes
    <3>2. CASE SaveResponse(p, u)
      <4>1. PICK ok \in BOOLEAN, step \in {"saved", "told"} :
                 payload' = [payload EXCEPT ![u] = [payload[u] EXCEPT !.ok = ok, !.step = step]]
        BY <3>2 DEF SaveResponse, Becomes
      <4> QED  BY <3>1, <4>1 DEF Payloads
    <3>3. CASE VerdictLost(p, u)
      BY <3>1, <3>3 DEF VerdictLost, Becomes, Payloads
    <3> QED  BY <2>3, <3>2, <3>3
  <2>4. CASE Publish(p, u) \/ Finish(p, u)
    <3>1. payload'[u] \in {[payload[u] EXCEPT !.at = Broker(p), !.step = "queued"], Gone}
      BY <2>4 DEF Publish, Finish, Becomes, PayloadTypes
    <3> QED  BY <3>1, GonePlaced DEF PayloadTypes, Payloads
  <2> QED  BY <1>5, <2>1, <2>2, <2>3, <2>4 DEF Execute
<1>6. ASSUME NEW p \in Procs, Crashes(p) \/ Stops(p) PROVE payload'[u] \in {payload[u], Gone}
  BY <1>6 DEF Crashes, Stops, Leaves
<1>7. ASSUME NEW p \in Apis, Handlers(p) PROVE payload'[u] \in {payload[u], At(p, "unsent")}
  BY <1>7 DEF Handlers, CreateScan, SubmitTasks, DeleteScan, Subscribe
<1>8. ASSUME NEW p \in Procs, ApiStarts(p) \/ WorkerStarts(p) PROVE payload' = payload
  BY <1>8 DEF ApiStarts, WorkerStarts
<1>9. CASE RedisFails \/ RedisReturns
  BY <1>1, <1>9 DEF RedisFails, RedisReturns
<1>10. Gone.step = "gone" /\ \A p : At(p, "unsent").step = "unsent"
  BY GonePlaced DEF At
<1>11. ASSUME NEW p \in Procs, NEW t \in Tasks, Execute(p, t) PROVE CheckStory(u)'
  BY <1>1, <1>2, <1>3, <1>4, <1>5, <1>11
<1>12. ASSUME NEW p \in Procs, Crashes(p) \/ Stops(p) \/ ApiStarts(p) \/ WorkerStarts(p)
       PROVE  CheckStory(u)'
  BY <1>1, <1>2, <1>6, <1>8, <1>10, <1>12
<1>13. ASSUME NEW p \in Apis, Handlers(p) PROVE CheckStory(u)'
  BY <1>1, <1>2, <1>7, <1>10, <1>13
<1> QED
  BY StepCases, <1>1, <1>9, <1>11, <1>12, <1>13

LEMMA StoryStep ==
  ASSUME ServerTypes, TableTypes, PayloadTypes, Story, [Next]_vars
  PROVE  Story'
BY RowStoryStep, CheckStoryStep, VerdictStoryStep DEF Story

----------------------------------------------------------------------------
(* Events *)

LEMMA ListenerStep ==
  ASSUME ServerTypes, ListenerTypes, [Next]_vars
  PROVE  ListenerTypes'
<1> USE ProcsAssumption DEF ListenerTypes, Reachable, Up, Broker, events, servers, Procs
<1>1. CASE UNCHANGED <<servers, events>>
  BY <1>1
<1>2. CASE RedisFails
  BY <1>2 DEF RedisFails, NoListener
<1>3. CASE RedisReturns
  BY <1>3 DEF RedisReturns
<1>4. ASSUME NEW p \in Procs, ApiStarts(p) \/ WorkerStarts(p) PROVE ListenerTypes'
  <2>1. /\ UNCHANGED <<redisUp, listener, heard>> /\ mode[p] \notin {"fake", "real"}
        /\ mode' = [mode EXCEPT ![p] = IF redisUp THEN "real" ELSE "fake"]
    BY <1>4 DEF ApiStarts, WorkerStarts
  <2> QED  BY <2>1 DEF ServerTypes
<1>5. ASSUME NEW p \in Procs, Leaves(p) PROVE ListenerTypes'
  <2>1. /\ UNCHANGED <<redisUp, heard>> /\ mode' = [mode EXCEPT ![p] = "down"]
        /\ listener' = IF listener.at = p THEN NoListener ELSE listener
    BY <1>5 DEF Leaves
  <2> QED  BY <2>1 DEF ServerTypes, NoListener
<1>6. ASSUME NEW p \in Apis, CreateScan(p) \/ SubmitTasks(p) \/ DeleteScan(p)
      PROVE  ListenerTypes'
  BY <1>1, <1>6 DEF CreateScan, SubmitTasks, DeleteScan
<1>7. ASSUME NEW p \in Apis, Subscribe(p) PROVE ListenerTypes'
  BY <1>7 DEF Subscribe
<1>8. ASSUME NEW p \in Procs, NEW t \in Tasks, Execute(p, t) PROVE ListenerTypes'
  <2>1. heard' \in BOOLEAN
    BY <1>8 DEF Execute, Consume, MarkTaskProcessing, SaveResponse, EvaluateScanCompletion,
                CommitVerdict, VerdictLost, PublishCompleted, HandleRetry, Publish, Finish
  <2> QED  BY <1>8, <2>1, ExecuteKeeps
<1> QED
  BY StepCases, <1>1, <1>2, <1>3, <1>4, <1>5, <1>6, <1>7, <1>8 DEF Handlers, Crashes, Stops

LEMMA ToldByNowStep ==
  ASSUME ServerTypes, TableTypes, PayloadTypes, ListenerTypes, Story, ToldByNow, [Next]_vars
  PROVE  ToldByNow'
<1> USE ProcsAssumption DEF tables, events, servers, Final
<1>2. CASE UNCHANGED <<servers, verdict, basis, payload, events>>
  BY <1>2 DEF ToldByNow, Broker, Where
<1>3. CASE RedisFails
  <2>1. UNCHANGED <<mode, verdict, basis, payload, heard>> /\ listener' \in {listener, NoListener}
    BY <1>3 DEF RedisFails
  <2> QED  BY <2>1 DEF ToldByNow, Broker, Where, NoListener
<1>4. CASE RedisReturns
  BY <1>4 DEF RedisReturns, ToldByNow, Broker, Where
<1>5. ASSUME verdict' \notin Final PROVE ToldByNow'
  BY <1>5 DEF ToldByNow
<1>6. ASSUME NEW p \in Procs, ApiStarts(p) PROVE ToldByNow'
  BY <1>5, <1>6 DEF ApiStarts, NoRows
<1>7. ASSUME NEW p \in Procs, UNCHANGED <<verdict, basis, heard>>,
             \A q \in Procs \ {p} : mode'[q] = mode[q],
             \A u \in Tasks : \/ payload'[u] = payload[u] /\ payload[u].at # p
                              \/ payload'[u] = Gone,
             \/ listener' = listener /\ listener.at # p
             \/ listener' = NoListener
      PROVE  ToldByNow'
  <2> SUFFICES ASSUME NEW u \in Tasks, basis.by = u, verdict \in Final, payload'[u].step # "judged",
                      u \in listener'.before, Broker(listener.at)' = Where(payload[u])'
               PROVE  heard
    BY <1>7 DEF ToldByNow
  <2>1. listener' = listener /\ listener.at \in Procs \ {p}
    BY <1>7 DEF NoListener, ListenerTypes
  <2>2. Broker(listener.at)' = Broker(listener.at) /\ Broker(listener.at) \in Procs \cup {"redis"}
    BY <1>7, <2>1 DEF Broker
  <2>3. payload'[u] = payload[u] /\ payload[u].at # p
    BY <1>7, <2>2, GonePlaced DEF Where
  <2>4. Where(payload[u])' = Where(payload[u])
    BY <1>7, <2>3 DEF Where, Broker
  <2> QED  BY <2>1, <2>2, <2>3, <2>4 DEF ToldByNow
<1>8. ASSUME NEW p \in Procs, WorkerStarts(p) PROVE ToldByNow'
  <2>1. /\ UNCHANGED <<tables, payload, events>> /\ ~Up(p)
        /\ mode' = [mode EXCEPT ![p] = IF redisUp THEN "real" ELSE "fake"]
    BY <1>8 DEF WorkerStarts, Up
  <2>2. listener.at # p /\ \A u \in Tasks : payload[u].at # p
    BY <2>1 DEF PayloadTypes, Placed, ListenerTypes, Reachable
  <2> QED  BY <1>7, <2>1, <2>2 DEF ServerTypes
<1>9. ASSUME NEW p \in Procs, Leaves(p) PROVE ToldByNow'
  <2>1. /\ UNCHANGED <<tables, heard>> /\ mode' = [mode EXCEPT ![p] = "down"]
        /\ payload' = [t \in Tasks |-> IF payload[t].at = p THEN Gone ELSE payload[t]]
        /\ listener' = IF listener.at = p THEN NoListener ELSE listener
    BY <1>9 DEF Leaves
  <2> QED  BY <1>7, <2>1 DEF ServerTypes
<1>10. ASSUME NEW p \in Apis, Handlers(p) PROVE ToldByNow'
  <2>1. CASE CreateScan(p) \/ DeleteScan(p)
    BY <1>5, <2>1 DEF CreateScan, DeleteScan, NoRows
  <2>2. CASE SubmitTasks(p)
    <3>1. PICK new \in Submissions : payload' = [t \in Tasks |-> IF t \in new THEN At(p, "unsent") ELSE payload[t]]
      BY <2>2 DEF SubmitTasks
    <3>2. /\ UNCHANGED <<basis, mode, listener, heard>>
          /\ verdict' \in Final => verdict' = verdict
      BY <2>2 DEF SubmitTasks
    <3>3. \A u \in Tasks : basis.by = u => payload'[u] = payload[u]
      BY <3>1 DEF Story, VerdictStory, Submissions, Unborn
    <3> QED  BY <3>2, <3>3 DEF ToldByNow, Where, Broker
  <2>3. CASE Subscribe(p)
    <3>1. UNCHANGED <<verdict, basis, payload>> /\ \A u \in listener'.before : Unborn(u)
      BY <2>3 DEF Subscribe
    <3>2. \A u \in Tasks : basis'.by = u => u \notin listener'.before
      BY <3>1 DEF Story, VerdictStory
    <3> QED  BY <3>2 DEF ToldByNow
  <2> QED  BY <1>10, <2>1, <2>2, <2>3 DEF Handlers
<1>11. ASSUME NEW p \in Procs, NEW t \in Tasks, Execute(p, t) PROVE ToldByNow'
  <2>0. UNCHANGED <<mode, redisUp, listener>>
    BY <1>11, ExecuteKeeps
  <2>1. PICK new \in Payloads : /\ payload' = [payload EXCEPT ![t] = new]
                                /\ new.at = "nowhere" \/ Where(new) = Where(payload[t])
    BY <1>11, Moves
  <2>2. payload'[t] = new /\ \A u \in Tasks \ {t} : payload'[u] = payload[u]
    BY <2>1 DEF PayloadTypes
  <2>3. Broker(listener.at)' = Broker(listener.at) /\ \A u \in Tasks : Where(payload[u])' = Where(payload'[u])
    BY <2>0 DEF Broker, Where
  <2>4. \A u \in Tasks : u \in listener.before => listener.at \in Procs
    BY DEF ListenerTypes
  <2>5. listener.at \in Procs => Broker(listener.at) # "nowhere"
    BY DEF Broker
  <2>6. \A u \in Tasks : u \in listener.before /\ Broker(listener.at)' = Where(payload[u])' =>
                           Broker(listener.at) = Where(payload[u])
    BY <2>1, <2>2, <2>3, <2>4, <2>5 DEF Where
  <2>7. CASE PublishCompleted(p, t)
    <3>1. /\ UNCHANGED <<verdict, basis>> /\ payload[t].at = p
          /\ heard' = (heard \/ (/\ Reachable(p) /\ listener.at \in Procs
                                 /\ Broker(listener.at) = Broker(p)))
      BY <2>7 DEF PublishCompleted, Holds
    <3>2. ASSUME t \in listener.before, Broker(listener.at) = Where(payload[t]) PROVE heard'
      <4>1. listener.at \in Procs /\ Reachable(listener.at) /\ Broker(listener.at) = Broker(p)
        BY <3>1, <3>2 DEF ListenerTypes, Where
      <4>2. Up(p)
        BY <3>1 DEF PayloadTypes, Placed
      <4>3. Reachable(p)
        BY <4>1, <4>2 DEF Reachable, Broker
      <4> QED  BY <3>1, <4>1, <4>3
    <3>3. ASSUME NEW u \in Tasks, u # t, basis'.by = u, verdict' \in Final, payload'[u].step # "judged",
                 u \in listener'.before, Broker(listener.at)' = Where(payload[u])'
          PROVE  heard'
      BY <2>0, <2>2, <2>6, <3>1, <3>3 DEF ToldByNow
    <3> QED  BY <2>0, <2>6, <3>2, <3>3 DEF ToldByNow
  <2>8. CASE CommitVerdict(p, t)
    <3>1. payload'[t].step = "judged" /\ heard' = heard
      BY <2>8 DEF CommitVerdict, Becomes, PayloadTypes, Payloads
    <3>2. \A u \in Tasks \ {t} : basis'.by = u => UNCHANGED <<verdict, basis>>
      BY <2>8 DEF CommitVerdict, WriteVerdict
    <3> QED  BY <2>0, <2>2, <2>6, <3>1, <3>2 DEF ToldByNow
  <2>9. ASSUME UNCHANGED <<verdict, basis, heard>>, payload[t].step # "judged"
        PROVE  ToldByNow'
    BY <2>0, <2>2, <2>6, <2>9 DEF ToldByNow
  <2>10. CASE Consume(p, t) \/ MarkTaskProcessing(p, t) \/ SaveResponse(p, t) \/ HandleRetry(p, t)
    BY <2>9, <2>10 DEF Consume, MarkTaskProcessing, SaveResponse, HandleRetry, Holds
  <2>11. CASE EvaluateScanCompletion(p, t) \/ VerdictLost(p, t) \/ Publish(p, t) \/ Finish(p, t)
    BY <2>9, <2>11 DEF EvaluateScanCompletion, VerdictLost, Publish, Finish, Holds
  <2> QED  BY <1>11, <2>7, <2>8, <2>10, <2>11 DEF Execute
<1> QED
  BY StepCases, <1>2, <1>3, <1>4, <1>6, <1>8, <1>9, <1>10, <1>11 DEF Crashes, Stops

LEMMA ToldByNowTells == PayloadTypes /\ ToldByNow => CompletionTold
BY DEF PayloadTypes, Placed, InHand, ToldByNow, Where, CompletionTold

----------------------------------------------------------------------------
(* What requests have read *)

\* The scan is read first, and the counts after it.
Ordered(query) ==
  /\ query \in Seq({"scan", "counts", "tasks"})
  /\ \A i \in DOMAIN query : /\ query[i] = "scan" => i = 1
                             /\ query[i] = "counts" => i = 2

LEMMA QueryOrder == \A who : Ordered(Queries(who))
<1>1. Ordered(<<"scan", "counts">>)
  BY DEF Ordered
<1>2. Ordered(<<"tasks">>)
  BY DEF Ordered
<1>3. Ordered(<<"scan", "counts", "tasks">>)
  BY DEF Ordered
<1>4. Ordered(<< >>)
  BY DEF Ordered
<1> QED
  BY <1>1, <1>2, <1>3, <1>4 DEF Queries

\* The next query of a request
LEMMA NextRead ==
  ASSUME TableTypes, ViewTypes, NEW s \in Slots, ReadNext(s)
  PROVE  \E value \in Reads, on \in SUBSET Tasks :
           /\ fetch' = [fetch EXCEPT ![s] = [fetch[s] EXCEPT !.read = Append(fetch[s].read, value), !.on = on]]
           /\ DOMAIN fetch[s].responses = {}
           /\ LET query == Queries(fetch[s].for)
                  next  == Len(fetch[s].read) + 1
              IN /\ next \in DOMAIN query
                 /\ query[next] = "scan" => next = 1 /\ value = verdict /\ on = basis.on
                 /\ query[next] = "counts" => next = 2 /\ value = row
                 /\ query[next] = "tasks" => value = row
                 /\ query[next] # "scan" => on = fetch[s].on
<1> DEFINE for == fetch[s].for
           read == fetch[s].read
           query == Queries(for)
           next == Len(read) + 1
           value == Result(query[next])
           on == IF query[next] = "scan" THEN basis.on ELSE fetch[s].on
<1>0. /\ fetch \in [Slots -> Requests] /\ fetch[s] \in Requests
      /\ Len(fetch[s].read) <= Len(Queries(fetch[s].for))
      /\ DOMAIN fetch[s].responses # {} => HasRead(fetch[s])
  <2>1. fetch \in [Slots -> Requests]
    BY DEF ViewTypes
  <2>2. Len(fetch[s].read) <= Len(Queries(fetch[s].for))
    BY DEF ViewTypes
  <2>3. DOMAIN fetch[s].responses # {} => HasRead(fetch[s])
    BY DEF ViewTypes
  <2> QED  BY <2>1, <2>2, <2>3
<1>1. read \in Seq(Reads) /\ fetch[s].on \in SUBSET Tasks
  BY <1>0 DEF Requests
<1>2. Len(read) # Len(query) /\ DOMAIN fetch[s].responses = {}
  <2>1. ~HasRead(fetch[s])
    BY DEF ReadNext
  <2> QED  BY <1>0, <2>1 DEF HasRead
<1>3. Ordered(query)
  BY QueryOrder
<1>4. next \in DOMAIN query /\ Len(read) \in Nat
  BY <1>0, <1>1, <1>2, <1>3 DEF Ordered
<1>5. query[next] \in {"scan", "counts", "tasks"}
  BY <1>3, <1>4 DEF Ordered
<1>6. value \in Reads /\ on \in SUBSET Tasks
  BY <1>1, <1>5 DEF Result, Reads, TableTypes
<1>7. fetch' = [fetch EXCEPT ![s].read = Append(read, value), ![s].on = on]
  BY DEF ReadNext
<1>8. [fetch EXCEPT ![s].read = Append(read, value), ![s].on = on]
        = [fetch EXCEPT ![s] = [fetch[s] EXCEPT !.read = Append(read, value), !.on = on]]
  BY <1>0
<1>9. /\ query[next] = "scan" => next = 1 /\ value = verdict /\ on = basis.on
      /\ query[next] = "counts" => next = 2 /\ value = row
      /\ query[next] = "tasks" => value = row
      /\ query[next] # "scan" => on = fetch[s].on
  BY <1>3, <1>4 DEF Result, Ordered
<1> QED
  BY <1>2, <1>4, <1>6, <1>7, <1>8, <1>9

\* The next response of a request
LEMMA NextResponse ==
  ASSUME TableTypes, ViewTypes, NEW s \in Slots, ReadResponse(s)
  PROVE  \E t, responses :
           /\ t \in Tasks
           /\ fetch' = [fetch EXCEPT ![s] = [fetch[s] EXCEPT !.responses = responses]]
           /\ DOMAIN responses = DOMAIN fetch[s].responses \cup {t}
           /\ responses[t] = response[t] /\ t \notin DOMAIN fetch[s].responses
           /\ \A u \in DOMAIN fetch[s].responses : responses[u] = fetch[s].responses[u]
           /\ [fetch[s] EXCEPT !.responses = responses] \in Requests
           /\ HasRead(fetch[s])
<1>1. fetch \in [Slots -> Requests] /\ fetch[s] \in Requests
  BY DEF ViewTypes
<1>2. PICK t \in Listed(fetch[s]) \ DOMAIN fetch[s].responses :
        fetch' = [fetch EXCEPT ![s].responses =
                    [u \in DOMAIN @ \cup {t} |-> IF u = t THEN response[t] ELSE @[u]]]
  BY DEF ReadResponse
<1> DEFINE old == fetch[s].responses
           responses == [u \in DOMAIN old \cup {t} |-> IF u = t THEN response[t] ELSE old[u]]
<1>3. fetch' = [fetch EXCEPT ![s] = [fetch[s] EXCEPT !.responses = responses]]
  BY <1>1, <1>2
<1>4. t \in Tasks /\ t \notin DOMAIN old
  BY <1>2 DEF Listed
<1>5. PICK T \in SUBSET Tasks : old \in [T -> Contents]
  BY <1>1 DEF Requests
<1>6. responses \in [T \cup {t} -> Contents] /\ T \cup {t} \in SUBSET Tasks
  BY <1>4, <1>5 DEF TableTypes
<1>7. responses \in UNION {[U -> Contents] : U \in SUBSET Tasks}
  BY <1>6
<1>8. DOMAIN responses = DOMAIN old \cup {t} /\ responses[t] = response[t]
      /\ \A u \in DOMAIN old : responses[u] = old[u]
  BY <1>4
<1> HIDE DEF responses
<1>9. [fetch[s] EXCEPT !.responses = responses] \in Requests
  BY <1>1, <1>7 DEF Requests
<1>10. HasRead(fetch[s])
  BY DEF ReadResponse
<1> QED
  BY <1>3, <1>4, <1>8, <1>9, <1>10

\* A request is read further, begins, ends, or stays as it is.
Moved == \A s \in Slots : \/ fetch'[s] = fetch[s]
                          \/ /\ fetch'[s].read = << >> /\ fetch'[s].for \in Clients
                             /\ DOMAIN fetch'[s].responses = {}

LEMMA RequestCases ==
  ASSUME ServerTypes, ViewTypes, [Next]_vars
  PROVE  \/ \E s \in Slots : ReadNext(s) /\ UNCHANGED <<tables, payload, selected>>
         \/ \E s \in Slots : ReadResponse(s) /\ UNCHANGED <<tables, payload, selected>>
         \/ Moved /\ fetch' \in [Slots -> Requests] /\ selected' \in BOOLEAN
<1> DEFINE Rest == Moved /\ fetch' \in [Slots -> Requests] /\ selected' \in BOOLEAN
<1> USE DEF views, ViewTypes, Moved
<1>0. Idle \in Requests /\ Idle.read = << >> /\ DOMAIN Idle.responses = {} /\ Idle.for \in Clients
  BY NothingRead DEF Requests
<1>1. ASSUME UNCHANGED <<fetch, selected>> PROVE Rest
  BY <1>1
<1>2. ASSUME NEW p \in Procs, Leaves(p) PROVE Rest
  <2>1. /\ UNCHANGED selected
        /\ \E served \in SUBSET Slots :
             fetch' = [s \in Slots |-> IF s \in served THEN Idle ELSE fetch[s]]
    BY <1>2 DEF Leaves
  <2> QED  BY <1>0, <2>1
<1>3. CASE ToggleScan
  BY <1>3 DEF ToggleScan
<1>4. ASSUME NEW s \in Slots, PollPage(s) \/ AskOther(s) PROVE Rest
  <2>1. bounds.view \in Clients /\ bounds.others \subseteq Clients
    <3>1. bounds.view \in {"tasks", "progress"} /\ bounds.others \subseteq {"copilot", "client"}
      BY ScenariosAssumption DEF ServerTypes
    <3> QED  BY <3>1 DEF Clients
  <2>2. PICK who \in Clients : Ask(s, who)
    BY <1>4, <2>1 DEF PollPage, AskOther, Clients
  <2>3. fetch' = [fetch EXCEPT ![s] = [Idle EXCEPT !.for = who]] /\ UNCHANGED selected
    BY <2>2 DEF Ask
  <2> QED  BY <2>3, NothingRead
<1>5. ASSUME NEW s \in Slots, Arrive(s) PROVE Rest
  <2>1. fetch' = [fetch EXCEPT ![s] = Idle] /\ UNCHANGED selected
    BY <1>5 DEF Arrive
  <2> QED  BY <1>0, <2>1
<1>6. ASSUME NEW p \in Procs, Handlers(p) PROVE Rest
  BY <1>1, <1>6 DEF Handlers, CreateScan, SubmitTasks, DeleteScan, Subscribe
<1>7. ASSUME NEW p \in Procs, NEW t \in Tasks, Execute(p, t) PROVE Rest
  BY <1>1, <1>7, ExecuteKeeps
<1>8. ASSUME NEW p \in Procs, ApiStarts(p) \/ WorkerStarts(p) \/ Beat(p) \/ BeatArrives(p) \/ Expire(p)
      PROVE  Rest
  BY <1>1, <1>8 DEF ApiStarts, WorkerStarts, Beat, BeatArrives, Expire
<1>9. CASE RedisFails \/ RedisReturns
  BY <1>1, <1>9 DEF RedisFails, RedisReturns
<1>10. ASSUME NEW s \in Slots, ReadNext(s) \/ ReadResponse(s) PROVE UNCHANGED <<tables, payload, selected>>
  BY <1>10 DEF ReadNext, ReadResponse
<1>11. CASE UNCHANGED vars
  BY <1>1, <1>11 DEF vars
<1> QED
  BY <1>2, <1>3, <1>4, <1>5, <1>6, <1>7, <1>8, <1>9, <1>10, <1>11
     DEF Next, Deployment, Procs, Crashes, Stops, Serve

LEMMA ViewStep ==
  ASSUME ServerTypes, TableTypes, ViewTypes, [Next]_vars
  PROVE  ViewTypes'
<1>1. ASSUME NEW s \in Slots, ReadNext(s), UNCHANGED selected PROVE ViewTypes'
  <2> DEFINE read == fetch[s].read
  <2>1. PICK value \in Reads, on \in SUBSET Tasks :
          /\ fetch' = [fetch EXCEPT ![s] = [fetch[s] EXCEPT !.read = Append(read, value), !.on = on]]
          /\ DOMAIN fetch[s].responses = {}
          /\ Len(read) + 1 \in DOMAIN Queries(fetch[s].for)
    BY <1>1, NextRead
  <2>2. fetch \in [Slots -> Requests] /\ fetch[s] \in Requests
    BY DEF ViewTypes
  <2>3. read \in Seq(Reads) /\ Append(read, value) \in Seq(Reads)
        /\ Len(Append(read, value)) = Len(read) + 1
    BY <2>2 DEF Requests
  <2>4. fetch' \in [Slots -> Requests]
    BY <2>1, <2>2, <2>3 DEF Requests
  <2>5. /\ fetch'[s].for = fetch[s].for /\ fetch'[s].read = Append(read, value)
        /\ fetch'[s].responses = fetch[s].responses
        /\ \A u \in Slots \ {s} : fetch'[u] = fetch[u]
    BY <2>1, <2>2 DEF Requests
  <2>6. Len(read) + 1 <= Len(Queries(fetch[s].for))
    <3>1. Queries(fetch[s].for) \in Seq({"scan", "counts", "tasks"})
      BY QueryOrder DEF Ordered
    <3> QED  BY <2>1, <3>1
  <2> QED  BY <1>1, <2>1, <2>3, <2>4, <2>5, <2>6 DEF ViewTypes, HasRead
<1>2. ASSUME NEW s \in Slots, ReadResponse(s), UNCHANGED selected PROVE ViewTypes'
  <2>1. PICK t, responses :
          /\ t \in Tasks
          /\ fetch' = [fetch EXCEPT ![s] = [fetch[s] EXCEPT !.responses = responses]]
          /\ [fetch[s] EXCEPT !.responses = responses] \in Requests /\ HasRead(fetch[s])
    BY <1>2, NextResponse
  <2>2. fetch'[s].for = fetch[s].for /\ fetch'[s].read = fetch[s].read
        /\ \A u \in Slots \ {s} : fetch'[u] = fetch[u]
    BY <2>1 DEF ViewTypes, Requests
  <2> QED  BY <1>2, <2>1, <2>2 DEF ViewTypes, HasRead
<1>3. \A who \in Clients : Len(<< >>) <= Len(Queries(who))
  BY DEF Queries, Clients
<1> QED
  BY <1>1, <1>2, <1>3, RequestCases DEF ViewTypes, Moved, HasRead

\* When a request is read further
LEMMA ReadsNextStep ==
  ASSUME TableTypes, ViewTypes, Story, Answers, NEW s \in Slots, ReadNext(s), UNCHANGED <<tables, payload>>
  PROVE  Answers'
<1> DEFINE for == fetch[s].for
           read == fetch[s].read
           query == Queries(for)
           next == Len(read) + 1
<1>1. PICK value \in Reads, on \in SUBSET Tasks :
        /\ fetch' = [fetch EXCEPT ![s] = [fetch[s] EXCEPT !.read = Append(read, value), !.on = on]]
        /\ DOMAIN fetch[s].responses = {}
        /\ next \in DOMAIN query
        /\ query[next] = "scan" => next = 1 /\ value = verdict /\ on = basis.on
        /\ query[next] = "counts" => next = 2 /\ value = row
        /\ query[next] = "tasks" => value = row
        /\ query[next] # "scan" => on = fetch[s].on
  BY NextRead
<1>2. fetch \in [Slots -> Requests] /\ fetch[s] \in Requests
  BY DEF ViewTypes
<1>3. /\ \A u \in Slots \ {s} : fetch'[u] = fetch[u]
      /\ fetch'[s].for = for /\ fetch'[s].read = Append(read, value) /\ fetch'[s].on = on
      /\ fetch'[s].responses = fetch[s].responses
  BY <1>1, <1>2 DEF Requests
<1>4. /\ read \in Seq(Reads) /\ Len(read) \in Nat /\ DOMAIN read = 1..Len(read)
      /\ DOMAIN Append(read, value) = 1..next /\ Append(read, value)[next] = value
      /\ \A i \in DOMAIN read : Append(read, value)[i] = read[i]
  BY <1>2 DEF Requests
<1>5. /\ \A i \in 1..next : i \in DOMAIN read \/ i = next
      /\ query[next] = "scan" => DOMAIN read = {}
  BY <1>1, <1>4
<1>6. \A t \in Tasks : Settled(t)' = Settled(t) /\ row'[t] = row[t]
  BY DEF Settled, Unborn, tables
<1>7. \A t \in Tasks : row[t] = "SUCCESS" => Settled(t)
  BY DEF Story, RowStory, Settled
<1>8. verdict = "COMPLETED" => \A t \in basis.on : Settled(t)
  BY DEF Story, VerdictStory
<1>9. ASSUME NEW i \in DOMAIN read PROVE on = fetch[s].on
  BY <1>1, <1>5, <1>9
<1>10. ReadsHold'
  <2> SUFFICES ASSUME NEW u \in Slots, NEW i \in DOMAIN fetch'[u].read
               PROVE  LET q == Queries(fetch'[u].for)[i]
                          v == fetch'[u].read[i]
                      IN /\ q = "tasks" => \A t \in Tasks : v[t] = "SUCCESS" => Settled(t)'
                         /\ q = "scan" /\ v = "COMPLETED" => \A t \in fetch'[u].on : Settled(t)'
    BY DEF ReadsHold
  <2>1. CASE u # s
    <3>1. fetch[u].on \subseteq Tasks
      BY <1>2 DEF Requests
    <3> QED  BY <1>3, <1>6, <2>1, <3>1 DEF Answers, ReadsHold
  <2>2. CASE u = s /\ i = next
    BY <1>1, <1>3, <1>4, <1>6, <1>7, <1>8, <2>2
  <2>3. CASE u = s /\ i \in DOMAIN read
    BY <1>3, <1>4, <1>6, <1>9, <2>3 DEF Answers, ReadsHold
  <2> QED  BY <1>3, <1>4, <1>5, <2>1, <2>2, <2>3
<1>11. SuccessShownWithResponse'
  <2> SUFFICES ASSUME NEW u \in Slots, NEW i \in DOMAIN fetch'[u].read, NEW t \in DOMAIN fetch'[u].responses,
                      Queries(fetch'[u].for)[i] = "tasks", fetch'[u].read[i][t] = "SUCCESS"
               PROVE  fetch'[u].responses[t] = "reply" \/ (fetch'[u].responses[t] = "none" /\ row'[t] = "absent")
    BY DEF SuccessShownWithResponse
  <2>1. u # s
    BY <1>1, <1>3
  <2> QED  BY <1>3, <2>1 DEF Answers, SuccessShownWithResponse, tables
<1>12. CompletedCountsItsTasks'
  <2> SUFFICES ASSUME NEW u \in Slots, NEW i \in DOMAIN fetch'[u].read, NEW j \in DOMAIN fetch'[u].read,
                      Queries(fetch'[u].for)[i] = "scan", Queries(fetch'[u].for)[j] = "counts",
                      fetch'[u].read[i] = "COMPLETED", NEW t \in fetch'[u].on
               PROVE  fetch'[u].read[j][t] \in {"SUCCESS", "absent"}
    BY DEF CompletedCountsItsTasks
  <2>1. CASE u # s
    BY <1>3, <2>1 DEF Answers, CompletedCountsItsTasks
  <2>2. CASE u = s /\ i = next
    <3>1. j = next
      BY <1>3, <1>4, <1>5, <2>2
    <3> QED  BY <1>3, <2>2, <3>1
  <2>3. CASE u = s /\ i \in DOMAIN read /\ j \in DOMAIN read
    <3>1. /\ query[i] = "scan" /\ query[j] = "counts" /\ read[i] = "COMPLETED"
          /\ t \in fetch[s].on /\ fetch'[u].read[j] = read[j]
      BY <1>3, <1>4, <1>9, <2>3
    <3> QED  BY <2>3, <3>1 DEF Answers, CompletedCountsItsTasks
  <2>4. CASE u = s /\ i \in DOMAIN read /\ j = next
    <3>1. query[i] = "scan" /\ read[i] = "COMPLETED" /\ t \in fetch[s].on
      BY <1>3, <1>4, <1>9, <2>4
    <3>2. Settled(t)
      BY <2>4, <3>1 DEF Answers, ReadsHold
    <3>3. fetch'[u].read[j] = row
      BY <1>1, <1>3, <1>4, <2>4
    <3> QED  BY <3>2, <3>3 DEF Settled
  <2> QED  BY <1>3, <1>4, <1>5, <2>1, <2>2, <2>3, <2>4
<1> QED
  BY <1>10, <1>11, <1>12 DEF Answers

\* When the response of one more task is read
LEMMA ResponseReadStep ==
  ASSUME TableTypes, ViewTypes, Story, Answers, NEW s \in Slots, ReadResponse(s),
         UNCHANGED <<tables, payload>>
  PROVE  Answers'
<1>1. PICK t, responses :
        /\ t \in Tasks
        /\ fetch' = [fetch EXCEPT ![s] = [fetch[s] EXCEPT !.responses = responses]]
        /\ DOMAIN responses = DOMAIN fetch[s].responses \cup {t}
        /\ responses[t] = response[t] /\ t \notin DOMAIN fetch[s].responses
        /\ \A u \in DOMAIN fetch[s].responses : responses[u] = fetch[s].responses[u]
        /\ [fetch[s] EXCEPT !.responses = responses] \in Requests
        /\ HasRead(fetch[s])
  BY NextResponse, Zenon
<1>2. fetch \in [Slots -> Requests] /\ \A u \in Slots : fetch[u] \in Requests
  BY DEF ViewTypes
<1>3. /\ \A u \in Slots : /\ fetch'[u].for = fetch[u].for /\ fetch'[u].read = fetch[u].read
                          /\ fetch'[u].on = fetch[u].on
      /\ \A u \in Slots \ {s} : fetch'[u] = fetch[u]
      /\ fetch'[s].responses = responses
  BY <1>1, <1>2 DEF Requests
<1>4. \A u \in Tasks : Settled(u)' = Settled(u) /\ row'[u] = row[u]
  BY DEF Settled, Unborn, tables
<1>5. \A u \in Tasks : Settled(u) => response[u] = "reply" \/ (response[u] = "none" /\ row[u] = "absent")
  BY DEF Story, RowStory, Settled, TableTypes
<1>6. ReadsHold'
  <2>1. \A u \in Slots : fetch[u].on \subseteq Tasks
    BY <1>2 DEF Requests
  <2> QED  BY <1>3, <1>4, <2>1 DEF Answers, ReadsHold
<1>7. SuccessShownWithResponse'
  <2> SUFFICES ASSUME NEW u \in Slots, NEW i \in DOMAIN fetch'[u].read, NEW v \in DOMAIN fetch'[u].responses,
                      Queries(fetch'[u].for)[i] = "tasks", fetch'[u].read[i][v] = "SUCCESS"
               PROVE  fetch'[u].responses[v] = "reply" \/ (fetch'[u].responses[v] = "none" /\ row'[v] = "absent")
    BY DEF SuccessShownWithResponse
  <2>1. i \in DOMAIN fetch[u].read /\ Queries(fetch[u].for)[i] = "tasks" /\ fetch[u].read[i][v] = "SUCCESS"
    BY <1>3
  <2>2. CASE v \in DOMAIN fetch[u].responses
    <3>1. fetch'[u].responses[v] = fetch[u].responses[v]
      BY <1>1, <1>3, <2>2
    <3> QED  BY <2>1, <2>2, <3>1 DEF Answers, SuccessShownWithResponse, tables
  <2>3. CASE u = s /\ v = t
    <3>1. Settled(t)
      <4>1. t \in Tasks
        BY <1>1
      <4> QED  BY <2>1, <2>3, <4>1 DEF Answers, ReadsHold
    <3> QED  BY <1>1, <1>3, <1>4, <1>5, <2>3, <3>1
  <2> QED  BY <1>1, <1>3, <2>2, <2>3
<1>8. CompletedCountsItsTasks'
  BY <1>3 DEF Answers, CompletedCountsItsTasks
<1> QED
  BY <1>6, <1>7, <1>8 DEF Answers

\* When a request begins or ends, or the deployment moves on
LEMMA ReadsKeptStep ==
  ASSUME ServerTypes, TableTypes, PayloadTypes, ViewTypes, Story, Answers, [Next]_vars, Moved
  PROVE  Answers'
<1>1. \A t \in Tasks : /\ Settled(t) => Settled(t)'
                       /\ Settled(t) /\ row[t] = "absent" => row'[t] = "absent"
  BY SettledStep, StaysSettled DEF Settled, Unborn
<1>2. DOMAIN << >> = {}
  OBVIOUS
<1>3. \A s \in Slots : fetch[s].on \subseteq Tasks /\ DOMAIN fetch[s].responses \subseteq Tasks
  BY DEF ViewTypes, Requests
<1>4. ReadsHold'
  BY <1>1, <1>2, <1>3 DEF Answers, ReadsHold, Moved
<1>5. SuccessShownWithResponse'
  <2>1. ASSUME NEW u \in Slots, NEW i \in DOMAIN fetch[u].read, NEW t \in DOMAIN fetch[u].responses,
               Queries(fetch[u].for)[i] = "tasks", fetch[u].read[i][t] = "SUCCESS"
        PROVE  fetch[u].responses[t] = "reply" \/ (fetch[u].responses[t] = "none" /\ row'[t] = "absent")
    <3>1. t \in Tasks /\ Settled(t)
      BY <1>3, <2>1 DEF Answers, ReadsHold
    <3> QED  BY <1>1, <2>1, <3>1 DEF Answers, SuccessShownWithResponse
  <2> QED  BY <1>2, <2>1 DEF SuccessShownWithResponse, Moved
<1>6. CompletedCountsItsTasks'
  BY <1>2 DEF Answers, CompletedCountsItsTasks, Moved
<1> QED
  BY <1>4, <1>5, <1>6 DEF Answers

----------------------------------------------------------------------------

LEMMA IInvInit == Init => IInv
<1> SUFFICES ASSUME Init PROVE IInv
  OBVIOUS
<1>1. \A s \in Slots : DOMAIN fetch[s].read = {}
  BY NothingRead DEF Init
<1>2. Answers
  BY <1>1 DEF Answers, ReadsHold, SuccessShownWithResponse, CompletedCountsItsTasks
<1>3. ToldByNow
  BY TasksAssumption DEF Init, ToldByNow
<1> QED
  BY TypesInit, <1>2, <1>3 DEF IInv

LEMMA IInvStep == IInv /\ [Next]_vars => IInv'
<1> SUFFICES ASSUME IInv, [Next]_vars PROVE IInv'
  OBVIOUS
<1> USE DEF IInv
<1>1. /\ ServerTypes' /\ BeatTypes' /\ TableTypes' /\ PayloadTypes' /\ ListenerTypes' /\ ViewTypes'
      /\ Story' /\ ToldByNow'
  BY ServersStep, TablesStep, PayloadStep, ListenerStep, ViewStep, StoryStep, ToldByNowStep
<1>2. Answers'
  BY ReadsNextStep, ResponseReadStep, ReadsKeptStep, RequestCases
<1> QED
  BY <1>1, <1>2

LEMMA IInvCorrect == Spec => []IInv
<1> QED
  BY IInvInit, IInvStep, PTL DEF Spec

----------------------------------------------------------------------------

\* The types, and the foreign keys of the tables: a task has its scan's row, a
\* response its task's, for any number of processes that start, stop and crash
\* while the others drop the tables (main.py, repository.py).
THEOREM ServiceTypeCorrect == Spec => []TypeOK
<1>1. IInv => TypeOK
  <2> SUFFICES ASSUME IInv PROVE TypeOK
    OBVIOUS
  <2>1. \A t \in Tasks : /\ payload[t].at \in Procs \cup {"redis", "nowhere"}
                         /\ payload[t].at \in Procs => Up(payload[t].at)
                         /\ payload[t].attempt \in 0..bounds.retries
    BY DEF IInv, PayloadTypes, Payloads, Placed
  <2>2. /\ response \in [Tasks -> {"none", "reply", "error"}] /\ basis.on \subseteq Tasks
        /\ listener.at \in Apis \cup {"nowhere"}
    BY DEF IInv, TableTypes, ListenerTypes, Contents
  <2> QED
    BY <2>1, <2>2 DEF IInv, TypeOK, ServerTypes, BeatTypes, TableTypes, ListenerTypes, ViewTypes
<1> QED
  BY <1>1, IInvCorrect, PTL

\* Who has got scan_completed finds the scan finished, or not there at all, also
\* when more has been submitted to it since: the event comes after the commit
\* (_evaluate_scan_completion, submit_tasks).
THEOREM EventAfterCommitCorrect == Spec => []EventAfterCommit
<1>1. IInv => EventAfterCommit
  BY DEF IInv, Story, VerdictStory, Over, EventAfterCommit
<1> QED
  BY <1>1, IInvCorrect, PTL

\* Who subscribed before the submission of the task whose check gave the
\* verdict, at a process with the engine's broker, has got scan_completed when
\* the engine has told of it (scan_event_generator).
THEOREM CompletionToldCorrect == Spec => []CompletionTold
<1>1. IInv => CompletionTold
  BY ToldByNowTells DEF IInv
<1> QED
  BY <1>1, IInvCorrect, PTL

\* Whatever happens between its queries, an answer that shows a task as SUCCESS
\* has the response of that attempt, unless it was deleted (get_scan_tasks).
THEOREM SuccessShownCorrect == Spec => []SuccessShownWithResponse
<1>1. IInv => SuccessShownWithResponse
  BY DEF IInv, Answers
<1> QED
  BY <1>1, IInvCorrect, PTL

\* Whatever is submitted, judged, retried or deleted between its queries, an
\* answer that says COMPLETED counts every task that verdict was computed from
\* as a success, or not at all (get_scan_progress, _gather_scan_context).
THEOREM CompletedCountsItsTasksCorrect == Spec => []CompletedCountsItsTasks
<1>1. IInv => CompletedCountsItsTasks
  BY DEF IInv, Answers
<1> QED
  BY <1>1, IInvCorrect, PTL

=============================================================================
