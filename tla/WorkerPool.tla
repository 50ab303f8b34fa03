----------------------------- MODULE WorkerPool -----------------------------
(***************************************************************************)
(* The pool of worker engines of one process: the manager that starts,     *)
(* adds, removes and stops engines, its monitor, the consumer loop and the *)
(* stop of each engine, and the handler of a termination signal.           *)
(*                                                                         *)
(* One event loop runs all of it, so a step goes from one await to the     *)
(* next.  How long an engine has been idle is left open.                   *)
(***************************************************************************)
EXTENDS Naturals, FiniteSets

CONSTANTS
  Engines,  \* names for the engines; one that is finished is used again
  Min, Max, \* min_workers, max_workers
  Slots,    \* WORKER_CONCURRENCY
  Depths,   \* queue depths the monitor may read
  Env       \* of "redis" (commands fail), "signal" (SIGTERM), "shutdown"
            \* (the manager's stop is called: Ctrl-C on Windows, or by the API)

ASSUME PoolAssumption ==
  /\ IsFiniteSet(Engines)
  /\ Min \in Nat \ {0} /\ Max \in Nat /\ Min <= Max
  /\ Max + (Max - Min) <= Cardinality(Engines)
  /\ Slots \in Nat \ {0}
  /\ Depths \subseteq Nat
  /\ Env \subseteq {"redis", "signal", "shutdown"}

VARIABLES
  engine,   \* the engines: see Engine below
  active,   \* active_engines
  monitor,  \* where the monitor is, with desired_workers and idle_engines
  phase,    \* how far the manager and the process are
  handler   \* the engine whose stop the signal handler calls

vars == <<engine, active, monitor, phase, handler>>

\* loop: at consume ("fetching"), at the semaphore ("waiting"), or past the loop;
\* tasks: size of _tasks; stop: where stop() is; by: who called it; waited: tasks
\* its gather still waits for; late: payloads fetched after it listed the tasks.
Engine ==
  [loop : {"none", "fetching", "waiting", "ended"}, running : BOOLEAN,
   tasks : 0..Slots, waited : 0..Slots, late : Nat,
   stop : {"none", "heartbeat", "delete", "gather", "done", "failed", "cancelled"},
   by : {"nobody", "monitor", "signal", "manager"}]

Unborn  == [loop |-> "none", running |-> FALSE, tasks |-> 0, waited |-> 0, late |-> 0,
            stop |-> "none", by |-> "nobody"]
Started == [Unborn EXCEPT !.loop = "fetching", !.running = TRUE]

Ending == {"heartbeat", "delete", "gather"}

\* An engine that is off the list and has nothing left to do is forgotten, and its
\* name is free for a new one.
Tidy(engines, list) ==
  [e \in Engines |->
     IF /\ e \notin list /\ engines[e].loop = "ended" /\ engines[e].tasks = 0
        /\ engines[e].stop \notin Ending
     THEN Unborn ELSE engines[e]]

Fresh(engines, list) == {e \in Engines \ list : engines[e].loop = "none"}

\* n of the names: which ones is of no importance.
Some(n, names) == CHOOSE chosen \in SUBSET names : Cardinality(chosen) = n

\* The monitor between two rounds, where its local variables are of no use.
Resting(place) == [at |-> place, desired |-> Min, idle |-> {}]

Lives == phase # "exited"

----------------------------------------------------------------------------
(* The consumer loop of an engine *)

\* The seeded defects (their names end in Bug) are used only to show that the
\* properties below are sensitive to the code; no specification uses them.
NoSemaphoreBug(running, tasks) == IF running THEN "fetching" ELSE "ended"

KeepFetchingBug(running, tasks) == IF tasks < Slots THEN "fetching" ELSE "waiting"

\* The head of the loop.  A free slot is taken without awaiting.
NextLoop(running, tasks) ==
  IF ~running THEN "ended" ELSE IF tasks < Slots THEN "fetching" ELSE "waiting"

\* consume returns a payload, and a coroutine is spawned for it.
Receive(e) ==
  /\ Lives /\ engine[e].loop = "fetching"
  /\ LET n == engine[e].tasks + 1 IN
     engine' = [engine EXCEPT ![e].tasks = n,
                              ![e].late = IF engine[e].stop \in {"none", "heartbeat", "delete"} THEN @ ELSE @ + 1,
                              ![e].loop = NextLoop(engine[e].running, n)]
  /\ UNCHANGED <<active, monitor, phase, handler>>

\* consume returns none; while the engine is running it is called again.
ReceiveNothing(e) ==
  /\ Lives /\ engine[e].loop = "fetching" /\ ~engine[e].running
  /\ engine' = Tidy([engine EXCEPT ![e].loop = NextLoop(FALSE, engine[e].tasks)], active)
  /\ UNCHANGED <<active, monitor, phase, handler>>

\* The semaphore is acquired after a wait.
GetSlot(e) ==
  /\ Lives /\ engine[e].loop = "waiting" /\ engine[e].tasks < Slots
  /\ engine' = Tidy([engine EXCEPT ![e].loop = NextLoop(engine[e].running, engine[e].tasks)], active)
  /\ UNCHANGED <<active, monitor, phase, handler>>

\* A coroutine ends: one that a gather waits for, or another.
Finish(e) ==
  /\ Lives
  /\ \/ /\ engine[e].waited > 0
        /\ engine' = Tidy([engine EXCEPT ![e].tasks = @ - 1, ![e].waited = @ - 1], active)
     \/ /\ engine[e].tasks > engine[e].waited
        /\ engine' = Tidy([engine EXCEPT ![e].tasks = @ - 1], active)
  /\ UNCHANGED <<active, monitor, phase, handler>>

----------------------------------------------------------------------------
(* The monitor *)

\* stop() up to its first await, for an engine that is running.  The wait for the
\* heartbeat's task differs from the next only if the caller may be cancelled.
BeginStop(state, who) ==
  [state EXCEPT !.running = FALSE, !.by = who,
                !.stop = IF who = "monitor" THEN "heartbeat" ELSE "delete"]

DesiredWorkers(depth) ==
  CASE depth >= 10000 -> 100
    [] depth \in 1000..9999 -> 50
    [] depth \in 100..999 -> 10
    [] depth \in 10..99 -> 5
    [] depth < 10 -> Min

Lesser(m, n) == IF m < n THEN m ELSE n

UnclampedBug(size, desired) == IF size < desired THEN Lesser(desired - size, Max) ELSE 0

FloorOnlyBug(size, desired) == IF size < desired /\ size < Min THEN Min - size ELSE 0

\* How many engines the policy adds.
ToAdd(size, desired) == IF size < desired THEN Lesser(desired - size, Max - size) ELSE 0

\* _scale_up, and on to the sleep.
Scale(engines, list, desired) ==
  LET new == Some(ToAdd(Cardinality(list), desired), Fresh(engines, list)) IN
  /\ engine' = [e \in Engines |-> IF e \in new THEN Started ELSE engines[e]]
  /\ active' = list \cup new
  /\ handler' = IF new = {} THEN handler ELSE CHOOSE e \in new : TRUE
  /\ monitor' = Resting("sleep")

IgnoreFloorBug(engines, list, idle, desired) ==
  \E dead \in SUBSET {e \in idle : ~engines[e].running} :
    LET rest == list \ dead
        left == idle \ dead
    IN /\ \/ \E e \in left :
               /\ engines[e].running
               /\ engine' = Tidy([engines EXCEPT ![e] = BeginStop(@, "monitor")], rest)
               /\ active' = rest /\ UNCHANGED handler
               /\ monitor' = [at |-> "stopping", desired |-> desired, idle |-> left]
          \/ left = {} /\ Scale(Tidy(engines, rest), rest, desired)

\* A round of the monitor from one of its awaits to the next, over the idle engines
\* that are left.  Those that are stopped already, or are being stopped by
\* somebody else, are taken off the list at once; the first that is running is
\* awaited.  The round ends in scaling up when none is left or the floor reached.
Round(engines, list, idle, desired) ==
  \E dead \in SUBSET {e \in idle : ~engines[e].running} :
    LET rest == list \ dead
        left == idle \ dead
    IN /\ dead = {} \/ Cardinality(rest) >= Min
       /\ \/ /\ Cardinality(rest) > Min
             /\ \E e \in left :
                  /\ engines[e].running
                  /\ engine' = Tidy([engines EXCEPT ![e] = BeginStop(@, "monitor")], rest)
             /\ active' = rest /\ UNCHANGED handler
             /\ monitor' = [at |-> "stopping", desired |-> desired, idle |-> left]
          \/ /\ left = {} \/ Cardinality(rest) <= Min
             /\ Scale(Tidy(engines, rest), rest, desired)

\* The depths are read, and the idle engines are determined; an engine with
\* tasks is not idle.  Names for the engines this round may add are a bound.
ReadDepth(depth) ==
  /\ Lives /\ monitor.at = "depth" /\ Cardinality(Fresh(engine, active)) >= Max - Min
  /\ \E idle \in SUBSET {e \in active : engine[e].tasks = 0} :
       Round(engine, active, idle, DesiredWorkers(depth))
  /\ UNCHANGED phase

ReadDepthFails ==
  /\ Lives /\ "redis" \in Env /\ monitor.at = "depth"
  /\ monitor' = Resting("sleep")
  /\ UNCHANGED <<engine, active, phase, handler>>

Wake ==
  /\ Lives /\ monitor.at = "sleep"
  /\ monitor' = Resting(IF phase = "running" THEN "depth" ELSE "ended")
  /\ UNCHANGED <<engine, active, phase, handler>>

----------------------------------------------------------------------------
(* The stop of an engine *)

\* The heartbeat's task has ended.
HeartbeatEnds(e) ==
  /\ Lives /\ engine[e].stop = "heartbeat"
  /\ engine' = [engine EXCEPT ![e].stop = "delete"]
  /\ UNCHANGED <<active, monitor, phase, handler>>

\* stop() returns.  If the monitor called it, the monitor takes the engine off the
\* list and goes on, or sleeps after an error if the manager has cleared the list.
Returns(e) ==
  LET engines == [engine EXCEPT ![e].stop = "done"] IN
  \/ /\ engine[e].by # "monitor"
     /\ engine' = Tidy(engines, active)
     /\ UNCHANGED <<active, monitor, handler>>
  \/ /\ engine[e].by = "monitor" /\ e \in active
     /\ Round(Tidy(engines, active \ {e}), active \ {e}, monitor.idle \ {e}, monitor.desired)
  \/ /\ engine[e].by = "monitor" /\ e \notin active
     /\ engine' = Tidy(engines, active)
     /\ monitor' = Resting("sleep")
     /\ UNCHANGED <<active, handler>>

StopWithoutGatherBug(e) ==
  /\ Lives /\ engine[e].stop = "delete"
  /\ Returns(e)
  /\ UNCHANGED phase

\* The heartbeat's key is deleted and the HTTP client closed; then the tasks of
\* this moment are gathered, if there are any.
KeyDeleted(e) ==
  /\ Lives /\ engine[e].stop = "delete"
  /\ \/ engine[e].tasks = 0 /\ Returns(e)
     \/ /\ engine[e].tasks > 0
        /\ engine' = [engine EXCEPT ![e].stop = "gather", ![e].waited = engine[e].tasks]
        /\ UNCHANGED <<active, monitor, handler>>
  /\ UNCHANGED phase

\* Redis fails; stop() raises before it closes or gathers anything, and the
\* monitor, if it called, sleeps after the error.  One such engine at a time is a
\* bound.
KeyNotDeleted(e) ==
  /\ Lives /\ "redis" \in Env /\ engine[e].stop = "delete"
  /\ \A d \in Engines : engine[d].stop # "failed"
  /\ engine' = Tidy([engine EXCEPT ![e].stop = "failed"], active)
  /\ monitor' = IF engine[e].by = "monitor" THEN Resting("sleep") ELSE monitor
  /\ UNCHANGED <<active, phase, handler>>

Gathered(e) ==
  /\ Lives /\ engine[e].stop = "gather" /\ engine[e].waited = 0
  /\ Returns(e)
  /\ UNCHANGED phase

\* SIGTERM or SIGINT: every engine that starts installs its own stop() as
\* the handler of the process.  One engine at a time stopped so is a bound.
Signal ==
  /\ Lives /\ "signal" \in Env
  /\ engine[handler].running /\ \A e \in Engines : engine[e].by # "signal"
  /\ engine' = [engine EXCEPT ![handler] = BeginStop(@, "signal")]
  /\ UNCHANGED <<active, monitor, phase, handler>>

----------------------------------------------------------------------------
(* The manager *)

Init ==
  /\ active = Some(Min, Engines)
  /\ engine = [e \in Engines |-> IF e \in active THEN Started ELSE Unborn]
  /\ handler = CHOOSE e \in active : TRUE
  /\ monitor = Resting("depth")
  /\ phase = "running"

\* What the cancellation of the monitor does to an engine it is stopping: a wait
\* for the heartbeat swallows it, a gather passes it on to the tasks.
Cancelled(state) ==
  IF state.by = "monitor" /\ state.stop \in {"delete", "gather"}
    THEN [state EXCEPT !.stop = "cancelled", !.tasks = @ - state.waited, !.waited = 0]
    ELSE state

CancelSwallowed == monitor.at = "stopping" /\
  \E e \in Engines : engine[e].by = "monitor" /\ engine[e].stop = "heartbeat"

\* What stop() of the manager does to an engine up to its first await.
StopEngine(state) == IF state.running THEN BeginStop(state, "manager") ELSE state

Shutdown ==
  /\ Lives /\ "shutdown" \in Env /\ phase = "running"
  /\ phase' = "stopping"
  /\ LET stopped == [e \in Engines |-> IF e \in active THEN StopEngine(engine[e]) ELSE engine[e]]
     IN engine' = [e \in Engines |-> Cancelled(stopped[e])]
  /\ monitor' = IF CancelSwallowed THEN monitor ELSE Resting("ended")
  /\ UNCHANGED <<active, handler>>

NoExceptionsBug ==
  /\ Lives /\ phase = "stopping"
  /\ \A e \in Engines : engine[e].by = "manager" => engine[e].stop = "done"
  /\ active' = {}
  /\ engine' = Tidy(engine, {})
  /\ phase' = "stopped"
  /\ UNCHANGED <<monitor, handler>>

\* Every stop() the manager waits for has returned or raised.
AllStopped ==
  /\ Lives /\ phase = "stopping"
  /\ \A e \in Engines : engine[e].by = "manager" => engine[e].stop \in {"done", "failed"}
  /\ active' = {}
  /\ engine' = Tidy(engine, {})
  /\ phase' = "stopped"
  /\ UNCHANGED <<monitor, handler>>

\* The process ends, and with it all that still runs in it.
Exit ==
  /\ Lives /\ phase = "stopped"
  /\ phase' = "exited"
  /\ engine' = [e \in Engines |-> Unborn]
  /\ monitor' = Resting("ended")
  /\ UNCHANGED <<active, handler>>

----------------------------------------------------------------------------

Consume(e) == ReceiveNothing(e) \/ Receive(e) \/ GetSlot(e)
Stop(e)    == HeartbeatEnds(e) \/ KeyDeleted(e) \/ KeyNotDeleted(e) \/ Gathered(e)
Monitor    == (\E depth \in Depths : ReadDepth(depth)) \/ ReadDepthFails \/ Wake
Manager    == Shutdown \/ AllStopped \/ Exit

Next ==
  \/ \E e \in Engines : Consume(e) \/ Finish(e) \/ Stop(e)
  \/ Signal \/ Monitor \/ Manager

Spec == Init /\ [][Next]_vars

\* The event loop runs whatever is ready, every await of a coroutine ends (each has
\* a timeout), and consume returns after a second.
Fairness ==
  /\ \A e \in Engines : WF_vars(Consume(e)) /\ WF_vars(Finish(e)) /\ WF_vars(Stop(e))
  /\ WF_vars(Monitor) /\ WF_vars(AllStopped) /\ WF_vars(Exit)

FairSpec == Spec /\ Fairness

----------------------------------------------------------------------------
(* Correctness *)

\* Type invariant.
TypeOK ==
  /\ engine \in [Engines -> Engine]
  /\ active \subseteq Engines /\ handler \in Engines
  /\ monitor.at \in {"depth", "stopping", "sleep", "ended"}
  /\ monitor.desired \in Nat /\ monitor.idle \subseteq Engines
  /\ phase \in {"running", "stopping", "stopped", "exited"}

\* The list of engines stays within its limits until the manager clears it,
\* whatever is stopped, by whom and in the middle of what.
PoolBounds == phase \in {"running", "stopping"} => Cardinality(active) \in Min..Max

\* Not counting engines that a signal or an error stopped, at least min_workers
\* engines go on working while the manager runs: one that the monitor is
\* stopping is one too many.
FloorKept ==
  phase = "running" =>
    Cardinality({e \in active : engine[e].by # "monitor" \/ engine[e].stop = "failed"}) >= Min

\* When stop() has listed the tasks to wait for, the engine takes at most one more
\* payload: that of the pending consume.
AtMostOneLate == \A e \in Engines : engine[e].late <= 1

\* When the monitor has taken an engine off the list, its coroutines have ended, that
\* payload's excepted: scaling down loses no other task, even one that came
\* after the engine was found idle.
RemovedHaveFinished ==
  \A e \in Engines \ active :
    phase = "running" /\ engine[e].by = "monitor" => engine[e].tasks <= engine[e].late

\* The manager's stop() returns.
StopReturns == phase = "stopping" ~> phase \in {"stopped", "exited"}

\* If the queue is found deep again and again, the pool reaches its full size, even
\* if Redis fails now and then and idle engines are stopped all the time.
GrowsUnderLoad ==
  \A depth \in {d \in Depths : DesiredWorkers(d) >= Max} :
    ([](phase = "running") /\ []<><<ReadDepth(depth)>>_vars) => <>(Cardinality(active) = Max)

=============================================================================
