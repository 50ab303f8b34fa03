-------------------------- MODULE WorkerPoolProofs --------------------------
(***************************************************************************)
(* Proofs about WorkerPool, for any limits, any number of slots, and any   *)
(* engines, depths and disturbances: the types, the limits of the list of  *)
(* engines, its floor, and what the stop of an engine leaves behind.       *)
(***************************************************************************)
EXTENDS WorkerPool, FiniteSetTheorems, TLAPS

----------------------------------------------------------------------------
(* The inductive invariant *)

\* What holds of every engine by itself
EngineOK(state) ==
  /\ state \in Engine
  /\ state.stop # "none" => ~state.running
  /\ state.stop = "none" <=> state.by = "nobody"
  /\ state.loop = "fetching" => state.tasks < Slots
  /\ state.waited <= state.tasks
  /\ state.late <= 1 /\ (state.loop # "ended" => state.late = 0)
  /\ state.stop = "gather" => state.tasks <= state.waited + state.late
  /\ state.stop = "done" => state.tasks <= state.late

EnginesOK(engines) == engines \in [Engines -> Engine] /\ \A e \in Engines : EngineOK(engines[e])

\* The monitor awaits the stop of this engine.
Awaited(state) == state.by = "monitor" /\ state.stop \in Ending

OneAwaited == \A d, e \in Engines : Awaited(engine[d]) /\ Awaited(engine[e]) => d = e
AwaitedByMonitor == \A e \in Engines : Awaited(engine[e]) => monitor.at = "stopping"

\* What has become of the engines that the monitor has begun to stop
Kept(state)    == state.by = "monitor" => Awaited(state) \/ state.stop = "failed"
Removed(state) == state.by = "monitor" => state.stop \in {"failed", "done"} /\ state.tasks <= state.late
Fates(engines, list) ==
  \A e \in Engines : IF e \in list THEN Kept(engines[e]) ELSE Removed(engines[e])

\* An idle engine that was stopped in vain before has taken no task since, but late.
IdleOK(engines, idle) ==
  \A e \in idle : engines[e].by = "monitor" /\ engines[e].stop = "failed"
                    => engines[e].tasks <= engines[e].late

\* While the monitor waits, it may still add engines, and remove the one it awaits.
Room == monitor.at = "stopping" =>
          /\ Cardinality(Fresh(engine, active)) >= Max - Min
          /\ active = {} \/ (Cardinality(active) > Min /\ monitor.idle \subseteq active)

Phases ==
  /\ phase \in {"stopped", "exited"} => active = {}
  /\ monitor.at = "depth" => phase = "running"

IInv ==
  /\ TypeOK /\ EnginesOK(engine) /\ OneAwaited /\ AwaitedByMonitor
  /\ (phase = "running" => Fates(engine, active))
  /\ IdleOK(engine, monitor.idle) /\ Room /\ PoolBounds /\ Phases

----------------------------------------------------------------------------
(* Sets of engines *)

\* A finite set has a subset of every smaller size.
LEMMA SomeExists ==
  ASSUME NEW S, IsFiniteSet(S), NEW n \in Nat, n <= Cardinality(S)
  PROVE  Some(n, S) \subseteq S /\ Cardinality(Some(n, S)) = n
<1>1. Cardinality(S) \in Nat /\ ExistsBijection(1..Cardinality(S), S)
  BY FS_CardinalityType
<1>2. PICK f : f \in Bijection(1..Cardinality(S), S)
  BY <1>1 DEF ExistsBijection
<1> DEFINE T == {f[i] : i \in 1..n}
           g == [i \in 1..n |-> f[i]]
<1>3. /\ f \in [1..Cardinality(S) -> S]
      /\ \A i, j \in 1..Cardinality(S) : f[i] = f[j] => i = j
  BY <1>2 DEF Bijection, Injection, IsInjective
<1>4. 1..n \subseteq 1..Cardinality(S)
  BY <1>1
<1>5. T \subseteq S
  BY <1>3, <1>4
<1>6. g \in Bijection(1..n, T)
  BY <1>3, <1>4 DEF Bijection, Injection, Surjection, IsInjective
<1>7. IsFiniteSet(1..n) /\ Cardinality(1..n) = n
  BY FS_Interval
<1>8. Cardinality(T) = n
  BY <1>6, <1>7, FS_Bijection DEF ExistsBijection
<1> QED
  BY <1>5, <1>8 DEF Some

LEMMA EnginesFinite ==
  /\ IsFiniteSet(Engines)
  /\ \A S \in SUBSET Engines : IsFiniteSet(S) /\ Cardinality(S) \in Nat
  /\ \A S \in SUBSET Engines : \A T \in SUBSET S : Cardinality(T) <= Cardinality(S)
<1>1. IsFiniteSet(Engines)
  BY PoolAssumption
<1>2. \A S \in SUBSET Engines : IsFiniteSet(S)
  BY <1>1, FS_Subset
<1> QED
  BY <1>1, <1>2, FS_Subset, FS_CardinalityType

LEMMA UnbornOK == EngineOK(Unborn) /\ EngineOK(Started) /\ Unborn.by = "nobody"
                  /\ Started.by = "nobody" /\ Unborn.loop = "none"
<1>1. 0 \in 0..Slots /\ 0 \in Nat /\ 0 < Slots
  BY PoolAssumption
<1>2. /\ Unborn \in Engine /\ Unborn.stop = "none" /\ Unborn.by = "nobody" /\ Unborn.loop = "none"
      /\ ~Unborn.running /\ Unborn.tasks = 0 /\ Unborn.waited = 0 /\ Unborn.late = 0
  BY <1>1 DEF Unborn, Engine
<1>3. /\ Started \in Engine /\ Started.stop = "none" /\ Started.by = "nobody"
      /\ Started.tasks = 0 /\ Started.waited = 0 /\ Started.late = 0
  BY <1>1 DEF Unborn, Started, Engine
<1> QED
  BY <1>1, <1>2, <1>3 DEF EngineOK

\* Forgetting an engine only frees its name.
LEMMA TidyOK ==
  ASSUME NEW engines, EnginesOK(engines), NEW list
  PROVE  /\ EnginesOK(Tidy(engines, list))
         /\ \A e \in Engines : \/ Tidy(engines, list)[e] = engines[e]
                               \/ e \notin list /\ Tidy(engines, list)[e] = Unborn
BY UnbornOK DEF Tidy, EnginesOK, EngineOK

----------------------------------------------------------------------------
(* Steps in which the monitor and the list of engines have no part *)

\* Such a step brings no engine nearer to the monitor's hands.
Unmoved(old, new) ==
  /\ old.loop = "none" => new.loop = "none"
  /\ new.by = "monitor" =>
       /\ old.by = "monitor"
       /\ new.stop = old.stop \/ {old.stop, new.stop} \subseteq Ending
       /\ new.stop \in {"failed", "done"} /\ old.tasks <= old.late => new.tasks <= new.late

LEMMA UnmovedOK ==
  ASSUME IInv, EnginesOK(engine'), \A e \in Engines : Unmoved(engine[e], engine'[e]),
         UNCHANGED <<active, monitor, phase>>, handler' = handler
  PROVE  IInv'
<1> USE DEF IInv, Unmoved
<1>1. TypeOK'
  BY DEF TypeOK, EnginesOK
<1>2. \A e \in Engines : Awaited(engine'[e]) => Awaited(engine[e])
  BY DEF Awaited, Ending
<1>3. OneAwaited' /\ AwaitedByMonitor'
  BY <1>2 DEF OneAwaited, AwaitedByMonitor
<1>4. (phase = "running" => Fates(engine, active))'
  BY DEF Fates, Kept, Removed, Awaited, Ending
<1>5. IdleOK(engine, monitor.idle)'
  BY DEF IdleOK, TypeOK, Ending
<1>6. Room'
  <2>1. Fresh(engine, active) \subseteq Fresh(engine', active') /\ Fresh(engine', active') \in SUBSET Engines
    BY DEF Fresh
  <2>2. Cardinality(Fresh(engine, active)) <= Cardinality(Fresh(engine', active'))
        /\ Cardinality(Fresh(engine, active)) \in Nat /\ Cardinality(Fresh(engine', active')) \in Nat
    BY <2>1, EnginesFinite
  <2> QED  BY <2>2, PoolAssumption DEF Room
<1>7. PoolBounds' /\ Phases'
  BY DEF PoolBounds, Phases
<1> QED
  BY <1>1, <1>3, <1>4, <1>5, <1>6, <1>7

\* One engine changes, and those that have finished are forgotten.
LEMMA OneChanges ==
  ASSUME IInv, NEW e \in Engines, NEW state, EngineOK(state), Unmoved(engine[e], state),
         UNCHANGED <<active, monitor, phase>>, handler' = handler,
         \/ engine' = [engine EXCEPT ![e] = state]
         \/ engine' = Tidy([engine EXCEPT ![e] = state], active)
  PROVE  IInv'
<1> DEFINE changed == [engine EXCEPT ![e] = state]
<1>1. EnginesOK(changed) /\ \A d \in Engines : changed[d] = IF d = e THEN state ELSE engine[d]
  BY DEF IInv, EnginesOK, EngineOK
<1>2. \A d \in Engines : Unmoved(engine[d], changed[d])
  BY <1>1 DEF Unmoved
<1>3. \A d \in Engines : Unmoved(engine[d], Unborn)
  BY UnbornOK DEF Unmoved
<1>0. engine' = changed \/ engine' = Tidy(changed, active)
  OBVIOUS
<1> HIDE DEF changed
<1>4. EnginesOK(engine') /\ \A d \in Engines : engine'[d] = changed[d] \/ engine'[d] = Unborn
  BY <1>0, <1>1, TidyOK
<1>5. \A d \in Engines : Unmoved(engine[d], engine'[d])
  BY <1>2, <1>3, <1>4
<1> QED
  BY <1>4, <1>5, UnmovedOK

LEMMA LoopStep ==
  ASSUME IInv, NEW e \in Engines, Consume(e) \/ Finish(e)
  PROVE  IInv'
<1> DEFINE s == engine[e]
<1> USE PoolAssumption DEF vars
<1>0. EngineOK(s) /\ s \in Engine
  BY DEF IInv, EnginesOK, EngineOK
<1>1. CASE Receive(e)
  <2> DEFINE n == s.tasks + 1
             new == [s EXCEPT !.tasks = n,
                              !.late = IF s.stop \in {"none", "heartbeat", "delete"} THEN @ ELSE @ + 1,
                              !.loop = NextLoop(s.running, n)]
  <2>1. s.loop = "fetching" /\ engine' = [engine EXCEPT ![e] = new]
    BY <1>1 DEF Receive, IInv, EnginesOK
  <2>2. EngineOK(new)
    <3>1. /\ s.tasks \in Nat /\ s.waited \in Nat /\ s.late = 0 /\ s.tasks < Slots
          /\ s.waited <= s.tasks /\ s.running \in BOOLEAN
      BY <1>0, <2>1 DEF EngineOK, Engine
    <3>2. /\ new.tasks = s.tasks + 1 /\ new.waited = s.waited /\ new.stop = s.stop /\ new.by = s.by
          /\ new.running = s.running /\ new.loop = NextLoop(s.running, s.tasks + 1)
          /\ new.late = IF s.stop \in {"none", "heartbeat", "delete"} THEN 0 ELSE 1
      BY <1>0, <3>1 DEF Engine
    <3>3. new \in Engine
      <4>1. s.tasks + 1 \in 0..Slots /\ NextLoop(s.running, s.tasks + 1) \in {"fetching", "waiting", "ended"}
        BY <3>1 DEF NextLoop
      <4>2. (IF s.stop \in {"none", "heartbeat", "delete"} THEN s.late ELSE s.late + 1) \in Nat
        BY <3>1
      <4>3. \A late \in Nat, tasks \in 0..Slots, loop \in {"fetching", "waiting", "ended"} :
              [s EXCEPT !.tasks = tasks, !.late = late, !.loop = loop] \in Engine
        BY <1>0 DEF Engine
      <4> QED  BY <4>1, <4>2, <4>3
    <3>4. s.running => s.stop = "none"
      BY <1>0 DEF EngineOK
    <3> QED  BY <1>0, <3>1, <3>2, <3>3, <3>4 DEF EngineOK, NextLoop
  <2>3. Unmoved(s, new)
    BY <1>0, <2>1 DEF EngineOK, Engine, Unmoved
  <2> QED  BY <1>1, <2>1, <2>2, <2>3, OneChanges DEF Receive
<1>2. CASE ReceiveNothing(e)
  <2> DEFINE new == [s EXCEPT !.loop = NextLoop(FALSE, s.tasks)]
  <2>1. engine' = Tidy([engine EXCEPT ![e] = new], active) /\ s.loop = "fetching"
    BY <1>2 DEF ReceiveNothing
  <2>2. EngineOK(new) /\ Unmoved(s, new)
    BY <1>0, <2>1 DEF EngineOK, Engine, NextLoop, Unmoved
  <2> QED  BY <1>2, <2>1, <2>2, OneChanges DEF ReceiveNothing
<1>3. CASE GetSlot(e)
  <2> DEFINE new == [s EXCEPT !.loop = NextLoop(s.running, s.tasks)]
  <2>1. engine' = Tidy([engine EXCEPT ![e] = new], active) /\ s.loop = "waiting"
    BY <1>3 DEF GetSlot
  <2>2. EngineOK(new) /\ Unmoved(s, new)
    BY <1>0, <2>1 DEF EngineOK, Engine, NextLoop, Unmoved
  <2> QED  BY <1>3, <2>1, <2>2, OneChanges DEF GetSlot
<1>4. CASE Finish(e)
  <2>1. CASE s.waited > 0 /\ engine' = Tidy([engine EXCEPT ![e].tasks = @ - 1, ![e].waited = @ - 1], active)
    <3> DEFINE new == [s EXCEPT !.tasks = @ - 1, !.waited = @ - 1]
    <3>1. engine' = Tidy([engine EXCEPT ![e] = new], active)
      BY <2>1 DEF IInv, EnginesOK
    <3>2. /\ s.tasks \in 0..Slots /\ s.waited \in 0..Slots /\ s.late \in Nat
          /\ s.waited <= s.tasks /\ s.waited > 0
      BY <1>0, <2>1 DEF EngineOK, Engine
    <3>3. s.tasks - 1 \in 0..Slots /\ s.waited - 1 \in 0..Slots
      BY <3>2
    <3>4. /\ new.tasks = s.tasks - 1 /\ new.waited = s.waited - 1 /\ new.stop = s.stop
          /\ new.by = s.by /\ new.running = s.running /\ new.loop = s.loop /\ new.late = s.late
          /\ new \in Engine
      BY <1>0, <3>3 DEF Engine
    <3>5. EngineOK(new) /\ Unmoved(s, new)
      BY <1>0, <3>2, <3>4 DEF EngineOK, Unmoved
    <3> QED  BY <1>4, <3>1, <3>5, OneChanges DEF Finish
  <2>2. CASE s.tasks > s.waited /\ engine' = Tidy([engine EXCEPT ![e].tasks = @ - 1], active)
    <3> DEFINE new == [s EXCEPT !.tasks = @ - 1]
    <3>1. engine' = Tidy([engine EXCEPT ![e] = new], active)
      BY <2>2
    <3>2. EngineOK(new) /\ Unmoved(s, new)
      BY <1>0, <2>2 DEF EngineOK, Engine, Unmoved
    <3> QED  BY <1>4, <3>1, <3>2, OneChanges DEF Finish
  <2> QED  BY <1>4, <2>1, <2>2 DEF Finish
<1> QED
  BY <1>1, <1>2, <1>3, <1>4 DEF Consume

----------------------------------------------------------------------------
(* Rounds of the monitor *)

LEMMA FreshGrows ==
  ASSUME NEW old, NEW new, NEW list, NEW rest, rest \subseteq list,
         \A e \in Engines \ list : old[e].loop = "none" => new[e].loop = "none"
  PROVE  Cardinality(Fresh(old, list)) <= Cardinality(Fresh(new, rest))
         /\ Cardinality(Fresh(old, list)) \in Nat /\ Cardinality(Fresh(new, rest)) \in Nat
<1>1. Fresh(old, list) \in SUBSET Fresh(new, rest) /\ Fresh(new, rest) \in SUBSET Engines
  BY DEF Fresh
<1> QED
  BY <1>1, EnginesFinite

\* The engines and the list are such that the monitor may go on.
Ready(engines, list) ==
  /\ EnginesOK(engines) /\ \A e \in Engines : ~Awaited(engines[e])
  /\ (phase = "running" => Fates(engines, list))
  /\ list \subseteq Engines /\ Cardinality(list) \in Min..Max
  /\ Cardinality(Fresh(engines, list)) >= Max - Min

LEMMA ToAddOK ==
  ASSUME NEW size \in Min..Max, NEW desired \in Nat
  PROVE  ToAdd(size, desired) \in 0..(Max - size)
BY PoolAssumption DEF ToAdd, Lesser

LEMMA ScaleOK ==
  ASSUME NEW engines, NEW list, NEW desired \in Nat, Ready(engines, list),
         Scale(engines, list, desired), handler \in Engines,
         phase \in {"running", "stopping"}, phase' = phase
  PROVE  IInv'
<1> DEFINE n == ToAdd(Cardinality(list), desired)
           new == Some(n, Fresh(engines, list))
<1> USE PoolAssumption
<1>1. n \in 0..(Max - Cardinality(list)) /\ Cardinality(list) \in Min..Max
  BY ToAddOK DEF Ready
<1>2. /\ Fresh(engines, list) \in SUBSET Engines
      /\ IsFiniteSet(Fresh(engines, list)) /\ Cardinality(Fresh(engines, list)) \in Nat
  BY EnginesFinite DEF Fresh
<1>3. n \in Nat /\ n <= Cardinality(Fresh(engines, list))
  BY <1>1, <1>2 DEF Ready
<1>4. new \subseteq Fresh(engines, list) /\ Cardinality(new) = n
  BY <1>2, <1>3, SomeExists
<1> HIDE DEF n, new
<1>5. /\ engine' = [e \in Engines |-> IF e \in new THEN Started ELSE engines[e]]
      /\ active' = list \cup new
      /\ handler' = IF new = {} THEN handler ELSE CHOOSE e \in new : TRUE
      /\ monitor' = Resting("sleep")
  BY DEF Scale, n, new
<1>6. new \subseteq Engines /\ list \subseteq Engines /\ new \cap list = {}
  BY <1>2, <1>4 DEF Fresh, Ready
<1>7. Cardinality(active') \in Min..Max
  <2>1. Cardinality(list \cup new) = Cardinality(list) + Cardinality(new) - Cardinality(list \cap new)
    BY <1>6, EnginesFinite, FS_Union
  <2>2. Cardinality(list \cap new) = 0
    BY <1>6, FS_EmptySet
  <2> QED  BY <1>1, <1>4, <1>5, <2>1, <2>2
<1>8. EnginesOK(engine')
  BY <1>5, UnbornOK DEF Ready, EnginesOK, EngineOK
<1>9. \A e \in Engines : ~Awaited(engine'[e])
  BY <1>5, UnbornOK DEF Ready, Awaited
<1>10. monitor'.at = "sleep" /\ monitor'.desired \in Nat /\ monitor'.idle = {}
  BY <1>5 DEF Resting
<1>11. TypeOK'
  <2>1. handler' \in Engines
    BY <1>5, <1>6
  <2> QED  BY <1>5, <1>6, <1>8, <1>10, <2>1 DEF TypeOK, EnginesOK
<1>12. (phase = "running" => Fates(engine, active))'
  BY <1>5, <1>6, UnbornOK DEF Ready, Fates, Kept, Removed, Awaited
<1>13. OneAwaited' /\ AwaitedByMonitor'
  BY <1>9 DEF OneAwaited, AwaitedByMonitor
<1>14. IdleOK(engine, monitor.idle)' /\ Room' /\ Phases' /\ PoolBounds'
  BY <1>7, <1>10 DEF IdleOK, Room, Phases, PoolBounds
<1> QED
  BY <1>8, <1>11, <1>12, <1>13, <1>14 DEF IInv

\* Engines that are stopped already are taken off the list.
LEMMA DeadRemoved ==
  ASSUME NEW engines, NEW list, Ready(engines, list), NEW dead \in SUBSET list,
         IdleOK(engines, dead), dead = {} \/ Cardinality(list \ dead) >= Min
  PROVE  Ready(engines, list \ dead)
<1> DEFINE rest == list \ dead
<1>1. rest \subseteq Engines /\ Cardinality(rest) \in Min..Max
  <2>1. rest \in SUBSET list /\ list \in SUBSET Engines
    BY DEF Ready
  <2>2. Cardinality(rest) \in Nat /\ Cardinality(rest) <= Cardinality(list)
    BY <2>1, EnginesFinite
  <2>3. Cardinality(list) \in Min..Max
    BY DEF Ready
  <2>4. CASE dead = {}
    <3>1. rest = list
      BY <2>4
    <3> QED  BY <2>1, <2>3, <3>1
  <2>5. CASE Cardinality(rest) >= Min
    BY <2>1, <2>2, <2>3, <2>5, PoolAssumption
  <2> QED  BY <2>4, <2>5
<1>2. phase = "running" => Fates(engines, rest)
  BY DEF Ready, Fates, Kept, Removed, IdleOK
<1>3. Cardinality(Fresh(engines, rest)) >= Max - Min
  <2>1. Cardinality(Fresh(engines, list)) <= Cardinality(Fresh(engines, rest))
        /\ Cardinality(Fresh(engines, list)) \in Nat /\ Cardinality(Fresh(engines, rest)) \in Nat
    BY FreshGrows
  <2> QED  BY <2>1, PoolAssumption DEF Ready
<1> QED
  BY <1>1, <1>2, <1>3 DEF Ready

LEMMA TidyReady ==
  ASSUME NEW engines, NEW list, Ready(engines, list)
  PROVE  Ready(Tidy(engines, list), list)
<1> DEFINE tidy == Tidy(engines, list)
<1>1. EnginesOK(tidy)
      /\ \A e \in Engines : tidy[e] = engines[e] \/ (e \notin list /\ tidy[e] = Unborn)
  BY TidyOK DEF Ready
<1> HIDE DEF tidy
<1>2. Cardinality(Fresh(engines, list)) <= Cardinality(Fresh(tidy, list))
      /\ Cardinality(Fresh(engines, list)) \in Nat /\ Cardinality(Fresh(tidy, list)) \in Nat
  BY <1>1, UnbornOK, FreshGrows
<1>3. \A e \in Engines : ~Awaited(tidy[e])
  BY <1>1, UnbornOK DEF Ready, Awaited
<1>4. phase = "running" => Fates(tidy, list)
  BY <1>1, UnbornOK DEF Ready, Fates, Kept, Removed, Awaited
<1>5. Cardinality(Fresh(tidy, list)) >= Max - Min
  BY <1>2, PoolAssumption DEF Ready
<1> QED
  BY <1>1, <1>3, <1>4, <1>5 DEF Ready, tidy

\* The monitor begins to stop an engine that is running.
LEMMA BeginStopOK ==
  ASSUME NEW engines, NEW list, NEW left \in SUBSET list, NEW e \in left, NEW desired \in Nat,
         Ready(engines, list), IdleOK(engines, left), engines[e].running,
         Cardinality(list) > Min,
         engine' = Tidy([engines EXCEPT ![e] = BeginStop(@, "monitor")], list),
         active' = list, handler' = handler, handler \in Engines,
         monitor' = [at |-> "stopping", desired |-> desired, idle |-> left],
         phase' = phase, phase = "running" \/ phase = "stopping"
  PROVE  IInv'
<1> DEFINE new == BeginStop(engines[e], "monitor")
           stopped == [engines EXCEPT ![e] = new]
<1>1. list \subseteq Engines /\ e \in Engines /\ e \in list /\ EnginesOK(engines)
      /\ engines \in [Engines -> Engine] /\ EngineOK(engines[e]) /\ engines[e] \in Engine
  BY DEF Ready, EnginesOK, EngineOK
<1>2. /\ new \in Engine /\ new.by = "monitor" /\ new.stop = "heartbeat" /\ ~new.running
      /\ new.loop = engines[e].loop /\ new.tasks = engines[e].tasks
      /\ new.waited = engines[e].waited /\ new.late = engines[e].late
  BY <1>1 DEF BeginStop, Engine
<1>3. EngineOK(new)
  BY <1>1, <1>2 DEF EngineOK
<1>4. EnginesOK(stopped) /\ \A d \in Engines : stopped[d] = IF d = e THEN new ELSE engines[d]
  BY <1>1, <1>2, <1>3 DEF EnginesOK
<1>0. engine' = Tidy(stopped, list)
  OBVIOUS
<1> HIDE DEF new, stopped
<1>5. EnginesOK(engine')
      /\ \A d \in Engines : \/ engine'[d] = IF d = e THEN new ELSE engines[d]
                            \/ d \notin list /\ engine'[d] = Unborn
  <2>1. /\ EnginesOK(Tidy(stopped, list))
        /\ \A d \in Engines : \/ Tidy(stopped, list)[d] = stopped[d]
                              \/ d \notin list /\ Tidy(stopped, list)[d] = Unborn
    BY <1>4, TidyOK
  <2> QED  BY <1>0, <1>4, <2>1
<1>6. \A d \in Engines : Awaited(engine'[d]) => d = e
  BY <1>5, UnbornOK DEF Ready, Awaited
<1>7. TypeOK'
  BY <1>1, <1>5 DEF TypeOK, EnginesOK
<1>8. OneAwaited' /\ AwaitedByMonitor'
  BY <1>6 DEF OneAwaited, AwaitedByMonitor
<1>9. Awaited(new)
  BY <1>2 DEF Awaited, Ending
<1>10. (phase = "running" => Fates(engine, active))'
  BY <1>1, <1>5, <1>9, UnbornOK DEF Ready, Fates, Kept, Removed
<1>11. IdleOK(engine, monitor.idle)'
  <2>1. monitor'.idle = left
    OBVIOUS
  <2>2. \A d \in left : engine'[d] = IF d = e THEN new ELSE engines[d]
    BY <1>1, <1>5
  <2>3. ASSUME NEW d \in left, engine'[d].by = "monitor", engine'[d].stop = "failed"
        PROVE  engine'[d].tasks <= engine'[d].late
    <3>1. d # e /\ engine'[d] = engines[d]
      BY <1>2, <2>2, <2>3
    <3> QED  BY <2>3, <3>1 DEF IdleOK
  <2> QED  BY <2>1, <2>3 DEF IdleOK
<1>12. Room'
  <2>1. \A d \in Engines \ list : engines[d].loop = "none" => engine'[d].loop = "none"
    BY <1>1, <1>5, UnbornOK
  <2>2. Cardinality(Fresh(engines, list)) <= Cardinality(Fresh(engine', list))
        /\ Cardinality(Fresh(engines, list)) \in Nat /\ Cardinality(Fresh(engine', list)) \in Nat
    BY <2>1, FreshGrows
  <2> QED  BY <2>2, PoolAssumption DEF Room, Ready
<1>13. PoolBounds' /\ Phases'
  BY DEF PoolBounds, Phases, Ready
<1> QED
  BY <1>5, <1>7, <1>8, <1>10, <1>11, <1>12, <1>13 DEF IInv

LEMMA RoundOK ==
  ASSUME NEW engines, NEW list, NEW idle \in SUBSET list, NEW desired \in Nat,
         Ready(engines, list), IdleOK(engines, idle), Round(engines, list, idle, desired),
         handler \in Engines, phase \in {"running", "stopping"}, phase' = phase
  PROVE  IInv'
<1>1. PICK dead \in SUBSET {e \in idle : ~engines[e].running} :
        LET rest == list \ dead
            left == idle \ dead
        IN /\ dead = {} \/ Cardinality(rest) >= Min
           /\ \/ /\ Cardinality(rest) > Min
                 /\ \E e \in left :
                      /\ engines[e].running
                      /\ engine' = Tidy([engines EXCEPT ![e] = BeginStop(@, "monitor")], rest)
                 /\ active' = rest /\ UNCHANGED handler
                 /\ monitor' = [at |-> "stopping", desired |-> desired, idle |-> left]
              \/ /\ left = {} \/ Cardinality(rest) <= Min
                 /\ Scale(Tidy(engines, rest), rest, desired)
  BY DEF Round
<1> DEFINE rest == list \ dead
           left == idle \ dead
<1>2. Ready(engines, rest) /\ IdleOK(engines, left) /\ left \in SUBSET rest
  <2>1. dead \in SUBSET list /\ IdleOK(engines, dead)
    BY DEF IdleOK
  <2> QED  BY <1>1, <2>1, DeadRemoved DEF IdleOK
<1>3. CASE Scale(Tidy(engines, rest), rest, desired)
  BY <1>2, <1>3, TidyReady, ScaleOK
<1>4. ASSUME NEW e \in left, engines[e].running, Cardinality(rest) > Min,
             engine' = Tidy([engines EXCEPT ![e] = BeginStop(@, "monitor")], rest),
             active' = rest, handler' = handler,
             monitor' = [at |-> "stopping", desired |-> desired, idle |-> left]
      PROVE  IInv'
  BY <1>2, <1>4, BeginStopOK
<1> QED
  BY <1>1, <1>3, <1>4

----------------------------------------------------------------------------
(* The other steps *)

LEMMA DesiredType == \A depth \in Depths : DesiredWorkers(depth) \in Nat
<1> SUFFICES ASSUME NEW depth \in Depths PROVE DesiredWorkers(depth) \in Nat
  OBVIOUS
<1>1. depth \in Nat /\ Min \in Nat
  BY PoolAssumption
<1>2. \/ depth >= 10000 \/ depth \in 1000..9999 \/ depth \in 100..999
      \/ depth \in 10..99 \/ depth < 10
  BY <1>1
<1>3. DesiredWorkers(depth) \in {100, 50, 10, 5, Min}
  BY <1>1, <1>2 DEF DesiredWorkers
<1> QED
  BY <1>1, <1>3

LEMMA MonitorStep ==
  ASSUME IInv, Monitor
  PROVE  IInv'
<1> USE DEF IInv
<1>1. ASSUME NEW depth \in Depths, ReadDepth(depth) PROVE IInv'
  <2>1. PICK idle \in SUBSET {e \in active : engine[e].tasks = 0} :
          Round(engine, active, idle, DesiredWorkers(depth))
    BY <1>1 DEF ReadDepth
  <2>2. monitor.at = "depth" /\ phase = "running" /\ phase' = phase
        /\ Cardinality(Fresh(engine, active)) >= Max - Min
    BY <1>1 DEF ReadDepth, Phases
  <2>3. Ready(engine, active)
    BY <2>2 DEF Ready, AwaitedByMonitor, TypeOK, PoolBounds
  <2>4. IdleOK(engine, idle)
    <3>1. \A e \in active : engine[e].late \in Nat
      BY DEF TypeOK, Engine
    <3> QED  BY <3>1 DEF IdleOK
  <2> QED
    BY <2>1, <2>2, <2>3, <2>4, DesiredType, RoundOK DEF TypeOK
<1>2. ASSUME monitor.at \in {"depth", "sleep"}, UNCHANGED <<engine, active, phase, handler>>,
             \/ monitor' = Resting("sleep")
             \/ monitor' = Resting(IF phase = "running" THEN "depth" ELSE "ended")
      PROVE  IInv'
  <2>1. /\ monitor'.at \in {"depth", "sleep", "ended"} /\ monitor'.idle = {} /\ monitor'.desired \in Nat
        /\ monitor'.at = "depth" => phase = "running"
    BY <1>2, PoolAssumption DEF Resting
  <2>2. \A e \in Engines : ~Awaited(engine[e])
    BY <1>2 DEF AwaitedByMonitor
  <2> QED
    BY <1>2, <2>1, <2>2
       DEF TypeOK, EnginesOK, OneAwaited, AwaitedByMonitor, Fates, Kept, Removed, Awaited, IdleOK,
           Room, PoolBounds, Phases
<1> QED
  BY <1>1, <1>2 DEF Monitor, ReadDepthFails, Wake

\* stop() fails and the monitor, which waited for it, sleeps.
LEMMA AwaitedFails ==
  ASSUME IInv, NEW e \in Engines, engine[e].by = "monitor", KeyNotDeleted(e)
  PROVE  IInv'
<1> DEFINE new == [engine[e] EXCEPT !.stop = "failed"]
           changed == [engine EXCEPT ![e] = new]
<1> USE DEF IInv
<1>1. engine' = Tidy(changed, active) /\ monitor' = Resting("sleep")
      /\ UNCHANGED <<active, phase, handler>> /\ engine[e].stop = "delete"
  BY DEF KeyNotDeleted
<1>2. Awaited(engine[e]) /\ EngineOK(engine[e]) /\ engine[e] \in Engine
  BY <1>1 DEF Awaited, Ending, EnginesOK, EngineOK
<1>3. new \in Engine /\ new.by = "monitor" /\ new.stop = "failed" /\ EngineOK(new)
  BY <1>1, <1>2 DEF Engine, EngineOK
<1>4. EnginesOK(changed) /\ \A d \in Engines : changed[d] = IF d = e THEN new ELSE engine[d]
  BY <1>3 DEF EnginesOK
<1> HIDE DEF new, changed
<1>5. EnginesOK(engine')
      /\ \A d \in Engines : engine'[d] = (IF d = e THEN new ELSE engine[d]) \/ engine'[d] = Unborn
  <2>1. EnginesOK(Tidy(changed, active))
        /\ \A d \in Engines : Tidy(changed, active)[d] = changed[d] \/ Tidy(changed, active)[d] = Unborn
    BY <1>4, TidyOK
  <2> QED  BY <1>1, <1>4, <2>1
<1>6. \A d \in Engines : ~Awaited(engine'[d])
  BY <1>2, <1>3, <1>5, UnbornOK DEF OneAwaited, Awaited, Ending
<1>7. monitor'.at = "sleep" /\ monitor'.idle = {} /\ monitor'.desired \in Nat
  BY <1>1, PoolAssumption DEF Resting
<1>8. (phase = "running" => Fates(engine, active))'
  <2>1. phase = "running" => e \in active
    BY <1>1, <1>2 DEF Fates, Removed
  <2> QED
    BY <1>1, <1>3, <1>5, <1>2, <2>1, UnbornOK DEF Fates, Kept, Removed, Awaited, OneAwaited
<1>9. TypeOK'
  BY <1>1, <1>5, <1>7 DEF TypeOK, EnginesOK
<1> QED
  BY <1>1, <1>5, <1>6, <1>7, <1>8, <1>9
     DEF OneAwaited, AwaitedByMonitor, IdleOK, Room, PoolBounds, Phases

\* stop() returns to the monitor, which goes on with its round, or sleeps if the
\* list has been cleared.
LEMMA AwaitedReturns ==
  ASSUME IInv, NEW e \in Engines, Awaited(engine[e]), Returns(e), phase' = phase,
         \/ engine[e].stop = "gather" /\ engine[e].waited = 0
         \/ engine[e].stop = "delete" /\ engine[e].tasks = 0
  PROVE  IInv'
<1> DEFINE new == [engine[e] EXCEPT !.stop = "done"]
           changed == [engine EXCEPT ![e] = new]
           rest == active \ {e}
<1> USE DEF IInv
<1>1. EngineOK(engine[e]) /\ engine[e] \in Engine /\ monitor.at = "stopping"
  BY DEF EnginesOK, AwaitedByMonitor, EngineOK
<1>2. new \in Engine /\ new.by = "monitor" /\ new.stop = "done" /\ new.loop = engine[e].loop
  BY <1>1 DEF Engine, Awaited
<1>3. EngineOK(new) /\ new.tasks <= new.late
  BY <1>1, <1>2 DEF Engine, EngineOK
<1>4. EnginesOK(changed) /\ \A d \in Engines : changed[d] = IF d = e THEN new ELSE engine[d]
  BY <1>3 DEF EnginesOK, EngineOK
<1>5. \/ /\ e \in active
         /\ Round(Tidy(changed, rest), rest, monitor.idle \ {e}, monitor.desired)
      \/ /\ e \notin active
         /\ engine' = Tidy(changed, active) /\ monitor' = Resting("sleep")
         /\ UNCHANGED <<active, handler>>
  BY DEF Returns, Awaited
<1> HIDE DEF new, changed
<1>6. \A d \in Engines : ~Awaited(changed[d])
  BY <1>2, <1>4 DEF OneAwaited, Awaited, Ending
<1>7. phase = "running" => Fates(changed, rest)
  BY <1>2, <1>3, <1>4 DEF Fates, Kept, Removed, Awaited, OneAwaited
<1>8. CASE e \in active
  <2>1. /\ active # {} /\ phase \in {"running", "stopping"} /\ monitor.idle \subseteq active
        /\ Cardinality(active) > Min /\ Cardinality(active) \in Min..Max /\ active \subseteq Engines
        /\ Cardinality(Fresh(engine, active)) >= Max - Min
    BY <1>1, <1>8 DEF Room, Phases, TypeOK, PoolBounds
  <2>2. Cardinality(rest) \in Min..Max
    <3>1. Cardinality(rest) = Cardinality(active) - 1
      BY <1>8, <2>1, EnginesFinite, FS_RemoveElement
    <3> QED  BY <2>1, <3>1, PoolAssumption
  <2>3. Cardinality(Fresh(changed, rest)) >= Max - Min
    <3>1. \A d \in Engines \ active : engine[d].loop = "none" => changed[d].loop = "none"
      BY <1>4, <1>8
    <3>2. Cardinality(Fresh(engine, active)) <= Cardinality(Fresh(changed, rest))
          /\ Cardinality(Fresh(engine, active)) \in Nat /\ Cardinality(Fresh(changed, rest)) \in Nat
      BY <3>1, FreshGrows
    <3> QED  BY <2>1, <3>2, PoolAssumption
  <2>4. Ready(changed, rest)
    BY <1>4, <1>6, <1>7, <2>1, <2>2, <2>3 DEF Ready
  <2>5. Ready(Tidy(changed, rest), rest)
    BY <2>4, TidyReady
  <2>6. IdleOK(Tidy(changed, rest), monitor.idle \ {e})
    <3>1. \A d \in monitor.idle \ {e} : Tidy(changed, rest)[d] = engine[d]
      BY <1>4, <2>1, TidyOK
    <3> QED  BY <3>1 DEF IdleOK
  <2> QED
    BY <1>5, <1>8, <2>1, <2>5, <2>6, RoundOK DEF TypeOK
<1>9. CASE e \notin active
  <2>1. /\ engine' = Tidy(changed, active) /\ monitor' = Resting("sleep")
        /\ UNCHANGED <<active, handler>> /\ rest = active
    BY <1>5, <1>9
  <2>2. EnginesOK(Tidy(changed, active))
        /\ \A d \in Engines : \/ Tidy(changed, active)[d] = changed[d]
                              \/ d \notin active /\ Tidy(changed, active)[d] = Unborn
    BY <1>4, TidyOK
  <2>3. \A d \in Engines : ~Awaited(engine'[d])
    BY <1>6, <2>1, <2>2, UnbornOK DEF Awaited
  <2>4. monitor'.at = "sleep" /\ monitor'.idle = {} /\ monitor'.desired \in Nat
    BY <2>1, PoolAssumption DEF Resting
  <2>5. (phase = "running" => Fates(engine, active))'
    BY <1>7, <2>1, <2>2, UnbornOK DEF Fates, Kept, Removed, Awaited
  <2>6. TypeOK'
    BY <2>1, <2>2, <2>4 DEF TypeOK, EnginesOK
  <2> QED
    BY <2>1, <2>2, <2>3, <2>4, <2>5, <2>6
       DEF OneAwaited, AwaitedByMonitor, IdleOK, Room, PoolBounds, Phases
<1> QED
  BY <1>8, <1>9

LEMMA StopStep ==
  ASSUME IInv, NEW e \in Engines, Stop(e)
  PROVE  IInv'
<1> DEFINE s == engine[e]
<1> USE PoolAssumption
<1>0. EngineOK(s) /\ s \in Engine /\ s.by \in {"nobody", "monitor", "signal", "manager"}
      /\ engine \in [Engines -> Engine]
  BY DEF IInv, EnginesOK, EngineOK, Engine
<1>1. CASE HeartbeatEnds(e)
  <2> DEFINE new == [s EXCEPT !.stop = "delete"]
  <2>1. s.stop = "heartbeat" /\ engine' = [engine EXCEPT ![e] = new]
    BY <1>1 DEF HeartbeatEnds
  <2>2. EngineOK(new) /\ Unmoved(s, new)
    BY <1>0, <2>1 DEF EngineOK, Engine, Unmoved, Ending
  <2> QED  BY <1>1, <2>1, <2>2, OneChanges DEF HeartbeatEnds
<1>2. CASE KeyNotDeleted(e) /\ s.by # "monitor"
  <2> DEFINE new == [s EXCEPT !.stop = "failed"]
  <2>1. /\ engine' = Tidy([engine EXCEPT ![e] = new], active)
        /\ s.stop = "delete" /\ UNCHANGED <<active, monitor, phase, handler>>
    BY <1>2 DEF KeyNotDeleted
  <2>2. EngineOK(new) /\ Unmoved(s, new)
    BY <1>0, <1>2, <2>1 DEF EngineOK, Engine, Unmoved
  <2> QED  BY <2>1, <2>2, OneChanges
<1>3. ASSUME s.stop \in Ending, s.by # "monitor", Returns(e), phase' = phase,
             \/ s.stop = "gather" /\ s.waited = 0
             \/ s.stop = "delete" /\ s.tasks = 0
      PROVE  IInv'
  <2> DEFINE new == [s EXCEPT !.stop = "done"]
  <2>1. engine' = Tidy([engine EXCEPT ![e] = new], active) /\ UNCHANGED <<active, monitor, handler>>
    BY <1>3 DEF Returns
  <2>2. EngineOK(new) /\ Unmoved(s, new)
    BY <1>0, <1>3 DEF EngineOK, Engine, Unmoved, Ending
  <2> QED  BY <1>3, <2>1, <2>2, OneChanges
<1>4. ASSUME s.stop \in Ending, Returns(e), phase' = phase,
             \/ s.stop = "gather" /\ s.waited = 0
             \/ s.stop = "delete" /\ s.tasks = 0
      PROVE  IInv'
  BY <1>3, <1>4, AwaitedReturns DEF Awaited
<1>5. CASE KeyDeleted(e)
  <2>1. CASE s.tasks = 0 /\ Returns(e)
    BY <1>4, <1>5, <2>1 DEF KeyDeleted, Ending
  <2>2. CASE /\ s.tasks > 0
             /\ engine' = [engine EXCEPT ![e].stop = "gather", ![e].waited = engine[e].tasks]
             /\ UNCHANGED <<active, monitor, handler>>
    <3> DEFINE new == [s EXCEPT !.stop = "gather", !.waited = s.tasks]
    <3>1. engine' = [engine EXCEPT ![e] = new] /\ s.stop = "delete" /\ phase' = phase
      BY <1>0, <1>5, <2>2 DEF KeyDeleted
    <3>2. s.tasks \in 0..Slots /\ s.late \in Nat
      BY <1>0 DEF Engine
    <3>3. /\ new \in Engine /\ new.stop = "gather" /\ new.waited = s.tasks /\ new.tasks = s.tasks
          /\ new.by = s.by /\ new.loop = s.loop /\ new.late = s.late /\ new.running = s.running
      BY <1>0, <3>2 DEF Engine
    <3>4. EngineOK(new) /\ Unmoved(s, new)
      BY <1>0, <3>1, <3>2, <3>3 DEF EngineOK, Unmoved, Ending
    <3> QED  BY <2>2, <3>1, <3>4, OneChanges
  <2> QED  BY <1>5, <2>1, <2>2 DEF KeyDeleted
<1>6. CASE Gathered(e)
  BY <1>4, <1>6 DEF Gathered, Ending
<1> QED
  BY <1>1, <1>2, <1>5, <1>6, AwaitedFails DEF Stop

LEMMA SignalStep ==
  ASSUME IInv, Signal
  PROVE  IInv'
<1> DEFINE s == engine[handler]
           new == BeginStop(s, "signal")
<1>1. handler \in Engines /\ s.running /\ engine' = [engine EXCEPT ![handler] = new]
      /\ UNCHANGED <<active, monitor, phase, handler>>
  BY DEF Signal, IInv, TypeOK
<1>2. EngineOK(s) /\ s \in Engine
  BY <1>1 DEF IInv, EnginesOK, EngineOK
<1>3. /\ new \in Engine /\ new.by = "signal" /\ new.stop = "delete" /\ ~new.running
      /\ new.loop = s.loop /\ new.tasks = s.tasks /\ new.waited = s.waited /\ new.late = s.late
  BY <1>2 DEF BeginStop, Engine
<1>4. EngineOK(new) /\ Unmoved(s, new)
  BY <1>2, <1>3 DEF EngineOK, Unmoved
<1> QED
  BY <1>1, <1>4, OneChanges

LEMMA ManagerStep ==
  ASSUME IInv, Manager
  PROVE  IInv'
<1> USE DEF IInv
<1>1. CASE Shutdown
  <2> DEFINE stopped == [e \in Engines |-> IF e \in active THEN StopEngine(engine[e]) ELSE engine[e]]
  <2>1. /\ engine' = [e \in Engines |-> Cancelled(stopped[e])] /\ phase' = "stopping"
        /\ monitor' = (IF CancelSwallowed THEN monitor ELSE Resting("ended"))
        /\ UNCHANGED <<active, handler>> /\ phase = "running"
    BY <1>1 DEF Shutdown
  <2>2. ASSUME NEW e \in Engines
        PROVE  /\ EngineOK(engine'[e]) /\ engine'[e].loop = engine[e].loop
               /\ engine'[e].by = "monitor" => engine[e].by = "monitor" /\ engine'[e].stop \in {engine[e].stop, "cancelled"}
               /\ Awaited(engine'[e]) => engine'[e].stop = "heartbeat"
               /\ engine'[e].by = "monitor" /\ engine'[e].stop = "failed" => engine'[e] = engine[e]
    <3> DEFINE s == engine[e]
               t == stopped[e]
    <3>1. EngineOK(s) /\ s \in Engine
      BY DEF EnginesOK, EngineOK
    <3>2. t = s \/ (s.running /\ t = BeginStop(s, "manager"))
      BY DEF StopEngine
    <3>3. CASE t = BeginStop(s, "manager") /\ s.running
      <4>1. /\ t \in Engine /\ t.by = "manager" /\ t.stop = "delete" /\ ~t.running
            /\ t.loop = s.loop /\ t.tasks = s.tasks /\ t.waited = s.waited /\ t.late = s.late
        BY <3>1, <3>3 DEF BeginStop, Engine
      <4>2. EngineOK(t)
        BY <3>1, <4>1 DEF EngineOK
      <4>3. engine'[e] = t
        BY <2>1, <4>1 DEF Cancelled
      <4> QED  BY <4>1, <4>2, <4>3 DEF Awaited
    <3>4. CASE t = s /\ ~(s.by = "monitor" /\ s.stop \in {"delete", "gather"})
      <4>1. engine'[e] = s
        BY <2>1, <3>4 DEF Cancelled
      <4> QED  BY <3>1, <3>4, <4>1 DEF Awaited, Ending
    <3>5. CASE t = s /\ s.by = "monitor" /\ s.stop \in {"delete", "gather"}
      <4> DEFINE new == [s EXCEPT !.stop = "cancelled", !.tasks = @ - s.waited, !.waited = 0]
      <4>1. engine'[e] = new
        BY <2>1, <3>5 DEF Cancelled
      <4>2. /\ s.tasks \in 0..Slots /\ s.waited \in 0..Slots /\ s.waited <= s.tasks
            /\ s.late \in Nat /\ Slots \in Nat
        BY <3>1, PoolAssumption DEF EngineOK, Engine
      <4>3. s.tasks - s.waited \in 0..Slots /\ 0 \in 0..Slots
        BY <4>2
      <4>4. /\ new \in Engine /\ new.stop = "cancelled" /\ new.tasks = s.tasks - s.waited
            /\ new.waited = 0 /\ new.by = s.by /\ new.loop = s.loop /\ new.late = s.late
            /\ new.running = s.running
        BY <3>1, <4>3 DEF Engine
      <4>5. EngineOK(new)
        BY <3>1, <3>5, <4>2, <4>4 DEF EngineOK
      <4> QED  BY <3>5, <4>1, <4>4, <4>5 DEF Awaited, Ending
    <3> QED  BY <3>2, <3>3, <3>4, <3>5
  <2>3. engine' \in [Engines -> Engine] /\ EnginesOK(engine')
    BY <2>1, <2>2 DEF EnginesOK, EngineOK
  <2>4. \A e \in Engines : Awaited(engine'[e]) => Awaited(engine[e]) /\ engine[e].stop = "heartbeat"
    BY <2>2 DEF Awaited, Ending
  <2>5. \A e \in Engines : Awaited(engine'[e]) => CancelSwallowed
    BY <2>4 DEF CancelSwallowed, AwaitedByMonitor, Awaited
  <2>6. OneAwaited' /\ AwaitedByMonitor'
    BY <2>1, <2>4, <2>5 DEF OneAwaited, AwaitedByMonitor
  <2>7. \/ monitor' = monitor
        \/ monitor'.at = "ended" /\ monitor'.idle = {} /\ monitor'.desired \in Nat
    BY <2>1, PoolAssumption DEF Resting
  <2>8. TypeOK'
    BY <2>1, <2>3, <2>7 DEF TypeOK
  <2>9. IdleOK(engine, monitor.idle)'
    <3>1. ASSUME monitor' = monitor, NEW e \in monitor.idle,
                 engine'[e].by = "monitor", engine'[e].stop = "failed"
          PROVE  engine'[e].tasks <= engine'[e].late
      <4>1. engine'[e] = engine[e]
        BY <2>2, <3>1 DEF TypeOK
      <4> QED  BY <3>1, <4>1 DEF IdleOK
    <3> QED  BY <2>7, <3>1 DEF IdleOK
  <2>10. Room'
    <3>1. Cardinality(Fresh(engine, active)) <= Cardinality(Fresh(engine', active'))
          /\ Cardinality(Fresh(engine, active)) \in Nat /\ Cardinality(Fresh(engine', active')) \in Nat
      BY <2>1, <2>2, FreshGrows
    <3> QED  BY <2>1, <2>7, <3>1, PoolAssumption DEF Room
  <2>11. PoolBounds' /\ Phases'
    <3>1. monitor.at # "depth" \/ monitor' # monitor
      BY <2>1 DEF CancelSwallowed, Resting
    <3>2. monitor'.at # "depth"
      BY <2>7, <3>1
    <3> QED  BY <2>1, <3>2 DEF PoolBounds, Phases
  <2> QED  BY <2>1, <2>3, <2>6, <2>8, <2>9, <2>10, <2>11
<1>2. CASE AllStopped
  <2>1. /\ engine' = Tidy(engine, {}) /\ active' = {} /\ phase' = "stopped"
        /\ UNCHANGED <<monitor, handler>> /\ phase = "stopping"
    BY <1>2 DEF AllStopped
  <2>2. EnginesOK(engine') /\ \A e \in Engines : engine'[e] = engine[e] \/ engine'[e] = Unborn
    BY <2>1, TidyOK
  <2>3. TypeOK'
    BY <2>1, <2>2 DEF TypeOK, EnginesOK
  <2>4. OneAwaited' /\ AwaitedByMonitor'
    BY <2>1, <2>2, UnbornOK DEF OneAwaited, AwaitedByMonitor, Awaited
  <2>5. IdleOK(engine, monitor.idle)'
    BY <2>1, <2>2, UnbornOK DEF IdleOK, TypeOK
  <2>6. Room'
    <3>1. \A e \in Engines : engine[e].loop = "none" => engine'[e].loop = "none"
      BY <2>2, UnbornOK
    <3>2. Cardinality(Fresh(engine, active)) <= Cardinality(Fresh(engine', active'))
          /\ Cardinality(Fresh(engine, active)) \in Nat /\ Cardinality(Fresh(engine', active')) \in Nat
      BY <2>1, <3>1, FreshGrows
    <3> QED  BY <2>1, <3>2, PoolAssumption DEF Room
  <2>7. PoolBounds' /\ Phases'
    BY <2>1 DEF PoolBounds, Phases
  <2> QED  BY <2>1, <2>2, <2>3, <2>4, <2>5, <2>6, <2>7
<1>3. CASE Exit
  <2>1. /\ engine' = [e \in Engines |-> Unborn] /\ phase' = "exited" /\ monitor' = Resting("ended")
        /\ UNCHANGED <<active, handler>> /\ phase = "stopped"
    BY <1>3 DEF Exit
  <2>2. EnginesOK(engine') /\ \A e \in Engines : ~Awaited(engine'[e])
    BY <2>1, UnbornOK DEF EnginesOK, EngineOK, Awaited
  <2>3. monitor'.at = "ended" /\ monitor'.idle = {} /\ monitor'.desired \in Nat
    BY <2>1, PoolAssumption DEF Resting
  <2>4. TypeOK'
    BY <2>1, <2>2, <2>3 DEF TypeOK, EnginesOK
  <2> QED
    BY <2>1, <2>2, <2>3, <2>4 DEF OneAwaited, AwaitedByMonitor, IdleOK, Room, PoolBounds, Phases
<1> QED
  BY <1>1, <1>2, <1>3 DEF Manager

----------------------------------------------------------------------------

LEMMA IInvInit == Init => IInv
<1> SUFFICES ASSUME Init PROVE IInv
  OBVIOUS
<1> USE PoolAssumption
<1>1. active \subseteq Engines /\ Cardinality(active) = Min
  <2>1. Cardinality(Engines) \in Nat /\ Min <= Cardinality(Engines)
    BY EnginesFinite
  <2> QED  BY <2>1, SomeExists DEF Init
<1>2. handler \in active
  <2>1. active # {}
    BY <1>1, FS_EmptySet
  <2> QED  BY <2>1 DEF Init
<1>3. engine = [e \in Engines |-> IF e \in active THEN Started ELSE Unborn]
      /\ monitor = Resting("depth") /\ phase = "running"
  BY DEF Init
<1>4. EnginesOK(engine) /\ \A e \in Engines : engine[e].by = "nobody"
  BY <1>3, UnbornOK DEF EnginesOK, EngineOK
<1>5. monitor.at = "depth" /\ monitor.idle = {} /\ monitor.desired \in Nat
  BY <1>3 DEF Resting
<1>6. TypeOK
  BY <1>1, <1>2, <1>3, <1>4, <1>5 DEF TypeOK, EnginesOK
<1> QED
  BY <1>1, <1>3, <1>4, <1>5, <1>6
     DEF IInv, OneAwaited, AwaitedByMonitor, Awaited, Fates, Kept, Removed, IdleOK, Room, PoolBounds,
         Phases

LEMMA IInvStep == IInv /\ [Next]_vars => IInv'
<1> SUFFICES ASSUME IInv, [Next]_vars PROVE IInv'
  OBVIOUS
<1>1. CASE UNCHANGED vars
  <2>1. UNCHANGED <<engine, active, monitor, phase, handler>>
    BY <1>1 DEF vars
  <2> QED
    BY <2>1 DEF IInv, TypeOK, EnginesOK, OneAwaited, AwaitedByMonitor, Fates, IdleOK, Room, Fresh,
                PoolBounds, Phases
<1> QED
  BY <1>1, LoopStep, StopStep, SignalStep, MonitorStep, ManagerStep DEF Next

LEMMA IInvCorrect == Spec => []IInv
<1> QED
  BY IInvInit, IInvStep, PTL DEF Spec

----------------------------------------------------------------------------

\* The engines, the list, the monitor and the handler have their types: among
\* them that no engine has more than WORKER_CONCURRENCY tasks in hand (start).
THEOREM PoolTypeCorrect == Spec => []TypeOK
<1>1. IInv => TypeOK
  BY DEF IInv
<1> QED
  BY <1>1, IInvCorrect, PTL

\* The list of engines stays between min_workers and max_workers, whoever stops
\* engines in the middle of a round (_monitor_loop, _scale_up, ScalingPolicy).
THEOREM PoolBoundsCorrect == Spec => []PoolBounds
<1>1. IInv => PoolBounds
  BY DEF IInv
<1> QED
  BY <1>1, IInvCorrect, PTL

\* At least min_workers engines are not being stopped by the monitor: it awaits
\* one at a time, and only above the floor (_monitor_loop).
THEOREM FloorKeptCorrect == Spec => []FloorKept
<1>1. ASSUME IInv PROVE FloorKept
  <2> USE <1>1 DEF IInv
  <2> DEFINE works == {e \in active : engine[e].by # "monitor" \/ engine[e].stop = "failed"}
  <2>1. SUFFICES ASSUME phase = "running" PROVE Cardinality(works) >= Min
    BY DEF FloorKept
  <2>2. active \subseteq Engines /\ Cardinality(active) \in Min..Max
    BY <2>1 DEF TypeOK, PoolBounds
  <2>3. CASE \A e \in active : ~Awaited(engine[e])
    <3>1. works = active
      BY <2>1, <2>2, <2>3 DEF Fates, Kept
    <3> QED  BY <2>2, <3>1
  <2>4. ASSUME NEW x \in active, Awaited(engine[x]) PROVE Cardinality(works) >= Min
    <3>1. active \ {x} \subseteq works
      BY <2>1, <2>2, <2>4 DEF Fates, Kept, OneAwaited
    <3>2. Cardinality(active \ {x}) = Cardinality(active) - 1
      BY <2>2, EnginesFinite, FS_RemoveElement
    <3>3. Cardinality(active) > Min
      BY <2>2, <2>4 DEF AwaitedByMonitor, Room
    <3>4. active \ {x} \in SUBSET works /\ works \in SUBSET Engines
      BY <2>2, <3>1
    <3>5. Cardinality(active \ {x}) <= Cardinality(works) /\ Cardinality(works) \in Nat
      BY <3>4, EnginesFinite
    <3> QED  BY <2>2, <3>2, <3>3, <3>5, PoolAssumption
  <2> QED  BY <2>3, <2>4
<1> QED
  BY <1>1, IInvCorrect, PTL

\* A stopping engine takes at most one payload after its stop has listed the tasks
\* to wait for: that of the consume it was in (start, stop).
THEOREM AtMostOneLateCorrect == Spec => []AtMostOneLate
<1>1. IInv => AtMostOneLate
  BY DEF IInv, EnginesOK, EngineOK, AtMostOneLate
<1> QED
  BY <1>1, IInvCorrect, PTL

\* What the monitor has taken off the list has no task left but a late one
\* (_monitor_loop, stop).
THEOREM RemovedHaveFinishedCorrect == Spec => []RemovedHaveFinished
<1>1. IInv => RemovedHaveFinished
  BY DEF IInv, Fates, Removed, RemovedHaveFinished
<1> QED
  BY <1>1, IInvCorrect, PTL

=============================================================================
