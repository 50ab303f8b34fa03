---------------------------- MODULE TaskDelivery ----------------------------
(***************************************************************************)
(* What the queue and the worker promise about each task, without queues   *)
(* or workers: it is delivered for a bounded number of attempts, it ends   *)
(* successful or in the dead letter queue or is lost, and it ends once.    *)
(***************************************************************************)
EXTENDS Naturals

CONSTANTS
  Tasks,
  Budget        \* how often the target of a task may be called

VARIABLES
  fate,         \* absent, held, done, dead or gone
  calls         \* requests sent to the target

vars == <<fate, calls>>

In(where) == {t \in Tasks : fate[t] = where}

Become(T, where) == fate' = [t \in Tasks |-> IF t \in T THEN where ELSE fate[t]]

Init ==
  /\ fate = [t \in Tasks |-> "absent"]
  /\ calls = [t \in Tasks |-> 0]

\* A submission brings its tasks into circulation together.
Submit == \E T \in SUBSET In("absent") : Become(T, "held") /\ UNCHANGED calls

\* An attempt, of a task in circulation only.
Attempt ==
  /\ \E t \in In("held") : calls[t] < Budget[t] /\ calls' = [calls EXCEPT ![t] = @ + 1]
  /\ UNCHANGED fate

Succeed == \E t \in In("held") : Become({t}, "done") /\ UNCHANGED calls

Bury == \E t \in In("held") : Become({t}, "dead") /\ UNCHANGED calls

\* A fault loses tasks on their way.
Lose == \E T \in SUBSET (In("absent") \cup In("held")) : Become(T, "gone") /\ UNCHANGED calls

\* The results are deleted; tasks on their way and dead letters stay.
Erase == Become(In("done"), "gone") /\ UNCHANGED calls

Next == Submit \/ Attempt \/ Succeed \/ Bury \/ Lose \/ Erase

Spec == Init /\ [][Next]_vars

=============================================================================
