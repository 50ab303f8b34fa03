--------------------------- MODULE ScanRefinement ---------------------------
(***************************************************************************)
(* ScanExecution implements TaskDelivery when one consumer serves the      *)
(* delayed set.                                                            *)
(***************************************************************************)
EXTENDS ScanInvariant

\* A coroutine that has recorded the success of its task is done with it.
Live(t) ==
  \/ \E r \in Requests : request[r] = "stored" /\ t \in batch[r]
  \/ \E p \in InQueue : p.task = t
  \/ \E s \in Busy : JobTask(s) = t /\ ~Recorded(s)

Buried(t) == \E p \in dlq : p.task = t

\* No submission has stored t or given it up.
NotStored(t) == \A r \in Requests : t \in batch[r] => request[r] \in {"idle", "loaded", "started"}

FateOf(t) ==
  CASE taskStatus[t] = "SUCCESS" -> "done"
    [] taskStatus[t] # "SUCCESS" /\ Buried(t) -> "dead"
    [] taskStatus[t] # "SUCCESS" /\ ~Buried(t) /\ Live(t) -> "held"
    [] taskStatus[t] # "SUCCESS" /\ ~Buried(t) /\ ~Live(t) /\ NotStored(t) -> "absent"
    [] OTHER -> "gone"

Fate == [t \in Tasks |-> FateOf(t)]

Delivery == INSTANCE TaskDelivery WITH
  fate <- Fate, Budget <- [t \in Tasks |-> MaxRetries[t] + 1]

\* A task moves only from absent to held to done or dead, whatever fails it is
\* lost at most once and never comes back, and only a held task is sent to its
\* target: the queue and the engine together keep the promise of TaskDelivery.
ImplementsDelivery == Delivery!Spec

=============================================================================
