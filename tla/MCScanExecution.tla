-------------------------- MODULE MCScanExecution --------------------------
(***************************************************************************)
(* Instances of ScanExecution for TLC.                                     *)
(***************************************************************************)
EXTENDS ScanRefinement, TLC

CONSTANTS t1, s1

\* One task that may be retried and, where there is a second, one that may not.
MixedRetries == [t \in Tasks |-> IF t = t1 THEN 1 ELSE 0]

\* Every task may be retried once.
OneRetry == [t \in Tasks |-> 1]

AnyEngine == CHOOSE e \in Engines : TRUE

\* All slots belong to one engine.
Together == [s \in Slots |-> AnyEngine]

\* Slot s1 has an engine of its own.
Apart == [s \in Slots |-> IF s = s1 THEN AnyEngine ELSE CHOOSE e \in Engines \ {AnyEngine} : TRUE]

\* Slots of one engine and requests are interchangeable; tasks are not.
Interchangeable == Permutations(Slots) \cup Permutations(Requests)

=============================================================================
