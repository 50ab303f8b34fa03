---------------------------- MODULE MCWorkerPool ----------------------------
(***************************************************************************)
(* WorkerPool for TLC.                                                     *)
(***************************************************************************)
EXTENDS WorkerPool

CONSTANTS e1, e2, e3

=============================================================================
