--------------------------- MODULE MCWorkerQueue ----------------------------
(***************************************************************************)
(* Instances of WorkerQueue for TLC.  Attempts, runs and jobs are numbered *)
(* and a drain takes the oldest run: nothing may be permuted.              *)
(***************************************************************************)
EXTENDS WorkerQueue

\* The attempts are of one Task each, or all of the same.
OwnTask == [n \in Attempt |-> n]
OneTask == [n \in Attempt |-> 1]

=============================================================================
