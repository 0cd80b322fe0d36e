---------------------------- MODULE MCWorkClaims ----------------------------
(***************************************************************************)
(* Instances of WorkClaims for TLC.  Workers, attempts and threads are     *)
(* interchangeable, so the runs that check only safety may identify states *)
(* that differ by a permutation of them.                                   *)
(***************************************************************************)
EXTENDS WorkClaims, FiniteSets, TLC

Symmetry == Permutations(Worker) \union Permutations(Attempt) \union Permutations(Thread)

WithRun == {a \in Attempt : toolRun[a] # "none"} \union manualRun \union assigned
WithWorktree == {a \in Attempt : worktree[a] # "none"}

\* Bound: one attempt out of two has a worktree or WorkerRuns, of one kind, until
\* time 2 and as long as no worker is revoked.
SequentialBound ==
  LET used == WithRun \union WithWorktree
  IN  used # {} => /\ Cardinality(used) = 1 /\ Cardinality(Attempts) <= 2
                   /\ manualRun = {} \/ assigned = {}
                   /\ clock <= 2 /\ revoked = {}

\* Bound: WorkerRuns as long as no worker is revoked, and worker.start_task_attempt
\* before there is a worktree.
ConcurrentBound ==
  /\ WithRun # {} => revoked = {}
  /\ assigned # {} => WithWorktree = {} /\ task \in {"draft", "running"}

=============================================================================
