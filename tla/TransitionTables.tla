------------------------- MODULE TransitionTables -------------------------
(***************************************************************************)
(* The status vocabularies of db/models.py and the transition maps of      *)
(* state_transitions.py, as functions from a status to the set of statuses *)
(* it may be followed by.  A status is the string the enum stores.         *)
(***************************************************************************)

TaskStatus == {"draft", "ready", "queued", "running", "waiting_for_review",
               "changes_requested", "completed", "blocked", "cancelled", "failed"}

AttemptStatus == {"created", "queued_worker", "preparing_worktree", "running_worker",
                  "waiting_for_commit", "committed", "worker_failed", "reviewing",
                  "accepted", "rejected", "retry_requested", "merge_ready", "merged",
                  "abandoned", "cancelled", "failed"}

WorkerStatus == {"available", "claimed", "running", "heartbeat_lost", "expired",
                 "released", "completed", "cancelled", "failed", "revoked"}

-----------------------------------------------------------------------------

TaskTransitions ==
  [s \in TaskStatus |->
     CASE s = "draft"              -> {"ready", "queued", "running", "cancelled"}
       [] s = "ready"              -> {"queued", "running", "cancelled"}
       [] s = "queued"             -> {"running", "blocked", "failed", "cancelled"}
       [] s = "running"            -> {"waiting_for_review", "blocked", "failed",
                                       "cancelled"}
       [] s = "waiting_for_review" -> {"changes_requested", "completed"}
       [] s = "changes_requested"  -> {"queued", "running", "cancelled"}
       [] s = "blocked"            -> {"queued", "running", "failed", "cancelled"}
       [] OTHER                    -> {}]

AttemptTransitions ==
  LET Abort == {"worker_failed", "failed", "cancelled"}
  IN  [s \in AttemptStatus |->
         CASE s = "created"            -> Abort \union {"queued_worker",
                                            "preparing_worktree", "running_worker"}
           [] s = "queued_worker"      -> Abort \union {"running_worker"}
           [] s = "preparing_worktree" -> Abort \union {"running_worker"}
           [] s = "running_worker"     -> Abort \union {"waiting_for_commit", "committed"}
           [] s = "waiting_for_commit" -> Abort \union {"committed"}
           [] s = "committed"          -> {"reviewing", "accepted", "rejected",
                                           "merge_ready", "merged"}
           [] s = "reviewing"          -> {"accepted", "rejected", "failed"}
           [] s = "accepted"           -> {"merge_ready", "merged"}
           [] s = "rejected"           -> {"retry_requested", "abandoned"}
           [] s = "retry_requested"    -> {"preparing_worktree", "running_worker",
                                           "cancelled", "abandoned"}
           [] s = "merge_ready"        -> {"merged"}
           [] s = "worker_failed"      -> {"retry_requested", "cancelled", "abandoned"}
           [] s = "failed"             -> {"retry_requested", "abandoned"}
           [] OTHER                    -> {}]

(***************************************************************************)
(* What the generic status endpoints allow: the Task map without the two   *)
(* edges that only the commit and merge services may take, and a narrow    *)
(* map of its own for TaskAttempts.                                        *)
(***************************************************************************)
PublicTaskTransitions ==
  [s \in TaskStatus |->
     TaskTransitions[s] \ (CASE s = "running"            -> {"waiting_for_review"}
                             [] s = "waiting_for_review" -> {"completed"}
                             [] OTHER                    -> {})]

PublicAttemptTransitions ==
  LET Abort == {"worker_failed", "failed", "cancelled"}
  IN  [s \in AttemptStatus |->
         CASE s \in {"created", "queued_worker", "preparing_worktree",
                     "waiting_for_commit"} -> Abort
           [] s = "running_worker" -> Abort \union {"waiting_for_commit"}
           [] s = "worker_failed"  -> {"retry_requested", "cancelled", "abandoned"}
           [] s = "failed"         -> {"retry_requested", "abandoned"}
           [] s = "rejected"       -> {"retry_requested"}
           [] OTHER                -> {}]

\* assert_allowed_transition: repeating the current status is a no-op, not an error.
Allowed(transitions, current, target) ==
  current = target \/ target \in transitions[current]

=============================================================================
