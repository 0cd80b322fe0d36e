SPECIFICATION Spec
CONSTANTS
  Worker = {w1, w2}
  Attempt = {a1}
  Thread = {t1, t2}
  NoWorker = NoWorker
  LeaseTTL = 1
  MaxClock = 2
  Operations = {"create_attempt", "heartbeat", "claim", "release", "create_worktree", "commit_result", "update_task", "review_reject", "squash", "start_task_attempt"}
  AttemptTargets = {}
  TaskTargets = {"waiting_for_review", "completed"}
SYMMETRY Symmetry
CONSTRAINT ConcurrentBound
INVARIANTS TypeOK LeaseBounded ClaimIffLeased ProtectedStatusHasResult
PROPERTIES LeaseHonoured ImplementsContract
