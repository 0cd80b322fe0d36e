SPECIFICATION Spec
CONSTANTS
  Task = {1, 2}
  TaskOf <- OwnTask
  MaxJobs = 2
  Thread = {t1}
  StaleTimeout = 2
  LeaseTTL = 1
  Endpoints = {"fail", "cancel", "worktree", "manual_worktree", "manual_start", "manual_submit", "mock", "dry_run", "antigravity"}
  Adapters = {"mock", "agy", "manual"}
  MaxAttempts = 2
  MaxRuns = 2
  MaxRequests = 5
INVARIANTS TypeOK OneRunningPerWorker
PROPERTIES ImplementsWorkerSlot RunningEnds
\* The bounds on requests, attempts and runs end the behaviour.
CHECK_DEADLOCK FALSE
