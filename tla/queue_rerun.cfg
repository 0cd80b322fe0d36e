SPECIFICATION Spec
CONSTANTS
  Task = {1}
  TaskOf <- OneTask
  MaxJobs = 2
  Thread = {t1}
  StaleTimeout = 2
  LeaseTTL = 1
  Endpoints = {"fail", "cancel", "worktree", "manual_worktree", "manual_start", "manual_submit", "mock", "dry_run", "antigravity"}
  Adapters = {"mock", "agy", "manual"}
  MaxAttempts = 2
  MaxRuns = 2
  MaxRequests = 4
PROPERTY FinishedRunsStay
\* The bounds on requests, attempts and runs end the behaviour.
CHECK_DEADLOCK FALSE
