SPECIFICATION Spec
CONSTANTS
  Worker = {w1}
  Attempt = {a1}
  Thread = {t1}
  NoWorker = NoWorker
  LeaseTTL = 1
  MaxClock = 2
  Operations = {"create_attempt", "claim", "create_worktree", "commit_result", "squash"}
  AttemptTargets = {}
  TaskTargets = {}
PROPERTY TerminalAttemptStays
