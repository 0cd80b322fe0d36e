SPECIFICATION Spec
CONSTANTS
  Worker = {w1, w2}
  Attempt = {a1, a2, a3}
  Thread = {t1}
  NoWorker = NoWorker
  LeaseTTL = 1
  MaxClock = 3
  Operations = {"create_attempt", "heartbeat", "claim", "release", "update_attempt", "accept", "reject", "follow_up_check", "follow_up", "start_task_attempt", "run_task_attempt", "end_run", "create_worktree", "manual_start"}
  AttemptTargets = {"cancelled", "retry_requested"}
  TaskTargets = {}
SYMMETRY Symmetry
CONSTRAINT SequentialBound
 
PROPERTIES FreshClaimOnly ClaimEndsByHolder FollowUpStandsAlone FreeTerminalStays
