SPECIFICATION Spec
CONSTANTS
  Worker = {w1, w2}
  Attempt = {a1}
  Thread = {t1, t2}
  NoWorker = NoWorker
  LeaseTTL = 1
  MaxClock = 2
  Operations = {"create_attempt", "claim", "release"}
  AttemptTargets = {}
  TaskTargets = {}
PROPERTY ClaimEndsByHolder
