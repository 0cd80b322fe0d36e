SPECIFICATION Spec
CONSTANTS
  Thread = {t1, t2}
  Providers = {"structured_stdout", "fake"}
  StatusTargets = {"cancelled", "failed", "running_model", "executing_tool"}
  MaxExecutions = 2
  MaxEvents = 2
  Faults = TRUE
  MaxRequests = 1
INVARIANTS TypeOK EffectsRecorded RunIsAttended
PROPERTIES OneOutcomePerCall StartedRunEnds
\* The bounds on requests and executions end the behaviour.
CHECK_DEADLOCK FALSE
