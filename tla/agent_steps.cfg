SPECIFICATION Spec
CONSTANTS
  Thread = {t1}
  Providers = {"structured_stdout"}
  StatusTargets = {"cancelled"}
  MaxExecutions = 1
  MaxEvents = 2
  Faults = FALSE
  MaxRequests = 0
INVARIANT LoggedResultsAreRecorded
\* The bounds on requests and executions end the behaviour.
CHECK_DEADLOCK FALSE
