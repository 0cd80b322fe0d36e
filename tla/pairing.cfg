SPECIFICATION Spec
CONSTANTS
  Thread = {t1, t2}
  Code = {c1, c2}
  CodeTTL = 1
  IdleTTL = 2
  AbsoluteTTL = 3
  MaxTime = 5
INVARIANTS TypeOK UsedCodeHasOneSession OneLocalUser RevokedDeviceHasNoSession SessionWithinCode
PROPERTIES RevokedSessionStays SessionsEnd
\* Nobody has to send a request, and the clock is bounded.
CHECK_DEADLOCK FALSE
