SPECIFICATION Spec
CONSTANTS
  r1 = r1
  r2 = r2
  r3 = r3
  Requests <- MCRequests
CHECK_DEADLOCK FALSE
INVARIANT GracefulShutdown
