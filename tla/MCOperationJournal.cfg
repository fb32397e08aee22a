SPECIFICATION Spec
CONSTANTS
  N = 3
  Idempotent <- MCIdempotent
  MaxAttempts = 3
  MaxRevision = 8
  MaxFaults = 4
CHECK_DEADLOCK FALSE
INVARIANTS ObservedIsDurable NonIdempotentOnce SaveNeverRefused
PROPERTIES DurableProgress
