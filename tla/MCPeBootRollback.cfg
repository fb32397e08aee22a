SPECIFICATION Spec
CONSTANTS
    MaxTasks = 2
    MaxFaults = 1
    MaxCrashes = 0
INVARIANTS RollbackRetryable
CHECK_DEADLOCK FALSE
