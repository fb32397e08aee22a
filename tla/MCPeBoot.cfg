SPECIFICATION Spec
CONSTANTS
    MaxTasks = 3
    MaxFaults = 2
    MaxCrashes = 2
CHECK_DEADLOCK FALSE
INVARIANTS EntryComplete LatestTaskBoots CommittedBoots
