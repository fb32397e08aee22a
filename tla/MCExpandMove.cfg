SPECIFICATION ExpandSpec
CHECK_DEADLOCK FALSE
CONSTANTS
    disk_size_bytes = 12
    Content <- MCContent
    Kind <- MCKind
    Layouts <- MCLayouts
    Gives = {0, 2}
    MinGain = 0
    MinFree = 1
    MAX_MOVED_PARTITIONS = 3
    Logical = 1
    COPY_CHUNK = 2
    MaxPointer = 20
    MaxRuns = 2
INVARIANTS TableSound BystandersIntact MovesOnlyConfirmed CleanStartLossless
