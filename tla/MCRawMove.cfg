CONSTANTS
    disk_size_bytes = 14
    Content <- MCContent
    Logical = 2
    COPY_CHUNK = 5
    MaxPointer = 12
SPECIFICATION MCSpec
CHECK_DEADLOCK FALSE
INVARIANTS MoveExact Salvageable
PROPERTIES Terminates
