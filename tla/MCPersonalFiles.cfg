SPECIFICATION Spec
CONSTANTS
    Profiles <- TheProfiles
    Sorted <- TheSorted
    Kind <- TheKind
    Public = "public"
    NewFiles <- TheNewFiles
    MaxOrdinal = 4
    MaxFaults = 2
    MaxUser = 1
CHECK_DEADLOCK FALSE
INVARIANTS NothingLost TruthfulStage
PROPERTIES NeverOverwrites EverythingRestored
