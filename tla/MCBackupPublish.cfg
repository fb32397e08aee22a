SPECIFICATION FairSpec
CONSTANTS
    FileIds <- MCFileIds
    BaseId = f1
    NoId = NoId
    MaxFaults = 4
    MaxForeign = 2
    f1 = f1
    f2 = f2
    f3 = f3
    f4 = f4
    f5 = f5
CHECK_DEADLOCK FALSE
INVARIANTS TypeOK PublicImageSound RolledBackExactly
PROPERTIES ImageSurvives RefinesAtomic 
