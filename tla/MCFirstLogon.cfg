SPECIFICATION GateSpec
CONSTANTS
    MaxGateFaults = 3
    MaxSweeps = 2
CHECK_DEADLOCK FALSE
INVARIANTS ReceiptsTruthful MachineryKept
PROPERTIES FilesGetBack
