SPECIFICATION Spec
CONSTANTS
    MaxDownloads = 2
    MaxStatusErrors = 2
CHECK_DEADLOCK FALSE
INVARIANTS OutcomeTruthful IntentOfItsDownload
PROPERTIES SessionEnds WindowCloses
