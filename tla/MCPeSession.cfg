SPECIFICATION FairSpec
CONSTANTS
  Modes <- MCAllModes
  Percents <- MCPercents
  Budget = 2
  MaxQueue = 3
  MaxReports = 2
INVARIANTS ProgressBelongsToStep TruthfulTerminal CloseAfterWork
PROPERTIES WeightedNeverBackwards EventuallyClosable
