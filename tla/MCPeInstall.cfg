SPECIFICATION Spec
CONSTANT Tasks <- AllTasks
CHECK_DEADLOCK FALSE
INVARIANTS PrewriteTruthful SourceReadable CompletedMeansInstalled RetryMaterialKept
