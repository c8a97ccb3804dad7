CONSTANTS
    Members = 3
    WriteSets <- MCWriteSets
    InitState <- MCInitState
SPECIFICATION Spec
INVARIANT CommittedWritesSaved
