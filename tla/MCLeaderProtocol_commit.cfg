CONSTANTS
    N = 4
    CompSize <- MCCompSize
    Blocks = 1
    MaxCrashes = 1
SPECIFICATION Spec
INVARIANT CommitOnlyExecuted
