CONSTANTS
    N = 3
    CompSize <- MCCompSize
    Blocks = 2
    MaxCrashes = 2
SPECIFICATION FairSpec
INVARIANT TypeOK
PROPERTY NoCrashCommits
