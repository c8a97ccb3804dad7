CONSTANTS
    A = A
    B = B
    N = 3
    ThreadCount = 2
    Shapes <- MCShapes
    KnownFamilies = {"wallet"}
    ProcessorResults = {TRUE, FALSE}

SPECIFICATION FairSpec

INVARIANT TypeOK
INVARIANT ComponentsExact
PROPERTY Refinement
PROPERTY Termination
PROPERTY ReleaseOnlyBlocked
