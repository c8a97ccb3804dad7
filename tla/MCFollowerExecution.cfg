CONSTANTS
    A = A
    N = 3
    ThreadCount = 2
    Shapes <- MCShapes
    KnownFamilies = {"wallet"}
    ProcessorResults = {TRUE, FALSE}
    PutResults = {TRUE, FALSE}
    Modes = {"validation", "execution"}
    LeaderMayCrash = TRUE

SPECIFICATION Spec

INVARIANT TypeOK
INVARIANT ConflictOrder
INVARIANT ComponentsAreWeak
