CONSTANTS
    NotANumber = NotANumber
    NaN <- NotANumber
    Empty = Empty
    ImageHash <- MCImageHash
    SetupFiles <- MCSetupFiles
    TestFiles <- MCTestFiles
    BlockSize = 2
    BlocksCount = 2
    InitStates <- MCFreshState
SPECIFICATION Spec
INVARIANT TypeOK CommitMatchesDirect IndependentCommute
