CONSTANTS
    NaN = NaN
    Empty = Empty
    ImageHash <- MCImageHash
    N = 4
    Workers = {w1, w2}
    Lines <- MCLines
    St <- MCState
SPECIFICATION FairSpec
INVARIANT NoCrossWorkerWait BlockSerializable
PROPERTY BlockCompletes
