CONSTANTS
    NaN = NaN
    Empty = Empty
    ImageHash = ImageHash
    N = 3
    Workers = {w1, w2}
    Lines <- MCLines
    St <- MCState
SPECIFICATION Spec
INVARIANT BlockSerializable
