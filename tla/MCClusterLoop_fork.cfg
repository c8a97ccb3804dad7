CONSTANTS
    s0 = s0
    s1 = s1
    s2 = s2
    s3 = s3
    Node <- MCNode
    Comps = 1
    Blocks = 1
    Modes = {"validation"}
    MaxChanges = 1
    MaxFails = 0
    None = None
SPECIFICATION MCFairSpec
INVARIANT OneBlockPerNumber
