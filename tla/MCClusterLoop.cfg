CONSTANTS
    s0 = s0
    s1 = s1
    s2 = s2
    s3 = s3
    Node <- MCNode4
    Comps = 2
    Blocks = 3
    Modes = {"validation", "execution"}
    MaxChanges = 0
    MaxFails = 1
    None = None
SPECIFICATION MCFairSpec
 
PROPERTY BlocksCommitted
