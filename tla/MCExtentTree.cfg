SPECIFICATION Spec
CONSTANTS
    MaxLblock = 5
    BlockCount = 10
    RootCap = 2
    NodeCap = 2
    InitMaxLen = 2
    MaxRange = 3
    DirectMin = 3
    DirectRanges = TRUE
    MaxFaults = 1
    MaxOps = 3
    Sizes = {0}
INVARIANTS TreeIsSearchable BlocksAccounted
PROPERTY IsFile
