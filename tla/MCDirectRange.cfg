SPECIFICATION Spec
CONSTANTS
    Files = {"A", "B"}
    BlockCount = 3
    RunLengths = {1, 2}
    MaxOps = 3
    MaxFaults = 2
    MaxLosses = 1
INVARIANTS OwnedOnce NoStaleData AbortIsClean
