SPECIFICATION Spec
CONSTANTS
    GroupCount = 2
    PerGroup <- MCPerGroup
    Total <- MCTotal
    UsedAtFirst <- MCUsedAtFirst
    Word = 64
    MaxProbes = 4
    MaxRun = 1
    MaxOps = 2
    MaxFaults = 0
INVARIANT
    UnusedTailIsUnused
CHECK_DEADLOCK FALSE
