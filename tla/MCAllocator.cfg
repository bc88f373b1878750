SPECIFICATION Spec
CONSTANTS
    GroupCount = 2
    PerGroup <- MCPerGroup
    Total <- MCTotal
    UsedAtFirst <- MCUsedAtFirst
    Word = 64
    MaxProbes = 4
    MaxRun = 2
    MaxOps = 3
    MaxFaults = 2
INVARIANTS
    NoDoubleAllocation
    Accounting
PROPERTY
    NoSpuriousENOSPC
CHECK_DEADLOCK FALSE
