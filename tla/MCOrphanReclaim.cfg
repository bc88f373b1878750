SPECIFICATION FairSpec
CONSTANTS
    Inodes = {11, 12, 13}
    BlockCount = 8
    PerGroup = 4
    LeafCap = 2
    GenMod = 5
    Images <- MCImages
    MaxLinks = 2
    MaxOps = 2
    MaxFaults = 1
    MaxCrashes = 2
INVARIANTS
    UnlinkedDiscoverable
    BlocksAccounted
    ReclaimsItsLifetime
    RefusedForCause
PROPERTIES
    NamedFilesKept
    MountSucceeds
CHECK_DEADLOCK FALSE
