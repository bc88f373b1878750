SPECIFICATION Spec
CONSTANTS
    HomeBlocks = {1, 2}
    JournalBlocks = {7}
    First = 1
    MaxLen = 6
    PerDescriptor = 1
    SeqMod <- MCSeqMod
    ChecksumV3 = FALSE
    HasRevoke = FALSE
    InitSeq <- MCInitSeq
    MagicHomes = {2}
    MaxCredits = 3
    MaxTx = 2
    MaxFaults = 1
    MaxCrashes = 1
    WarmRestarts = FALSE
    ResumeAfterFailedShutdown = FALSE
INVARIANTS WriteAhead RecoverDurable RetryRepairs
PROPERTY AtomicAndDurable
