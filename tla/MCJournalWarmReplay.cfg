SPECIFICATION Spec
CONSTANTS
    HomeBlocks = {1, 2}
    JournalBlocks = {7}
    First = 1
    MaxLen = 6
    PerDescriptor = 2
    SeqMod <- MCSeqMod
    ChecksumV3 = FALSE
    HasRevoke = FALSE
    InitSeq <- MCInitSeq
    MagicHomes = {2}
    MaxCredits = 1
    MaxTx = 1
    MaxFaults = 0
    MaxCrashes = 2
    WarmRestarts = TRUE
    ResumeAfterFailedShutdown = FALSE
INVARIANT HomesRepairable
