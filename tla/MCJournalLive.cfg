SPECIFICATION FairSpec
CONSTANTS
    HomeBlocks = {1, 2}
    JournalBlocks = {7}
    First = 1
    MaxLen = 6
    PerDescriptor = 1
    SeqMod <- MCSeqMod
    ChecksumV3 = TRUE
    HasRevoke = FALSE
    InitSeq <- MCInitSeq
    MagicHomes = {2}
    MaxCredits = 3
    MaxTx = 2
    MaxFaults = 1
    MaxCrashes = 1
    WarmRestarts = TRUE
    ResumeAfterFailedShutdown = FALSE
INVARIANTS SequenceFresh ReservationSuffices
PROPERTIES RecoveryCompletes WriterReleased
