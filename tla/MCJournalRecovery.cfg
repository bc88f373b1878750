SPECIFICATION Spec
CONSTANTS
    HomeBlocks = {1, 2}
    JournalBlocks = {7}
    First = 1
    MaxLen = 6
    PerDescriptor = 2
    SeqMod <- MCSeqMod
    ChecksumV3 = TRUE
    HasRevoke = TRUE
    Alphabet <- MCAlphabet
    StartSeq <- MCStartSeq
    StartPos = 4
INVARIANTS ReplayMeansLog SequenceSkipsTail FailsOnlyOnCorruption
CHECK_DEADLOCK FALSE
