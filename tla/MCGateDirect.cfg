SPECIFICATION FairSpec
CONSTANTS
    Threads = {t1, t2, t3}
    t1 = t1
    t2 = t2
    t3 = t3
    DirectMax = 2
    CasRetries = 2
    Journal = FALSE
INVARIANTS GateExclusion StartIsSafe FailureIsPublished
PROPERTIES CleanMarkEarned AcquisitionDecides
