SPECIFICATION FairSpec
CONSTANTS
    Threads = {t1, t2}
    t1 = t1
    t2 = t2
    DirectMax = 2
    CasRetries = 2
    Journal = TRUE
PROPERTY CleanMarkEarned
