SPECIFICATION FairSpec
CONSTANTS
    Threads = {t1, t2, t3}
    t1 = t1
    t2 = t2
    t3 = t3
    NoThread = NoThread
    Inodes = {1, 2}
    PerBlock = 2
    Shards = 2
    CacheSize = 1
    Kinds = {"setattr", "getattr", "mkdir", "rename_exchange", "rmdir"}
INVARIANTS OnlyRevertedUpdatesAreLost CacheCoherent
PROPERTY EveryoneReturns
