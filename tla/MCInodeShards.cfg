SPECIFICATION FairSpec
CONSTANTS
    Threads = {t1, t2}
    t1 = t1
    t2 = t2
    NoThread = NoThread
    Inodes = {1, 2, 3}
    PerBlock = 2
    Shards = 2
    CacheSize = 1
    Kinds = {"setattr", "getattr", "mkdir", "rename_exchange", "rmdir"}
INVARIANTS TypeOK OnlyRevertedUpdatesAreLost CacheCoherent
PROPERTY EveryoneReturns
