SPECIFICATION Spec
CONSTANTS
    Threads = {t1, t2, t3}
    t1 = t1
    t2 = t2
    t3 = t3
    NoThread = NoThread
    Inodes = {1, 2}
    PerBlock = 1
    Shards = 2
    CacheSize = 2
    Kinds = {"setattr", "getattr"}
INVARIANT NoLostUpdate
