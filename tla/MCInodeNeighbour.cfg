SPECIFICATION Spec
CONSTANTS
    Threads = {t1, t2}
    t1 = t1
    t2 = t2
    NoThread = NoThread
    Inodes = {1, 2}
    PerBlock = 2
    Shards = 2
    CacheSize = 2
    Kinds = {"setattr"}
INVARIANT NoLostUpdate
