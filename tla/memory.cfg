SPECIFICATION MCSpec
CONSTANTS
    Items = {i1, i2}
    Handles = {h1, h2}
    MaxRef = 2
    MaxPending = 1
    WriterOps = {"insert", "evict", "flush", "force_del", "sweep", "expire", "pop"}
    Threads = {t1, t2}
    NoThread = NoThread
    NoKey = NoKey
    k1 = k1
    k2 = k2
    k3 = k3
    k4 = k4
    Guards = {g1, g2}
INVARIANTS
    PinsHold
    SlabsConserved
    MonitorExact
    FrequenciesBounded
    CopiesFollow
PROPERTY PendingIsRetired
