SPECIFICATION MCSpec
CONSTANTS
    Readers = {r1}
    Writers = {w1}
    Syncers = {w1}
    Objects = {o1, o2}
    None = None
    SlotCount = 1
    BufCapacity = 2
    Threshold = 1
    MaxDepth = 2
    MaxEpoch = 3
    HReaders = {r1}
    HWriters = {w1}
    HNodes = {n1, n2, n3}
    HLinked = {n1, n2}
    HModes = {"reload", "slot", "walk", "pin"}
    HBufCapacity = 2
    HThreshold = 0
    SThreads = {t1, t2}
    SBatchSize = 1
    SMaxBatches = 2
    SCacheSize = 1
    SMaxRetries = 1
    SMaxHeld = 2
INVARIANTS
    BooksExact SyncWaitsForReaders
PROPERTIES
    ImplementsSafeReclamation HazptrReclaimsSafely
SYMMETRY MCSymmetry
CHECK_DEADLOCK FALSE
