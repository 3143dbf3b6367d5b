SPECIFICATION MCSpec
CONSTANTS
    o1 = o1
    o2 = o2
    Threads = {t1, t2}
    NoThread = NoThread
    Keys = {k1}
    ROwners = {o1, o2}
    EOwners = {o1}
    ERingSize = 2
    ELogSize = 1
    EMaxEvents = 3
    LUsers = {t1}
INVARIANTS FlightsLed NothingDropped NoWorkerOutlivesCache
PROPERTIES NothingStaysBehind CallsComeBack
