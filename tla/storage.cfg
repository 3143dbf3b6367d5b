SPECIFICATION MCSpec
CONSTANTS
    Readers = {t1, t2}
    NoReader = NoReader
    Keys = {k1, k2}
    Configs <- MCConfigs
    error_threshold = 2
    success_threshold = 2
    MaxWrites = 3
    MaxGen = 3
    Getters = {t1}
    k1 = k1
    k2 = k2
INVARIANTS
    LastMutationWins
    FetchesLed
    ExpiryExact
PROPERTIES
    TiersLive
    ExpiredGo
