SPECIFICATION Spec
CONSTANTS
    Nodes = {"n1", "n2", "n3"}
    Scenarios <- MCScenarios
    Parities = {TRUE}
    Keys = {"k1", "k2"}
    Null = "null"
    NoArray = 99
    KeyOf <- MCKeyOf
    HashOf <- MCHashOf
    Writers = {"w"}
    Readers = {"r"}
    Balancers = {"b"}
    Probes = {"k2"}
    InitCount = 2
    FinishBudget = 1
    MaxGen = 1
    LoadNum = 2
    LoadDen = 5
INVARIANTS EveryNodePlaced MissIsAbsent
CHECK_DEADLOCK FALSE
