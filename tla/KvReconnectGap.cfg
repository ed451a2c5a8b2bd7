SPECIFICATION Spec
CONSTANTS
    Instances = {"a", "b"}
    Keys = {"k1"}
    Matching <- MCMatching
    Calls = {"a1", "b1"}
    Home <- OneEach
    OpsOf <- GetsAgainstSets
    NotifyChoices = {TRUE}
    Ttls = {}
    L1Enabled = {"a"}
    L1Max = 2
    L1Ttl = 0
    ClearL1OnReconnect = TRUE
    UsedWhile = {"up", "lost", "down"}
    Faults = {"disconnect"}
    MaxFaults = 1
    MaxWrites = 2
    MaxTime = 1
    Forever = 100
INVARIANTS
    KeptCoherent
