SPECIFICATION Spec
CONSTANTS
    Instances = {"a", "b"}
    Keys = {"k1", "k2"}
    Matching <- MCMatching
    Calls = {"a1", "b1"}
    Home <- OneEach
    OpsOf <- Everything
    NotifyChoices = {TRUE}
    Ttls = {}
    L1Enabled = {"a"}
    L1Max = 1
    L1Ttl = 0
    ClearL1OnReconnect = FALSE
    UsedWhile = {"off", "starting", "down", "up", "lost"}
    Faults = {"statement", "reply", "publish", "crash", "disconnect", "connect"}
    MaxFaults = 1
    MaxWrites = 2
    MaxTime = 1
    Forever = 100
INVARIANTS
    TypeOK
    L1Bounded
