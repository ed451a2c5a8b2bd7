SPECIFICATION FairSpec
CONSTANTS
    Instances = {"a", "b"}
    Keys = {"k1"}
    Matching <- MCMatching
    Calls = {"a1", "a2", "b1"}
    Home <- TwoAndOne
    OpsOf <- GuardedAgainstWrites
    NotifyChoices = {TRUE}
    Ttls = {1}
    L1Enabled = {"a"}
    L1Max = 2
    L1Ttl = 2
    ClearL1OnReconnect = TRUE
    UsedWhile = {"up", "lost"}
    Faults = {"disconnect"}
    MaxFaults = 1
    MaxWrites = 2
    MaxTime = 2
    Forever = 100
INVARIANTS
    Coherent
    CoherenceInv
PROPERTIES
    Converges
