SPECIFICATION LazyFairSpec
CONSTANTS
    NotifyCalls = 3
    HasChannels = TRUE
    Tls = "prefer"
    HealthChecks = TRUE
    Faults = {"connect", "break", "refuse", "query", "ssl"}
    MaxFaults = 3
    MayFailToLoad = TRUE
INVARIANTS
    LazyTypeOK
    Accounted
    ExecutedOnce
    OneConnection
    ConnectedListens
PROPERTIES
    KeepsContract
    Reconnects
    LazySettles
    Released
CHECK_DEADLOCK FALSE
