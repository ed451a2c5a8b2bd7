SPECIFICATION FairSpec
CONSTANTS
    Faults = {"connect", "break", "listen", "health"}
    MaxFaults = 4
INVARIANTS
    TypeOK
    OneConnection
    ConnectedListens
PROPERTIES
    KeepsContract
    Reconnects
CHECK_DEADLOCK FALSE
