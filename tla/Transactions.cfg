SPECIFICATION FairSpec
CONSTANTS
    Callers = {"a", "b", "q", "r"}
    Nobody = "nobody"
    JobsOf <- MCJobsOf
    Locks = {"k"}
    LockOf <- MCLockOf
    Impatient = {"a", "b"}
    Parent <- MCParent
    PoolSize = 2
    MaxPools = 2
    MaxCommands = 2
    MaxCloses = 1
    Faults = {"load", "connect", "statement", "throw", "break"}
    MaxFaults = 1
INVARIANTS
    TypeOK
    CleanConnections
PROPERTIES
    Serialized
    Settles
CHECK_DEADLOCK FALSE
