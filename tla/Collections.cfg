SPECIFICATION FairSpec
CONSTANTS
    Clients = {c1, c2}
    KeySeq <- MCKeys
    MembersOf <- MCMembersOf
    Numbers = {1}
    Counts = {1, 2}
    Pages = {0, 2, 3}
    Ttls = {1}
    Timeouts <- MCTimeouts
    KeysOf <- MCKeysOf
    MaxCalls <- MCMaxCalls
    MaxTime = 1
    Forever = 100
INVARIANTS
    TypeOK
    ScanComplete
PROPERTIES
    PoppedOnce
    SweptExpired
    NoneLost
    PopsEnd
CHECK_DEADLOCK FALSE
