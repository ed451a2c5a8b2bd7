SPECIFICATION FairSpec
CONSTANTS
    Consumers = {c1, c2}
    MaxId = 2
    Limits = {1, 2}
    Visibility = 2
    Delays = {0, 1}
    MaxFaults = 2
INVARIANTS
    TypeOK
    Exclusive
    NotLost
    ClaimInv
PROPERTIES
    NeverAgain
    Processed
