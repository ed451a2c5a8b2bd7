SPECIFICATION Spec
CONSTANTS
    Callers = {c1, c2}
    Limit = 2
    Window = 3
    Precision = 2
    Refill = 1
    Costs = {1, 2}
    Blocks <- MCBlocks
    MaxCalls = 4
    MaxTime = 3
SYMMETRY Symmetry
INVARIANTS
    TypeOK
    WithinLimit
    BlockLasts
    SlidingBound
    Metered
CHECK_DEADLOCK FALSE
