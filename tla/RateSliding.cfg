SPECIFICATION Spec
CONSTANTS
    Callers = {c1}
    Limit = 2
    Window = 3
    Precision = 2
    Refill = 1
    Costs = {1}
    Blocks <- MCBlocks
    MaxCalls = 4
    MaxTime = 4
INVARIANTS
    SlidingLimit
CHECK_DEADLOCK FALSE
