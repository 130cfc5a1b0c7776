SPECIFICATION Spec
CONSTANTS
    s1 = s1
    Sub = {s1}
    Capacity = 2
    TimeBits = 1
    IndexBits = 3
    Limit = 1
    Counts = {1, 2}
    MaxTime = 2
    MaxAppends = 4
    OpenTime = 2
    OpenAppends = 4
    MaxFaults = 1
INVARIANT SendsPending
CHECK_DEADLOCK FALSE
