SPECIFICATION Spec
CONSTANTS
    s1 = s1
    Sub = {s1}
    Capacity = 2
    TimeBits = 2
    IndexBits = 3
    Limit = 1
    Counts = {1, 2}
    MaxTime = 1
    MaxAppends = 4
    OpenTime = 1
    OpenAppends = 4
    MaxFaults = 1
INVARIANT SendsPendingAlways
CHECK_DEADLOCK FALSE
