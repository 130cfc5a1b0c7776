SPECIFICATION FairSpec
CONSTANTS
    s1 = s1
    Sub = {s1}
    Capacity = 3
    TimeBits = 2
    IndexBits = 3
    Limit = 1
    Counts = {1, 2}
    MaxTime = 2
    MaxAppends = 6
    OpenTime = 0
    OpenAppends = 5
    MaxFaults = 1
INVARIANTS TypeOK RingHolds PagesCorrect PagesRoundTrip SentInOrder SendsPending
PROPERTIES CatchesUp Released
CHECK_DEADLOCK FALSE
