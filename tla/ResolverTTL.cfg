SPECIFICATION Spec
CONSTANTS
    c1 = c1
    c2 = c2
    c3 = c3
    a = a
    b = b
    aaaa = aaaa
    many = many
    v1 = v1
    v2 = v2
    Client <- Clients
    Question = {a}
    Single = {a}
    TypeA = {a}
    Name <- Names2
    Value = {v1, v2}
    Reply <- Replies
    TTLOverride = 1
    RouteTimeout = 2
    MaxDelay = 1
    MaxTime = 4
    MaxCalls = 4
    MaxFaults = 0
    MaxCancels = 0
SYMMETRY Symm
INVARIANTS CachedIsRouted
CHECK_DEADLOCK FALSE
