SPECIFICATION FairSpec
CONSTANTS
    c1 = c1
    c2 = c2
    c3 = c3
    a = a
    b = b
    aaaa = aaaa
    many = many
    v1 = v1
    v2 = v2
    Client <- Clients
    Question = {a, aaaa, many}
    Single = {a, aaaa}
    TypeA = {a}
    Name <- Names2
    Value = {v1}
    Reply <- Addresses1
    TTLOverride = 60
    RouteTimeout = 2
    MaxDelay = 1
    MaxTime = 0
    MaxCalls = 3
    MaxFaults = 1
    MaxCancels = 1
INVARIANTS TypeOK SingleInflight NewestRegistered OwnErrorsOnly OneRequestEach
PROPERTIES CallsEnd
CHECK_DEADLOCK FALSE
