SPECIFICATION Spec
CONSTANTS
    d1 = d1
    d2 = d2
    d3 = d3
    i1 = i1
    i2 = i2
    j1 = j1
    j2 = j2
    Domain <- MCDomain
    IP <- OneIP
    Prefix <- MCPrefix
    Expiry <- MCExpiry
    Iface <- MCIface
    SubDomain <- MCSubDomain
    Config <- LifecycleConfigs
    Resolver <- TwoResolvers
    Answer <- LifecycleAnswers
    ZeroPrefix <- NoRoutes
    ForeignRoute <- NoRoutes
    MaxTime = 2
    Budget <- LifecycleBudget
INVARIANTS
    TypeOK
    TrackedInstalled
    RoutedWhileLive
    CleanPass
    ConfigApplied
SYMMETRY AnyResolver
