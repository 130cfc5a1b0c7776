SPECIFICATION FairSpec
CONSTANTS
    d1 = d1
    d2 = d2
    d3 = d3
    i1 = i1
    i2 = i2
    j1 = j1
    j2 = j2
    Domain <- MCDomain
    IP <- TwoIPs
    Prefix <- MCPrefix
    Expiry <- MCExpiry
    Iface <- MCIface
    SubDomain <- MCSubDomain
    Config <- LiveConfigs
    Resolver <- OneResolver
    Answer <- LiveAnswers
    ZeroPrefix <- NoRoutes
    ForeignRoute <- ForeignNet
    MaxTime = 2
    Budget <- LiveBudget
PROPERTIES
    Settles
    ResolutionsEnd
