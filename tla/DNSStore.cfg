SPECIFICATION Spec
CONSTANTS
    d1 = d1
    d2 = d2
    Domain <- MCDomain
    IP <- MCIP
    Expiry <- MCExpiry
    Extra <- MCExtra
    MaxTime = 3
INVARIANTS
    TypeOK
    IndexesAgree
    NoEmptyInner
PROPERTY
    ImplementsRecordStore
