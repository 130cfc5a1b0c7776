SPECIFICATION Spec
CONSTANTS
    Client = {c1, c2, c3}
    MaxQueries = 4
    MaxFailures = 1
PROPERTY QueriesEnd
CHECK_DEADLOCK FALSE
