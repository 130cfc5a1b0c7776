SPECIFICATION FairSpec
CONSTANTS
    Pid <- MCPid
    StalePid <- MCStalePid
    Runs = 3
    Good <- MCGood
    Malformed <- MCMalformed
    BadAddress <- MCBadAddress
    Commands <- BootThenAny
    FirstInstall = TRUE
    MaxUploads = 1
    MaxEdits = 2
    MaxCrashes = 1
INVARIANTS
    TypeOK
    OneInstance
    NoOrphan
    NothingMissed
PROPERTY
    Recovers
CONSTRAINT BeforeRace
CHECK_DEADLOCK FALSE
