SPECIFICATION FairSpec
CONSTANTS
    Settings = 2
    Keys = 3
    Ports = 2
    MaxIntrusions = 3
    MaxTurns = 2
    MaxFaults = 2
INVARIANTS
    TypeOK
    VerifiedMeansWritten
    RowsAreTrue
PROPERTIES
    MonitorRecovers
CHECK_DEADLOCK FALSE
