SPECIFICATION FairSpec
CONSTANTS
    NumPorts = 2
    Report <- InWords
    PollInterval = 2
    MaxBackoff = 120
    MaxStrikes = 3
    LockTime = 300
    MaxFlips = 2
    MaxFaults = 3
INVARIANTS
    TypeOK
    NoPhantomTransition
PROPERTIES
    EventsAreRecent
    FollowsHook
CHECK_DEADLOCK FALSE
