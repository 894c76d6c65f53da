SPECIFICATION FairSpec
CONSTANTS
    a = a
    out = out
    Inbound = {a}
    Outbound = {out}
    NoChannel = NoChannel
    MaxRetries = 2
    MaxDigits <- OneForEach
    MaxDrops = 1
PROPERTIES
    TaskEnds
    SessionForgotten
CHECK_DEADLOCK FALSE
