SPECIFICATION Spec
CONSTANTS
    a = a
    out = out
    Inbound = {a}
    Outbound = {out}
    NoChannel = NoChannel
    MaxRetries = 2
    MaxDigits <- TwoAndOne
    MaxDrops = 1
INVARIANTS
    TypeOK
    NoLimbo
    BridgeHasLeg
PROPERTY DigitsInOrder
CHECK_DEADLOCK FALSE
