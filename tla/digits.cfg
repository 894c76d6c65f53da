SPECIFICATION Spec
CONSTANTS
    a = a
    leg = leg
    near = near
    far = far
    Calls = {a}
    Legs = {leg}
    StasisLeg = near
    FarLeg = far
    NoChannel = NoChannel
    Handset <- MCHandset
    Caller <- ScriptTwo
    Dialled <- OneDialled
    Senders = {1}
    Steps = 1
    MaxKeys <- OneKey
    MaxActors = 2
    MaxFaults = 1
INVARIANTS
    TypeOK
    EventsInOrder
    SentAsReported
    ScriptEndsCall
    NoDigitDropped
CHECK_DEADLOCK FALSE
