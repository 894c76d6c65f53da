SPECIFICATION Spec
CONSTANTS
    a = a
    leg = leg
    near = near
    far = far
    Calls = {a}
    Legs = {leg}
    StasisLeg = near
    FarLeg = far
    NoChannel = NoChannel
    Handset <- MCHandset
    Caller <- LineOne
    Dialled <- NoneDialled
    Senders = {}
    Steps = 1
    MaxKeys <- OneKey
    MaxActors = 2
    MaxFaults = 0
INVARIANT OwnDigitsNotForwarded
CHECK_DEADLOCK FALSE
