SPECIFICATION Spec
CONSTANTS
    h1 = h1
    h2 = h2
    poller = poller
    Callers <- MCCallers
    Background <- MCBackground
    NoCaller = NoCaller
    Ops = {"values", "apply", "reset", "download"}
    MaxKeys = 2
    MaxCalls = 3
    MaxEvictions = 1
PROPERTY SerialSafety
SYMMETRY Symmetry
INVARIANTS
    TypeOK
    SingleFlight
    SentTokenCurrent
    TokenTracksDevice
    RetryCoversOneLoss
