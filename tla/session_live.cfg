SPECIFICATION FairSpec
CONSTANTS
    h1 = h1
    h2 = h2
    poller = poller
    Callers <- MCSmallCallers
    Background <- MCBackground
    NoCaller = NoCaller
    Ops = {"values", "download"}
    MaxKeys = 2
    MaxCalls = 3
    MaxEvictions = 1
PROPERTIES
    EveryCallReturns
    SerialService
