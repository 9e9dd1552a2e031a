SPECIFICATION BridgeFairSpec
CONSTANTS
    MaxRetries = 2
    MaxPublish = 1
    MaxLoss = 2
    Injectors = {i1}
    MaxSignals = 2
INVARIANTS
    BridgeTypeOK
    NothingCutShort
PROPERTIES
    StopSilences
    Reconnects
    ProcessEnds
CHECK_DEADLOCK FALSE
