SPECIFICATION Spec
CONSTANTS
    d1 = d1
    dlist = dlist
    ilist = ilist
    b1 = b1
    b2 = b2
    RpcRequests = {r1}
    PubSubMessages = {m1}
    Ids = {i1, i2, ilist}
    Devices <- OneDeviceAndList
    Unhashable <- Lists
    Brokers <- TwoBrokers
    Board <- EoraBoard
    Eui <- NoEui
    Prefix <- BridgeDownlink
    Prefixes <- NoPrefixes
    ChirpStack = TRUE
    Routes <- ZigbeeToSecond
    Default = b1
    Bodies <- FourBodies
    MaxRetries = 1
    MaxForget = 1
INVARIANTS SuccessMeansPublished
