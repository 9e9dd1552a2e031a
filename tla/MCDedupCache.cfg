SPECIFICATION CacheSpec
CONSTANTS
    Callers = {rpc, pubsub, other}
    CacheIds = {i1, i2, i3}
    Ttl = 1
    MaxSize = 2
    MaxClock = 4
INVARIANT CacheTypeOK
PROPERTIES NoRepeatInWindow RefusedInWindow
SYMMETRY Symmetry
