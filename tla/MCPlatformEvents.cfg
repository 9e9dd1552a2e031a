SPECIFICATION EventsFairSpec
CONSTANTS
    Events = {e1, e2}
    Sockets = {s1, s2}
    Workers = 2
    MaxStuck = 2
INVARIANTS
    EventsTypeOK
PROPERTIES
    OneActive
    Delivered
    Recorded
CHECK_DEADLOCK FALSE
