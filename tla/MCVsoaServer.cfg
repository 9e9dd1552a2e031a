SPECIFICATION FairSpec
CONSTANTS
    c1 = c1
    c2 = c2
    Clients <- MCClients
    Publishers = {p1, p2}
    Scripts <- MCScripts
    Patience = 1
    Room = 1
    MaxPublish = 1
INVARIANTS TypeOK PublishedToAll
PROPERTIES HandshakeOrGone LockReleased
CHECK_DEADLOCK FALSE
