SPECIFICATION FairSpec
CONSTANTS
  t1 = t1
  c1 = c1
  Ping = Ping
  Threads <- MCThreads
  Calls <- MCCalls
  MaxFetch = 1
  Space = 3
  Patience = 1
  KeepAlive = 1
  MaxPingLost = 0
INVARIANT TypeOK
PROPERTIES ImplementsRemoteCall RequestsEnd SilentPeerDropped
CHECK_DEADLOCK FALSE
