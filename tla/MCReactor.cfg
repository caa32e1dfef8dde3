SPECIFICATION FairSpec
CONSTANTS
  Clients = {k1, k2, k3}
  NoClient = NoClient
  MaxFd = 3
  MaxUnread = 1
  SendBuffer = 1
  Watched = {k1}
INVARIANTS
  TypeOK
  NoReadBlocks
  HandlersMatchFds
PROPERTIES
  EveryReadableClientServed
  EveryHangUpNoticed
  EveryClientAccepted
CHECK_DEADLOCK FALSE
