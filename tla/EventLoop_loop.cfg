SPECIFICATION FairSpec
CONSTANTS
  NULL = NULL
  LISTEN = LISTEN
  Clients = {k1, k2}
  Structs = {s1, s2, s3}
  AE_SETSIZE = 3
  MaxFds = 4
  Rlims = {2, 4}
  FreeTotal = 1
  Second = 2
  MinClock = 2
  MaxClock = 5
  Started = 0
  RelTimeMod = 3
INVARIANTS
  TypeOK
  ConnectionsMatch
  EventsMatchEpoll
  MaxfdIsLargest
  ConnsAccounted
  CurrentTimeFresh
  WaitBounded
PROPERTY
  ReadyIsHandled
