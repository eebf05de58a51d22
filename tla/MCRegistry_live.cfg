SPECIFICATION FairSpec
CONSTANTS
  c1 = c1  c2 = c2
  Clients = {c1, c2}
  Fds = {5, 6, 7}
  Shadowed = FALSE
  None = None
  MaxConn = 4
  MaxLoss = 2
  MaxRefused = 1
INVARIANTS TypeOK PostReachesPeer ManagerLive
PROPERTIES Reconnected ReachableUnlessHit
CHECK_DEADLOCK FALSE
