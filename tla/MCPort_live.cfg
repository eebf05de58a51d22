SPECIFICATION FairSpec
CONSTANTS
  Fds = {3, 4, 5, 6, 7}
  ListenFd = 3
  MaxSock = 6
  None = None
  MaxConn = 2
  MaxData = 2
  MaxLoss = 2
  MaxRefused = 1
INVARIANTS TypeOK CallbackHasPort ToldIsUp NoneForgotten
PROPERTY ServesUnlessRefused
CHECK_DEADLOCK FALSE
