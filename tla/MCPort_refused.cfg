SPECIFICATION FairSpec
CONSTANTS
  Fds = {3, 4, 5, 6}
  ListenFd = 3
  MaxSock = 6
  None = None
  MaxConn = 1
  MaxData = 0
  MaxLoss = 1
  MaxRefused = 1
PROPERTY Accepts
CHECK_DEADLOCK FALSE
