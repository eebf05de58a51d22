SPECIFICATION FairSpec
CONSTANTS
  c1 = c1  c2 = c2
  Clients = {c1}
  Fds = {5, 6, 7}
  Shadowed = FALSE
  None = None
  MaxConn = 2
  MaxLoss = 1
  MaxRefused = 0
PROPERTY ReachableAgain
CHECK_DEADLOCK FALSE
