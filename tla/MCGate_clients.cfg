SPECIFICATION Spec
CONSTANTS
  u1 = u1  u2 = u2  g1 = g1  g2 = g2
  Fds = {5, 6}
  Uids = {u1, u2}
  Games = {g1, g2}
  Threshold = 1
  Window = 2
  None = None
  MaxLogin = 3
  MaxPacket = 5
  MaxClock = 5
SYMMETRY Symmetry
INVARIANTS TypeOK OneTable FloodBounded
PROPERTIES RepliesToOwner SessionsKept
CHECK_DEADLOCK FALSE
