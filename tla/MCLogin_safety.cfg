SPECIFICATION Spec
CONSTANTS
  g1 = g1  g2 = g2  gate1 = gate1  gate2 = gate2  s1 = s1  s2 = s2
  u1 = u1
  Uids = {u1}
  Games = {g1, g2}
  Gates = {gate1, gate2}
  Socks = {s1, s2}
  GateOf <- MCGateOf
  None = None
  MaxEnter = 3
  MaxFaulty = 2
  MaxFail = 1
  MaxDrop = 1
  MaxVer = 1
SYMMETRY Symmetry
INVARIANTS TypeOK CountsAgree TenureUnique ExclusiveUnlessStray NoReplyForLaterSession
PROPERTIES SavesNeverRegress LeaseKept
CHECK_DEADLOCK FALSE
