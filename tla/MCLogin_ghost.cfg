SPECIFICATION Spec
CONSTANTS
  g1 = g1  g2 = g2  gate1 = gate1  gate2 = gate2  s1 = s1  s2 = s2
  u1 = u1
  Uids = {u1}
  Games = {g1, g2}
  Gates = {gate1, gate2}
  Socks = {s1, s2}
  GateOf <- MCGateOf
  None = None
  MaxEnter = 2
  MaxFaulty = 2
  MaxFail = 0
  MaxDrop = 0
  MaxVer = 1
SYMMETRY Symmetry
INVARIANT OneServer
CHECK_DEADLOCK FALSE
